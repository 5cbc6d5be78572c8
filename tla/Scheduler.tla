------------------------------ MODULE Scheduler -------------------------------
(***************************************************************************)
(* SchedulerCog: tasks in the table scheduled_tasks, a master loop that    *)
(* reads the due ones every 30 seconds and spawns a run for each, and the  *)
(* REST requests that change the table meanwhile.  The loop works through  *)
(* the list it has read with an await for each task; runs last as long as  *)
(* Claude does, and the process may die at any moment.                     *)
(***************************************************************************)
EXTENDS Naturals, Sequences, FiniteSets, SequencesExt

CONSTANTS
  Tasks,       \* ids of rows; AUTOINCREMENT never gives one out twice
  OneShots,    \* the tasks that are to be disabled after one execution
  Executions,  \* _run_task coroutines; one that is over may stand for a new one
  MaxDeaths,   \* bound on the restarts of the bot
  MaxPostpones \* bound on the requests that put a task off

ASSUME TasksAssumption == IsFiniteSet(Tasks)
ASSUME OneShotsAssumption == OneShots \subseteq Tasks
ASSUME SchedBoundsAssumption == MaxDeaths \in Nat /\ MaxPostpones \in Nat

VARIABLES
  status,   \* task -> its row: none yet, enabled, disabled, deleted
  due,      \* the tasks whose next_run_at has passed
  loop,     \* what the master loop awaits
  batch,    \* the rest of the list the loop has read
  running,  \* SchedulerCog._running
  exec,     \* _run_task coroutine -> the task it was given, what it awaits
  deaths,   \* number of restarts
  postponed \* number of requests that have put a task off

schedVars == <<status, due, loop, batch, running, exec, deaths, postponed>>

RowStates == {"none", "enabled", "disabled", "deleted"}
LoopStates == {"sleep", "next", "advance", "advanced", "dead"}
ExecStates == {"idle", "thread", "claude", "disable"}

SchedTypeOK ==
  /\ status \in [Tasks -> RowStates]
  /\ due \subseteq Tasks
  /\ loop \in LoopStates
  /\ batch \in Seq(Tasks)
  /\ running \subseteq Tasks
  /\ exec \in [Executions -> [task : Tasks, at : ExecStates]]
  /\ deaths \in 0 .. MaxDeaths
  /\ postponed \in 0 .. MaxPostpones

Exists(t) == status[t] \in {"enabled", "disabled"}

Live(e) == exec[e].at # "idle"

SchedInit ==
  /\ status = [t \in Tasks |-> "none"]
  /\ due = {}
  /\ loop = "sleep"
  /\ batch = <<>>
  /\ running = {}
  /\ exec \in {[e \in Executions |-> [task |-> t, at |-> "idle"]] : t \in Tasks}
  /\ deaths = 0
  /\ postponed = 0

-----------------------------------------------------------------------------
(***************************************************************************)
(* Requests, and time.                                                     *)
(***************************************************************************)

\* POST /api/tasks; run_immediately and the anchor decide whether it is due.
CreateTask(t) ==
  /\ status[t] = "none"
  /\ status' = [status EXCEPT ![t] = "enabled"]
  /\ due' \in {due, due \cup {t}}
  /\ UNCHANGED <<loop, batch, running, exec, deaths, postponed>>

DeleteTask(t) ==
  /\ Exists(t)
  /\ status' = [status EXCEPT ![t] = "deleted"]
  /\ UNCHANGED <<due, loop, batch, running, exec, deaths, postponed>>

\* PATCH /api/tasks: enabled and next_run_at are two statements.
SetEnabled(t) ==
  /\ Exists(t)
  /\ \E state \in {"enabled", "disabled"} \ {status[t]} : status' = [status EXCEPT ![t] = state]
  /\ UNCHANGED <<due, loop, batch, running, exec, deaths, postponed>>

Postpone(t) ==
  /\ Exists(t) /\ t \in due
  /\ postponed < MaxPostpones
  /\ postponed' = postponed + 1
  /\ due' = due \ {t}
  /\ UNCHANGED <<status, loop, batch, running, exec, deaths>>

\* The time passes next_run_at, or a PATCH moves next_run_at into the past.
BecomesDue(t) ==
  /\ Exists(t) /\ t \notin due
  /\ due' = due \cup {t}
  /\ UNCHANGED <<status, loop, batch, running, exec, deaths, postponed>>

-----------------------------------------------------------------------------
(***************************************************************************)
(* The master loop.                                                        *)
(***************************************************************************)
DueRows == {t \in due : status[t] = "enabled"}

\* get_due, in the order of next_run_at.
WakeUp ==
  /\ loop = "sleep" /\ DueRows # {}
  /\ batch' \in SetToSeqs(DueRows)
  /\ loop' = "next"
  /\ UNCHANGED <<status, due, running, exec, deaths, postponed>>

\* Mutant: no look into _running.
TakeNextAlways ==
  /\ loop = "next" /\ batch # <<>>
  /\ loop' = "advance"
  /\ UNCHANGED <<status, due, batch, running, exec, deaths, postponed>>

TakeNext ==
  /\ loop = "next" /\ batch # <<>>
  /\ IF Head(batch) \in running
     THEN /\ batch' = Tail(batch)
          /\ UNCHANGED loop
     ELSE /\ loop' = "advance"
          /\ UNCHANGED batch
  /\ UNCHANGED <<status, due, running, exec, deaths, postponed>>

BatchDone ==
  /\ loop = "next" /\ batch = <<>>
  /\ loop' = "sleep"
  /\ UNCHANGED <<status, due, batch, running, exec, deaths, postponed>>

\* update_next_run; the statement finds no row when the task was deleted.
Advance ==
  /\ loop = "advance"
  /\ due' = due \ {Head(batch)}
  /\ loop' = "advanced"
  /\ UNCHANGED <<status, batch, running, exec, deaths, postponed>>

\* create_task: the new coroutine enters _running before the loop
\* looks at that task again.
StartRun ==
  /\ loop = "advanced"
  /\ \E e \in Executions :
       /\ ~Live(e)
       /\ exec' = [exec EXCEPT ![e] = [task |-> Head(batch), at |-> "thread"]]
  /\ running' = running \cup {Head(batch)}
  /\ batch' = Tail(batch)
  /\ loop' = "next"
  /\ UNCHANGED <<status, due, deaths, postponed>>

\* An exception of the repository ends a discord.ext.tasks loop for good.
LoopDies ==
  /\ loop \in {"sleep", "advance"}
  /\ loop' = "dead"
  /\ batch' = <<>>
  /\ UNCHANGED <<status, due, running, exec, deaths, postponed>>

LoopStep == WakeUp \/ TakeNext \/ BatchDone \/ Advance \/ StartRun

-----------------------------------------------------------------------------
(***************************************************************************)
(* _run_task.                                                              *)
(***************************************************************************)
Goes(e, at) == exec' = [exec EXCEPT ![e].at = at]

Discard(e) == Goes(e, "idle") /\ running' = running \ {exec[e].task}

\* The thread is there, or has been created, and the session to resume is read.
ThreadReady(e) ==
  /\ exec[e].at = "thread"
  /\ Goes(e, "claude")
  /\ UNCHANGED <<status, due, loop, batch, running, deaths, postponed>>

\* No channel, or Discord or the repository raises.  Mutant: outside the finally.
EndsEarlyLeaking(e) ==
  /\ exec[e].at \in {"thread", "disable"}
  /\ Goes(e, "idle")
  /\ UNCHANGED <<status, due, loop, batch, running, deaths, postponed>>

EndsEarly(e) ==
  /\ exec[e].at \in {"thread", "disable"}
  /\ Discard(e)
  /\ UNCHANGED <<status, due, loop, batch, deaths, postponed>>

\* run_claude_with_config returns, whatever happened to Claude.
ClaudeEnds(e) ==
  /\ exec[e].at = "claude"
  /\ IF exec[e].task \in OneShots
     THEN Goes(e, "disable") /\ UNCHANGED running
     ELSE Discard(e)
  /\ UNCHANGED <<status, due, loop, batch, deaths, postponed>>

DisableOneShot(e) ==
  /\ exec[e].at = "disable"
  /\ status' = IF Exists(exec[e].task) THEN [status EXCEPT ![exec[e].task] = "disabled"] ELSE status
  /\ Discard(e)
  /\ UNCHANGED <<due, loop, batch, deaths, postponed>>

ExecStep(e) == ThreadReady(e) \/ ClaudeEnds(e) \/ DisableOneShot(e)

\* The process dies with its loop and its runs, and is started again.
BotDies ==
  /\ deaths < MaxDeaths
  /\ deaths' = deaths + 1
  /\ loop' = "sleep"
  /\ batch' = <<>>
  /\ running' = {}
  /\ exec' = [e \in Executions |-> [exec[e] EXCEPT !.at = "idle"]]
  /\ UNCHANGED <<status, due, postponed>>

SchedNext ==
  \/ \E t \in Tasks :
       CreateTask(t) \/ DeleteTask(t) \/ SetEnabled(t) \/ Postpone(t) \/ BecomesDue(t)
  \/ LoopStep \/ LoopDies \/ BotDies
  \/ \E e \in Executions : ExecStep(e) \/ EndsEarly(e)

SchedSpec == SchedInit /\ [][SchedNext]_schedVars

\* The event loop and Claude go on, and time passes.
SchedFairness ==
  /\ WF_schedVars(LoopStep)
  /\ \A t \in Tasks : WF_schedVars(BecomesDue(t))
  /\ \A e \in Executions : WF_schedVars(ExecStep(e) \/ EndsEarly(e))

SchedFairSpec == SchedSpec /\ SchedFairness

-----------------------------------------------------------------------------
\* A task never runs twice at once, although rows are read long before they are
\* used and a run may outlast its interval (scheduler.py:59, "to avoid
\* double-running the same task_id").
OneExecutionPerTask ==
  \A d, e \in Executions :
    Live(d) /\ Live(e) /\ exec[d].task = exec[e].task => d = e

\* A task that stays enabled is picked up again and again, whatever became of its
\* earlier runs, unless an error has ended the loop.
EnabledTaskRuns ==
  \A t \in Tasks :
    status[t] = "enabled" ~>
      \/ status[t] # "enabled"
      \/ loop = "dead"
      \/ \E e \in Executions : Live(e) /\ exec[e].task = t

=============================================================================
