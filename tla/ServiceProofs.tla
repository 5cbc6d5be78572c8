---------------------------- MODULE ServiceProofs ----------------------------
(***************************************************************************)
(* Theorems about what runs in the background: Scheduler executes a task   *)
(* once at a time; ChannelRegistry finds a template runner for every       *)
(* registered channel and leaves no session channel deaf; AutoUpgrade      *)
(* restarts the bot into what it has built itself and after a drain that   *)
(* is true to its word, for any tasks, runs, triggers, sessions, restarts, *)
(* channels, categories, names, edits and changes; and MCRuns, which has   *)
(* the upgrades beside the runs of Claude.                                 *)
(***************************************************************************)
EXTENDS MCRuns, RunClaudeProofs, Scheduler, ChannelRegistry

-----------------------------------------------------------------------------
(***************************************************************************)
(* Scheduler                                                               *)
(***************************************************************************)
\* _running holds what is executed, and no two coroutines execute one task.
Entered ==
  \A e \in Executions : Live(e) => exec[e].task \in running

\* The task the loop is about to spawn is not executed: it has been looked up in
\* _running, and nobody else adds to it.
NextIsFree ==
  loop \in {"advance", "advanced"} => batch # <<>> /\ Head(batch) \notin running

SchedInv == SchedTypeOK /\ Entered /\ NextIsFree /\ OneExecutionPerTask

LEMMA SchedInitInv == SchedInit => SchedInv
  BY OneShotsAssumption, SchedBoundsAssumption
     DEF SchedInit, SchedInv, SchedTypeOK, Entered, NextIsFree, OneExecutionPerTask, Live,
         RowStates, LoopStates, ExecStates

\* What a request changes is none of the loop's business.
LEMMA RequestInv ==
  ASSUME SchedInv, NEW t \in Tasks,
         CreateTask(t) \/ DeleteTask(t) \/ SetEnabled(t) \/ Postpone(t) \/ BecomesDue(t)
  PROVE  SchedInv'
<1>1. status' \in [Tasks -> RowStates] /\ due' \subseteq Tasks /\ postponed' \in 0 .. MaxPostpones
  BY SchedBoundsAssumption DEF SchedInv, SchedTypeOK, CreateTask, DeleteTask, SetEnabled, Postpone,
     BecomesDue, RowStates
<1>2. UNCHANGED <<loop, batch, running, exec, deaths>>
  BY DEF CreateTask, DeleteTask, SetEnabled, Postpone, BecomesDue
<1> QED
  BY <1>1, <1>2 DEF SchedInv, SchedTypeOK, Entered, NextIsFree, OneExecutionPerTask, Live

LEMMA WakeUpInv ==
  ASSUME SchedInv, WakeUp
  PROVE  SchedInv'
<1>1. IsFiniteSet(DueRows)
  BY TasksAssumption, FS_Subset DEF SchedInv, SchedTypeOK, DueRows
<1>2. Cardinality(DueRows) \in Nat
  BY <1>1, FS_CardinalityType
<1>3. batch' \in Seq(Tasks)
  <2>1. PICK D : D = 1 .. Cardinality(DueRows) /\ batch' \in [D -> DueRows]
    BY DEF WakeUp, SetToSeqs
  <2>2. DueRows \subseteq Tasks
    BY DEF SchedInv, SchedTypeOK, DueRows
  <2> QED
    BY <1>2, <2>1, <2>2
<1>4. loop' = "next" /\ UNCHANGED <<status, due, running, exec, deaths, postponed>>
  BY DEF WakeUp
<1> QED
  BY <1>3, <1>4 DEF SchedInv, SchedTypeOK, Entered, NextIsFree, OneExecutionPerTask, Live, LoopStates

LEMMA TakeNextInv ==
  ASSUME SchedInv, TakeNext
  PROVE  SchedInv'
<1>0. batch # <<>> /\ batch \in Seq(Tasks) /\ loop \in LoopStates
  BY DEF SchedInv, SchedTypeOK, TakeNext
<1>1. batch' \in Seq(Tasks) /\ loop' \in LoopStates
  <2>1. batch' \in {batch, Tail(batch)} /\ loop' \in {loop, "advance"}
    BY DEF TakeNext
  <2>2. Tail(batch) \in Seq(Tasks)
    BY <1>0
  <2>3. "advance" \in LoopStates
    BY DEF LoopStates
  <2> QED
    BY <1>0, <2>1, <2>2, <2>3
<1>2. NextIsFree'
  BY DEF SchedInv, TakeNext, NextIsFree
<1>3. UNCHANGED <<status, due, running, exec, deaths, postponed>>
  BY DEF TakeNext
<1> QED
  BY <1>1, <1>2, <1>3 DEF SchedInv, SchedTypeOK, Entered, OneExecutionPerTask, Live

LEMMA LoopGoesOnInv ==
  ASSUME SchedInv, BatchDone \/ Advance \/ LoopDies
  PROVE  SchedInv'
<1>1. batch' \in Seq(Tasks)
  <2>1. CASE batch' = <<>>
    BY <2>1
  <2>2. CASE batch' = batch
    BY <2>2 DEF SchedInv, SchedTypeOK
  <2> QED
    BY <2>1, <2>2 DEF BatchDone, Advance, LoopDies
<1>2. loop' \in LoopStates /\ due' \subseteq Tasks
  BY DEF SchedInv, SchedTypeOK, BatchDone, Advance, LoopDies, LoopStates
<1>3. NextIsFree'
  BY DEF SchedInv, BatchDone, Advance, LoopDies, NextIsFree
<1>4. UNCHANGED <<status, running, exec, deaths, postponed>>
  BY DEF BatchDone, Advance, LoopDies
<1> QED
  BY <1>1, <1>2, <1>3, <1>4 DEF SchedInv, SchedTypeOK, Entered, OneExecutionPerTask, Live

\* The task it spawns is executed by nobody else, because it is not in _running.
LEMMA StartRunInv ==
  ASSUME SchedInv, StartRun
  PROVE  SchedInv'
<1>1. PICK e \in Executions :
        /\ ~Live(e)
        /\ exec' = [exec EXCEPT ![e] = [task |-> Head(batch), at |-> "thread"]]
  BY DEF StartRun
<1>2. /\ running' = running \cup {Head(batch)}
      /\ batch' = Tail(batch) /\ loop' = "next"
      /\ UNCHANGED <<status, due, deaths, postponed>>
  BY DEF StartRun
<1>3. batch # <<>> /\ Head(batch) \notin running /\ Head(batch) \in Tasks /\ batch' \in Seq(Tasks)
  BY <1>2 DEF SchedInv, SchedTypeOK, NextIsFree, StartRun
<1>4. SchedTypeOK'
  BY <1>1, <1>2, <1>3 DEF SchedInv, SchedTypeOK, LoopStates, ExecStates
<1>5. Entered' /\ OneExecutionPerTask'
  BY <1>1, <1>2, <1>3 DEF SchedInv, SchedTypeOK, Entered, OneExecutionPerTask, Live
<1>6. NextIsFree'
  BY <1>2 DEF NextIsFree
<1> QED
  BY <1>4, <1>5, <1>6 DEF SchedInv

\* A coroutine goes on without leaving its task.
LEMMA GoesInv ==
  ASSUME SchedInv, NEW e \in Executions, NEW at \in ExecStates, Live(e),
         Goes(e, at), UNCHANGED <<loop, batch, running, due, deaths, postponed>>,
         status' \in [Tasks -> RowStates]
  PROVE  SchedInv'
<1>1. exec' \in [Executions -> [task : Tasks, at : ExecStates]]
  BY DEF SchedInv, SchedTypeOK, Goes
<1>2. \A d \in Executions : exec'[d].task = exec[d].task /\ (Live(d)' => Live(d))
  BY DEF SchedInv, SchedTypeOK, Goes, Live
<1> QED
  BY <1>1, <1>2 DEF SchedInv, SchedTypeOK, Entered, NextIsFree, OneExecutionPerTask

\* The task it takes out of _running is executed by nobody else.
LEMMA DiscardInv ==
  ASSUME SchedInv, NEW e \in Executions, Live(e), Discard(e),
         UNCHANGED <<loop, batch, due, deaths, postponed>>,
         status' \in [Tasks -> RowStates]
  PROVE  SchedInv'
<1>1. exec' \in [Executions -> [task : Tasks, at : ExecStates]] /\ running' \subseteq Tasks
  BY DEF SchedInv, SchedTypeOK, Discard, Goes, ExecStates
<1>2. \A d \in Executions : exec'[d].task = exec[d].task /\ (Live(d)' => Live(d) /\ d # e)
  BY DEF SchedInv, SchedTypeOK, Discard, Goes, Live
<1>3. running' = running \ {exec[e].task}
  BY DEF Discard
<1>4. Entered'
  BY <1>2, <1>3 DEF SchedInv, Entered, OneExecutionPerTask
<1> QED
  BY <1>1, <1>2, <1>3, <1>4 DEF SchedInv, SchedTypeOK, NextIsFree, OneExecutionPerTask

LEMMA ExecInv ==
  ASSUME SchedInv, NEW e \in Executions, ExecStep(e) \/ EndsEarly(e)
  PROVE  SchedInv'
<1>1. status \in [Tasks -> RowStates]
  BY DEF SchedInv, SchedTypeOK
<1>2. CASE ThreadReady(e)
  BY <1>1, <1>2, GoesInv DEF ThreadReady, Live, ExecStates
<1>3. CASE ClaudeEnds(e)
  <2>1. CASE exec[e].task \in OneShots
    BY <1>1, <1>3, <2>1, GoesInv DEF ClaudeEnds, Live, ExecStates
  <2>2. CASE exec[e].task \notin OneShots
    BY <1>1, <1>3, <2>2, DiscardInv DEF ClaudeEnds, Live
  <2> QED
    BY <2>1, <2>2
<1>4. CASE DisableOneShot(e)
  <2>1. status' \in [Tasks -> RowStates]
    BY <1>1, <1>4 DEF DisableOneShot, RowStates
  <2> QED
    BY <1>4, <2>1, DiscardInv DEF DisableOneShot, Live
<1>5. CASE EndsEarly(e)
  BY <1>1, <1>5, DiscardInv DEF EndsEarly, Live
<1> QED
  BY <1>2, <1>3, <1>4, <1>5 DEF ExecStep

LEMMA BotDiesInv ==
  ASSUME SchedInv, BotDies
  PROVE  SchedInv'
<1>1. exec' \in [Executions -> [task : Tasks, at : ExecStates]] /\ deaths' \in 0 .. MaxDeaths
  BY SchedBoundsAssumption DEF SchedInv, SchedTypeOK, BotDies, ExecStates
<1>2. \A e \in Executions : ~Live(e)'
  BY DEF SchedInv, SchedTypeOK, BotDies, Live
<1> QED
  BY <1>1, <1>2 DEF BotDies, SchedInv, SchedTypeOK, Entered, NextIsFree, OneExecutionPerTask, LoopStates

LEMMA SchedStepInv == SchedInv /\ [SchedNext]_schedVars => SchedInv'
<1> SUFFICES ASSUME SchedInv, [SchedNext]_schedVars PROVE SchedInv'
  OBVIOUS
<1>1. CASE UNCHANGED schedVars
  BY <1>1 DEF schedVars, SchedInv, SchedTypeOK, Entered, NextIsFree, OneExecutionPerTask, Live
<1>2. CASE SchedNext
  BY <1>2, RequestInv, WakeUpInv, TakeNextInv, LoopGoesOnInv, StartRunInv, ExecInv, BotDiesInv
     DEF SchedNext, LoopStep
<1> QED
  BY <1>1, <1>2

\* The inductive invariant of the scheduler holds in every reachable state.
THEOREM SchedInvariant == SchedSpec => []SchedInv
<1> QED
  BY SchedInitInv, SchedStepInv, PTL DEF SchedSpec

\* Every variable of the scheduler keeps its type.
THEOREM SchedTypeCorrect == SchedSpec => []SchedTypeOK
<1>1. SchedInv => SchedTypeOK
  BY DEF SchedInv
<1> QED
  BY <1>1, SchedInvariant, PTL

\* The scheduler never executes a task twice at once (scheduler.py, _master_loop and
\* the finally of _run_task): what is spawned was not in _running, and what is in
\* _running stays there while it is executed.
THEOREM NeverTwiceAtOnce == SchedSpec => []OneExecutionPerTask
<1>1. SchedInv => OneExecutionPerTask
  BY DEF SchedInv
<1> QED
  BY <1>1, SchedInvariant, PTL

\* A task is in _running only while it is executed: one that stayed there for ever
\* would never be executed again.
Executed == \A t \in running : \E e \in Executions : Live(e) /\ exec[e].task = t

\* The execution that leaves takes its task with it, and with it no other's.
LEMMA ExecExecuted ==
  ASSUME SchedInv, Executed, NEW e \in Executions, ExecStep(e) \/ EndsEarly(e)
  PROVE  Executed'
<1>1. \A d \in Executions :
        /\ exec'[d].task = exec[d].task
        /\ d # e => (Live(d)' <=> Live(d))
  BY DEF SchedInv, SchedTypeOK, ExecStep, EndsEarly, ThreadReady, ClaudeEnds, DisableOneShot, Discard,
     Goes, Live
<1>2. \/ Live(e)' /\ running' = running
      \/ running' = running \ {exec[e].task}
  BY DEF SchedInv, SchedTypeOK, ExecStep, EndsEarly, ThreadReady, ClaudeEnds, DisableOneShot, Discard,
     Goes, Live
<1> QED
  BY <1>1, <1>2 DEF Executed

LEMMA ExecutedStep == SchedInv /\ Executed /\ [SchedNext]_schedVars => Executed'
<1> SUFFICES ASSUME SchedInv, Executed, [SchedNext]_schedVars PROVE Executed'
  OBVIOUS
<1>1. CASE UNCHANGED <<running, exec>>
  BY <1>1 DEF Executed, Live
<1>2. CASE StartRun
  <2>1. PICK e \in Executions :
          /\ ~Live(e)
          /\ exec' = [exec EXCEPT ![e] = [task |-> Head(batch), at |-> "thread"]]
    BY <1>2 DEF StartRun
  <2>2. running' = running \cup {Head(batch)}
    BY <1>2 DEF StartRun
  <2>3. Live(e)' /\ exec'[e].task = Head(batch)
    BY <2>1 DEF SchedInv, SchedTypeOK, Live
  <2>4. \A d \in Executions : Live(d) => Live(d)' /\ exec'[d].task = exec[d].task
    BY <2>1 DEF SchedInv, SchedTypeOK, Live
  <2> QED
    BY <2>2, <2>3, <2>4 DEF Executed
<1>3. CASE BotDies
  BY <1>3 DEF BotDies, Executed
<1>4. CASE \E e \in Executions : ExecStep(e) \/ EndsEarly(e)
  BY <1>4, ExecExecuted
<1>5. \/ UNCHANGED <<running, exec>> \/ StartRun \/ BotDies
      \/ \E e \in Executions : ExecStep(e) \/ EndsEarly(e)
  BY DEF SchedNext, schedVars, CreateTask, DeleteTask, SetEnabled, Postpone, BecomesDue, LoopStep,
     WakeUp, TakeNext, BatchDone, Advance, LoopDies
<1> QED
  BY <1>1, <1>2, <1>3, <1>4, <1>5

\* No execution leaves its task behind in _running, however it ends (the finally of
\* _run_task in scheduler.py): the safety half of EnabledTaskRuns.
THEOREM NothingStaysRunning == SchedSpec => []Executed
<1>1. SchedInit => Executed
  BY DEF SchedInit, Executed
<1>2. SchedInv /\ Executed /\ [SchedNext]_schedVars => Executed'
  BY ExecutedStep
<1> QED
  BY <1>1, <1>2, SchedInvariant, PTL DEF SchedSpec

-----------------------------------------------------------------------------
(***************************************************************************)
(* AutoUpgrade                                                             *)
(***************************************************************************)
Outside == {"idle", "deferred", "queued"}

\* A pipeline is past its waiting iff it holds the lock.
Holds == \A p \in Pipelines : pc[p] \notin Outside <=> lock.holder = p

\* A command that somebody waits for is the one its pipeline is at; without
\* time-outs somebody waits for each.
Owned ==
  \A c \in commands :
    /\ c.by # Nobody => pc[c.by] = c.step
    /\ timeouts = 0 => c.by # Nobody

\* Behind a gate is the upgrade, or the restart into what has been installed.
Behind ==
  \A p \in Pipelines :
    pc[p] \in GatePCs =>
      /\ next \in {"upgrade", "snapshot"}
      /\ next = "snapshot" /\ timeouts = 0 => env = "synced"

Built ==
  \A p \in Pipelines :
    pc[p] \in {"snapshot", "drain", "mark", "restart"} /\ timeouts = 0 => env = "synced"

Counting == {h \in Hooks : hooks[h] \in {"claude", "react"}}

\* The count of the webhook triggers is the number of those that run.
CountIsExact == counted = Cardinality(Counting)

\* A run has the entry of its thread, but where a second run or a reset may have
\* taken it.
HasEntry ==
  \A c \in Chats :
    /\ chats[c] > 0 => c \in entries \cup ousted
    /\ chats[c] > 1 => c \in ousted

UpInv ==
  /\ UpTypeOK /\ Holds /\ Owned /\ Behind /\ Built /\ CountIsExact /\ HasEntry
  /\ DrainRespected

LEMMA CountingFinite == IsFiniteSet(Counting) /\ Cardinality(Counting) \in 0 .. Cardinality(Hooks)
<1>1. IsFiniteSet(Hooks) /\ Counting \subseteq Hooks
  BY UpgradeAssumption DEF Counting
<1> QED
  BY <1>1, FS_Subset, FS_CardinalityType

LEMMA UpInitInv == UpInit => UpInv
<1> SUFFICES ASSUME UpInit PROVE UpInv
  OBVIOUS
<1>1. Counting = {}
  BY DEF UpInit, Counting
<1>2. CountIsExact /\ counted \in 0 .. Cardinality(Hooks)
  BY <1>1, CountingFinite, FS_EmptySet DEF CountIsExact, UpInit
<1>3. UpTypeOK
  BY <1>2, UpgradeAssumption
  DEF UpInit, UpTypeOK, PipelinePCs, GatePCs, Steps, HookPCs, Closed, Gates, Pipelines
<1>4. Holds /\ Owned /\ Behind /\ Built /\ DrainRespected
  BY UpgradeAssumption
  DEF UpInit, Holds, Outside, Owned, Behind, GatePCs, Built, DrainRespected, Pipelines
<1>5. HasEntry
  BY DEF UpInit, HasEntry
<1> QED
  BY <1>2, <1>3, <1>4, <1>5 DEF UpInv

-----------------------------------------------------------------------------
\* The runs of a thread and the entry that they share.
LEMMA ChatsInv ==
  ASSUME UpInv, NEW c \in Chats, ChatStarts(c) \/ ChatEnds(c) \/ ChatReset(c)
  PROVE  /\ entries' \subseteq Chats /\ ousted' \subseteq Chats
         /\ chats' \in [Chats -> 0 .. MaxBeside]
         /\ HasEntry'
<1>1. /\ entries \subseteq Chats /\ ousted \subseteq Chats
      /\ chats \in [Chats -> 0 .. MaxBeside] /\ MaxBeside \in Nat /\ HasEntry
  BY UpgradeAssumption DEF UpInv, UpTypeOK
<1>2. chats[c] \in 0 .. MaxBeside /\ chats[c] \in Nat
  BY <1>1
<1>3. \A d \in Chats \ {c} :
        /\ chats'[d] = chats[d]
        /\ d \in entries' <=> d \in entries
        /\ d \in ousted' <=> d \in ousted
  <2>1. CASE ChatStarts(c)
    BY <1>1, <2>1 DEF ChatStarts
  <2>2. CASE ChatEnds(c)
    BY <1>1, <2>2 DEF ChatEnds
  <2>3. CASE ChatReset(c)
    BY <1>1, <2>3 DEF ChatReset
  <2> QED
    BY <2>1, <2>2, <2>3
<1>4. /\ entries' \subseteq Chats /\ ousted' \subseteq Chats
      /\ chats' \in [Chats -> 0 .. MaxBeside]
      /\ chats'[c] > 0 => c \in entries' \cup ousted'
      /\ chats'[c] > 1 => c \in ousted'
  <2>1. CASE ChatStarts(c)
    BY <1>1, <1>2, <2>1 DEF ChatStarts, HasEntry
  <2>2. CASE ChatEnds(c)
    BY <1>1, <1>2, <2>2 DEF ChatEnds, HasEntry
  <2>3. CASE ChatReset(c)
    BY <1>1, <1>2, <2>3 DEF ChatReset, HasEntry
  <2> QED
    BY <2>1, <2>2, <2>3
<1>5. ASSUME NEW d \in Chats
      PROVE  /\ chats'[d] > 0 => d \in entries' \cup ousted'
             /\ chats'[d] > 1 => d \in ousted'
  <2>1. CASE d = c
    BY <1>4, <2>1
  <2>2. CASE d # c
    BY <1>1, <1>3, <2>2 DEF HasEntry
  <2> QED
    BY <2>1, <2>2
<1> QED
  BY <1>4, <1>5 DEF HasEntry

\* Sessions of the other cogs leave the pipelines alone.
LEMMA SessionsInv ==
  ASSUME UpInv,
         \/ \E c \in Chats : ChatStarts(c) \/ ChatEnds(c) \/ ChatReset(c)
         \/ \E h \in Hooks : HookFires(h) \/ HookStarts(h) \/ HookReacts(h) \/ HookEnds(h)
  PROVE  UpInv'
<1> USE DEF UpInv
<1>1. UNCHANGED pipelineVars
  BY DEF ChatStarts, ChatEnds, ChatReset, HookFires, HookStarts, HookReacts, HookEnds
<1>2. Holds' /\ Owned' /\ Behind' /\ Built' /\ DrainRespected'
  BY <1>1 DEF pipelineVars, commandVars, markVars, Holds, Owned, Behind, Built, DrainRespected
<1>3. hooks' \in [Hooks -> HookPCs]
  <2>1. CASE \E c \in Chats : ChatStarts(c) \/ ChatEnds(c) \/ ChatReset(c)
    BY <2>1 DEF ChatStarts, ChatEnds, ChatReset, UpTypeOK
  <2>2. CASE \E h \in Hooks : HookFires(h) \/ HookStarts(h) \/ HookReacts(h) \/ HookEnds(h)
    BY <2>2 DEF HookFires, HookStarts, HookReacts, HookEnds, UpTypeOK, HookPCs
  <2> QED
    BY <2>1, <2>2
<1>4. CountIsExact'
  <2>1. CASE Counting' = Counting /\ counted' = counted
    BY <2>1 DEF CountIsExact
  <2>2. ASSUME NEW h \in Hooks, h \notin Counting, Counting' = Counting \cup {h},
               counted' = counted + 1
        PROVE  CountIsExact'
    BY <2>2, CountingFinite, FS_AddElement DEF CountIsExact
  <2>3. ASSUME NEW h \in Counting, Counting' = Counting \ {h}, counted' = counted - 1
        PROVE  CountIsExact'
    BY <2>3, CountingFinite, FS_RemoveElement DEF CountIsExact
  <2>4. ASSUME NEW c \in Chats, ChatStarts(c) \/ ChatEnds(c) \/ ChatReset(c)
        PROVE  Counting' = Counting /\ counted' = counted
    BY <2>4 DEF ChatStarts, ChatEnds, ChatReset, Counting
  <2>5. ASSUME NEW h \in Hooks, HookFires(h) \/ HookReacts(h)
        PROVE  Counting' = Counting /\ counted' = counted
    BY <2>5 DEF HookFires, HookReacts, Counting, UpTypeOK
  <2>6. ASSUME NEW h \in Hooks, HookStarts(h)
        PROVE  \/ Counting' = Counting /\ counted' = counted
               \/ h \notin Counting /\ Counting' = Counting \cup {h} /\ counted' = counted + 1
    BY <2>6 DEF HookStarts, Counting, UpTypeOK
  <2>7. ASSUME NEW h \in Hooks, HookEnds(h)
        PROVE  h \in Counting /\ Counting' = Counting \ {h} /\ counted' = counted - 1
    BY <2>7 DEF HookEnds, Counting, UpTypeOK
  <2> QED
    BY <2>1, <2>2, <2>3, <2>4, <2>5, <2>6, <2>7
<1>5. counted' \in 0 .. Cardinality(Hooks)
  <2>1. IsFiniteSet(Hooks) /\ Counting' \subseteq Hooks
    BY UpgradeAssumption DEF Counting
  <2> QED
    BY <1>4, <2>1, FS_Subset, FS_CardinalityType DEF CountIsExact
<1>6. /\ entries' \subseteq Chats /\ ousted' \subseteq Chats
      /\ chats' \in [Chats -> 0 .. MaxBeside] /\ HasEntry'
  <2>1. CASE \E h \in Hooks : HookFires(h) \/ HookStarts(h) \/ HookReacts(h) \/ HookEnds(h)
    BY <2>1 DEF HookFires, HookStarts, HookReacts, HookEnds, chatVars, UpTypeOK, HasEntry
  <2> QED
    BY <2>1, ChatsInv
<1>7. UpTypeOK'
  BY <1>1, <1>3, <1>5, <1>6 DEF pipelineVars, commandVars, markVars, UpTypeOK
<1> QED
  BY <1>2, <1>4, <1>6, <1>7

LEMMA ClosedIsGate == Closed \in Gates
  BY DEF Closed, Gates

\* What a step of a pipeline leaves of the sessions, and of the types.
LEMMA SessionsStand ==
  ASSUME UpInv, UNCHANGED sessionVars
  PROVE  /\ CountIsExact' /\ HasEntry'
         /\ entries' \subseteq Chats /\ ousted' \subseteq Chats
         /\ chats' \in [Chats -> 0 .. MaxBeside] /\ hooks' \in [Hooks -> HookPCs]
         /\ counted' \in 0 .. Cardinality(Hooks)
  BY DEF sessionVars, chatVars, UpInv, UpTypeOK, CountIsExact, Counting, HasEntry

LEMMA LockInv ==
  ASSUME UpInv, NEW p \in Pipelines,
         \/ WebhookTriggers(p) \/ CommandChecks(p) \/ CommandEnters(p)
         \/ Granted(p) \/ Leaves(p) \/ Fails(p)
  PROVE  UpInv'
<1> USE DEF UpInv
<1>0. p # Nobody /\ Nobody \notin Pipelines
  BY UpgradeAssumption DEF Pipelines
<1>1. UNCHANGED <<config, commandVars, sessionVars, marked, drained>> /\ snapshot' \subseteq Chats
  BY DEF WebhookTriggers, CommandChecks, CommandEnters, Granted, Leaves, Fails, markVars, UpTypeOK
<1>2. /\ pc' \in [Pipelines -> PipelinePCs]
      /\ \A q \in Pipelines \ {p} : pc'[q] = pc[q]
  BY DEF WebhookTriggers, CommandChecks, CommandEnters, Granted, Leaves, Fails, Enter, Await,
     UpTypeOK, PipelinePCs, GatePCs, Steps
<1>3. gate' \in Gates /\ next' \in PipelinePCs
  <2>1. gate' = gate \/ gate' = Closed
    BY DEF WebhookTriggers, CommandChecks, CommandEnters, Granted, Leaves, Fails
  <2>2. next' \in {next, "upgrade", "idle"}
    BY DEF WebhookTriggers, CommandChecks, CommandEnters, Granted, Leaves, Fails, Enter
  <2> QED
    BY <2>1, <2>2, ClosedIsGate DEF UpTypeOK, PipelinePCs, Steps
<1>4. /\ lock' \in [holder : Pipelines \cup {Nobody}, queue : Seq(Pipelines)]
      /\ Holds'
  <2>0. Holds /\ pc \in [Pipelines -> PipelinePCs] /\ lock.queue \in Seq(Pipelines)
    BY DEF UpTypeOK
  <2>1. CASE Enter(p) /\ pc[p] \in Outside
    <3>1. CASE lock.holder = Nobody /\ lock.queue = <<>>
      <4>1. lock' = [lock EXCEPT !.holder = p] /\ pc'[p] \in {"ask", "upgrade"}
        BY <2>0, <2>1, <3>1 DEF Enter, Await
      <4> QED
        BY <1>0, <1>2, <2>0, <3>1, <4>1 DEF Holds, Outside, UpTypeOK
    <3>2. CASE ~(lock.holder = Nobody /\ lock.queue = <<>>)
      <4>1. lock' = [lock EXCEPT !.queue = Append(@, p)] /\ pc'[p] = "queued"
        BY <2>0, <2>1, <3>2 DEF Enter, Await
      <4>2. Append(lock.queue, p) \in Seq(Pipelines)
        BY <2>0
      <4> QED
        BY <1>2, <2>0, <2>1, <4>1, <4>2 DEF Holds, Outside, UpTypeOK
    <3> QED
      BY <3>1, <3>2
  <2>2. CASE CommandChecks(p)
    BY <2>0, <2>2 DEF CommandChecks, Await, Holds, Outside, UpTypeOK
  <2>3. CASE CommandEnters(p)
    BY <2>0, <2>1, <2>3 DEF CommandEnters, Await, Holds, Outside, UpTypeOK
  <2>4. CASE Granted(p)
    <3>1. Tail(lock.queue) \in Seq(Pipelines)
      BY <2>0, <2>4 DEF Granted
    <3> QED
      BY <1>0, <2>0, <2>4, <3>1 DEF Granted, Await, Holds, Outside, UpTypeOK
  <2>5. CASE Leaves(p)
    <3>1. lock' = [lock EXCEPT !.holder = Nobody] /\ pc' = [pc EXCEPT ![p] = "idle"]
      BY <2>5 DEF Leaves, Await
    <3>2. lock.holder = p
      BY <2>0, <2>5 DEF Leaves, Holds, Outside
    <3> QED
      BY <1>0, <2>0, <3>1, <3>2 DEF Holds, Outside, UpTypeOK
  <2>6. CASE Fails(p)
    BY <2>0, <2>6 DEF Fails, Await, Holds, Outside, Steps, GatePCs, UpTypeOK
  <2> QED
    BY <2>1, <2>2, <2>3, <2>4, <2>5, <2>6 DEF WebhookTriggers, Outside
<1>5. Owned'
  <2>1. \A c \in commands : c.by # Nobody => c.by \in Pipelines /\ (c.by = p => pc[p] \in Steps)
    BY DEF Owned, UpTypeOK, Commanding
  <2>2. pc[p] \in Steps => ~HasProcess(p)
    BY DEF WebhookTriggers, CommandChecks, CommandEnters, Granted, Leaves, Fails, Steps
  <2> QED
    BY <1>1, <1>2, <2>1, <2>2 DEF commandVars, Owned, HasProcess
<1>6. Behind' /\ Built'
  <2>1. next' = next \/ \A q \in Pipelines \ {p} : pc[q] \in Outside
    BY <1>0 DEF WebhookTriggers, CommandChecks, CommandEnters, Granted, Leaves, Fails, Enter, Holds,
       Outside
  <2>2. pc'[p] \in GatePCs => next' = "upgrade"
    BY DEF WebhookTriggers, CommandChecks, CommandEnters, Granted, Leaves, Fails, Enter, Await,
       UpTypeOK, GatePCs
  <2>3. pc'[p] \notin {"snapshot", "drain", "mark", "restart"}
    BY DEF WebhookTriggers, CommandChecks, CommandEnters, Granted, Leaves, Fails, Enter, Await,
       UpTypeOK
  <2> QED
    BY <1>1, <1>2, <2>1, <2>2, <2>3 DEF commandVars, Behind, Built, Outside, GatePCs
<1>7. UpTypeOK' /\ DrainRespected'
  BY <1>1, <1>2, <1>3, <1>4, SessionsStand DEF UpTypeOK, commandVars, DrainRespected
<1> QED
  BY <1>1, <1>4, <1>5, <1>6, <1>7, SessionsStand

\* The gate's own steps: the holder stays between gate and what is behind it.
LEMMA GateInv ==
  ASSUME UpInv, NEW p \in Pipelines,
         \/ Ask(p) \/ PostButton(p) \/ GateOpens(p) \/ React(p) \/ Press(p) \/ GateStep(p)
  PROVE  UpInv'
<1> USE DEF UpInv
<1>1. UNCHANGED gateRest
  BY DEF Ask, PostButton, GateOpens, React, Press, GateStep, Acknowledged, WatchTimesOut, Reminded
<1>2. pc[p] \in GatePCs /\ next \in {"upgrade", "snapshot"}
  BY DEF Ask, PostButton, GateOpens, React, Press, GateStep, Acknowledged, WatchTimesOut, Reminded,
     Behind, GatePCs
<1>3. /\ pc' \in [Pipelines -> PipelinePCs]
      /\ \A q \in Pipelines \ {p} : pc'[q] = pc[q]
      /\ pc'[p] \in GatePCs \cup {next}
  BY <1>2 DEF Ask, PostButton, GateOpens, React, Press, GateStep, Acknowledged, WatchTimesOut,
     Reminded, Await, UpTypeOK, PipelinePCs, GatePCs, Steps
<1>4. gate' \in Gates
  <2>0. gate \in Gates
    BY DEF UpTypeOK
  <2>1. CASE Ask(p) \/ GateOpens(p)
    BY <2>0, <2>1, ClosedIsGate DEF Ask, GateOpens
  <2>2. CASE PostButton(p)
    BY <2>2 DEF PostButton, Gates
  <2>3. CASE React(p) \/ Press(p)
    BY <2>0, <2>3 DEF React, Press, Gates
  <2>4. CASE Acknowledged(p)
    BY <2>0, <2>4 DEF Acknowledged, Gates
  <2>5. CASE WatchTimesOut(p)
    BY <2>0, <2>5 DEF WatchTimesOut, Gates
  <2>6. CASE Reminded(p)
    BY <2>0, <2>6 DEF Reminded, Gates
  <2> QED
    BY <2>1, <2>2, <2>3, <2>4, <2>5, <2>6 DEF GateStep
<1>5. Holds' /\ Behind' /\ Built'
  BY <1>1, <1>2, <1>3 DEF gateRest, commandVars, Holds, Outside, Behind, Built, GatePCs, Steps
<1>6. Owned'
  <2>1. \A c \in commands : c.by # p
    BY <1>2, UpgradeAssumption DEF Owned, UpTypeOK, Commanding, Steps, GatePCs, Pipelines
  <2> QED
    BY <1>1, <1>3, <2>1 DEF gateRest, commandVars, Owned, UpTypeOK, Commanding
<1>7. UpTypeOK' /\ DrainRespected'
  BY <1>1, <1>3, <1>4, SessionsStand DEF gateRest, UpTypeOK, commandVars, markVars, DrainRespected
<1> QED
  BY <1>1, <1>5, <1>6, <1>7, SessionsStand DEF gateRest

\* The holder restarts what it has built: drain, marks and restart.
LEMMA DrainInv ==
  ASSUME UpInv, NEW p \in Pipelines,
         Snapshot(p) \/ DrainPoll(p) \/ DrainTimesOut(p) \/ Mark(p) \/ Restart(p)
  PROVE  UpInv'
<1> USE DEF UpInv
<1>0. p # Nobody /\ pc[p] \in {"snapshot", "drain", "mark", "restart"} /\ lock.holder = p
  BY UpgradeAssumption
  DEF Snapshot, DrainPoll, DrainTimesOut, Mark, Restart, Holds, Outside, Pipelines
<1>1. UNCHANGED <<config, commandVars>>
  BY DEF Snapshot, DrainPoll, DrainTimesOut, Mark, Restart
<1>2. ASSUME NEW c \in commands, c.by # Nobody PROVE FALSE
  <2>1. c \in Commanding /\ Owned /\ Holds
    BY DEF UpTypeOK
  <2>2. c.by \in Pipelines /\ pc[c.by] \in Steps
    BY <1>2, <2>1 DEF Owned, Commanding
  <2>3. lock.holder = c.by
    BY <2>1, <2>2 DEF Holds, Outside, Steps
  <2> QED
    BY <1>0, <2>2, <2>3 DEF Steps
<1>3. Owned'
  BY <1>1, <1>2 DEF commandVars, Owned
<1>4. CASE pc' = [q \in Pipelines |-> "idle"]
  <2>1. /\ lock' = [holder |-> Nobody, queue |-> <<>>] /\ gate' = Closed /\ next' = "idle"
        /\ entries' = {} /\ chats' = [c \in Chats |-> 0] /\ ousted' = {}
        /\ hooks' = [h \in Hooks |-> "idle"] /\ counted' = 0
        /\ snapshot' = {} /\ marked' = {} /\ drained' = {}
    <3>1. pc'[p] = "idle" /\ p \in Pipelines /\ pc \in [Pipelines -> PipelinePCs]
      BY <1>4 DEF UpTypeOK
    <3>2. \A at : Await(p, at) => pc'[p] = at
      BY <3>1 DEF Await
    <3>3. ~\E at \in {"drain", "mark", "restart", "leave"} : Await(p, at)
      BY <3>1, <3>2
    <3>4. Restart(p) /\ ~Await(p, "leave")
      BY <3>3 DEF Snapshot, DrainPoll, DrainTimesOut, Mark
    <3> QED
      BY <3>4 DEF Restart
  <2>2. Counting' = {}
    BY <2>1 DEF Counting
  <2>3. CountIsExact' /\ counted' \in 0 .. Cardinality(Hooks)
    <3>1. Cardinality(Counting') = 0
      BY <2>2, FS_EmptySet
    <3>2. Cardinality(Hooks) \in Nat
      BY UpgradeAssumption, FS_CardinalityType
    <3> QED
      BY <2>1, <3>1, <3>2 DEF CountIsExact
  <2>4. Holds' /\ Behind' /\ Built' /\ DrainRespected'
    BY <1>4, <2>1, UpgradeAssumption
    DEF Holds, Outside, Behind, GatePCs, Built, DrainRespected, Pipelines
  <2>5. UpTypeOK'
    BY <1>1, <1>4, <2>1, <2>3, ClosedIsGate, UpgradeAssumption
    DEF UpTypeOK, commandVars, PipelinePCs, HookPCs, Pipelines
  <2>6. HasEntry'
    BY <2>1 DEF HasEntry
  <2> QED
    BY <1>3, <2>3, <2>4, <2>5, <2>6
<1>5. CASE pc' # [q \in Pipelines |-> "idle"]
  <2>1. /\ UNCHANGED <<lock, gate, next, sessionVars>>
        /\ pc' \in [Pipelines -> PipelinePCs] /\ \A q \in Pipelines \ {p} : pc'[q] = pc[q]
        /\ pc'[p] \in {"drain", "mark", "restart", "leave"}
    BY <1>5 DEF Snapshot, DrainPoll, DrainTimesOut, Mark, Restart, Await, UpTypeOK, PipelinePCs
  <2>2. Holds' /\ Behind' /\ Built'
    BY <1>0, <1>1, <2>1 DEF commandVars, Holds, Outside, Behind, GatePCs, Built
  <2>3. Idle => Busy \ ousted = {}
    <3>1. Idle => Counting = {}
      BY CountingFinite, FS_EmptySet DEF Idle, CountIsExact
    <3> QED
      BY <3>1 DEF Idle, Busy, Counting, HasEntry
  <2>4. drained' = {}
    BY <1>5, <2>3
    DEF Snapshot, DrainPoll, DrainTimesOut, Mark, Restart, markVars, DrainRespected
  <2>5. snapshot' \subseteq Chats /\ marked' \subseteq Chats
    BY <1>5 DEF Snapshot, DrainPoll, DrainTimesOut, Mark, Restart, markVars, UpTypeOK
  <2>6. UpTypeOK' /\ DrainRespected'
    BY <1>1, <2>1, <2>4, <2>5, SessionsStand DEF UpTypeOK, commandVars, DrainRespected
  <2> QED
    BY <1>3, <2>1, <2>2, <2>6, SessionsStand
<1> QED
  BY <1>4, <1>5

\* Package commands: begun by the holder, and given up or ended.
LEMMA CommandInv ==
  ASSUME UpInv,
         \/ \E p \in Pipelines : Begin(p)
         \/ \E c \in commands : CommandEnds(c) \/ StepTimesOut(c)
  PROVE  UpInv'
<1> USE DEF UpInv
<1>0. Nobody \notin Pipelines
  BY UpgradeAssumption DEF Pipelines
<1>1. UNCHANGED <<config, lock, gate, sessionVars, markVars>>
  BY DEF Begin, CommandEnds, StepTimesOut
<1>2. CountIsExact' /\ HasEntry' /\ DrainRespected'
  BY <1>1, SessionsStand DEF markVars, DrainRespected
<1>3. ASSUME NEW p \in Pipelines, Begin(p)
      PROVE  UpInv'
  <2>1. /\ pc' = pc /\ next' = next /\ timeouts' = timeouts
        /\ commands' = commands \cup {[by |-> p, step |-> pc[p]]}
        /\ pc[p] \in Steps /\ lock.holder = p
    BY <1>3 DEF Begin, Holds, Outside, Steps
  <2>2. UpTypeOK'
    BY <1>1, <1>3, <2>1, SessionsStand DEF Begin, UpTypeOK, Commanding, markVars
  <2>3. Holds' /\ Owned'
    BY <1>0, <1>1, <2>1 DEF Holds, Owned
  <2>4. \A q \in Pipelines : pc[q] \notin Outside => pc[q] \in Steps
    BY <2>1 DEF Holds
  <2>5. Behind' /\ Built'
    BY <2>1, <2>4 DEF Behind, Built, Outside, GatePCs, Steps
  <2> QED
    BY <1>2, <2>2, <2>3, <2>5
<1>4. ASSUME NEW c \in commands, StepTimesOut(c)
      PROVE  UpInv'
  <2>1. c \in Commanding /\ c.by \in Pipelines /\ pc[c.by] = c.step /\ c.step \in Steps
    BY <1>4 DEF StepTimesOut, Owned, UpTypeOK, Commanding
  <2>2. /\ timeouts \in Nat /\ timeouts' = timeouts + 1 /\ timeouts' \in 0 .. MaxTimeouts
        /\ commands' = (commands \ {c}) \cup {[c EXCEPT !.by = Nobody]}
        /\ pc' = [pc EXCEPT ![c.by] = "leave"]
        /\ next' = next /\ env' = env
    BY <1>4, UpgradeAssumption DEF StepTimesOut, Await, UpTypeOK
  <2>3. [c EXCEPT !.by = Nobody] \in Commanding /\ [c EXCEPT !.by = Nobody].by = Nobody
    BY <2>1 DEF Commanding
  <2>4. UpTypeOK'
    <3>1. pc' \in [Pipelines -> PipelinePCs] /\ commands' \subseteq Commanding
      BY <2>1, <2>2, <2>3 DEF UpTypeOK, PipelinePCs
    <3> QED
      BY <1>1, <2>2, <3>1, SessionsStand DEF UpTypeOK, markVars
  <2>5. Holds'
    BY <1>1, <2>1, <2>2 DEF Holds, Outside, Steps, UpTypeOK
  <2>6. \A d \in commands : d.by = c.by => d = c
    BY <1>0, <2>1 DEF Owned, UpTypeOK, Commanding
  <2>7. Owned'
    BY <1>0, <2>1, <2>2, <2>3, <2>6 DEF Owned, UpTypeOK, Commanding
  <2>8. Behind' /\ Built'
    BY <2>1, <2>2 DEF Behind, Built, GatePCs, UpTypeOK
  <2> QED
    BY <1>2, <2>4, <2>5, <2>7, <2>8
<1>5. ASSUME NEW c \in commands, CommandEnds(c)
      PROVE  UpInv'
  <2>0. c \in Commanding /\ commands' = commands \ {c} /\ timeouts' = timeouts /\ timeouts \in Nat
    BY <1>5, UpgradeAssumption DEF CommandEnds, UpTypeOK
  <2>1. CASE c.by = Nobody
    <3>1. pc' = pc /\ next' = next /\ timeouts # 0
      BY <1>5, <2>1 DEF CommandEnds, Owned
    <3>2. UpTypeOK'
      BY <1>1, <1>5, <2>0, <3>1, SessionsStand DEF CommandEnds, UpTypeOK, markVars
    <3>3. Holds' /\ Owned' /\ Behind' /\ Built'
      BY <1>1, <2>0, <3>1 DEF Holds, Owned, Behind, Built
    <3> QED
      BY <1>2, <3>2, <3>3
  <2>2. CASE c.by # Nobody
    <3>1. c.by \in Pipelines /\ pc[c.by] = c.step /\ c.step \in Steps /\ lock.holder = c.by
      BY <2>0, <2>2 DEF Owned, Commanding, Holds, Outside, Steps
    <3>2. PICK ok \in BOOLEAN :
            /\ env' = IF ok /\ c.step = "sync" THEN "synced" ELSE env
            /\ pc' = [pc EXCEPT ![c.by] = IF ok THEN After(c.step) ELSE "leave"]
            /\ next' = IF ok /\ c.step = "sync" THEN "snapshot" ELSE next
      BY <1>5, <2>2 DEF CommandEnds, Await
    <3>3. /\ After(c.step) \in PipelinePCs
          /\ After(c.step) \notin Outside
          /\ c.step = "upgrade" => After(c.step) = "sync"
      BY DEF After, PipelinePCs, GatePCs, Steps, Outside
    <3>4. UpTypeOK'
      BY <1>1, <2>0, <3>1, <3>2, <3>3, SessionsStand DEF UpTypeOK, markVars, PipelinePCs
    <3>5. Holds'
      BY <1>1, <3>1, <3>2, <3>3 DEF Holds, Outside, Steps, UpTypeOK
    <3>6. \A d \in commands : d.by = c.by => d = c
      BY <2>0, <3>1, <1>0 DEF Owned, UpTypeOK, Commanding
    <3>7. Owned'
      BY <1>0, <2>0, <3>1, <3>2, <3>6 DEF Owned, UpTypeOK, Commanding
    <3>8. \A q \in Pipelines \ {c.by} : pc'[q] = pc[q] /\ pc[q] \in Outside
      BY <3>1, <3>2 DEF Holds, UpTypeOK
    <3>9. \/ pc'[c.by] \in {"leave", "sync"}
          \/ next' = "snapshot" /\ env' = "synced"
      BY <3>1, <3>2, <3>3 DEF Steps, UpTypeOK
    <3>10. Behind' /\ Built'
      BY <3>8, <3>9 DEF Behind, Built, Outside, GatePCs
    <3> QED
      BY <1>2, <3>4, <3>5, <3>7, <3>10
  <2> QED
    BY <2>1, <2>2
<1> QED
  BY <1>3, <1>4, <1>5

LEMMA UpStepInv == UpInv /\ [UpNext]_upVars => UpInv'
<1> SUFFICES ASSUME UpInv, [UpNext]_upVars PROVE UpInv'
  OBVIOUS
<1>1. CASE UNCHANGED upVars
  BY <1>1 DEF upVars, UpInv, UpTypeOK, Holds, Owned, Behind, Built, CountIsExact, Counting, HasEntry,
     DrainRespected
<1>2. CASE UpNext
  BY <1>2, SessionsInv, LockInv, GateInv, DrainInv, CommandInv
  DEF UpNext, UserActs, PipelineStep, GateStep
<1> QED
  BY <1>1, <1>2

\* The inductive invariant of the upgrade holds in every reachable state.
THEOREM UpInvariant == UpSpec => []UpInv
<1> QED
  BY UpInitInv, UpStepInv, PTL DEF UpSpec

\* Every variable of the upgrade keeps its type.
THEOREM UpTypeCorrect == UpSpec => []UpTypeOK
<1>1. UpInv => UpTypeOK
  BY DEF UpInv
<1> QED
  BY <1>1, UpInvariant, PTL

\* A pipeline restarts the bot into what it has installed itself, for any number of
\* webhooks and commands that want the lock (auto_upgrade.py, on_message and
\* upgrade_command), as long as no step timed out.
THEOREM OwnBuild == UpSpec => []RestartsWhatItBuilt
<1>1. UpInv => RestartsWhatItBuilt
  <2> SUFFICES ASSUME UpInv, NEW p \in Pipelines, timeouts = 0,
                      pc[p] \in {"snapshot", "drain", "mark", "restart"}
               PROVE  env = "synced" /\ commands = {}
    BY DEF RestartsWhatItBuilt
  <2>1. \A c \in commands : c.by \in Pipelines /\ pc[c.by] \in Steps
    BY DEF UpInv, Owned, UpTypeOK, Commanding
  <2>2. \A q \in Pipelines : pc[q] \in Steps => q = p
    BY DEF UpInv, Holds, Outside, Steps
  <2> QED
    BY <2>1, <2>2 DEF UpInv, Built, Steps
<1> QED
  BY <1>1, UpInvariant, PTL

\* When the drain says that the sessions have finished, no thread that kept its entry and
\* no webhook trigger has a Claude running (auto_upgrade.py,
\* _auto_drain_check), for any number of threads and prefixes.
THEOREM DrainsToTheEnd == UpSpec => []DrainRespected
<1>1. UpInv => DrainRespected
  BY DEF UpInv
<1> QED
  BY <1>1, UpInvariant, PTL

\* Who waits for the lock is in its queue, once, and nobody else is.
InLine ==
  /\ \A q \in Pipelines : pc[q] = "queued" => \E i \in 1..Len(lock.queue) : lock.queue[i] = q
  /\ \A i \in 1..Len(lock.queue) : pc[lock.queue[i]] = "queued"
  /\ \A i, j \in 1..Len(lock.queue) : lock.queue[i] = lock.queue[j] => i = j

\* A step that neither sends anybody to wait nor ends anybody's waiting.
LEMMA LineStands ==
  ASSUME UpTypeOK, InLine, lock'.queue = lock.queue,
         \A q \in Pipelines : pc'[q] = "queued" <=> pc[q] = "queued"
  PROVE  InLine'
<1>1. \A i \in 1..Len(lock.queue) : lock.queue[i] \in Pipelines
  BY DEF UpTypeOK
<1> QED
  BY <1>1 DEF InLine

LEMMA EnterLine ==
  ASSUME UpTypeOK, InLine, NEW p \in Pipelines, pc[p] # "queued", Enter(p)
  PROVE  InLine'
<1>0. pc \in [Pipelines -> PipelinePCs] /\ lock.queue \in Seq(Pipelines) /\ Len(lock.queue) \in Nat
  BY DEF UpTypeOK
<1>1. CASE lock.holder = Nobody /\ lock.queue = <<>>
  <2>1. lock' = [lock EXCEPT !.holder = p] /\ pc' = [pc EXCEPT ![p] = IF config.upgradeGate THEN "ask" ELSE "upgrade"]
    BY <1>1 DEF Enter, Await
  <2>2. lock'.queue = lock.queue
    BY <2>1 DEF UpTypeOK
  <2>3. \A q \in Pipelines : pc'[q] = "queued" <=> pc[q] = "queued"
    BY <1>0, <2>1
  <2> QED
    BY <2>2, <2>3, LineStands
<1>2. CASE ~(lock.holder = Nobody /\ lock.queue = <<>>)
  <2> DEFINE line == lock.queue
             n == Len(line)
             longer == lock'.queue
  <2>1. longer = Append(line, p) /\ pc' = [pc EXCEPT ![p] = "queued"]
    BY <1>2 DEF Enter, Await, UpTypeOK
  <2>2. /\ Len(longer) = n + 1 /\ n \in Nat
        /\ \A i \in 1..n : longer[i] = line[i]
        /\ longer[n + 1] = p
    BY <1>0, <2>1, AppendProperties
  <2>3. \A i \in 1..n : line[i] \in Pipelines /\ line[i] # p /\ pc[line[i]] = "queued"
    BY <1>0 DEF InLine
  <2>4. (\A i \in 1..n + 1 : i \in 1..n \/ i = n + 1) /\ 1..n \subseteq 1..n + 1 /\ n + 1 \in 1..n + 1
    BY <2>2
  <2>5. pc'[p] = "queued" /\ \A q \in Pipelines \ {p} : pc'[q] = pc[q]
    BY <1>0, <2>1
  <2>6. \A q \in Pipelines : pc[q] = "queued" => \E i \in 1..n : line[i] = q
    BY DEF InLine
  <2>7. \A i, j \in 1..n : line[i] = line[j] => i = j
    BY DEF InLine
  <2> HIDE DEF line, n, longer
  <2>8. ASSUME NEW q \in Pipelines, pc'[q] = "queued" PROVE \E i \in 1..Len(longer) : longer[i] = q
    <3>1. CASE q = p
      BY <2>2, <2>4, <3>1
    <3>2. CASE q # p
      BY <2>2, <2>4, <2>5, <2>6, <2>8, <3>2
    <3> QED
      BY <3>1, <3>2
  <2>9. \A i \in 1..Len(longer) : pc'[longer[i]] = "queued"
    BY <2>2, <2>3, <2>4, <2>5
  <2>10. \A i, j \in 1..Len(longer) : longer[i] = longer[j] => i = j
    BY <2>2, <2>3, <2>4, <2>7
  <2> QED
    BY <2>8, <2>9, <2>10 DEF InLine, longer
<1> QED
  BY <1>1, <1>2

\* The head of the queue takes the lock, and everybody else moves up.
LEMMA GrantLine ==
  ASSUME UpTypeOK, InLine, NEW p \in Pipelines, Granted(p)
  PROVE  InLine'
<1> DEFINE line == lock.queue
           n == Len(line)
           rest == lock'.queue
<1>1. line \in Seq(Pipelines) /\ n \in Nat /\ line # <<>> /\ pc \in [Pipelines -> PipelinePCs]
  BY DEF UpTypeOK, Granted
<1>2. rest = Tail(line) /\ line[1] = p
  BY <1>1 DEF Granted
<1>3. Len(rest) = n - 1 /\ \A i \in 1..Len(rest) : rest[i] = line[i + 1]
  BY <1>1, <1>2, HeadTailProperties
<1>4. /\ \A i \in 1..Len(rest) : i + 1 \in 1..n /\ i + 1 # 1
      /\ \A i \in 1..n : i # 1 => i - 1 \in 1..Len(rest) /\ (i - 1) + 1 = i
      /\ 1 \in 1..n
  BY <1>1, <1>3
<1>5. pc'[p] # "queued" /\ \A q \in Pipelines \ {p} : pc'[q] = pc[q]
  BY <1>1 DEF Granted, Await
<1>6. /\ \A q \in Pipelines : pc[q] = "queued" => \E i \in 1..n : line[i] = q
      /\ \A i \in 1..n : pc[line[i]] = "queued" /\ line[i] \in Pipelines
      /\ \A i, j \in 1..n : line[i] = line[j] => i = j
  BY <1>1 DEF InLine
<1> HIDE DEF line, n, rest
<1>7. ASSUME NEW q \in Pipelines, pc'[q] = "queued" PROVE \E i \in 1..Len(rest) : rest[i] = q
  <2>1. q # p /\ pc[q] = "queued"
    BY <1>5, <1>7
  <2>2. PICK i \in 1..n : line[i] = q
    BY <1>6, <2>1
  <2>3. i - 1 \in 1..Len(rest) /\ (i - 1) + 1 = i
    BY <1>2, <1>4, <2>1, <2>2
  <2> QED
    BY <1>3, <2>2, <2>3
<1>8. ASSUME NEW i \in 1..Len(rest) PROVE pc'[rest[i]] = "queued"
  <2>1. rest[i] = line[i + 1] /\ i + 1 \in 1..n /\ i + 1 # 1
    BY <1>3, <1>4
  <2>2. line[i + 1] # p
    BY <1>2, <1>4, <1>6, <2>1
  <2> QED
    BY <1>5, <1>6, <2>1, <2>2
<1>9. ASSUME NEW i \in 1..Len(rest), NEW j \in 1..Len(rest), rest[i] = rest[j] PROVE i = j
  <2>1. i + 1 = j + 1
    BY <1>3, <1>4, <1>6, <1>9
  <2> QED
    BY <1>1, <1>3, <2>1
<1> QED
  BY <1>7, <1>8, <1>9 DEF InLine, rest

LEMMA LineStep == UpInv /\ InLine /\ [UpNext]_upVars => InLine'
<1> SUFFICES ASSUME UpInv, InLine, [UpNext]_upVars PROVE InLine'
  OBVIOUS
<1>0. UpTypeOK /\ pc \in [Pipelines -> PipelinePCs]
  BY DEF UpInv, UpTypeOK
<1>1. CASE UNCHANGED <<pc, lock>>
  BY <1>0, <1>1, LineStands
<1>2. ASSUME NEW p \in Pipelines, UserActs(p) \/ PipelineStep(p) \/ GateStep(p) \/ Fails(p)
      PROVE  InLine'
  <2>1. CASE Enter(p) /\ pc[p] # "queued"
    BY <1>0, <2>1, EnterLine
  <2>2. CASE Granted(p)
    BY <1>0, <2>2, GrantLine
  <2>3. ASSUME NEW at, pc' = [pc EXCEPT ![p] = at], lock'.queue = lock.queue,
               at # "queued", pc[p] # "queued"
        PROVE  InLine'
    BY <1>0, <2>3, LineStands
  <2>4. CASE CommandChecks(p) \/ Ask(p) \/ PostButton(p) \/ Fails(p)
    <3>1. pc[p] # "queued" /\ UNCHANGED lock
      BY <2>4 DEF CommandChecks, Ask, PostButton, Fails, Steps, gateRest
    <3>2. \E at : at # "queued" /\ pc' = [pc EXCEPT ![p] = at]
      <4>1. pc' \in {[pc EXCEPT ![p] = at] : at \in {"deferred", "post", "wait", "leave"}}
        BY <2>4 DEF CommandChecks, Ask, PostButton, Fails, Await
      <4> QED
        BY <4>1
    <3> QED
      BY <2>3, <3>1, <3>2
  <2>5. CASE CommandEnters(p)
    BY <2>1, <2>3, <2>5 DEF CommandEnters, Await
  <2>6. CASE Leaves(p)
    <3>1. lock'.queue = lock.queue
      BY <1>0, <2>6 DEF Leaves, UpTypeOK
    <3> QED
      BY <2>3, <2>6, <3>1 DEF Leaves, Await
  <2>7. CASE GateOpens(p)
    <3>1. next # "queued"
      BY <1>0, <2>7 DEF GateOpens, UpInv, Behind, GatePCs
    <3> QED
      BY <2>3, <2>7, <3>1 DEF GateOpens, Await, gateRest
  <2>8. CASE Snapshot(p) \/ DrainPoll(p) \/ DrainTimesOut(p) \/ Mark(p)
    BY <2>3, <2>8 DEF Snapshot, DrainPoll, DrainTimesOut, Mark, Await
  <2>9. CASE Restart(p)
    <3>1. CASE Await(p, "leave") /\ UNCHANGED lock
      BY <2>3, <2>9, <3>1 DEF Restart, Await
    <3>2. CASE pc' = [q \in Pipelines |-> "idle"] /\ lock' = [holder |-> Nobody, queue |-> <<>>]
      BY <3>2 DEF InLine
    <3> QED
      BY <2>9, <3>1, <3>2 DEF Restart
  <2>10. CASE UNCHANGED <<pc, lock>>
    BY <1>1, <2>10
  <2>11. CASE WebhookTriggers(p)
    BY <2>1, <2>11 DEF WebhookTriggers
  <2> QED
    BY <1>2, <2>2, <2>4, <2>5, <2>6, <2>7, <2>8, <2>9, <2>10, <2>11
    DEF UserActs, PipelineStep, GateStep, React, Press, Begin, Acknowledged, WatchTimesOut, Reminded,
        gateRest
<1>3. ASSUME NEW c \in commands, CommandEnds(c) \/ StepTimesOut(c)
      PROVE  InLine'
  <2>1. lock' = lock
    BY <1>3 DEF CommandEnds, StepTimesOut
  <2>2. c.by # Nobody => c.by \in Pipelines /\ pc[c.by] # "queued"
    BY <1>0 DEF UpInv, Owned, UpTypeOK, Commanding, Steps
  <2>3. \/ UNCHANGED pc
        \/ c.by # Nobody /\ \E at : at # "queued" /\ pc' = [pc EXCEPT ![c.by] = at]
    BY <1>3 DEF CommandEnds, StepTimesOut, Await, After
  <2> QED
    BY <1>0, <2>1, <2>2, <2>3, LineStands
<1>4. (\E c \in Chats : ChatStarts(c) \/ ChatEnds(c) \/ ChatReset(c))
        \/ (\E h \in Hooks : HookFires(h) \/ HookStarts(h) \/ HookReacts(h) \/ HookEnds(h))
      => UNCHANGED <<pc, lock>>
  BY DEF ChatStarts, ChatEnds, ChatReset, HookFires, HookStarts, HookReacts, HookEnds, pipelineVars
<1> QED
  BY <1>1, <1>2, <1>3, <1>4 DEF UpNext, upVars

\* One pipeline at a time is past its waiting, it is the one that holds the lock, and
\* every other that wants it is in the lock's queue exactly once, so that it gets it in
\* its turn (auto_upgrade.py, "async with self._lock"): the safety half of TriggerEnds.
THEOREM LockIsFair == UpSpec => [](Holds /\ InLine)
<1>1. UpInit => InLine
  BY DEF UpInit, InLine
<1>2. UpInv /\ InLine /\ [UpNext]_upVars => InLine'
  BY LineStep
<1>3. UpInv => Holds
  BY DEF UpInv
<1> QED
  BY <1>1, <1>2, <1>3, UpInvariant, PTL DEF UpSpec

-----------------------------------------------------------------------------
(***************************************************************************)
(* ChannelRegistry                                                         *)
(***************************************************************************)
\* The runners are those of the categories: both are replaced together, and a
\* reset builds a runner again only for a category that is still there.
RunnersFollow ==
  /\ runners = live
  /\ \A c \in Chans : registered[c] # NoReg => registered[c].cat \in live

\* Nothing happens before the set-up is over.
SetUpFirst ==
  conn = "setup" =>
    live = {} /\ watcher.at = "off" /\ \A c \in Chans : registered[c] = NoReg

\* A channel whose deletion is being handled does not come back, and a new one has
\* no handlers.
Gone ==
  \A c \in Chans :
    /\ pending[c].delete > 0 => ~guild[c].there /\ ~guild[c].new
    /\ guild[c].new => ~guild[c].there /\ pending[c].delete = 0

\* While the bot is connected, discord.py's objects are up to date.
ObjectsFollow == conn = "ready" => \A c \in Chans : guild[c].there => object[c] = guild[c].at

RegInv == RegTypeOK /\ RunnersFollow /\ SetUpFirst /\ Gone /\ ObjectsFollow /\ NoDeafChannel

USE RegistryAssumption

LEMMA RegisteredType ==
  ASSUME NEW place \in Places, Registered(place) # NoReg
  PROVE  Registered(place) \in Entries /\ Registered(place) = place /\ place.cat \in live
  BY DEF Registered, Places, Entries, ChanNames

LEMMA RegInitInv == RegInit => RegInv
<1> SUFFICES ASSUME RegInit PROVE RegInv
  OBVIOUS
<1>1. PICK cats \in SUBSET Cats : file = [content |-> <<cats, "valid">>, mtime |-> 0]
  BY DEF RegInit
<1>2. file \in [content : Contents, mtime : 0 .. MaxEdits]
  BY <1>1 DEF Contents
<1>3. guild \in [Chans -> [at : Places, there : BOOLEAN, new : BOOLEAN]]
  <2>1. PICK p \in Places :
          guild \in [Chans -> {[at |-> p, there |-> TRUE, new |-> FALSE],
                               [at |-> p, there |-> FALSE, new |-> TRUE]}]
    BY DEF RegInit
  <2>2. {[at |-> p, there |-> TRUE, new |-> FALSE], [at |-> p, there |-> FALSE, new |-> TRUE]}
          \subseteq [at : Places, there : BOOLEAN, new : BOOLEAN]
    OBVIOUS
  <2> QED
    BY <2>1, <2>2
<1>4. RegTypeOK
  <2>1. registered \in [Chans -> Entries \cup {NoReg}]
    BY DEF RegInit
  <2>2. 0 \in 0 .. MaxEdits /\ 0 \in 0 .. MaxChanges
    OBVIOUS
  <2>3. watcher \in [at : {"off", "sleep", "load", "dead"}, last : 0 .. MaxEdits, seen : 0 .. MaxEdits]
    BY <2>2 DEF RegInit
  <2>4. pending \in [Chans -> [update : 0 .. 2, delete : 0 .. 1]]
    BY DEF RegInit
  <2>5. object \in [Chans -> Places] /\ outdated \in [Chans -> [Places -> Nat]]
    BY <1>3 DEF RegInit
  <2> QED
    BY <1>2, <1>3, <2>1, <2>2, <2>3, <2>4, <2>5 DEF RegInit, RegTypeOK
<1>5. Gone
  BY DEF RegInit, Gone
<1> QED
  BY <1>4, <1>5 DEF RegInit, RegInv, RunnersFollow, SetUpFirst, ObjectsFollow, NoDeafChannel

\* What happens to the file and the watcher leaves the index alone, or empties it
\* together with the categories.
LEMMA FileInv ==
  ASSUME RegInv, EditFile \/ SetUp \/ WatcherStep
  PROVE  RegInv'
<1>1. CASE EditFile
  <2>1. file' \in [content : Contents, mtime : 0 .. MaxEdits]
    BY <1>1 DEF EditFile, RegInv, RegTypeOK
  <2>2. UNCHANGED <<tables, watchVars, chanVars>>
    BY <1>1 DEF EditFile
  <2> QED
    BY <2>1, <2>2 DEF tables, watchVars, chanVars, RegInv, RegTypeOK, RunnersFollow, SetUpFirst, Gone,
       ObjectsFollow, places, handlers,
       NoDeafChannel, Registered
<1>2. CASE SetUp
  <2>1. live' \subseteq Cats /\ runners' = live' /\ conn' = "away"
    BY <1>2 DEF SetUp, Listed, Valid, RegInv, RegTypeOK, Contents, Broken
  <2>2. UNCHANGED <<file, registered, watchVars, places, handlers, failed, stale, changes>>
    BY <1>2 DEF SetUp
  <2>3. RunnersFollow'
    BY <1>2, <2>1, <2>2 DEF SetUp, RegInv, SetUpFirst, RunnersFollow
  <2> QED
    BY <2>1, <2>2, <2>3 DEF watchVars, places, handlers, RegInv, RegTypeOK, SetUpFirst, Gone, ObjectsFollow,
       NoDeafChannel
<1>3. CASE WatcherStarts \/ Stat \/ LoadFails
  <2>1. watcher' \in [at : {"off", "sleep", "load", "dead"}, last : 0 .. MaxEdits, seen : 0 .. MaxEdits]
    <3>1. file.mtime \in 0 .. MaxEdits
      BY DEF RegInv, RegTypeOK
    <3>2. CASE WatcherStarts
      BY <3>1, <3>2 DEF WatcherStarts
    <3>3. CASE Stat \/ LoadFails
      BY <3>1, <3>3 DEF Stat, LoadFails, RegInv, RegTypeOK
    <3> QED
      BY <1>3, <3>2, <3>3
  <2>2. base' \in 0 .. MaxEdits /\ handed' \in 0 .. MaxEdits
    BY <1>3 DEF WatcherStarts, Stat, LoadFails, RegInv, RegTypeOK
  <2>3. UNCHANGED <<file, tables, chanVars>> /\ conn # "setup"
    BY <1>3 DEF WatcherStarts, Stat, LoadFails, RegInv, SetUpFirst
  <2> QED
    BY <2>1, <2>2, <2>3 DEF tables, chanVars, RegInv, RegTypeOK, RunnersFollow, SetUpFirst, Gone,
       ObjectsFollow, places, handlers,
       NoDeafChannel, Registered
<1>4. CASE LoadAndApply
  <2>1. watcher' \in [at : {"off", "sleep", "load", "dead"}, last : 0 .. MaxEdits, seen : 0 .. MaxEdits]
        /\ handed' \in 0 .. MaxEdits
    BY <1>4 DEF LoadAndApply, RegInv, RegTypeOK
  <2>2. UNCHANGED <<file, base, chanVars>> /\ conn # "setup"
    BY <1>4 DEF LoadAndApply, RegInv, SetUpFirst
  <2>3. CASE Listed = {}
    <3>1. live' = {} /\ runners' = {} /\ registered' = [c \in Chans |-> NoReg]
      BY <1>4, <2>3 DEF LoadAndApply
    <3>2. \A c \in Chans : Registered(guild[c].at)' = NoReg
      BY <3>1 DEF Registered
    <3> QED
      BY <2>1, <2>2, <3>1, <3>2 DEF chanVars, RegInv, RegTypeOK, RunnersFollow, SetUpFirst, Gone,
       ObjectsFollow, places, handlers,
         NoDeafChannel
  <2>4. CASE Listed # {}
    <3>1. UNCHANGED <<live, runners, registered>>
      BY <1>4, <2>4 DEF LoadAndApply
    <3> QED
      BY <2>1, <2>2, <3>1 DEF chanVars, RegInv, RegTypeOK, RunnersFollow, SetUpFirst, Gone,
       ObjectsFollow, places, handlers,
         NoDeafChannel, Registered
  <2> QED
    BY <2>3, <2>4
<1> QED
  BY <1>1, <1>2, <1>3, <1>4 DEF WatcherStep

\* A handler's step changes one entry: to what its object of the channel is, or to
\* nothing.
EntryStep(c) ==
  \/ ChannelCreated(c) \/ ChannelChanged(c) \/ ChannelDeleted(c)
  \/ UpdateTornDown(c) \/ (\E place \in Places : OutdatedTornDown(c, place))
  \/ DeleteTornDown(c)

LEMMA RegParts ==
  ASSUME RegInv
  PROVE  /\ registered \in [Chans -> Entries \cup {NoReg}]
         /\ guild \in [Chans -> [at : Places, there : BOOLEAN, new : BOOLEAN]]
         /\ object \in [Chans -> Places] /\ stale \subseteq Chans
         /\ pending \in [Chans -> [update : 0 .. 2, delete : 0 .. 1]]
         /\ outdated \in [Chans -> [Places -> Nat]]
BY DEF RegInv, RegTypeOK

\* The handlers of one channel are counted anew.
LEMMA PendingType ==
  ASSUME RegInv, NEW c \in Chans
  PROVE  /\ pending[c] \in [update : 0 .. 2, delete : 0 .. 1]
         /\ pending[c].update \in 0 .. 2 /\ pending[c].delete \in 0 .. 1
BY RegParts

LEMMA UpdatesCounted ==
  ASSUME RegInv, NEW c \in Chans, NEW n \in 0 .. 2, pending' = [pending EXCEPT ![c].update = n]
  PROVE  pending' \in [Chans -> [update : 0 .. 2, delete : 0 .. 1]] /\ pending'[c].update = n
<1> DEFINE r == [pending[c] EXCEPT !.update = n]
<1>1. r \in [update : 0 .. 2, delete : 0 .. 1] /\ r.update = n
  BY PendingType
<1>2. pending' = [pending EXCEPT ![c] = r]
  OBVIOUS
<1> HIDE DEF r
<1> QED
  BY <1>1, <1>2, RegParts

LEMMA DeletesCounted ==
  ASSUME RegInv, NEW c \in Chans, NEW n \in 0 .. 1, pending' = [pending EXCEPT ![c].delete = n]
  PROVE  pending' \in [Chans -> [update : 0 .. 2, delete : 0 .. 1]]
<1> DEFINE r == [pending[c] EXCEPT !.delete = n]
<1>1. r \in [update : 0 .. 2, delete : 0 .. 1]
  BY PendingType
<1>2. pending' = [pending EXCEPT ![c] = r]
  OBVIOUS
<1> HIDE DEF r
<1> QED
  BY <1>1, <1>2, RegParts

LEMMA EntryFrame ==
  ASSUME RegInv, NEW c \in Chans, EntryStep(c)
  PROVE  /\ UNCHANGED <<file, live, runners, watchVars, conn, failed>>
         /\ changes' \in 0 .. MaxChanges
         /\ \A d \in Chans \ {c} :
              /\ registered'[d] = registered[d] /\ guild'[d] = guild[d] /\ object'[d] = object[d]
              /\ pending'[d] = pending[d] /\ (d \in stale' <=> d \in stale)
<1>1. UNCHANGED <<file, live, runners, watchVars, conn, failed>>
  BY DEF EntryStep, ChannelCreated, ChannelChanged, ChannelDeleted, UpdateTornDown, OutdatedTornDown,
     DeleteTornDown, tables, handlers
<1>2. changes' \in 0 .. MaxChanges
  BY DEF EntryStep, ChannelCreated, ChannelChanged, ChannelDeleted, UpdateTornDown, OutdatedTornDown,
     DeleteTornDown, Change, RegInv, RegTypeOK
<1>3. ASSUME NEW d \in Chans \ {c}
      PROVE  /\ registered'[d] = registered[d] /\ guild'[d] = guild[d] /\ object'[d] = object[d]
             /\ pending'[d] = pending[d] /\ (d \in stale' <=> d \in stale)
  <2>1. CASE ChannelCreated(c)
    BY <2>1 DEF ChannelCreated, RegisterIn, handlers, RegInv, RegTypeOK
  <2>2. CASE ChannelChanged(c)
    BY <2>2 DEF ChannelChanged, RegisterIn, RegInv, RegTypeOK
  <2>3. CASE ChannelDeleted(c)
    BY <2>3 DEF ChannelDeleted, tables, RegInv, RegTypeOK
  <2>4. CASE UpdateTornDown(c)
    BY <2>4 DEF UpdateTornDown, places, RegInv, RegTypeOK
  <2>5. CASE \E place \in Places : OutdatedTornDown(c, place)
    BY <2>5 DEF OutdatedTornDown, places, RegInv, RegTypeOK
  <2>6. CASE DeleteTornDown(c)
    BY <2>6 DEF DeleteTornDown, places, RegInv, RegTypeOK
  <2> QED
    BY <2>1, <2>2, <2>3, <2>4, <2>5, <2>6 DEF EntryStep
<1> QED
  BY <1>1, <1>2, <1>3

LEMMA EntryPlaces ==
  ASSUME RegInv, NEW c \in Chans, EntryStep(c)
  PROVE  /\ guild' \in [Chans -> [at : Places, there : BOOLEAN, new : BOOLEAN]]
         /\ object' \in [Chans -> Places] /\ stale' \subseteq Chans
         /\ conn = "ready" /\ guild'[c].there => object'[c] = guild'[c].at
<1>1. CASE ChannelCreated(c)
  <2>1. PICK place \in Places :
          /\ guild' = [guild EXCEPT ![c] = [at |-> place, there |-> TRUE, new |-> FALSE]]
          /\ object' = IF conn = "ready" THEN [object EXCEPT ![c] = place] ELSE object
    BY <1>1 DEF ChannelCreated
  <2>2. stale' = stale
    BY <1>1 DEF ChannelCreated
  <2>3. [at |-> place, there |-> TRUE, new |-> FALSE] \in [at : Places, there : BOOLEAN, new : BOOLEAN]
    OBVIOUS
  <2> QED
    BY <2>1, <2>2, <2>3 DEF RegInv, RegTypeOK
<1>2. CASE ChannelChanged(c)
  <2>1. PICK place \in Places :
          /\ guild' = [guild EXCEPT ![c].at = place]
          /\ object' = IF conn = "ready" THEN [object EXCEPT ![c] = place] ELSE object
    BY <1>2 DEF ChannelChanged
  <2>2. stale' \subseteq stale
    BY <1>2 DEF ChannelChanged
  <2>3. guild' \in [Chans -> [at : Places, there : BOOLEAN, new : BOOLEAN]] /\ guild'[c].at = place
    BY <2>1, RegParts
  <2>4. object' \in [Chans -> Places] /\ (conn = "ready" => object'[c] = place)
    BY <2>1, RegParts
  <2> QED
    BY <2>2, <2>3, <2>4, RegParts
<1>3. CASE ChannelDeleted(c)
  <2>1. guild' = [guild EXCEPT ![c].there = FALSE] /\ UNCHANGED <<object, stale>>
    BY <1>3 DEF ChannelDeleted
  <2> QED
    BY <2>1, RegParts
<1>4. CASE UpdateTornDown(c) \/ (\E place \in Places : OutdatedTornDown(c, place)) \/ DeleteTornDown(c)
  <2>1. UNCHANGED <<guild, object>> /\ stale' \subseteq stale \cup {c}
    BY <1>4 DEF UpdateTornDown, OutdatedTornDown, DeleteTornDown, places
  <2> QED
    BY <2>1 DEF RegInv, RegTypeOK, ObjectsFollow
<1> QED
  BY <1>1, <1>2, <1>3, <1>4 DEF EntryStep

LEMMA EntryHandlers ==
  ASSUME RegInv, NEW c \in Chans, EntryStep(c)
  PROVE  /\ pending' \in [Chans -> [update : 0 .. 2, delete : 0 .. 1]]
         /\ outdated' \in [Chans -> [Places -> Nat]]
<1>1. CASE ChannelCreated(c)
  BY <1>1, RegParts DEF ChannelCreated, handlers
<1>2. CASE ChannelChanged(c)
  <2>1. /\ pending' = pending \/ pending' = [pending EXCEPT ![c].update = pending[c].update + 1]
        /\ pending[c].update < 2 /\ outdated' = outdated
    BY <1>2 DEF ChannelChanged
  <2>2. pending[c].update + 1 \in 0 .. 2
    BY <2>1, PendingType
  <2>3. pending' \in [Chans -> [update : 0 .. 2, delete : 0 .. 1]]
    BY <2>1, <2>2, UpdatesCounted, RegParts
  <2> QED
    BY <2>1, <2>3, RegParts
<1>3. CASE ChannelDeleted(c)
  <2>1. pending' = pending \/ pending' = [pending EXCEPT ![c].delete = 1]
    BY <1>3 DEF ChannelDeleted
  <2>2. pending' \in [Chans -> [update : 0 .. 2, delete : 0 .. 1]]
    BY <2>1, DeletesCounted, RegParts
  <2>3. outdated' = outdated
    BY <1>3 DEF ChannelDeleted
  <2> QED
    BY <2>2, <2>3, RegParts
<1>4. CASE UpdateTornDown(c)
  <2>1. pending[c].update \in 0 .. 2 /\ pending[c].update - 1 \in 0 .. 2
    BY <1>4 DEF UpdateTornDown, RegInv, RegTypeOK
  <2>2. [pending[c] EXCEPT !.update = @ - 1] \in [update : 0 .. 2, delete : 0 .. 1]
    BY <2>1 DEF RegInv, RegTypeOK
  <2> QED
    BY <1>4, <2>2 DEF UpdateTornDown, RegInv, RegTypeOK
<1>5. ASSUME NEW place \in Places, OutdatedTornDown(c, place)
      PROVE  /\ pending' \in [Chans -> [update : 0 .. 2, delete : 0 .. 1]]
             /\ outdated' \in [Chans -> [Places -> Nat]]
  <2>1. outdated[c][place] \in Nat /\ outdated[c][place] - 1 \in Nat
    BY <1>5 DEF OutdatedTornDown, RegInv, RegTypeOK
  <2>2. [outdated[c] EXCEPT ![place] = @ - 1] \in [Places -> Nat]
    BY <2>1 DEF RegInv, RegTypeOK
  <2> QED
    BY <1>5, <2>2 DEF OutdatedTornDown, RegInv, RegTypeOK
<1>6. CASE DeleteTornDown(c)
  <2>1. pending' = [pending EXCEPT ![c].delete = 0] /\ outdated' = outdated
    BY <1>6 DEF DeleteTornDown
  <2>2. 0 \in 0 .. 1
    OBVIOUS
  <2>3. \A n \in 0 .. 1 : pending' = [pending EXCEPT ![c].delete = n] =>
          pending' \in [Chans -> [update : 0 .. 2, delete : 0 .. 1]]
    BY DeletesCounted
  <2>4. pending' \in [Chans -> [update : 0 .. 2, delete : 0 .. 1]]
    BY <2>1, <2>2, <2>3
  <2> QED
    BY <2>1, <2>4, RegParts
<1> QED
  BY <1>1, <1>2, <1>3, <1>4, <1>5, <1>6 DEF EntryStep

LEMMA EntryRegistered ==
  ASSUME RegInv, NEW c \in Chans, EntryStep(c)
  PROVE  /\ registered' \in [Chans -> Entries \cup {NoReg}]
         /\ registered'[c] \in {registered[c], NoReg} \/ registered'[c].cat \in live
<1>1. \A place \in Places : Registered(place) # NoReg =>
        Registered(place) \in Entries /\ Registered(place).cat \in live
  BY RegisteredType
<1>2. object[c] \in Places
  BY DEF RegInv, RegTypeOK
<1>3. CASE ChannelCreated(c) \/ ChannelChanged(c)
  <2>1. registered' = registered \/ \E place \in Places : RegisterIn(c, place)
    BY <1>3 DEF ChannelCreated, ChannelChanged
  <2>2. CASE registered' = registered
    BY <2>2, RegParts
  <2>3. ASSUME NEW place \in Places, RegisterIn(c, place)
        PROVE  /\ registered' \in [Chans -> Entries \cup {NoReg}]
               /\ registered'[c] \in {registered[c], NoReg} \/ registered'[c].cat \in live
    <3>1. registered' = [registered EXCEPT ![c] =
            IF Registered(place) = NoReg THEN registered[c] ELSE Registered(place)]
      BY <2>3 DEF RegisterIn
    <3> QED
      BY <1>1, <3>1, RegParts
  <2> QED
    BY <2>1, <2>2, <2>3
<1>5. CASE ChannelDeleted(c) \/ DeleteTornDown(c)
  BY <1>5 DEF ChannelDeleted, DeleteTornDown, tables, RegInv, RegTypeOK
<1>6. CASE UpdateTornDown(c) \/ \E place \in Places : OutdatedTornDown(c, place)
  <2>1. \E place \in Places : registered' = [registered EXCEPT ![c] = Registered(place)]
    BY <1>2, <1>6 DEF UpdateTornDown, OutdatedTornDown
  <2> QED
    BY <1>1, <2>1 DEF RegInv, RegTypeOK
<1> QED
  BY <1>3, <1>5, <1>6 DEF EntryStep

LEMMA EntryInv ==
  ASSUME RegInv, NEW c \in Chans, EntryStep(c)
  PROVE  RegInv'
<1>1. /\ UNCHANGED <<file, live, runners, watchVars, conn, failed>>
      /\ changes' \in 0 .. MaxChanges
  BY EntryFrame
<1>2. \A d \in Chans \ {c} :
        /\ registered'[d] = registered[d] /\ guild'[d] = guild[d] /\ object'[d] = object[d]
        /\ pending'[d] = pending[d] /\ (d \in stale' <=> d \in stale)
  BY EntryFrame
<1>3. /\ guild' \in [Chans -> [at : Places, there : BOOLEAN, new : BOOLEAN]]
      /\ object' \in [Chans -> Places] /\ stale' \subseteq Chans
      /\ conn = "ready" /\ guild'[c].there => object'[c] = guild'[c].at
  BY EntryPlaces
<1>4. RegTypeOK'
  BY <1>1, <1>3, EntryHandlers, EntryRegistered DEF watchVars, RegInv, RegTypeOK
<1>5. RunnersFollow'
  BY <1>1, <1>2, EntryRegistered DEF RegInv, RunnersFollow
<1>6. SetUpFirst'
  <2> SUFFICES ASSUME conn = "setup" PROVE registered'[c] = NoReg
    BY <1>1, <1>2 DEF SetUpFirst, RegInv, watchVars
  <2>1. live = {} /\ registered[c] = NoReg
    BY DEF SetUpFirst, RegInv
  <2> QED
    BY <2>1, EntryRegistered
<1>7. Gone'
  <2>1. (pending'[c].delete > 0 => ~guild'[c].there /\ ~guild'[c].new)
        /\ (guild'[c].new => ~guild'[c].there /\ pending'[c].delete = 0)
    <3>1. CASE ChannelCreated(c)
      BY <3>1 DEF ChannelCreated, handlers, RegInv, RegTypeOK, Gone
    <3>2. CASE ChannelChanged(c)
      BY <3>2 DEF ChannelChanged, RegInv, RegTypeOK, Gone
    <3>3. CASE ChannelDeleted(c)
      BY <3>3 DEF ChannelDeleted, RegInv, RegTypeOK, Gone
    <3>4. CASE UpdateTornDown(c) \/ (\E place \in Places : OutdatedTornDown(c, place)) \/ DeleteTornDown(c)
      BY <3>4 DEF UpdateTornDown, OutdatedTornDown, DeleteTornDown, places, RegInv, RegTypeOK, Gone
    <3> QED
      BY <3>1, <3>2, <3>3, <3>4 DEF EntryStep
  <2> QED
    BY <1>2, <2>1 DEF RegInv, Gone
<1>8. ObjectsFollow'
  BY <1>1, <1>2, <1>3 DEF RegInv, ObjectsFollow
<1>9. NoDeafChannel'
  <2> SUFFICES ASSUME conn = "ready", guild'[c].there, c \notin failed \cup stale',
                      pending'[c] = [update |-> 0, delete |-> 0],
                      Registered(guild[c].at)' # NoReg
               PROVE  registered'[c] = guild'[c].at
    BY <1>1, <1>2 DEF RegInv, NoDeafChannel, Registered
  <2>1. /\ Registered(guild'[c].at) = guild'[c].at
        /\ guild'[c].at \in Places /\ guild'[c].at # NoReg
    BY <1>1, <1>3 DEF Registered
  <2>2. CASE ChannelCreated(c)
    <3>1. PICK place \in Places :
            /\ guild' = [guild EXCEPT ![c] = [at |-> place, there |-> TRUE, new |-> FALSE]]
            /\ RegisterIn(c, place)
      BY <2>2 DEF ChannelCreated
    <3>2. guild'[c].at = place
      BY <3>1 DEF RegInv, RegTypeOK
    <3>3. place # NoReg /\ Registered(place) = place
      BY <2>1, <3>2
    <3> QED
      BY <3>1, <3>2, <3>3 DEF RegisterIn, RegInv, RegTypeOK
  <2>3. CASE ChannelChanged(c)
    <3>1. CASE registered[c] = NoReg
      <4>1. PICK place \in Places : guild' = [guild EXCEPT ![c].at = place] /\ RegisterIn(c, place)
        BY <2>3, <3>1 DEF ChannelChanged
      <4>2. guild'[c].at = place
        BY <4>1 DEF RegInv, RegTypeOK
      <4> QED
        BY <2>1, <4>1, <4>2 DEF RegisterIn, RegInv, RegTypeOK
    <3>2. CASE registered[c] # NoReg
      <4>1. pending' = [pending EXCEPT ![c].update = pending[c].update + 1] /\ pending[c].update < 2
        BY <2>3, <3>2 DEF ChannelChanged
      <4>2. pending[c].update \in Nat /\ pending[c].update + 1 \in 0 .. 2
        BY <4>1, PendingType
      <4>3. pending'[c].update = pending[c].update + 1
        BY <4>1, <4>2, UpdatesCounted
      <4> QED
        BY <4>2, <4>3
    <3> QED
      BY <3>1, <3>2
  <2>4. CASE ChannelDeleted(c) \/ DeleteTornDown(c)
    BY <2>4 DEF ChannelDeleted, DeleteTornDown, places, RegInv, RegTypeOK, Gone
  <2>5. CASE UpdateTornDown(c)
    <3>1. guild' = guild /\ registered' = [registered EXCEPT ![c] = Registered(object[c])]
      BY <2>5 DEF UpdateTornDown, places
    <3>2. object[c] = guild[c].at
      BY <3>1 DEF RegInv, ObjectsFollow
    <3> QED
      BY <2>1, <3>1, <3>2 DEF RegInv, RegTypeOK
  <2>6. CASE \E place \in Places : OutdatedTornDown(c, place)
    BY <2>6 DEF OutdatedTornDown
  <2> QED
    BY <2>2, <2>3, <2>4, <2>5, <2>6 DEF EntryStep
<1> QED
  BY <1>4, <1>5, <1>6, <1>7, <1>8, <1>9 DEF RegInv

LEMMA RaisesInv ==
  ASSUME RegInv, NEW c \in Chans, TearDownRaises(c)
  PROVE  RegInv'
<1>1. UNCHANGED <<file, tables, watchVars, conn, guild, object, stale, changes>>
  BY DEF TearDownRaises, places
<1>2. CASE \E h \in {"update", "delete"} :
             /\ pending[c][h] > 0 /\ pending' = [pending EXCEPT ![c][h] = @ - 1]
             /\ failed' = failed \cup {c} /\ UNCHANGED outdated
  <2>1. PICK h \in {"update", "delete"} :
          pending[c][h] > 0 /\ pending' = [pending EXCEPT ![c][h] = @ - 1]
    BY <1>2
  <2>2. pending' \in [Chans -> [update : 0 .. 2, delete : 0 .. 1]]
    <3>1. CASE h = "update"
      <4>1. pending[c].update - 1 \in 0 .. 2
        BY <2>1, <3>1 DEF RegInv, RegTypeOK
      <4> QED
        BY <2>1, <3>1, <4>1 DEF RegInv, RegTypeOK
    <3>2. CASE h = "delete"
      <4>1. pending[c].delete - 1 \in 0 .. 1
        BY <2>1, <3>2 DEF RegInv, RegTypeOK
      <4> QED
        BY <2>1, <3>2, <4>1 DEF RegInv, RegTypeOK
    <3> QED
      BY <3>1, <3>2
  <2>3. /\ \A d \in Chans \ {c} : pending'[d] = pending[d]
        /\ pending'[c].delete \in {pending[c].delete, pending[c].delete - 1}
    BY <2>1 DEF RegInv, RegTypeOK
  <2>4. RegTypeOK'
    BY <1>1, <1>2, <2>2 DEF tables, watchVars, RegInv, RegTypeOK
  <2>5. Gone'
    <3>1. pending[c].delete \in 0 .. 1 /\ pending'[c].delete \in 0 .. 1
      BY <2>2 DEF RegInv, RegTypeOK
    <3> QED
      BY <1>1, <2>3, <3>1 DEF RegInv, Gone
  <2>6. NoDeafChannel'
    BY <1>1, <1>2, <2>3 DEF tables, RegInv, NoDeafChannel, Registered
  <2> QED
    BY <1>1, <2>4, <2>5, <2>6 DEF tables, watchVars, RegInv, RunnersFollow, SetUpFirst, ObjectsFollow
<1>3. CASE \E place \in Places :
             /\ outdated[c][place] > 0
             /\ outdated' = [outdated EXCEPT ![c][place] = @ - 1]
             /\ UNCHANGED <<pending, failed>>
  <2>1. PICK place \in Places :
          outdated[c][place] > 0 /\ outdated' = [outdated EXCEPT ![c][place] = @ - 1]
    BY <1>3
  <2>2. outdated[c][place] - 1 \in Nat
    BY <2>1 DEF RegInv, RegTypeOK
  <2>3. [outdated[c] EXCEPT ![place] = @ - 1] \in [Places -> Nat]
    BY <2>2 DEF RegInv, RegTypeOK
  <2>4. outdated' \in [Chans -> [Places -> Nat]]
    BY <2>1, <2>3 DEF RegInv, RegTypeOK
  <2>5. RegTypeOK'
    BY <1>1, <1>3, <2>4 DEF tables, watchVars, RegInv, RegTypeOK
  <2> QED
    BY <1>1, <1>3, <2>5 DEF tables, watchVars, RegInv, RunnersFollow, SetUpFirst, Gone, ObjectsFollow,
       NoDeafChannel, Registered
<1> QED
  BY <1>2, <1>3 DEF TearDownRaises

LEMMA ConnectionInv ==
  ASSUME RegInv, Disconnected \/ OnReady \/ \E c \in Chans : Invalidate(c)
  PROVE  RegInv'
<1>1. CASE Disconnected
  <2>1. changes' \in 0 .. MaxChanges
    BY <1>1 DEF Disconnected, Change, RegInv, RegTypeOK
  <2> QED
    BY <1>1, <2>1 DEF Disconnected, tables, watchVars, places, handlers, RegInv, RegTypeOK, RunnersFollow,
       SetUpFirst, Gone, ObjectsFollow, NoDeafChannel
<1>2. CASE OnReady
  <2>1. /\ conn' = "ready" /\ stale' = {}
        /\ UNCHANGED <<file, live, runners, watchVars, guild, failed, changes>>
        /\ registered' = [c \in Chans |->
             IF guild[c].there /\ Registered(guild[c].at) # NoReg
             THEN Registered(guild[c].at) ELSE registered[c]]
    BY <1>2 DEF OnReady, Identified
  <2>2. \A c \in Chans : Registered(guild[c].at) # NoReg =>
          /\ Registered(guild[c].at) \in Entries
          /\ Registered(guild[c].at) = guild[c].at
          /\ guild[c].at.cat \in live
    BY RegisteredType DEF RegInv, RegTypeOK
  <2>3. object' = [c \in Chans |-> guild[c].at] /\ object' \in [Chans -> Places]
    BY <1>2 DEF OnReady, Identified, RegInv, RegTypeOK
  <2>4. /\ pending' = [c \in Chans |-> [pending[c] EXCEPT !.update = 0]]
        /\ pending' \in [Chans -> [update : 0 .. 2, delete : 0 .. 1]]
    <3>1. pending' = [c \in Chans |-> [pending[c] EXCEPT !.update = 0]]
      BY <1>2 DEF OnReady, Identified
    <3>2. \A c \in Chans : [pending[c] EXCEPT !.update = 0] \in [update : 0 .. 2, delete : 0 .. 1]
      <4> TAKE c \in Chans
      <4>1. pending[c] \in [update : 0 .. 2, delete : 0 .. 1]
        BY RegParts
      <4> QED
        BY <4>1
    <3> QED
      BY <3>1, <3>2
  <2>5. outdated' \in [Chans -> [Places -> Nat]]
    <3>1. outdated' = [c \in Chans |->
            [outdated[c] EXCEPT ![object[c]] = @ + pending[c].update]]
      BY <1>2 DEF OnReady, Identified
    <3>2. \A c \in Chans : [outdated[c] EXCEPT ![object[c]] = @ + pending[c].update] \in [Places -> Nat]
      <4> TAKE c \in Chans
      <4>1. outdated[c] \in [Places -> Nat] /\ object[c] \in Places
        BY RegParts
      <4>2. pending[c].update \in 0 .. 2
        BY PendingType
      <4>3. pending[c].update \in Nat
        BY <4>2
      <4>4. outdated[c][object[c]] + pending[c].update \in Nat
        BY <4>1, <4>3
      <4> QED
        BY <4>1, <4>4
    <3> QED
      BY <3>1, <3>2
  <2>6. RegTypeOK'
    BY <2>1, <2>2, <2>3, <2>4, <2>5 DEF watchVars, RegInv, RegTypeOK
  <2>7. RunnersFollow'
    BY <2>1, <2>2 DEF RegInv, RunnersFollow
  <2>8. NoDeafChannel'
    BY <2>1, <2>2 DEF NoDeafChannel, Registered
  <2>9. Gone' /\ ObjectsFollow' /\ SetUpFirst'
    BY <2>1, <2>3, <2>4 DEF RegInv, RegTypeOK, Gone, ObjectsFollow, SetUpFirst
  <2> QED
    BY <2>6, <2>7, <2>8, <2>9 DEF RegInv
<1>3. ASSUME NEW c \in Chans, Invalidate(c) PROVE RegInv'
  <2>1. registered[c].cat \in live /\ runners = live
    BY <1>3 DEF Invalidate, RegInv, RunnersFollow
  <2>2. runners' = runners /\ UNCHANGED <<file, live, registered, watchVars, chanVars>>
    BY <1>3, <2>1 DEF Invalidate
  <2> QED
    BY <2>2 DEF watchVars, chanVars, places, handlers, RegInv, RegTypeOK, RunnersFollow, SetUpFirst, Gone,
       ObjectsFollow, NoDeafChannel, Registered
<1> QED
  BY <1>1, <1>2, <1>3

LEMMA RegStepInv == RegInv /\ [RegNext]_regVars => RegInv'
<1> SUFFICES ASSUME RegInv, [RegNext]_regVars PROVE RegInv'
  OBVIOUS
<1>1. CASE UNCHANGED regVars
  BY <1>1 DEF regVars, RegInv, RegTypeOK, RunnersFollow, SetUpFirst, Gone, ObjectsFollow, NoDeafChannel,
     Registered
<1>2. CASE RegNext
  BY <1>2, FileInv, EntryInv, RaisesInv, ConnectionInv DEF RegNext, EntryStep
<1> QED
  BY <1>1, <1>2

\* The inductive invariant holds in every reachable state.
THEOREM RegInvariant == RegSpec => []RegInv
<1> QED
  BY RegInitInv, RegStepInv, PTL DEF RegSpec

\* Every variable of the registry keeps its type.
THEOREM RegTypeCorrect == RegSpec => []RegTypeOK
<1>1. RegInv => RegTypeOK
  BY DEF RegInv
<1> QED
  BY <1>1, RegInvariant, PTL

\* RunnerCache.get of a registered channel never misses (runner_cache.py, the
\* warning "should never happen"): runners and categories change together, and no
\* entry of the index outlives its category.
THEOREM RunnerAlwaysThere == RegSpec => []RunnerForRegistered
<1>1. RegInv => RunnerForRegistered
  BY DEF RegInv, RunnersFollow, RunnerForRegistered
<1> QED
  BY <1>1, RegInvariant, PTL

\* No session channel stays deaf, whatever events are lost or overlap, unless the last
\* to register it was a handler with an object of an earlier connection
\* (channel_session.py, startup_scan and the channel events).
THEOREM NobodyDeaf == RegSpec => []NoDeafChannel
<1>1. RegInv => NoDeafChannel
  BY DEF RegInv
<1> QED
  BY <1>1, RegInvariant, PTL

-----------------------------------------------------------------------------
(***************************************************************************)
(* Upgrades beside runs                                                    *)
(***************************************************************************)
\* Whichever of the two moves, each takes a step of its own or none.
THEOREM RunsImplement == RunsSpec => Spec /\ UpSpec
<1>1. RunsInit => Init /\ UpInit
  BY DEF RunsInit
<1>2. [RunsNext]_allVars => [Next]_vars /\ [UpNext]_upVars
  BY DEF RunsNext, allVars
<1> QED
  BY <1>1, <1>2, PTL DEF RunsSpec, Spec, UpSpec

\* Every variable of both keeps its type, for all constants of both.
THEOREM RunsTypeCorrect == RunsSpec => []RunsTypeOK
<1>1. TypeOK /\ UpTypeOK => RunsTypeOK
  BY DEF RunsTypeOK
<1> QED
  BY <1>1, RunsImplement, TypeCorrect, UpTypeCorrect, PTL
=============================================================================
