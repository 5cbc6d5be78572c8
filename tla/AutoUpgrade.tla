----------------------------- MODULE AutoUpgrade ------------------------------
(***************************************************************************)
(* AutoUpgradeCog: the pipeline that upgrades the package and restarts the *)
(* bot, started by a webhook or by /upgrade, behind one asyncio.Lock; its  *)
(* two approval gates, which open by a reaction or a button; the drain,    *)
(* which polls the cogs that count their sessions; and WebhookTriggerCog,  *)
(* one of these cogs.  A step of the pipeline lasts from one await to the  *)
(* next one that matters.                                                  *)
(***************************************************************************)
EXTENDS Naturals, Sequences, FiniteSets, SequencesExt

CONSTANTS
  Webhooks, Commands, \* triggers of the pipeline by webhook, by /upgrade
  Chats,              \* threads of ClaudeChatCog: counted, and marked
  MaxBeside,          \* bound on the runs of one thread at a time
  Hooks,              \* prefixes of WebhookTriggerCog: counted, not marked
  Nobody,             \* no pipeline: holds a free lock, awaits an orphan
  MaxTimeouts         \* bound on the steps that time out

ASSUME UpgradeAssumption ==
  /\ Webhooks \cap Commands = {} /\ Nobody \notin Webhooks \cup Commands
  /\ IsFiniteSet(Hooks) /\ Chats \cap Hooks = {}
  /\ MaxTimeouts \in Nat /\ MaxBeside \in Nat

Pipelines == Webhooks \cup Commands

VARIABLES
  config,   \* what UpgradeConfig asks for
  pc,       \* pipeline -> what it awaits
  lock,     \* asyncio.Lock: its holder and the queue of those who wait
  gate,     \* the approval the holder waits for
  next,     \* what the holder does when the gate has opened
  commands, \* the package commands that run: pipeline and step
  env,      \* the environment on disk
  timeouts, \* number of steps that have timed out
  entries,  \* ClaudeChatCog._active_runners: the threads with an entry
  chats,    \* thread -> how many runs of ClaudeChatCog have a Claude in it
  hooks,    \* prefix -> what its trigger does, under the prefix's lock
  counted,  \* WebhookTriggerCog._active_count
  snapshot, \* the threads to be marked
  marked,   \* pending_resumes
  ousted,   \* history: threads whose entry a second run or a reset may have taken
  drained   \* history: who was running, not ousted, when the last drain ended

upVars == <<config, pc, lock, gate, next, commands, env, timeouts, entries, chats, hooks,
            counted, ousted, snapshot, marked, drained>>

Steps == {"upgrade", "sync"}
GatePCs == {"ask", "post", "wait"}
PipelinePCs == {"idle", "deferred", "queued", "restart", "snapshot", "drain", "mark", "leave"}
         \cup Steps \cup GatePCs
HookPCs == {"idle", "thread", "claude", "react"}
Commanding == [by : Pipelines \cup {Nobody}, step : Steps]
Closed == [watch |-> "off", button |-> "none", open |-> FALSE]
Gates == [watch : {"off", "listening", "reminding"},
          button : {"none", "up", "acking", "spent", "dead"}, open : BOOLEAN]

UpTypeOK ==
  /\ config \in [upgradeGate : BOOLEAN, restartGate : BOOLEAN, restarts : BOOLEAN]
  /\ pc \in [Pipelines -> PipelinePCs]
  /\ lock \in [holder : Pipelines \cup {Nobody}, queue : Seq(Pipelines)]
  /\ gate \in Gates
  /\ next \in PipelinePCs
  /\ commands \subseteq Commanding
  /\ env \in {"old", "locked", "synced"}
  /\ timeouts \in 0 .. MaxTimeouts
  /\ entries \subseteq Chats /\ ousted \subseteq Chats
  /\ chats \in [Chats -> 0 .. MaxBeside]
  /\ hooks \in [Hooks -> HookPCs]
  /\ counted \in 0 .. Cardinality(Hooks)
  /\ snapshot \subseteq Chats /\ marked \subseteq Chats
  /\ drained \subseteq Chats \cup Hooks

UpInit ==
  /\ config \in [upgradeGate : BOOLEAN, restartGate : BOOLEAN, restarts : BOOLEAN]
  /\ pc = [p \in Pipelines |-> "idle"]
  /\ lock = [holder |-> Nobody, queue |-> <<>>]
  /\ gate = Closed /\ next = "idle"
  /\ commands = {} /\ env = "old" /\ timeouts = 0
  /\ entries = {} /\ chats = [c \in Chats |-> 0] /\ ousted = {}
  /\ hooks = [h \in Hooks |-> "idle"] /\ counted = 0
  /\ snapshot = {} /\ marked = {} /\ drained = {}

chatVars == <<entries, chats, ousted>>
sessionVars == <<chatVars, hooks, counted>>
markVars == <<snapshot, marked, drained>>
commandVars == <<commands, env, timeouts>>

-----------------------------------------------------------------------------
(***************************************************************************)
(* The sessions of the other cogs.                                         *)
(***************************************************************************)
pipelineVars == <<config, pc, lock, gate, next, commandVars, markVars>>

\* _run_claude enters its runner, over that of a run beside it; the notice with
\* the Stop button may fail before the try, and the entry stays without a run.
ChatStarts(c) ==
  /\ entries' = entries \cup {c}
  /\ \/ /\ chats[c] < MaxBeside
        /\ chats' = [chats EXCEPT ![c] = @ + 1]
        /\ ousted' = IF chats[c] > 0 THEN ousted \cup {c} ELSE ousted
     \/ UNCHANGED <<chats, ousted>>
  /\ UNCHANGED <<hooks, counted, pipelineVars>>

\* The finally pops the entry of the thread, whosever it is.
ChatEnds(c) ==
  /\ chats[c] > 0
  /\ chats' = [chats EXCEPT ![c] = @ - 1]
  /\ entries' = entries \ {c}
  /\ ousted' = IF chats[c] = 1 THEN ousted \ {c} ELSE ousted
  /\ UNCHANGED <<hooks, counted, pipelineVars>>

\* /clear and /rewind kill the runner of the entry, which for a prompt with a
\* context is not the one whose Claude runs, and drop the entry.
ChatReset(c) ==
  /\ c \in entries
  /\ entries' = entries \ {c}
  /\ ousted' = IF chats[c] > 0 THEN ousted \cup {c} ELSE ousted
  /\ UNCHANGED <<chats, hooks, counted, pipelineVars>>

\* A webhook message of a prefix whose lock is taken is answered and skipped.
HookFires(h) ==
  /\ hooks[h] = "idle"
  /\ hooks' = [hooks EXCEPT ![h] = "thread"]
  /\ UNCHANGED <<chatVars, counted, pipelineVars>>

\* The thread has been created, or its creation has failed before the count.
HookStarts(h) ==
  /\ hooks[h] = "thread"
  /\ \/ hooks' = [hooks EXCEPT ![h] = "claude"] /\ counted' = counted + 1
     \/ hooks' = [hooks EXCEPT ![h] = "idle"] /\ UNCHANGED counted
  /\ UNCHANGED <<chatVars, pipelineVars>>

HookReacts(h) ==
  /\ hooks[h] = "claude"
  /\ hooks' = [hooks EXCEPT ![h] = "react"]
  /\ UNCHANGED <<chatVars, counted, pipelineVars>>

\* The reaction has been added, or the run or the reaction has raised.
HookEnds(h) ==
  /\ hooks[h] \in {"claude", "react"}
  /\ hooks' = [hooks EXCEPT ![h] = "idle"]
  /\ counted' = counted - 1
  /\ UNCHANGED <<chatVars, pipelineVars>>

-----------------------------------------------------------------------------
(***************************************************************************)
(* Triggers and the lock.                                                  *)
(***************************************************************************)
\* A process that was given up has nobody to wait for it.
HasProcess(p) == \E c \in commands : c.by = p

Await(p, at) == pc' = [pc EXCEPT ![p] = at]

\* asyncio.Lock: a free lock with waiters in its queue is not given to others.
\* Mutant: released before its waiter has taken it, a lock is anyone's.
EnterBarging(p) ==
  /\ lock' = [lock EXCEPT !.holder = p]
  /\ Await(p, IF config.upgradeGate THEN "ask" ELSE "upgrade")
  /\ next' = "upgrade"

Enter(p) ==
  IF lock.holder = Nobody /\ lock.queue = <<>>
  THEN /\ lock' = [lock EXCEPT !.holder = p]
       /\ Await(p, IF config.upgradeGate THEN "ask" ELSE "upgrade")
       /\ next' = "upgrade"
  ELSE /\ lock' = [lock EXCEPT !.queue = Append(@, p)]
       /\ Await(p, "queued")
       /\ UNCHANGED next

\* on_message: no await between locked() and the lock.
WebhookTriggers(p) ==
  /\ p \in Webhooks /\ pc[p] = "idle"
  /\ lock.holder = Nobody
  /\ Enter(p)
  /\ UNCHANGED <<config, gate, commandVars, sessionVars, markVars>>

\* upgrade_command: locked() is looked at before the response is deferred.
CommandChecks(p) ==
  /\ p \in Commands /\ pc[p] = "idle"
  /\ lock.holder = Nobody
  /\ Await(p, "deferred")
  /\ UNCHANGED <<config, lock, gate, next, commandVars, sessionVars, markVars>>

CommandEnters(p) ==
  /\ pc[p] = "deferred"
  /\ \/ Enter(p)
     \/ Await(p, "idle") /\ UNCHANGED <<lock, next>>
  /\ UNCHANGED <<config, gate, commandVars, sessionVars, markVars>>

Granted(p) ==
  /\ pc[p] = "queued"
  /\ lock.holder = Nobody /\ lock.queue # <<>> /\ Head(lock.queue) = p
  /\ lock' = [holder |-> p, queue |-> Tail(lock.queue)]
  /\ Await(p, IF config.upgradeGate THEN "ask" ELSE "upgrade")
  /\ next' = "upgrade"
  /\ UNCHANGED <<config, gate, commandVars, sessionVars, markVars>>

\* The pipeline is over: the last notice is posted and the lock released.
Leaves(p) ==
  /\ pc[p] = "leave"
  /\ Await(p, "idle")
  /\ lock' = [lock EXCEPT !.holder = Nobody]
  /\ next' = "idle" /\ snapshot' = {}
  /\ UNCHANGED <<config, gate, commandVars, sessionVars, marked, drained>>

\* Mutant: no "async with": a failed notice keeps the lock.
FailsUnlocking(p) ==
  /\ pc[p] \in Steps \cup GatePCs \cup {"drain", "mark", "restart"}
  /\ Await(p, "idle")
  /\ gate' = Closed
  /\ UNCHANGED <<config, lock, next, commandVars, sessionVars, markVars>>

\* Discord refuses one of the notices: the pipeline ends with an error.
Fails(p) ==
  /\ pc[p] \in Steps \cup {"ask", "post", "wait", "drain", "mark", "restart"}
  /\ pc[p] \in Steps => ~HasProcess(p)
  /\ pc[p] = "wait" => gate.open \/ gate.watch = "reminding"
  /\ Await(p, "leave")
  /\ gate' = Closed
  /\ UNCHANGED <<config, lock, next, commandVars, sessionVars, markVars>>

-----------------------------------------------------------------------------
(***************************************************************************)
(* The approval gates.                                                     *)
(***************************************************************************)
gateRest == <<config, lock, next, commandVars, sessionVars, markVars>>

\* The message to react to.
Ask(p) ==
  /\ pc[p] = "ask"
  /\ Await(p, "post")
  /\ UNCHANGED <<gate, gateRest>>

\* The button in the parent channel, if it can be posted; then both watchers.
PostButton(p) ==
  /\ pc[p] = "post"
  /\ Await(p, "wait")
  /\ \E b \in {"none", "up"} :
       gate' = [watch |-> "listening", button |-> b, open |-> FALSE]
  /\ UNCHANGED gateRest

\* A reaction is seen by a watcher that listens, not while it sends a reminder.
React(p) ==
  /\ pc[p] = "wait" /\ gate.watch = "listening"
  /\ gate' = [gate EXCEPT !.open = TRUE, !.watch = "off"]
  /\ UNCHANGED <<pc, gateRest>>

\* approve: the button is disabled, shown so, and then the event is set.
Press(p) ==
  /\ pc[p] = "wait" /\ gate.button \in {"up", "spent"}
  /\ gate' = [gate EXCEPT !.button = "acking"]
  /\ UNCHANGED <<pc, gateRest>>

Acknowledged(p) ==
  /\ pc[p] = "wait" /\ gate.button = "acking"
  /\ \/ gate' = [gate EXCEPT !.button = "dead", !.open = TRUE]
     \/ gate' = [gate EXCEPT !.button = "spent"]
  /\ UNCHANGED <<pc, gateRest>>

WatchTimesOut(p) ==
  /\ pc[p] = "wait" /\ gate.watch = "listening"
  /\ gate' = [gate EXCEPT !.watch = IF gate.open THEN "off" ELSE "reminding"]
  /\ UNCHANGED <<pc, gateRest>>

\* bump posts the view again, with its button as the view has it.
Reminded(p) ==
  /\ pc[p] = "wait" /\ gate.watch = "reminding"
  /\ gate' = [gate EXCEPT
       !.watch = IF gate.open THEN "off" ELSE "listening",
       !.button = IF ~gate.open /\ @ = "spent" THEN "dead" ELSE @]
  /\ UNCHANGED <<pc, gateRest>>

GateOpens(p) ==
  /\ pc[p] = "wait" /\ gate.open
  /\ Await(p, next)
  /\ gate' = Closed
  /\ UNCHANGED gateRest

-----------------------------------------------------------------------------
(***************************************************************************)
(* The steps of the pipeline.                                              *)
(***************************************************************************)
Begin(p) ==
  /\ pc[p] \in Steps /\ ~HasProcess(p)
  /\ commands' = commands \cup {[by |-> p, step |-> pc[p]]}
  /\ env' = IF pc[p] = "upgrade" THEN "locked" ELSE env
  /\ UNCHANGED <<config, pc, lock, gate, next, timeouts, sessionVars, markVars>>

\* What comes after a step that has succeeded.
After(step) ==
  IF step = "upgrade" THEN "sync"
  ELSE IF ~config.restarts THEN "leave"
  ELSE IF config.restartGate THEN "ask" ELSE "snapshot"

CommandEnds(c) ==
  /\ c \in commands
  /\ commands' = commands \ {c}
  /\ \E ok \in BOOLEAN :
       /\ env' = IF ok /\ c.step = "sync" THEN "synced" ELSE env
       /\ IF c.by # Nobody
          THEN /\ Await(c.by, IF ok THEN After(c.step) ELSE "leave")
               /\ next' = IF ok /\ c.step = "sync" THEN "snapshot" ELSE next
          ELSE UNCHANGED <<pc, next>>
  /\ UNCHANGED <<config, lock, gate, timeouts, sessionVars, markVars>>

\* wait_for gives up; nobody kills the process.
StepTimesOut(c) ==
  /\ c \in commands /\ c.by # Nobody
  /\ timeouts < MaxTimeouts
  /\ timeouts' = timeouts + 1
  /\ commands' = (commands \ {c}) \cup {[c EXCEPT !.by = Nobody]}
  /\ Await(c.by, "leave")
  /\ UNCHANGED <<config, lock, gate, next, env, sessionVars, markVars>>

\* Who has a Claude running; the drain asks the cogs for their counts instead.
Busy == {c \in Chats : chats[c] > 0} \cup {h \in Hooks : hooks[h] \in {"claude", "react"}}

\* Mutant: any cog instead of all.
IdleSome == entries = {} \/ counted = 0

\* _auto_drain_check: active_count is the length of _active_runners.
Idle == entries = {} /\ counted = 0

\* The snapshot of _active_runners, and the first check.
Snapshot(p) ==
  /\ pc[p] = "snapshot"
  /\ snapshot' = entries
  /\ drained' = IF Idle THEN Busy \ ousted ELSE drained
  /\ Await(p, IF Idle THEN "mark" ELSE "drain")
  /\ UNCHANGED <<config, lock, gate, next, commandVars, sessionVars, marked>>

DrainPoll(p) ==
  /\ pc[p] = "drain" /\ Idle
  /\ drained' = Busy \ ousted
  /\ Await(p, "mark")
  /\ UNCHANGED <<config, lock, gate, next, commandVars, sessionVars, snapshot, marked>>

\* "restarting anyway"
DrainTimesOut(p) ==
  /\ pc[p] = "drain"
  /\ drained' = {}
  /\ Await(p, "mark")
  /\ UNCHANGED <<config, lock, gate, next, commandVars, sessionVars, snapshot, marked>>

\* _mark_sessions_for_resume goes on with the next thread when one fails.
Mark(p) ==
  /\ pc[p] = "mark"
  /\ \E s \in SUBSET snapshot : marked' = marked \cup s
  /\ Await(p, "restart")
  /\ UNCHANGED <<config, lock, gate, next, commandVars, sessionVars, snapshot, drained>>

\* The restart command runs without being waited for, and may come to nothing.
Restart(p) ==
  /\ pc[p] = "restart"
  /\ \/ Await(p, "leave")
        /\ UNCHANGED <<config, lock, gate, next, commandVars, sessionVars, markVars>>
     \/ /\ pc' = [q \in Pipelines |-> "idle"]
        /\ lock' = [holder |-> Nobody, queue |-> <<>>]
        /\ gate' = Closed /\ next' = "idle"
        /\ entries' = {} /\ chats' = [c \in Chats |-> 0] /\ ousted' = {}
        /\ hooks' = [h \in Hooks |-> "idle"] /\ counted' = 0
        /\ snapshot' = {} /\ marked' = {} /\ drained' = {}
        /\ UNCHANGED <<config, commandVars>>

-----------------------------------------------------------------------------
PipelineStep(p) ==
  \/ CommandEnters(p) \/ Granted(p) \/ Leaves(p)
  \/ Ask(p) \/ PostButton(p) \/ GateOpens(p)
  \/ Begin(p) \/ Snapshot(p) \/ DrainPoll(p) \/ DrainTimesOut(p) \/ Mark(p) \/ Restart(p)

GateStep(p) == Acknowledged(p) \/ WatchTimesOut(p) \/ Reminded(p)

UserActs(p) ==
  WebhookTriggers(p) \/ CommandChecks(p) \/ React(p) \/ Press(p)

UpNext ==
  \/ \E c \in Chats : ChatStarts(c) \/ ChatEnds(c) \/ ChatReset(c)
  \/ \E h \in Hooks : HookFires(h) \/ HookStarts(h) \/ HookReacts(h) \/ HookEnds(h)
  \/ \E p \in Pipelines : UserActs(p) \/ PipelineStep(p) \/ GateStep(p) \/ Fails(p)
  \/ \E c \in commands : CommandEnds(c) \/ StepTimesOut(c)

UpSpec == UpInit /\ [][UpNext]_upVars

\* The event loop goes on, a package command ends by itself (step_timeout bounds
\* how long it is waited for), and nothing is asked of users or sessions.
UpFairness ==
  /\ \A p \in Pipelines : WF_upVars(PipelineStep(p))
  /\ WF_upVars(\E c \in commands : CommandEnds(c))

UpFairSpec == UpSpec /\ UpFairness

-----------------------------------------------------------------------------
\* A pipeline restarts the bot into what it has installed itself: its own commands
\* have succeeded, and no other pipeline has touched the environment since, as long
\* as no step was abandoned in mid-run (auto_upgrade.py:240, "Skipping").
RestartsWhatItBuilt ==
  \A p \in Pipelines :
    pc[p] \in {"snapshot", "drain", "mark", "restart"} /\ timeouts = 0
      => env = "synced" /\ commands = {}

\* When the drain says that the sessions have finished, no thread and no webhook
\* trigger has a Claude running, although the counts are kept apart from the runs
\* (protocols.py, "waits for every one to reach active_count == 0"); but a thread
\* with two runs at a time, or reset in mid-run, loses its entry and runs unseen.
DrainRespected == drained = {}

\* A trigger is worked off, however often Discord fails, sessions go on for ever
\* or earlier pipelines time out, unless a pipeline waits for a user's approval.
TriggerEnds ==
  \A p \in Pipelines :
    pc[p] # "idle" ~>
      \/ pc[p] = "idle"
      \/ \E q \in Pipelines : pc[q] = "wait" /\ ~gate.open

=============================================================================
