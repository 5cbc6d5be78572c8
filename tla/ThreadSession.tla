---------------------------- MODULE ThreadSession -----------------------------
(***************************************************************************)
(* Thread mode: one Discord thread is one Claude session (ClaudeChatCog),  *)
(* and the sessions that a restart of the bot interrupts are resumed       *)
(* (PendingResumeRepository, cog_unload, on_ready).                        *)
(*                                                                         *)
(* A call is one coroutine that acts on a thread: a message, a slash       *)
(* command, a session started by the API, a fork or a resume.  A step is   *)
(* what runs between two awaits.  The cog's two dictionaries, the calls    *)
(* and the Claude processes die with the bot; the sessions table and the   *)
(* pending_resumes table survive it.                                       *)
(***************************************************************************)
EXTENDS Naturals

CONSTANTS
  Threads,
  Calls,
  ContextCalls,  \* calls whose run gets a system context, so a cloned runner
  SkillCalls,    \* bound: the calls that may be a /skill
  Handlers,      \* the on_ready tasks that may be under way at once
  MaxMarks,      \* bound: rows ever written to pending_resumes
  None

ASSUME NoneAssumption == None \notin Threads \cup Calls
ASSUME ContextAssumption == ContextCalls \subseteq Calls
ASSUME SkillAssumption == SkillCalls \subseteq Calls

VARIABLES
  runner,    \* thread -> the call whose runner is in _active_runners, or None
  task,      \* thread -> the call whose task is in _active_tasks, or None
  row,       \* thread -> session in the sessions table, or None
  call,      \* call -> where the coroutine is and what it has captured
  marks,     \* rows of pending_resumes
  written,   \* last row id of pending_resumes
  marking,   \* locals of cog_unload, /api/mark-resume or AutoUpgrade's marking
  ready,     \* on_ready task -> its locals
  calm,      \* the users' pace, see Quiet: chosen once
  given,     \* thread -> session it was made with, or None (history)
  shared,    \* rows that two on_ready tasks of a process have read (history)
  doubled    \* threads that on_ready has resumed beside a call (history)

resumes == <<marks, written, marking, ready, shared, doubled>>

vars == <<runner, task, row, call, resumes, calm, given>>

\* _run_claude knows a message, a spawned and a resumed session only by its
\* arguments; a "reset" is a /rewind that finds no history; a "skill" is a /skill,
\* which calls run_claude_with_config past the cog and its two dictionaries.
Kinds == {"message", "compact", "clear", "rewind", "reset", "fork", "skill"}

\* The coroutine has not yet entered its runner, or not yet deleted the row:
\* another one does not see it.
SettingUp == {"lookup", "prompt", "notice", "exitwait", "join", "begin", "setup",
              "menu", "killwait", "delete"}

\* It has entered its task.
Begun == {"setup", "start", "running"}

\* Its task is over; "leaked" if its entries stayed behind.
Over == {"done", "leaked"}

PCs == {"idle"} \cup SettingUp \cup Begun \cup Over

\* A Claude session is named by the call whose run created it.
Sessions == Calls \cup {None}

Marks == [id : Nat, thread : Threads, session : Sessions]

CallRecords ==
  [pc : PCs, kind : Kinds, thread : Threads \cup {None}, session : Sessions,
   prev : Calls \cup {None}, wait : Calls \cup {None}, mark : Nat, alive : BOOLEAN]

TypeOK ==
  /\ runner \in [Threads -> Calls \cup {None}]
  /\ task \in [Threads -> Calls \cup {None}]
  /\ row \in [Threads -> Sessions]
  /\ call \in [Calls -> CallRecords]
  /\ marks \in SUBSET Marks
  /\ written \in Nat
  /\ marking \in [todo : SUBSET Threads, cur : Threads \cup {None}, session : Sessions]
  /\ ready \in [Handlers -> [todo : SUBSET Marks, cur : SUBSET Marks]]
  /\ calm \in BOOLEAN
  /\ given \in [Threads -> Sessions]
  /\ shared \in SUBSET Nat
  /\ doubled \in SUBSET Threads

Placed(kind, t, pc, s) ==
  [pc |-> pc, kind |-> kind, thread |-> t, session |-> s, prev |-> None,
   wait |-> None, mark |-> 0, alive |-> FALSE]

NoMarking == [todo |-> {}, cur |-> None, session |-> None]
NotReady == [todo |-> {}, cur |-> {}]

Init ==
  /\ runner = [t \in Threads |-> None]
  /\ task = [t \in Threads |-> None]
  /\ row = [t \in Threads |-> None]
  /\ call = [c \in Calls |-> Placed("message", None, "idle", None)]
  /\ marks = {}
  /\ written = 0
  /\ marking = NoMarking
  /\ ready = [h \in Handlers |-> NotReady]
  /\ calm \in BOOLEAN
  /\ given = [t \in Threads |-> None]
  /\ shared = {}
  /\ doubled = {}

Live(d) == call[d].pc \in SettingUp \cup Begun

\* A row of pending_resumes for the thread waits for on_ready to handle it.
Resuming(t) ==
  \/ \E m \in marks : m.thread = t
  \/ \E h \in Handlers : \E m \in ready[h].todo \cup ready[h].cur : m.thread = t

\* When the users are calm, they do nothing in a thread while another call of that
\* thread is invisible to it.
Quiet(t) ==
  calm => \A d \in Calls : call[d].thread = t => call[d].pc \notin SettingUp

\* And they reset a session only when it is idle.
Idle(t) == calm => \A d \in Calls : call[d].thread = t => ~Live(d)

\* No handler has seen the thread: Discord has just created it.
Untouched(t) ==
  /\ \A d \in Calls : call[d].thread # t
  /\ row[t] = None
  /\ ~Resuming(t)

\* ClaudeRunner.interrupt and kill reach only a process of that very object, and
\* run_claude_with_config starts the process in a clone if there is a context.
Reaches(d) == d \in Calls \ ContextCalls /\ call[d].alive

Finished(d) == IF d = None THEN TRUE ELSE call[d].pc \in Over

-----------------------------------------------------------------------------
(***************************************************************************)
(* What users and the API start.                                           *)
(***************************************************************************)
Place(c, r) == call[c].pc = "idle" /\ call' = [call EXCEPT ![c] = r]

\* on_message in a thread, /compact and /rewind: all read the row first.
Arrive(c, kind, t) ==
  /\ Quiet(t)
  /\ kind \in {"rewind", "reset"} => Idle(t)
  /\ Place(c, Placed(kind, t, "lookup", None))
  /\ UNCHANGED <<runner, task, row, resumes, calm, given>>

\* /clear: a runner that cannot be reached is taken out without a wait.
Clear(c, t) ==
  /\ Quiet(t) /\ Idle(t)
  /\ LET u == runner[t] IN
       \/ /\ ~Reaches(u)
          /\ Place(c, Placed("clear", t, "delete", None))
          /\ runner' = [runner EXCEPT ![t] = None]
       \/ /\ Reaches(u)
          /\ Place(c, [Placed("clear", t, "killwait", None) EXCEPT !.prev = u])
          /\ UNCHANGED runner
  /\ UNCHANGED <<task, row, resumes, calm, given>>

\* /skill in a thread captures the row's session, and interrupts nothing.
Skill(c, t) ==
  /\ c \in SkillCalls /\ Quiet(t)
  /\ Place(c, Placed("skill", t, "begin", row[t]))
  /\ UNCHANGED <<runner, task, row, resumes, calm, given>>

\* A new conversation, POST /api/spawn, a /skill outside the threads, or the resume
\* menu, which hands an existing session over to the new thread.
Spawn(c, kind, t, s) ==
  /\ Untouched(t)
  /\ kind = "skill" => c \in SkillCalls
  /\ Place(c, Placed(kind, t, "begin", s))
  /\ given' = [given EXCEPT ![t] = s]
  /\ UNCHANGED <<runner, task, row, resumes, calm>>

Fork(c, t, u) ==
  /\ Untouched(t)
  /\ row[u] # None
  /\ Place(c, Placed("fork", t, "begin", row[u]))
  /\ given' = [given EXCEPT ![t] = row[u]]
  /\ UNCHANGED <<runner, task, row, resumes, calm>>

-----------------------------------------------------------------------------
(***************************************************************************)
(* The handlers up to the start of a run.                                  *)
(***************************************************************************)
Goto(c, pc) == call' = [call EXCEPT ![c].pc = pc]

\* The coroutine is over, and its locals are gone.
Ended(c, pc) == [Placed("message", call[c].thread, pc, None) EXCEPT !.mark = call[c].mark]
End(c, pc) == call' = [call EXCEPT ![c] = Ended(c, pc)]

\* The synchronous head of _run_claude.
Begin(c) ==
  /\ task' = [task EXCEPT ![call[c].thread] = c]
  /\ call' = [call EXCEPT ![c].pc = "setup", ![c].prev = None, ![c].wait = None]

\* _handle_thread_reply and /compact capture the session of the row here.
\* /compact gives up without a session, or next to a run.
Lookup(c) ==
  LET t == call[c].thread IN
  /\ call[c].pc = "lookup"
  /\ \/ /\ call[c].kind = "message"
        /\ call' = [call EXCEPT ![c].pc = "prompt", ![c].session = row[t]]
     \/ /\ call[c].kind = "compact" /\ row[t] # None /\ runner[t] = None
        /\ call' = [call EXCEPT ![c].pc = "begin", ![c].session = row[t]]
     \/ /\ call[c].kind = "compact" /\ (row[t] = None \/ runner[t] # None)
        /\ End(c, "done")
     \/ /\ call[c].kind \in {"rewind", "reset"} /\ row[t] = None
        /\ End(c, "done")
     \/ /\ call[c].kind \in {"rewind", "reset"} /\ row[t] # None
        /\ Goto(c, "menu")
  /\ UNCHANGED <<runner, task, row, resumes, calm, given>>

\* A message with nothing to send is dropped, a menu may stay unanswered.
Drop(c) ==
  /\ call[c].pc = "prompt" \/ (call[c].pc = "menu" /\ call[c].kind = "rewind")
  /\ End(c, "done")
  /\ UNCHANGED <<runner, task, row, resumes, calm, given>>

\* Mutant: a message enters its own task before it looks for another's.
CheckRunnerReserves(c) ==
  LET t == call[c].thread IN
  /\ call[c].pc = "prompt"
  /\ task' = [task EXCEPT ![t] = c]
  /\ \/ runner[t] = None /\ Goto(c, "setup")
     \/ /\ runner[t] # None
        /\ call' = [call EXCEPT ![c].pc = "notice", ![c].prev = runner[t], ![c].wait = c]
  /\ UNCHANGED <<runner, row, resumes, calm, given>>

\* The prompt is built: is there a run to interrupt?
CheckRunner(c) ==
  LET t == call[c].thread IN
  /\ call[c].pc = "prompt"
  /\ \/ runner[t] = None /\ Begin(c)
     \/ /\ runner[t] # None
        /\ call' = [call EXCEPT ![c].pc = "notice", ![c].prev = runner[t],
                                ![c].wait = task[t]]
        /\ UNCHANGED task
  /\ UNCHANGED <<runner, row, resumes, calm, given>>

\* Mutant: the interrupted run is not awaited.
AwaitTaskSkipped(c) == Begin(c)

\* The interrupted run is awaited, and then this one begins.
AwaitTask(c) ==
  \/ Finished(call[c].wait) /\ Begin(c)
  \/ ~Finished(call[c].wait) /\ Goto(c, "join") /\ UNCHANGED task

\* The notice is sent (an exception ends the handler) and the run interrupted.
Interrupt(c) ==
  /\ call[c].pc = "notice"
  /\ \/ End(c, "done") /\ UNCHANGED task
     \/ Reaches(call[c].prev) /\ Goto(c, "exitwait") /\ UNCHANGED task
     \/ ~Reaches(call[c].prev) /\ AwaitTask(c)
  /\ UNCHANGED <<runner, row, resumes, calm, given>>

Interrupted(c) ==
  /\ call[c].pc = "exitwait" /\ ~call[call[c].prev].alive
  /\ AwaitTask(c)
  /\ UNCHANGED <<runner, row, resumes, calm, given>>

Joined(c) ==
  /\ call[c].pc = "join" /\ Finished(call[c].wait)
  /\ Begin(c)
  /\ UNCHANGED <<runner, row, resumes, calm, given>>

BeginRun(c) ==
  /\ call[c].pc = "begin" /\ call[c].kind # "skill"
  /\ Begin(c)
  /\ UNCHANGED <<runner, row, resumes, calm, given>>

-----------------------------------------------------------------------------
(***************************************************************************)
(* Resetting a session.                                                    *)
(***************************************************************************)

\* /rewind, with a turn chosen or without a history: pop the runner, kill it.
PopRunner(c) ==
  LET t == call[c].thread
      u == runner[t] IN
  /\ call[c].pc = "menu"
  /\ runner' = [runner EXCEPT ![t] = None]
  /\ \/ ~Reaches(u) /\ call[c].kind = "reset" /\ Goto(c, "delete")
     \/ ~Reaches(u) /\ call[c].kind = "rewind" /\ End(c, "done")
     \/ /\ Reaches(u)
        /\ call' = [call EXCEPT ![c].pc = "killwait", ![c].prev = u]
  /\ UNCHANGED <<task, row, resumes, calm, given>>

\* The killed process is gone.  /clear takes the entry out only now, and fails
\* with a KeyError if the run's own finally was faster.
Killed(c) ==
  LET t == call[c].thread IN
  /\ call[c].pc = "killwait" /\ ~call[call[c].prev].alive
  /\ \/ /\ call[c].kind = "clear"
        /\ \/ runner[t] = None /\ End(c, "done")
           \/ runner[t] # None /\ Goto(c, "delete")
        /\ runner' = [runner EXCEPT ![t] = None]
     \/ call[c].kind = "reset" /\ Goto(c, "delete") /\ UNCHANGED runner
     \/ call[c].kind = "rewind" /\ End(c, "done") /\ UNCHANGED runner
  /\ UNCHANGED <<task, row, resumes, calm, given>>

DeleteRow(c) ==
  /\ call[c].pc = "delete"
  /\ row' = [row EXCEPT ![call[c].thread] = None]
  /\ End(c, "done")
  /\ UNCHANGED <<runner, task, resumes, calm, given>>

-----------------------------------------------------------------------------
(***************************************************************************)
(* A run.                                                                  *)
(***************************************************************************)
Install(c) ==
  /\ call[c].pc = "setup"
  /\ runner' = [runner EXCEPT ![call[c].thread] = c]
  /\ Goto(c, "start")
  /\ UNCHANGED <<task, row, resumes, calm, given>>

\* All this is outside the try block: if the dashboard, the settings or the stop
\* button fail, the entries stay.  /compact (chat_only) posts no button.
SetupFails(c) ==
  /\ call[c].pc = "setup" \/ (call[c].pc = "start" /\ call[c].kind # "compact")
  /\ End(c, "leaked")
  /\ UNCHANGED <<runner, task, row, resumes, calm, given>>

Launch(c) ==
  /\ call[c].pc = "start"
  /\ call' = [call EXCEPT ![c].pc = "running", ![c].alive = TRUE]
  /\ UNCHANGED <<runner, task, row, resumes, calm, given>>

\* A skill's run makes no entry.  Its reply to the user, or what comes before the
\* subprocess, may fail.
SkillStarts(c) ==
  /\ call[c].pc = "begin" /\ call[c].kind = "skill"
  /\ \/ call' = [call EXCEPT ![c].pc = "running", ![c].alive = TRUE]
     \/ End(c, "done")
  /\ UNCHANGED <<runner, task, row, resumes, calm, given>>

SkillEnds(c) ==
  /\ call[c].pc = "running" /\ call[c].kind = "skill" /\ ~call[c].alive
  /\ End(c, "done")
  /\ UNCHANGED <<runner, task, row, resumes, calm, given>>

\* Mutant: the arguments of repo.save are swapped.
SessionOfSwapped(c) == call[c].thread

\* --fork-session is a setting of the runner that a clone does not take over.
SessionOf(c) ==
  IF call[c].session = None \/ (call[c].kind = "fork" /\ c \notin ContextCalls)
  THEN c ELSE call[c].session

\* A SYSTEM or RESULT event, possibly read after the process has exited.
Report(c) ==
  /\ call[c].pc = "running"
  /\ row' = [row EXCEPT ![call[c].thread] = SessionOf(c)]
  /\ UNCHANGED <<runner, task, call, resumes, calm, given>>

\* The process ends by itself, by the stop button or by a signal.
ProcExit(c) ==
  /\ call[c].alive
  /\ call' = [call EXCEPT ![c].alive = FALSE]
  /\ UNCHANGED <<runner, task, row, resumes, calm, given>>

\* Mutant: only the task is popped.
CallEndKeepsRunner(c) ==
  /\ call[c].pc = "running" /\ call[c].kind # "skill" /\ ~call[c].alive
  /\ task' = [task EXCEPT ![call[c].thread] = None]
  /\ End(c, "done")
  /\ UNCHANGED <<runner, row, resumes, calm, given>>

\* The finally of _run_claude pops the thread's entries, whoever made them.
CallEnd(c) ==
  /\ call[c].pc = "running" /\ call[c].kind # "skill" /\ ~call[c].alive
  /\ runner' = [runner EXCEPT ![call[c].thread] = None]
  /\ task' = [task EXCEPT ![call[c].thread] = None]
  /\ End(c, "done")
  /\ UNCHANGED <<row, resumes, calm, given>>

-----------------------------------------------------------------------------
(***************************************************************************)
(* Restart and resume.                                                     *)
(***************************************************************************)

\* cog_unload and AutoUpgrade take every thread with a runner,
\* /api/mark-resume the thread of the session that asks for a restart.
MarkBegins(T) ==
  /\ marking.todo = {} /\ marking.cur = None /\ written < MaxMarks
  /\ T # {}
  /\ \/ T = {t \in Threads : runner[t] # None}
     \/ \E t \in Threads : T = {t} /\ runner[t] # None
  /\ marking' = [NoMarking EXCEPT !.todo = T]
  /\ UNCHANGED <<runner, task, row, call, marks, written, ready, calm, given, shared,
               doubled>>

\* Mutant: session_id is not reset to None for a thread without a row.
MarkReadsStale(t) ==
  /\ marking.cur = None /\ t \in marking.todo /\ written < MaxMarks
  /\ marking' = [todo |-> marking.todo \ {t}, cur |-> t,
                 session |-> IF row[t] = None THEN marking.session ELSE row[t]]
  /\ UNCHANGED <<runner, task, row, call, marks, written, ready, calm, given, shared,
               doubled>>

MarkReads(t) ==
  /\ marking.cur = None /\ t \in marking.todo /\ written < MaxMarks
  /\ marking' = [todo |-> marking.todo \ {t}, cur |-> t, session |-> row[t]]
  /\ UNCHANGED <<runner, task, row, call, marks, written, ready, calm, given, shared,
               doubled>>

\* The next thread; after the last one, or at the bound, the loop is over.
NextMarked(bound) ==
  marking' = IF marking.todo = {} \/ bound THEN NoMarking ELSE [marking EXCEPT !.cur = None]

\* INSERT OR REPLACE: one row per thread, with a new id.
MarkWrites ==
  /\ marking.cur # None /\ written < MaxMarks
  /\ marks' = {m \in marks : m.thread # marking.cur}
              \cup {[id |-> written + 1, thread |-> marking.cur, session |-> marking.session]}
  /\ written' = written + 1
  /\ NextMarked(written + 1 = MaxMarks)
  /\ UNCHANGED <<runner, task, row, call, ready, calm, given, shared, doubled>>

\* A mark that fails is logged, and the next thread is marked.
MarkFails ==
  /\ marking.cur # None
  /\ NextMarked(FALSE)
  /\ UNCHANGED <<runner, task, row, call, marks, written, ready, calm, given, shared,
               doubled>>

\* The process dies, whatever it was doing, and a new one starts.
Restart ==
  /\ runner' = [t \in Threads |-> None]
  /\ task' = [t \in Threads |-> None]
  /\ call' = [c \in Calls |->
                IF Live(c) THEN Ended(c, "done") ELSE call[c]]
  /\ marking' = NoMarking
  /\ ready' = [h \in Handlers |-> NotReady]
  /\ doubled' = {}
  /\ UNCHANGED <<row, marks, written, calm, given, shared>>

\* on_ready runs as a task of its own at every connection of the gateway, beside
\* whatever goes on.  It reads the rows and prunes the expired ones.
OnReady(h, kept) ==
  /\ ready[h] = NotReady
  /\ kept # {} /\ kept \subseteq marks
  /\ marks' = kept
  /\ ready' = [ready EXCEPT ![h].todo = kept]
  /\ shared' = shared \cup
                 {m.id : m \in {k \in kept : \E g \in Handlers : k \in ready[g].todo}}
  /\ UNCHANGED <<runner, task, row, call, written, marking, calm, given, doubled>>

\* Mutant: the row is not deleted.
ReadyDeleteKeeps(h, m) ==
  /\ ready[h].cur = {} /\ m \in ready[h].todo
  /\ ready' = [ready EXCEPT ![h] = [todo |-> @.todo \ {m}, cur |-> {m}]]
  /\ UNCHANGED <<runner, task, row, call, marks, written, marking, calm, given, shared,
               doubled>>

\* The row is deleted first.
ReadyDelete(h, m) ==
  /\ ready[h].cur = {} /\ m \in ready[h].todo
  /\ marks' = {n \in marks : n.id # m.id}
  /\ ready' = [ready EXCEPT ![h] = [todo |-> @.todo \ {m}, cur |-> {m}]]
  /\ UNCHANGED <<runner, task, row, call, written, marking, calm, given, shared,
               doubled>>

\* A deletion that raises ends the task.
ReadyFails(h) ==
  /\ ready[h].cur = {} /\ ready[h].todo # {}
  /\ ready' = [ready EXCEPT ![h] = NotReady]
  /\ UNCHANGED <<runner, task, row, call, marks, written, marking, calm, given, shared,
               doubled>>

\* The thread is not found, or the seed message is not sent.
ReadySkip(h) ==
  /\ ready[h].cur # {}
  /\ ready' = [ready EXCEPT ![h].cur = {}]
  /\ UNCHANGED <<runner, task, row, call, marks, written, marking, calm, given, shared,
               doubled>>

\* create_task(_run_claude(...)), without a look at the thread's run.
Resume(c, h, m) ==
  /\ m \in ready[h].cur
  /\ Place(c, [Placed("message", m.thread, "begin", m.session) EXCEPT !.mark = m.id])
  /\ ready' = [ready EXCEPT ![h].cur = {}]
  /\ doubled' = doubled \cup
                  {t \in {m.thread} : \E d \in Calls : call[d].thread = t /\ Live(d)}
  /\ UNCHANGED <<runner, task, row, marks, written, marking, calm, given, shared>>

-----------------------------------------------------------------------------
UserStep ==
  \E c \in Calls, t \in Threads :
    \/ \E kind \in {"message", "compact", "rewind", "reset"} : Arrive(c, kind, t)
    \/ Clear(c, t)
    \/ Skill(c, t)
    \/ \E kind \in {"message", "skill"} : Spawn(c, kind, t, None)
    \/ \E u \in Threads : Spawn(c, "message", t, row[u])
    \/ \E u \in Threads : Fork(c, t, u)

CallStep(c) ==
  \/ Lookup(c) \/ Drop(c) \/ CheckRunner(c) \/ Interrupt(c) \/ Interrupted(c)
  \/ Joined(c) \/ BeginRun(c) \/ PopRunner(c) \/ Killed(c) \/ DeleteRow(c)
  \/ Install(c) \/ SetupFails(c) \/ Launch(c) \/ CallEnd(c)
  \/ SkillStarts(c) \/ SkillEnds(c)

ClaudeStep(c) == Report(c) \/ ProcExit(c)

ReadyStep(h) ==
  \/ \E kept \in SUBSET marks : OnReady(h, kept)
  \/ \E m \in ready[h].todo : ReadyDelete(h, m)
  \/ ReadyFails(h)
  \/ ReadySkip(h)
  \/ \E c \in Calls, m \in ready[h].cur : Resume(c, h, m)

RestartStep ==
  \/ \E T \in SUBSET Threads : MarkBegins(T)
  \/ \E t \in Threads : MarkReads(t)
  \/ MarkWrites \/ MarkFails
  \/ Restart
  \/ \E h \in Handlers : ReadyStep(h)

Next ==
  \/ UserStep
  \/ \E c \in Calls : CallStep(c) \/ ClaudeStep(c)
  \/ RestartStep

Spec == Init /\ [][Next]_vars

\* Every await of the bot's own coroutines returns, and Claude finishes what it
\* is given.
FairSpec ==
  /\ Spec
  /\ \A c \in Calls : WF_vars(CallStep(c)) /\ WF_vars(ProcExit(c))

-----------------------------------------------------------------------------
(***************************************************************************)
(* What holds whatever the users do, and however it interleaves.           *)
(***************************************************************************)

\* A session belongs to a thread if a run of that thread created it, or if it was
\* handed over when the thread was made.
Own(t, s) ==
  s = given[t] \/ call[s].thread = t

\* Neither a thread's row, nor a mark, nor a handler that has captured a session
\* ever carries a session from one thread to another, across interruptions,
\* resets, failed marks and restarts.
SessionOrigin ==
  /\ \A t \in Threads : row[t] # None => Own(t, row[t])
  /\ \A c \in Calls : call[c].session # None => Own(call[c].thread, call[c].session)
  /\ \A m \in marks : m.session # None => Own(m.thread, m.session)

\* A row of pending_resumes resumes its thread at most once, wherever a crash or
\* a second restart falls between its being read, deleted and acted upon
\* (resume_repo.py: "Single-fire"), unless two on_ready tasks of one process had
\* both read it before either deleted it: then it may be resumed by each.
SingleFire ==
  \A c, d \in Calls :
    /\ call[c].mark # 0
    /\ call[c].mark = call[d].mark
    /\ call[c].mark \notin shared
    => c = d

\* active_count, for which an upgrade waits, counts runs that are on their way and
\* those whose stop button could not be posted, although overlapping runs of a
\* thread overwrite and pop each other's entries.
CountsLive ==
  \A t \in Threads : runner[t] # None =>
    /\ call[runner[t]].thread = t
    /\ call[runner[t]].pc \in {"start", "running", "leaked"}

\* A handler waits only for a run that has got past its own waiting, or for one
\* whose process it has seen: messages and resets that replace each other cannot
\* end up waiting in a circle.
WaitsOnBegun ==
  \A c \in Calls :
    /\ call[c].pc = "join" => call[c].wait # None /\ call[call[c].wait].pc \in Begun \cup Over
    /\ call[c].pc \in {"notice", "exitwait", "killwait"} =>
         call[c].prev # None /\ call[call[c].prev].pc \in Begun \cup Over

-----------------------------------------------------------------------------
(***************************************************************************)
(* What holds when the users are calm.                                     *)
(***************************************************************************)

\* At most one run that the cog started for a thread is on its way, whether a
\* message that interrupted another started it, a command, the API or on_ready, at
\* a reconnection or after a restart; unless, since the bot started, on_ready has
\* resumed the thread beside a call of it, which it does not look for.  The run of
\* a /skill is never counted: it starts beside any other, and no message sees it.
OneRun ==
  calm => \A c, d \in Calls :
    /\ call[c].thread = call[d].thread
    /\ call[c].thread \notin doubled
    /\ "skill" \notin {call[c].kind, call[d].kind}
    /\ call[c].pc \in Begun
    /\ call[d].pc \in Begun
    => c = d

-----------------------------------------------------------------------------
(***************************************************************************)
(* What the repository says and the code does not do.                      *)
(***************************************************************************)

\* README.md: a fork is "a truly independent session copy".
ForkIndependent ==
  \A c \in Calls : call[c].kind = "fork" => row[call[c].thread] # call[c].session

\* _handle_thread_reply: "Continue a Claude Code session in an existing thread": here,
\* the session of a run that the message interrupts.
ReplyContinues ==
  [][calm => \A c \in Calls :
       call[c].pc \in {"notice", "exitwait", "join"} /\ call'[c].pc = "setup"
         => call[c].session = row[call[c].thread]]_vars

=============================================================================
