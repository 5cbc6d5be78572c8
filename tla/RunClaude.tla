------------------------------ MODULE RunClaude -------------------------------
(***************************************************************************)
(* run_claude_with_config, through which every part of the bot runs the    *)
(* Claude CLI.  A run is one call from outside; it consists of legs, one   *)
(* CLI process each: the first, a rerun after the context was compacted,   *)
(* and one more for every answered AskUserQuestion, each of them a         *)
(* recursive call.  A leg takes a slot of the process-wide session limit   *)
(* for as long as its process lives.  A step is what happens between two   *)
(* awaits.                                                                 *)
(***************************************************************************)
EXTENDS Naturals, Sequences, FiniteSets

CONSTANTS
  Runs,        \* calls of run_claude_with_config from outside
  Threads,     \* Discord threads and channels, the keys of SessionRegistry
  Resumed,     \* the runs that are given a session to resume
  MaxSlots,    \* configure_session_limit
  MaxPrompts,  \* bound on the prompts of a run: its first one and its answers
  None

ASSUME SlotsAssumption == MaxSlots \in Nat \ {0}
ASSUME RunsAssumption == IsFiniteSet(Runs)
ASSUME PromptsAssumption == MaxPrompts \in Nat \ {0}
ASSUME ResumedAssumption == Resumed \subseteq Runs
ASSUME NoneAssumption == None \notin Runs \cup Threads \cup (Runs \X Nat \X BOOLEAN)

VARIABLES
  free,      \* the semaphore's value
  queue,     \* the runs whose acquire waits, first come first served
  run,       \* run -> where its current leg is, and what it has found
  registry,  \* thread -> the run registered as active in it (SessionRegistry)
  spoken     \* run -> the sessions its legs have spoken to (history)

vars == <<free, queue, run, registry, spoken>>

\* A session is named by the run, the prompt and the kind of leg that created
\* it; prompt 0 stands for whatever created the one a run is given to resume.
Sessions == Runs \X Nat \X BOOLEAN

PCs == {"new", "announce", "queued", "running", "closing", "asking", "done"}

RunRecords ==
  [pc : PCs, thread : Threads \cup {None}, prompt : Nat, resume : Sessions \cup {None},
   session : Sessions \cup {None}, guarded : BOOLEAN, found : {"none", "compact", "ask", "error"}]

TypeOK ==
  /\ free \in Nat
  /\ queue \in Seq(Runs)
  /\ run \in [Runs -> RunRecords]
  /\ registry \in [Threads -> Runs \cup {None}]
  /\ spoken \in [Runs -> SUBSET Sessions]

Init ==
  /\ free = MaxSlots
  /\ queue = <<>>
  /\ run = [r \in Runs |->
       [pc |-> "new", thread |-> None, prompt |-> 0,
        resume |-> IF r \in Resumed THEN <<r, 0, FALSE>> ELSE None,
        session |-> None, guarded |-> FALSE, found |-> "none"]]
  /\ registry = [th \in Threads |-> None]
  /\ spoken = [r \in Runs |-> {}]

Holding == {r \in Runs : run[r].pc = "running"}

-----------------------------------------------------------------------------
(***************************************************************************)
(* asyncio.Semaphore: release hands the slot to the first that waits.      *)
(***************************************************************************)
Locked == free = 0 \/ queue # <<>>

\* The runs as they are when release has woken the first waiter.
Woken(runs) == IF queue = <<>> THEN runs ELSE [runs EXCEPT ![Head(queue)].pc = "running"]

Release ==
  IF queue = <<>> THEN free' = free + 1 /\ UNCHANGED queue
                  ELSE queue' = Tail(queue) /\ UNCHANGED free

-----------------------------------------------------------------------------
(***************************************************************************)
(* A leg.                                                                  *)
(***************************************************************************)

\* A call, with the arguments in leg: the session is registered, then a free
\* slot is taken at once; with none, the first thing is a notice to the user.
Call(r, leg) ==
  /\ registry' = [registry EXCEPT ![leg.thread] = r]
  /\ run' = [run EXCEPT ![r] = [leg EXCEPT !.pc = IF Locked THEN "announce" ELSE "running"]]
  /\ free' = IF Locked THEN free ELSE free - 1
  /\ UNCHANGED queue

Start(r, th) ==
  /\ run[r].pc = "new"
  /\ Call(r, [run[r] EXCEPT !.thread = th, !.prompt = 1, !.session = run[r].resume])
  /\ UNCHANGED spoken

\* Mutant: a leg that has announced its wait goes on without waiting.
AcquireAnyway(r) ==
  /\ run[r].pc = "announce"
  /\ free' = free - 1
  /\ run' = [run EXCEPT ![r].pc = "running"]
  /\ UNCHANGED <<queue, registry, spoken>>

\* The notice was posted, or Discord refused it.
Acquire(r) ==
  /\ run[r].pc = "announce"
  /\ \/ /\ Locked
        /\ queue' = Append(queue, r)
        /\ run' = [run EXCEPT ![r].pc = "queued"]
        /\ UNCHANGED free
     \/ /\ ~Locked
        /\ free' = free - 1
        /\ run' = [run EXCEPT ![r].pc = "running"]
        /\ UNCHANGED queue
  /\ UNCHANGED <<registry, spoken>>

\* Posting the notice raised something else, which nothing here catches.
AnnounceRaises(r) ==
  /\ run[r].pc = "announce"
  /\ run' = [run EXCEPT ![r].pc = "done"]
  /\ UNCHANGED <<free, queue, registry, spoken>>

\* Claude goes on in the session it was told to resume, or in a new one.
Speaks(r) == IF run[r].resume # None THEN run[r].resume
             ELSE <<r, run[r].prompt, run[r].guarded>>

\* A system or result event names the session.
SessionKnown(r) ==
  /\ run[r].pc = "running" /\ run[r].found = "none"
  /\ run' = [run EXCEPT ![r].session = Speaks(r)]
  /\ spoken' = [spoken EXCEPT ![r] = @ \cup {Speaks(r)}]
  /\ UNCHANGED <<free, queue, registry>>

\* compact_boundary in a leg without the guardrail: interrupt the process and
\* skip the rest of its events.
FindCompact(r) ==
  /\ run[r].pc = "running" /\ run[r].found = "none"
  /\ ~run[r].guarded
  /\ run' = [run EXCEPT ![r] = [@ EXCEPT !.found = "compact", !.session = Speaks(r)]]
  /\ spoken' = [spoken EXCEPT ![r] = @ \cup {Speaks(r)}]
  /\ UNCHANGED <<free, queue, registry>>

\* AskUserQuestion: interrupt the process and skip the rest of its events.
FindAsk(r) ==
  /\ run[r].pc = "running" /\ run[r].found = "none"
  /\ run[r].prompt < MaxPrompts
  /\ run' = [run EXCEPT ![r].found = "ask"]
  /\ UNCHANGED <<free, queue, registry, spoken>>

\* Mutant: a leg that raised keeps its slot.
EndLegLeaks(r) ==
  /\ run[r].pc = "running"
  /\ \E f \in {run[r].found, "error"} :
       LET ended == [run EXCEPT ![r] = [@ EXCEPT !.pc = "closing", !.found = f]]
       IN  IF f = "error" THEN run' = ended /\ UNCHANGED <<free, queue>>
                          ELSE run' = Woken(ended) /\ Release
  /\ registry' = [registry EXCEPT ![run[r].thread] = None]
  /\ UNCHANGED spoken

\* The stream is over or raised; what it raised was shown to the user.  The
\* slot is released and the thread unregistered; then the worktree is seen to.
EndLeg(r) ==
  /\ run[r].pc = "running"
  /\ \E f \in {run[r].found, "error"} :
       run' = Woken([run EXCEPT ![r] = [@ EXCEPT !.pc = "closing", !.found = f]])
  /\ Release
  /\ registry' = [registry EXCEPT ![run[r].thread] = None]
  /\ UNCHANGED spoken

Finish(r) ==
  /\ \/ run[r].pc = "closing" /\ run[r].found \in {"none", "error"}
     \/ run[r].pc = "closing" /\ run[r].found = "ask" /\ run[r].session = None
  /\ run' = [run EXCEPT ![r].pc = "done"]
  /\ UNCHANGED <<free, queue, registry, spoken>>

\* Mutant: the rerun has no guardrail.
RerunUnguarded(r) ==
  /\ run[r].pc = "closing" /\ run[r].found = "compact"
  /\ Call(r, [run[r] EXCEPT !.resume = run[r].session, !.found = "none"])
  /\ UNCHANGED spoken

\* Mutant: the rerun is called with the session of the first call.
RerunForgets(r) ==
  /\ run[r].pc = "closing" /\ run[r].found = "compact"
  /\ Call(r, [run[r] EXCEPT !.session = run[r].resume, !.guarded = TRUE, !.found = "none"])
  /\ UNCHANGED spoken

\* After a compaction: the same prompt, in the session that was compacted,
\* with the guardrail against being interrupted again.
Rerun(r) ==
  /\ run[r].pc = "closing" /\ run[r].found = "compact"
  /\ Call(r, [run[r] EXCEPT !.resume = run[r].session, !.guarded = TRUE, !.found = "none"])
  /\ UNCHANGED spoken

\* collect_ask_answers shows the questions.
AskUser(r) ==
  /\ run[r].pc = "closing" /\ run[r].found = "ask" /\ run[r].session # None
  /\ run' = [run EXCEPT ![r].pc = "asking"]
  /\ UNCHANGED <<free, queue, registry, spoken>>

\* An answer: the arguments of the leg that asked, but for the prompt.
Answered(r) ==
  /\ run[r].pc = "asking"
  /\ Call(r, [run[r] EXCEPT !.prompt = @ + 1, !.session = run[r].resume, !.found = "none"])
  /\ UNCHANGED spoken

\* Every question timed out or got an empty answer.
Unanswered(r) ==
  /\ run[r].pc = "asking"
  /\ run' = [run EXCEPT ![r].pc = "done"]
  /\ UNCHANGED <<free, queue, registry, spoken>>

-----------------------------------------------------------------------------
\* What the event loop does once what a run awaits has happened.
RunStep(r) == Acquire(r) \/ AnnounceRaises(r) \/ Finish(r) \/ Rerun(r) \/ AskUser(r)

ClaudeStep(r) == SessionKnown(r) \/ FindCompact(r) \/ FindAsk(r) \/ EndLeg(r)

UserStep(r) == Answered(r) \/ Unanswered(r) \/ \E th \in Threads : Start(r, th)

Next == \E r \in Runs : RunStep(r) \/ ClaudeStep(r) \/ UserStep(r)

Spec == Init /\ [][Next]_vars

\* The event loop goes on, and every process ends; the user need not answer.
Fairness == \A r \in Runs : WF_vars(RunStep(r)) /\ WF_vars(EndLeg(r))

LiveSpec == Spec /\ Fairness

-----------------------------------------------------------------------------
\* No slot is lost and none is taken twice, through failures, reruns, answers
\* and hand-overs: at most MaxSlots processes run, and nobody waits for a slot
\* that is free.
SlotsConserved ==
  /\ free + Cardinality(Holding) = MaxSlots
  /\ queue # <<>> => free = 0

\* Compaction does not cost the conversation: a run starts at most one session
\* for its first prompt and one for each answer.
CompactKeepsSession == \A r \in Runs : Cardinality(spoken[r]) <= run[r].prompt

\* Every run comes to its end or to a question for the user, however many runs
\* compete for the slots and whether or not the others' questions are answered.
RunEnds == \A r \in Runs : run[r].pc # "new" ~> run[r].pc \in {"asking", "done"}

-----------------------------------------------------------------------------
(***************************************************************************)
(* What the documentation says and the code does not do.                   *)
(***************************************************************************)

\* "Session resumes with your answer": a run speaks to one session.
AnswerResumes == \A r \in Runs : Cardinality(spoken[r]) <= 1
=============================================================================
