--------------------------- MODULE RunClaudeProofs ----------------------------
(***************************************************************************)
(* RunClaude keeps its slots and its sessions for any number of runs,      *)
(* threads, slots and answers.                                             *)
(***************************************************************************)
EXTENDS RunClaude, FiniteSetTheorems, SequenceTheorems, TLAPS

\* Who is in the semaphore's queue waits for it, and is in it once.
QueueInv ==
  /\ \A i \in 1..Len(queue) : run[queue[i]].pc = "queued"
  /\ \A i, j \in 1..Len(queue) : queue[i] = queue[j] => i = j

\* The sessions that a run may speak to: the one it was given to resume, else
\* one for each of its prompts.
Heard(r) == IF r \in Resumed THEN {<<r, 0, FALSE>>}
            ELSE {<<r, p, FALSE>> : p \in 1..run[r].prompt}

\* A leg with the guardrail resumes a session, so it never starts one.
SessionInv(r) ==
  /\ spoken[r] \subseteq Heard(r)
  /\ run[r].session \in Heard(r) \cup {None}
  /\ run[r].resume \in Heard(r) \cup {None}
  /\ r \in Resumed \/ run[r].guarded => run[r].resume # None
  /\ run[r].found = "compact" => run[r].session # None
  /\ run[r].pc # "new" => run[r].prompt >= 1
  /\ run[r].pc = "new" => run[r].prompt = 0 /\ spoken[r] = {} /\ run[r].found = "none"

SlotInv == TypeOK /\ SlotsConserved /\ QueueInv

IInv == SlotInv /\ \A r \in Runs : SessionInv(r)

-----------------------------------------------------------------------------
LEMMA HoldingFinite == IsFiniteSet(Holding) /\ Cardinality(Holding) \in Nat
BY FS_Subset, FS_CardinalityType, RunsAssumption DEF Holding

LEMMA HoldingFiniteNext == IsFiniteSet(Holding') /\ Cardinality(Holding') \in Nat
BY FS_Subset, FS_CardinalityType, RunsAssumption DEF Holding

LEMMA NoneIsNoSession == \A s \in Sessions : s # None
BY NoneAssumption DEF Sessions

LEMMA InitIInv == Init => IInv
<1> SUFFICES ASSUME Init PROVE IInv
  OBVIOUS
<1>0. ASSUME NEW r \in Runs
      PROVE  /\ run[r] \in RunRecords
             /\ run[r].pc = "new" /\ run[r].found = "none" /\ ~run[r].guarded
             /\ run[r].session = None /\ run[r].prompt = 0 /\ spoken[r] = {}
             /\ run[r].resume = IF r \in Resumed THEN <<r, 0, FALSE>> ELSE None
  <2>1. <<r, 0, FALSE>> \in Sessions
    BY DEF Sessions
  <2> QED
    BY <2>1 DEF Init, RunRecords, PCs
<1>1. TypeOK
  <2>0. run = [r \in Runs |-> run[r]]
    BY DEF Init
  <2>a. \A r \in Runs : run[r] \in RunRecords
    BY <1>0
  <2>1. run \in [Runs -> RunRecords]
    BY <2>0, <2>a
  <2>2. free \in Nat /\ queue \in Seq(Runs)
    BY SlotsAssumption DEF Init
  <2> QED
    BY <2>1, <2>2 DEF Init, TypeOK
<1>2. SlotsConserved
  <2>1. Holding = {}
    BY DEF Init, Holding
  <2> QED
    BY <2>1, FS_EmptySet, SlotsAssumption DEF Init, SlotsConserved
<1>3. QueueInv
  BY DEF Init, QueueInv
<1>4. ASSUME NEW r \in Runs PROVE SessionInv(r)
  <2>1. <<r, 0, FALSE>> # None
    BY NoneIsNoSession DEF Sessions
  <2>2. run[r].resume \in Heard(r) \cup {None} /\ (r \in Resumed => run[r].resume # None)
    BY <1>0, <2>1 DEF Heard
  <2> QED
    BY <1>0, <2>2 DEF SessionInv
<1> QED
  BY <1>1, <1>2, <1>3, <1>4 DEF IInv, SlotInv

-----------------------------------------------------------------------------
(***************************************************************************)
(* Slots.                                                                  *)
(***************************************************************************)

\* A step of a run that neither has nor waits for a slot, and gets none.
LEMMA StaysOut ==
  ASSUME SlotInv, NEW r \in Runs, NEW rec \in RunRecords, run[r].pc # "queued",
         run[r].pc = "running" <=> rec.pc = "running",
         run' = [run EXCEPT ![r] = rec], UNCHANGED <<free, queue>>,
         registry' \in [Threads -> Runs \cup {None}], spoken' \in [Runs -> SUBSET Sessions]
  PROVE  SlotInv'
<1>1. TypeOK'
  BY DEF SlotInv, TypeOK
<1>2. Holding' = Holding
  BY DEF SlotInv, TypeOK, Holding
<1>3. SlotsConserved'
  BY <1>2 DEF SlotInv, SlotsConserved
<1>4. \A i \in 1..Len(queue) : queue[i] \in Runs
  BY DEF SlotInv, TypeOK
<1>5. QueueInv'
  BY <1>4 DEF SlotInv, TypeOK, QueueInv
<1> QED
  BY <1>1, <1>3, <1>5 DEF SlotInv

\* A run that gets a slot that is free.
LEMMA Takes ==
  ASSUME SlotInv, NEW r \in Runs, NEW rec \in RunRecords,
         run[r].pc \notin {"queued", "running"}, rec.pc = "running",
         ~Locked, free' = free - 1, UNCHANGED queue, run' = [run EXCEPT ![r] = rec],
         registry' \in [Threads -> Runs \cup {None}], UNCHANGED spoken
  PROVE  SlotInv'
<1>1. TypeOK'
  BY DEF SlotInv, TypeOK, Locked
<1>2. Holding' = Holding \cup {r} /\ r \notin Holding
  BY DEF SlotInv, TypeOK, Holding
<1>3. Cardinality(Holding') = Cardinality(Holding) + 1
  BY <1>2, HoldingFinite, FS_AddElement
<1>4. SlotsConserved'
  BY <1>3, HoldingFinite, HoldingFiniteNext, SlotsAssumption
  DEF SlotInv, TypeOK, SlotsConserved, Locked
<1>5. QueueInv'
  BY DEF QueueInv, Locked, SlotInv
<1> QED
  BY <1>1, <1>4, <1>5 DEF SlotInv

\* A call: the leg runs at once or announces that it waits.
LEMMA CallSlots ==
  ASSUME SlotInv, NEW r \in Runs, NEW leg \in RunRecords,
         run[r].pc \notin {"queued", "running"}, Call(r, leg), UNCHANGED spoken
  PROVE  SlotInv'
<1> DEFINE rec == [leg EXCEPT !.pc = IF Locked THEN "announce" ELSE "running"]
<1>1. rec \in RunRecords /\ rec.pc = IF Locked THEN "announce" ELSE "running"
  BY DEF RunRecords, PCs
<1>2. run' = [run EXCEPT ![r] = rec] /\ UNCHANGED queue
  BY DEF Call
<1>3. registry' \in [Threads -> Runs \cup {None}]
  BY DEF Call, SlotInv, TypeOK
<1>4. spoken' \in [Runs -> SUBSET Sessions]
  BY DEF SlotInv, TypeOK
<1> HIDE DEF rec
<1>5. CASE Locked
  BY <1>1, <1>2, <1>3, <1>4, <1>5, StaysOut DEF Call
<1>6. CASE ~Locked
  BY <1>1, <1>2, <1>3, <1>6, Takes DEF Call
<1> QED
  BY <1>5, <1>6

\* A run whose slot is not free joins the queue.
LEMMA Queues ==
  ASSUME SlotInv, NEW r \in Runs, run[r].pc = "announce", Locked,
         queue' = Append(queue, r), run' = [run EXCEPT ![r].pc = "queued"],
         UNCHANGED <<free, registry, spoken>>
  PROVE  SlotInv'
<1>1. queue \in Seq(Runs) /\ Len(queue) \in Nat
  BY DEF SlotInv, TypeOK
<1>2. /\ queue' \in Seq(Runs)
      /\ Len(queue') = Len(queue) + 1
      /\ \A i \in 1..Len(queue) : queue'[i] = queue[i]
      /\ queue'[Len(queue) + 1] = r
  BY <1>1, AppendProperties
<1>3. \A i \in 1..Len(queue) : queue[i] \in Runs /\ queue[i] # r
  BY <1>1 DEF SlotInv, QueueInv
<1>4. TypeOK'
  <2>1. [run[r] EXCEPT !.pc = "queued"] \in RunRecords
    BY DEF SlotInv, TypeOK, RunRecords, PCs
  <2> QED
    BY <1>2, <2>1 DEF SlotInv, TypeOK
<1>5. Holding' = Holding
  BY DEF SlotInv, TypeOK, RunRecords, Holding
<1>6. SlotsConserved'
  BY <1>5 DEF SlotInv, SlotsConserved, Locked
<1>7. ASSUME NEW i \in 1..Len(queue')
      PROVE  run'[queue'[i]].pc = "queued"
  <2>1. CASE i \in 1..Len(queue)
    BY <1>2, <1>3, <2>1 DEF SlotInv, TypeOK, QueueInv
  <2>2. CASE i = Len(queue) + 1
    BY <1>2, <2>2 DEF SlotInv, TypeOK, RunRecords
  <2> QED
    BY <1>1, <1>2, <2>1, <2>2
<1>8. ASSUME NEW i \in 1..Len(queue'), NEW j \in 1..Len(queue'), queue'[i] = queue'[j]
      PROVE  i = j
  <2>1. \A k \in 1..Len(queue') : k \in 1..Len(queue) \/ k = Len(queue) + 1
    BY <1>1, <1>2
  <2> QED
    BY <1>2, <1>3, <1>8, <2>1 DEF SlotInv, QueueInv
<1> QED
  BY <1>4, <1>6, <1>7, <1>8 DEF SlotInv, QueueInv

\* The end of a leg gives its slot back, or to the head of the queue.
LEMMA GivesBack ==
  ASSUME SlotInv, NEW r \in Runs, run[r].pc = "running", NEW rec \in RunRecords,
         rec.pc = "closing", run' = Woken([run EXCEPT ![r] = rec]), Release,
         registry' \in [Threads -> Runs \cup {None}], UNCHANGED spoken
  PROVE  SlotInv'
<1>1. Len(queue) \in Nat /\ \A i \in 1..Len(queue) : queue[i] \in Runs
  BY DEF SlotInv, TypeOK
<1>2. CASE queue = <<>>
  <2>1. run' = [run EXCEPT ![r] = rec] /\ free' = free + 1 /\ queue' = queue
    BY <1>2 DEF Woken, Release
  <2>2. TypeOK'
    <3>1. free' \in Nat
      BY <2>1 DEF SlotInv, TypeOK
    <3>2. run' \in [Runs -> RunRecords]
      BY <2>1 DEF SlotInv, TypeOK
    <3> QED
      BY <2>1, <3>1, <3>2 DEF SlotInv, TypeOK
  <2>3. Holding' = Holding \ {r} /\ r \in Holding
    BY <2>1 DEF SlotInv, TypeOK, Holding
  <2>4. Cardinality(Holding') = Cardinality(Holding) - 1
    BY <2>3, HoldingFinite, FS_RemoveElement
  <2>5. SlotsConserved'
    BY <1>2, <2>1, <2>4, HoldingFinite, HoldingFiniteNext, SlotsAssumption
    DEF SlotInv, TypeOK, SlotsConserved
  <2>6. QueueInv'
    BY <1>2, <2>1 DEF QueueInv
  <2> QED
    BY <2>2, <2>5, <2>6 DEF SlotInv
<1>3. CASE queue # <<>>
  <2> DEFINE h == Head(queue)
  <2>1. h \in Runs /\ h = queue[1] /\ 1 \in 1..Len(queue)
    BY <1>1, <1>3 DEF SlotInv, TypeOK
  <2>2. run[h].pc = "queued" /\ h # r
    BY <2>1 DEF SlotInv, QueueInv
  <2>3. run' = [[run EXCEPT ![r] = rec] EXCEPT ![h].pc = "running"]
        /\ free' = free /\ queue' = Tail(queue)
    BY <1>3 DEF Woken, Release
  <2>4. /\ queue' \in Seq(Runs)
        /\ Len(queue') = Len(queue) - 1
        /\ \A i \in 1..Len(queue') : queue'[i] = queue[i + 1]
    BY <1>3, <2>3, HeadTailProperties DEF SlotInv, TypeOK
  <2>5. /\ run'[r] = rec
        /\ run'[h] = [run[h] EXCEPT !.pc = "running"]
        /\ \A q \in Runs \ {r, h} : run'[q] = run[q]
    BY <2>1, <2>2, <2>3 DEF SlotInv, TypeOK
  <2>6. run'[h] \in RunRecords /\ run'[h].pc = "running"
    BY <2>1, <2>5 DEF SlotInv, TypeOK, RunRecords, PCs
  <2> HIDE DEF h
  <2>7. TypeOK'
    <3>1. run' \in [Runs -> RunRecords]
      BY <2>1, <2>3, <2>5, <2>6 DEF SlotInv, TypeOK
    <3> QED
      BY <2>3, <2>4, <3>1 DEF SlotInv, TypeOK
  <2>8. Holding' = (Holding \ {r}) \cup {h} /\ r \in Holding /\ h \notin Holding
    <3>1. run'[r].pc = "closing"
      BY <2>5
    <3>2. \A q \in Runs : q \in Holding' <=> q = h \/ (q # r /\ q \in Holding)
      BY <2>2, <2>5, <2>6, <3>1 DEF Holding
    <3>3. Holding \subseteq Runs /\ Holding' \subseteq Runs
      BY DEF Holding
    <3>4. r \in Holding /\ h \notin Holding
      BY <2>2 DEF Holding
    <3> QED
      BY <2>1, <2>2, <3>2, <3>3, <3>4
  <2>9. Cardinality(Holding') = Cardinality(Holding)
    <3>1. IsFiniteSet(Holding \ {r}) /\ Cardinality(Holding \ {r}) = Cardinality(Holding) - 1
      BY <2>8, HoldingFinite, FS_RemoveElement
    <3>2. h \notin Holding \ {r}
      BY <2>8
    <3>3. Cardinality((Holding \ {r}) \cup {h}) = Cardinality(Holding \ {r}) + 1
      BY <3>1, <3>2, FS_AddElement
    <3> QED
      BY <2>8, <3>1, <3>3, HoldingFinite
  <2>10. SlotsConserved'
    BY <1>3, <2>3, <2>9 DEF SlotInv, SlotsConserved
  <2>11. \A i \in 1..Len(queue') : i + 1 \in 1..Len(queue) /\ i + 1 # 1
    BY <1>1, <2>4
  <2>12. ASSUME NEW i \in 1..Len(queue') PROVE run'[queue'[i]].pc = "queued"
    <3>0. QueueInv
      BY DEF SlotInv
    <3>1. i + 1 \in 1..Len(queue) /\ queue'[i] = queue[i + 1] /\ queue[i + 1] # h
      <4>1. i + 1 \in 1..Len(queue) /\ i + 1 # 1 /\ queue'[i] = queue[i + 1]
        BY <2>4, <2>11
      <4> QED
        BY <2>1, <3>0, <4>1 DEF QueueInv
    <3>2. run[queue[i + 1]].pc = "queued" /\ queue[i + 1] \in Runs
      BY <1>1, <3>1 DEF SlotInv, QueueInv
    <3>3. queue[i + 1] \in Runs \ {r, h}
      BY <3>1, <3>2
    <3>4. run'[queue[i + 1]] = run[queue[i + 1]]
      BY <2>5, <3>3
    <3> QED
      BY <3>1, <3>2, <3>4
  <2>13. ASSUME NEW i \in 1..Len(queue'), NEW j \in 1..Len(queue'), queue'[i] = queue'[j]
         PROVE  i = j
    <3>1. queue[i + 1] = queue[j + 1]
      BY <2>4, <2>13
    <3>2. i + 1 = j + 1
      BY <2>11, <3>1 DEF SlotInv, QueueInv
    <3> QED
      BY <1>1, <2>4, <3>2
  <2> QED
    BY <2>7, <2>10, <2>12, <2>13 DEF SlotInv, QueueInv
<1> QED
  BY <1>2, <1>3

LEMMA SlotStep == SlotInv /\ [Next]_vars => SlotInv'
<1> SUFFICES ASSUME SlotInv, [Next]_vars PROVE SlotInv'
  OBVIOUS
<1>1. CASE UNCHANGED vars
  BY <1>1 DEF vars, SlotInv, TypeOK, SlotsConserved, QueueInv, Holding
<1>2. ASSUME NEW r \in Runs, RunStep(r) \/ ClaudeStep(r) \/ UserStep(r)
      PROVE  SlotInv'
  <2>0. run[r] \in RunRecords /\ run \in [Runs -> RunRecords] /\ Speaks(r) \in Sessions
    BY DEF SlotInv, TypeOK, RunRecords, Speaks, Sessions
  <2>a. registry \in [Threads -> Runs \cup {None}] /\ spoken \in [Runs -> SUBSET Sessions]
    BY DEF SlotInv, TypeOK
  <2>b. ASSUME NEW p \in PCs, run' = [run EXCEPT ![r].pc = p],
               run[r].pc \notin {"queued", "running"}, p # "running",
               UNCHANGED <<free, queue, registry, spoken>>
        PROVE  SlotInv'
    <3>1. [run[r] EXCEPT !.pc = p] \in RunRecords /\ [run[r] EXCEPT !.pc = p].pc = p
      BY <2>0 DEF RunRecords
    <3> QED
      BY <2>0, <2>a, <2>b, <3>1, StaysOut
  <2>1. CASE Acquire(r)
    <3>1. CASE Locked
      BY <2>1, <3>1, Queues DEF Acquire
    <3>2. CASE ~Locked
      <4>1. [run[r] EXCEPT !.pc = "running"] \in RunRecords
            /\ [run[r] EXCEPT !.pc = "running"].pc = "running"
        BY <2>0 DEF RunRecords, PCs
      <4> QED
        BY <2>0, <2>a, <2>1, <3>2, <4>1, Takes DEF Acquire
    <3> QED
      BY <3>1, <3>2
  <2>2. CASE AnnounceRaises(r)
    BY <2>b, <2>2 DEF AnnounceRaises, PCs
  <2>3. CASE Finish(r)
    BY <2>b, <2>3 DEF Finish, PCs
  <2>4. CASE Rerun(r)
    <3> DEFINE leg == [run[r] EXCEPT !.resume = run[r].session, !.guarded = TRUE, !.found = "none"]
    <3>1. leg \in RunRecords
      BY <2>0 DEF RunRecords
    <3>2. Call(r, leg) /\ run[r].pc = "closing" /\ UNCHANGED spoken
      BY <2>4 DEF Rerun
    <3> HIDE DEF leg
    <3> QED
      BY <3>1, <3>2, CallSlots
  <2>5. CASE AskUser(r)
    BY <2>b, <2>5 DEF AskUser, PCs
  <2>6. CASE SessionKnown(r)
    <3>1. [run[r] EXCEPT !.session = Speaks(r)] \in RunRecords
          /\ [run[r] EXCEPT !.session = Speaks(r)].pc = run[r].pc
      BY <2>0 DEF RunRecords
    <3>2. spoken' \in [Runs -> SUBSET Sessions]
      BY <2>0, <2>a, <2>6 DEF SessionKnown
    <3> QED
      BY <2>0, <2>a, <2>6, <3>1, <3>2, StaysOut DEF SessionKnown
  <2>7. CASE FindCompact(r)
    <3> DEFINE rec == [run[r] EXCEPT !.found = "compact", !.session = Speaks(r)]
    <3>1. rec \in RunRecords /\ rec.pc = run[r].pc
      BY <2>0 DEF RunRecords
    <3>2. spoken' \in [Runs -> SUBSET Sessions]
      BY <2>0, <2>a, <2>7 DEF FindCompact
    <3>3. run' = [run EXCEPT ![r] = rec] /\ run[r].pc = "running"
          /\ UNCHANGED <<free, queue, registry>>
      BY <2>7 DEF FindCompact
    <3> HIDE DEF rec
    <3> QED
      BY <2>0, <2>a, <3>1, <3>2, <3>3, StaysOut
  <2>8. CASE FindAsk(r)
    <3>1. [run[r] EXCEPT !.found = "ask"] \in RunRecords
          /\ [run[r] EXCEPT !.found = "ask"].pc = run[r].pc
      BY <2>0 DEF RunRecords
    <3> QED
      BY <2>0, <2>a, <2>8, <3>1, StaysOut DEF FindAsk
  <2>9. CASE EndLeg(r)
    <3>1. PICK f \in {run[r].found, "error"} :
            run' = Woken([run EXCEPT ![r] = [run[r] EXCEPT !.pc = "closing", !.found = f]])
      BY <2>9 DEF EndLeg
    <3> DEFINE rec == [run[r] EXCEPT !.pc = "closing", !.found = f]
    <3>2. rec \in RunRecords /\ rec.pc = "closing"
      BY <2>0, <3>1 DEF RunRecords, PCs
    <3>3. run' = Woken([run EXCEPT ![r] = rec])
      BY <3>1
    <3>4. registry' \in [Threads -> Runs \cup {None}]
      BY <2>a, <2>9 DEF EndLeg
    <3>5. run[r].pc = "running" /\ Release /\ UNCHANGED spoken
      BY <2>9 DEF EndLeg
    <3> HIDE DEF rec
    <3> QED
      BY <3>2, <3>3, <3>4, <3>5, GivesBack
  <2>10. CASE Answered(r)
    <3> DEFINE leg == [run[r] EXCEPT !.prompt = @ + 1, !.session = run[r].resume, !.found = "none"]
    <3>0. run[r].prompt + 1 \in Nat
      BY <2>0 DEF RunRecords
    <3>1. leg \in RunRecords
      BY <2>0, <3>0 DEF RunRecords
    <3>2. Call(r, leg) /\ run[r].pc = "asking" /\ UNCHANGED spoken
      BY <2>10 DEF Answered
    <3> HIDE DEF leg
    <3> QED
      BY <3>1, <3>2, CallSlots
  <2>11. CASE Unanswered(r)
    BY <2>b, <2>11 DEF Unanswered, PCs
  <2>12. ASSUME NEW th \in Threads, Start(r, th)
         PROVE  SlotInv'
    <3> DEFINE leg == [run[r] EXCEPT !.thread = th, !.prompt = 1, !.session = run[r].resume]
    <3>1. leg \in RunRecords
      BY <2>0 DEF RunRecords
    <3>2. Call(r, leg) /\ run[r].pc = "new" /\ UNCHANGED spoken
      BY <2>12 DEF Start
    <3> HIDE DEF leg
    <3> QED
      BY <3>1, <3>2, CallSlots
  <2> QED
    BY <1>2, <2>1, <2>2, <2>3, <2>4, <2>5, <2>6, <2>7, <2>8, <2>9, <2>10, <2>11, <2>12
    DEF RunStep, ClaudeStep, UserStep
<1> QED
  BY <1>1, <1>2 DEF Next

-----------------------------------------------------------------------------
(***************************************************************************)
(* Sessions.                                                               *)
(***************************************************************************)

\* A step that moves a run without touching what SessionInv is about.
LEMMA SessionFrame ==
  ASSUME NEW q \in Runs, SessionInv(q), spoken'[q] = spoken[q],
         run'[q].prompt = run[q].prompt, run'[q].session = run[q].session,
         run'[q].resume = run[q].resume, run'[q].guarded = run[q].guarded,
         run'[q].found = run[q].found \/ (run'[q].found # "compact" /\ run[q].pc # "new"),
         run'[q].pc = "new" <=> run[q].pc = "new"
  PROVE  SessionInv(q)'
BY DEF SessionInv, Heard

\* What a call leaves a run with.
LEMMA CallLeaves ==
  ASSUME SlotInv, NEW r \in Runs, NEW leg \in RunRecords, Call(r, leg)
  PROVE  /\ run'[r].pc # "new"
         /\ run'[r].prompt = leg.prompt /\ run'[r].session = leg.session
         /\ run'[r].resume = leg.resume /\ run'[r].guarded = leg.guarded
         /\ run'[r].found = leg.found
         /\ \A q \in Runs \ {r} : run'[q] = run[q]
<1>1. run' = [run EXCEPT ![r] = [leg EXCEPT !.pc = IF Locked THEN "announce" ELSE "running"]]
  BY DEF Call
<1>2. run'[r] = [leg EXCEPT !.pc = IF Locked THEN "announce" ELSE "running"]
      /\ \A q \in Runs \ {r} : run'[q] = run[q]
  BY <1>1 DEF SlotInv, TypeOK
<1> QED
  BY <1>2 DEF RunRecords

\* A run speaks to a session it may speak to.
LEMMA SpeaksHeard ==
  ASSUME SlotInv, NEW r \in Runs, SessionInv(r), run[r].pc # "new"
  PROVE  Speaks(r) \in Heard(r) /\ Speaks(r) # None
<1>1. run[r].prompt \in Nat /\ run[r].prompt >= 1 /\ run[r].guarded \in BOOLEAN
  BY DEF SlotInv, TypeOK, RunRecords, SessionInv
<1>2. CASE run[r].resume # None
  BY <1>2 DEF Speaks, SessionInv
<1>3. CASE run[r].resume = None
  <2>1. r \notin Resumed /\ run[r].guarded = FALSE
    BY <1>1, <1>3 DEF SessionInv
  <2>2. Speaks(r) = <<r, run[r].prompt, FALSE>>
    BY <1>3, <2>1 DEF Speaks
  <2>3. run[r].prompt \in 1..run[r].prompt
    BY <1>1
  <2>4. Speaks(r) \in Sessions
    <3>1. <<r, run[r].prompt, FALSE>> \in Runs \X Nat \X BOOLEAN
      BY <1>1
    <3> QED
      BY <2>2, <3>1 DEF Sessions
  <2> QED
    BY <2>1, <2>2, <2>3, <2>4, NoneIsNoSession DEF Heard
<1> QED
  BY <1>2, <1>3

LEMMA SessionStep == IInv /\ [Next]_vars => \A q \in Runs : SessionInv(q)'
<1> SUFFICES ASSUME IInv, [Next]_vars, NEW q \in Runs PROVE SessionInv(q)'
  OBVIOUS
<1>0. SlotInv /\ \A x \in Runs : SessionInv(x)
  BY DEF IInv
<1>1. CASE UNCHANGED vars
  BY <1>0, <1>1 DEF vars, SessionInv, Heard
<1>2. ASSUME NEW r \in Runs, RunStep(r) \/ ClaudeStep(r) \/ UserStep(r)
      PROVE  SessionInv(q)'
  <2>0. run \in [Runs -> RunRecords] /\ spoken \in [Runs -> SUBSET Sessions]
        /\ run[r] \in RunRecords /\ run[q] \in RunRecords
    BY <1>0 DEF SlotInv, TypeOK
  <2>b. ASSUME NEW p \in PCs, run' = [run EXCEPT ![r].pc = p],
               run[r].pc # "new", p # "new", UNCHANGED spoken
        PROVE  SessionInv(q)'
    <3>1. /\ run'[q].prompt = run[q].prompt /\ run'[q].session = run[q].session
          /\ run'[q].resume = run[q].resume /\ run'[q].guarded = run[q].guarded
          /\ run'[q].found = run[q].found /\ (run'[q].pc = "new" <=> run[q].pc = "new")
      BY <2>0, <2>b DEF RunRecords
    <3> QED
      BY <1>0, <2>b, <3>1, SessionFrame
  <2>c. ASSUME NEW leg \in RunRecords, Call(r, leg), q # r, UNCHANGED spoken
        PROVE  SessionInv(q)'
    <3>1. run'[q] = run[q]
      BY <1>0, <2>c, CallLeaves
    <3> QED
      BY <1>0, <2>c, <3>1, SessionFrame
  <2>1. CASE Acquire(r)
    BY <2>b, <2>1 DEF Acquire, PCs
  <2>2. CASE AnnounceRaises(r)
    BY <2>b, <2>2 DEF AnnounceRaises, PCs
  <2>3. CASE Finish(r)
    BY <2>b, <2>3 DEF Finish, PCs
  <2>4. CASE Rerun(r)
    <3> DEFINE leg == [run[r] EXCEPT !.resume = run[r].session, !.guarded = TRUE, !.found = "none"]
    <3>1. /\ leg \in RunRecords /\ leg.prompt = run[r].prompt /\ leg.guarded = TRUE
          /\ leg.session = run[r].session /\ leg.resume = run[r].session /\ leg.found = "none"
      BY <2>0 DEF RunRecords
    <3>2. Call(r, leg) /\ run[r].pc = "closing" /\ run[r].found = "compact" /\ UNCHANGED spoken
      BY <2>4 DEF Rerun
    <3> HIDE DEF leg
    <3>3. CASE q = r
      <4>1. run[r].session # None /\ run[r].session \in Heard(r) \cup {None}
        BY <1>0, <3>2 DEF SessionInv
      <4>2. Heard(r)' = Heard(r)
        BY <1>0, <3>1, <3>2, CallLeaves DEF Heard
      <4> QED
        BY <1>0, <3>1, <3>2, <3>3, <4>1, <4>2, CallLeaves DEF SessionInv
    <3> QED
      BY <2>c, <3>1, <3>2, <3>3
  <2>5. CASE AskUser(r)
    BY <2>b, <2>5 DEF AskUser, PCs
  <2>6. CASE SessionKnown(r) \/ FindCompact(r)
    <3>1. run[r].pc = "running" /\ Speaks(r) \in Heard(r) /\ Speaks(r) # None
      BY <1>0, <2>6, SpeaksHeard DEF SessionKnown, FindCompact
    <3>2. /\ run'[r].prompt = run[r].prompt /\ run'[r].session = Speaks(r)
          /\ run'[r].resume = run[r].resume /\ run'[r].guarded = run[r].guarded
          /\ run'[r].pc = "running"
          /\ spoken'[r] = spoken[r] \cup {Speaks(r)}
          /\ q # r => run'[q] = run[q] /\ spoken'[q] = spoken[q]
      <4>1. CASE SessionKnown(r)
        BY <2>0, <4>1 DEF SessionKnown, RunRecords
      <4>2. CASE FindCompact(r)
        BY <2>0, <4>2 DEF FindCompact, RunRecords
      <4> QED
        BY <2>6, <4>1, <4>2
    <3>3. Heard(r)' = Heard(r)
      BY <3>2 DEF Heard
    <3>4. CASE q = r
      BY <1>0, <3>1, <3>2, <3>3, <3>4 DEF SessionInv
    <3>5. CASE q # r
      BY <1>0, <3>2, <3>5, SessionFrame
    <3> QED
      BY <3>4, <3>5
  <2>8. CASE FindAsk(r)
    <3>1. /\ run'[q].prompt = run[q].prompt /\ run'[q].session = run[q].session
          /\ run'[q].resume = run[q].resume /\ run'[q].guarded = run[q].guarded
          /\ run'[q].found = run[q].found \/ (run'[q].found = "ask" /\ run[q].pc # "new")
          /\ run'[q].pc = run[q].pc
          /\ spoken' = spoken
      BY <2>0, <2>8 DEF FindAsk, RunRecords
    <3> QED
      BY <1>0, <3>1, SessionFrame
  <2>9. CASE EndLeg(r)
    <3>1. PICK f \in {run[r].found, "error"} :
            run' = Woken([run EXCEPT ![r] = [run[r] EXCEPT !.pc = "closing", !.found = f]])
      BY <2>9 DEF EndLeg
    <3> DEFINE ended == [run EXCEPT ![r] = [run[r] EXCEPT !.pc = "closing", !.found = f]]
    <3>2. /\ ended \in [Runs -> RunRecords] /\ ended[q].prompt = run[q].prompt
          /\ ended[q].session = run[q].session /\ ended[q].resume = run[q].resume
          /\ ended[q].guarded = run[q].guarded
          /\ ended[q].found = run[q].found \/ (ended[q].found = "error" /\ run[q].pc # "new")
          /\ ended[q].pc = "new" <=> run[q].pc = "new"
      BY <2>0, <2>9, <3>1 DEF RunRecords, EndLeg, PCs
    <3>3. run' = Woken(ended) /\ spoken' = spoken
      BY <2>9, <3>1 DEF EndLeg
    <3> HIDE DEF ended
    <3>4. CASE queue = <<>>
      BY <1>0, <3>2, <3>3, <3>4, SessionFrame DEF Woken
    <3>5. CASE queue # <<>>
      <4> DEFINE h == Head(queue)
      <4>1. h \in Runs /\ h # r /\ run[h].pc = "queued"
        <5>1. h \in Runs /\ h = queue[1] /\ 1 \in 1..Len(queue)
          BY <1>0, <3>5 DEF SlotInv, TypeOK
        <5> QED
          BY <1>0, <2>9, <5>1 DEF SlotInv, QueueInv, EndLeg
      <4>2. run' = [ended EXCEPT ![h].pc = "running"]
        BY <3>3, <3>5 DEF Woken
      <4> HIDE DEF h
      <4>3. q = h => run[q].pc # "new"
        BY <4>1
      <4>4. /\ run'[q].prompt = run[q].prompt
            /\ run'[q].session = run[q].session /\ run'[q].resume = run[q].resume
            /\ run'[q].guarded = run[q].guarded
            /\ run'[q].found = run[q].found \/ (run'[q].found = "error" /\ run[q].pc # "new")
            /\ run'[q].pc = "new" <=> run[q].pc = "new"
        BY <3>2, <4>1, <4>2, <4>3 DEF RunRecords
      <4> QED
        BY <1>0, <3>3, <4>4, SessionFrame
    <3> QED
      BY <3>4, <3>5
  <2>10. CASE Answered(r)
    <3> DEFINE leg == [run[r] EXCEPT !.prompt = @ + 1, !.session = run[r].resume, !.found = "none"]
    <3>0. run[r].prompt \in Nat /\ run[r].prompt + 1 \in Nat
      BY <2>0 DEF RunRecords
    <3>1. /\ leg \in RunRecords /\ leg.prompt = run[r].prompt + 1
          /\ leg.guarded = run[r].guarded /\ leg.resume = run[r].resume
          /\ leg.session = run[r].resume /\ leg.found = "none"
      BY <2>0, <3>0 DEF RunRecords
    <3>2. Call(r, leg) /\ run[r].pc = "asking" /\ UNCHANGED spoken
      BY <2>10 DEF Answered
    <3> HIDE DEF leg
    <3>3. CASE q = r
      <4>1. Heard(r) \subseteq Heard(r)'
        <5>1. 1..run[r].prompt \subseteq 1..(run[r].prompt + 1)
          BY <3>0
        <5>2. run'[r].prompt = run[r].prompt + 1
          BY <1>0, <3>1, <3>2, CallLeaves
        <5> QED
          BY <5>1, <5>2 DEF Heard
      <4>2. run'[r].prompt >= 1
        BY <1>0, <3>0, <3>1, <3>2, CallLeaves
      <4> QED
        BY <1>0, <3>1, <3>2, <3>3, <4>1, <4>2, CallLeaves DEF SessionInv
    <3> QED
      BY <2>c, <3>1, <3>2, <3>3
  <2>11. CASE Unanswered(r)
    BY <2>b, <2>11 DEF Unanswered, PCs
  <2>12. ASSUME NEW th \in Threads, Start(r, th)
         PROVE  SessionInv(q)'
    <3> DEFINE leg == [run[r] EXCEPT !.thread = th, !.prompt = 1, !.session = run[r].resume]
    <3>1. /\ leg \in RunRecords /\ leg.prompt = 1
          /\ leg.guarded = run[r].guarded /\ leg.resume = run[r].resume
          /\ leg.session = run[r].resume /\ leg.found = run[r].found
      BY <2>0 DEF RunRecords
    <3>2. Call(r, leg) /\ run[r].pc = "new" /\ UNCHANGED spoken
      BY <2>12 DEF Start
    <3> HIDE DEF leg
    <3>3. CASE q = r
      <4>1. /\ run'[r].pc # "new" /\ run'[r].prompt = 1 /\ run'[r].session = run[r].resume
            /\ run'[r].resume = run[r].resume /\ run'[r].guarded = run[r].guarded
            /\ run'[r].found = run[r].found
        BY <1>0, <3>1, <3>2, CallLeaves
      <4>2. Heard(r) \subseteq Heard(r)'
        <5>1. 1..run[r].prompt \subseteq 1..1
          BY <1>0, <3>2 DEF SessionInv
        <5> QED
          BY <4>1, <5>1 DEF Heard
      <4>3. run[r].found = "compact" => run[r].resume # None
        BY <1>0, <2>12 DEF SessionInv, Start
      <4> QED
        BY <1>0, <3>2, <3>3, <4>1, <4>2, <4>3 DEF SessionInv
    <3> QED
      BY <2>c, <3>1, <3>2, <3>3
  <2> QED
    BY <1>2, <2>1, <2>2, <2>3, <2>4, <2>5, <2>6, <2>8, <2>9, <2>10, <2>11, <2>12
    DEF RunStep, ClaudeStep, UserStep
<1> QED
  BY <1>1, <1>2 DEF Next

-----------------------------------------------------------------------------
(***************************************************************************)
(* The theorems.                                                           *)
(***************************************************************************)
LEMMA InvStep == IInv /\ [Next]_vars => IInv'
BY SlotStep, SessionStep DEF IInv

\* A run may speak to no more sessions than it has prompts.
LEMMA HeardBound ==
  ASSUME NEW r \in Runs, r \notin Resumed, run[r].prompt \in Nat
  PROVE  IsFiniteSet(Heard(r)) /\ Cardinality(Heard(r)) <= run[r].prompt
<1> DEFINE P == 1..run[r].prompt
           f == [p \in P |-> <<r, p, FALSE>>]
<1>1. f \in Surjection(P, Heard(r))
  BY DEF Surjection, Heard
<1>2. IsFiniteSet(P) /\ Cardinality(P) = run[r].prompt
  <2> DEFINE n == run[r].prompt
  <2>0. n \in Int /\ 1 \in Int
    OBVIOUS
  <2> HIDE DEF n
  <2>1. IsFiniteSet(1..n) /\ Cardinality(1..n) = IF 1 > n THEN 0 ELSE n - 1 + 1
    BY <2>0, FS_Interval
  <2> USE DEF n
  <2> QED
    BY <2>1
<1> HIDE DEF P, f
<1> QED
  BY <1>1, <1>2, FS_Surjection

LEMMA BoundsSessions == IInv => CompactKeepsSession
<1> SUFFICES ASSUME IInv, NEW r \in Runs PROVE Cardinality(spoken[r]) <= run[r].prompt
  BY DEF CompactKeepsSession
<1>1. SessionInv(r) /\ run[r].prompt \in Nat
  BY DEF IInv, SlotInv, TypeOK, RunRecords
<1>2. CASE run[r].pc = "new"
  BY <1>1, <1>2, FS_EmptySet DEF SessionInv
<1>3. CASE run[r].pc # "new" /\ r \notin Resumed
  <2>1. IsFiniteSet(Heard(r)) /\ Cardinality(Heard(r)) <= run[r].prompt
    BY <1>1, <1>3, HeardBound
  <2>2. spoken[r] \in SUBSET Heard(r)
    BY <1>1 DEF SessionInv
  <2>3. Cardinality(spoken[r]) <= Cardinality(Heard(r))
        /\ Cardinality(spoken[r]) \in Nat /\ Cardinality(Heard(r)) \in Nat
    BY <2>1, <2>2, FS_Subset, FS_CardinalityType
  <2> QED
    BY <1>1, <2>1, <2>3
<1>4. CASE run[r].pc # "new" /\ r \in Resumed
  <2>1. Heard(r) = {<<r, 0, FALSE>>}
    BY <1>4 DEF Heard
  <2>2. IsFiniteSet(Heard(r)) /\ Cardinality(Heard(r)) = 1
    BY <2>1, FS_Singleton
  <2>3. spoken[r] \in SUBSET Heard(r)
    BY <1>1 DEF SessionInv
  <2>4. Cardinality(spoken[r]) <= 1 /\ Cardinality(spoken[r]) \in Nat
    BY <2>2, <2>3, FS_Subset, FS_CardinalityType
  <2> QED
    BY <1>1, <1>4, <2>4 DEF SessionInv
<1> QED
  BY <1>2, <1>3, <1>4

\* The inductive invariant holds in every state of every run of the program.
THEOREM RunInvHolds == Spec => []IInv
BY InitIInv, InvStep, PTL DEF Spec

\* Every variable keeps its type, whatever the legs find and the users answer.
THEOREM TypeCorrect == Spec => []TypeOK
<1>1. IInv => TypeOK
  BY DEF IInv, SlotInv
<1> QED
  BY <1>1, RunInvHolds, PTL

\* The session limit holds and no slot is lost, however legs fail, rerun,
\* resume and queue: run_claude_with_config's semaphore for any limit.
THEOREM SlotsNeverLost == Spec => []SlotsConserved
<1>1. IInv => SlotsConserved
  BY DEF IInv, SlotInv
<1> QED
  BY <1>1, RunInvHolds, PTL

\* A rerun after a compaction never starts a session: a run speaks to at most
\* one session for each of its prompts.
THEOREM OneSessionPerPrompt == Spec => []CompactKeepsSession
BY BoundsSessions, RunInvHolds, PTL

-----------------------------------------------------------------------------
(***************************************************************************)
(* Nobody is forgotten.                                                    *)
(***************************************************************************)
\* A run that waits for a slot is in the queue that Release serves.
Remembered == \A q \in Runs : run[q].pc = "queued" => \E i \in 1..Len(queue) : queue[i] = q

\* Who joins the queue is at its end, and who was in it still is.
LEMMA QueuesRemembered ==
  ASSUME SlotInv, Remembered, NEW r \in Runs, run[r].pc = "announce",
         queue' = Append(queue, r), run' = [run EXCEPT ![r].pc = "queued"]
  PROVE  Remembered'
<1>1. queue \in Seq(Runs) /\ Len(queue) \in Nat
  BY DEF SlotInv, TypeOK
<1>2. /\ Len(queue') = Len(queue) + 1
      /\ \A i \in 1..Len(queue) : queue'[i] = queue[i]
      /\ queue'[Len(queue) + 1] = r
  BY <1>1, AppendProperties
<1>3. \A i \in 1..Len(queue) + 1 : i \in 1..Len(queue')
  BY <1>1, <1>2
<1>4. Len(queue) + 1 \in 1..Len(queue') /\ \A i \in 1..Len(queue) : i \in 1..Len(queue')
  BY <1>1, <1>2
<1>5. \A q \in Runs \ {r} : run'[q] = run[q]
  BY DEF SlotInv, TypeOK
<1> QED
  BY <1>2, <1>4, <1>5 DEF Remembered

\* Who leaves the queue has got the slot, and everybody else moves up.
LEMMA WakesRemembered ==
  ASSUME SlotInv, Remembered, NEW r \in Runs, NEW rec \in RunRecords, queue # <<>>,
         rec.pc = "closing", run[r].pc = "running",
         run' = Woken([run EXCEPT ![r] = rec]), Release
  PROVE  Remembered'
<1>1. queue \in Seq(Runs) /\ Len(queue) \in Nat
  BY DEF SlotInv, TypeOK
<1>2. Head(queue) \in Runs /\ Head(queue) = queue[1] /\ queue' = Tail(queue)
  BY <1>1 DEF Release
<1>3. /\ Len(queue') = Len(queue) - 1
      /\ \A i \in 1..Len(queue') : queue'[i] = queue[i + 1]
  BY <1>1, <1>2, HeadTailProperties
<1>4. run' = [[run EXCEPT ![r] = rec] EXCEPT ![Head(queue)].pc = "running"]
  BY DEF Woken
<1>5. \A q \in Runs : run'[q].pc = "queued" => run[q].pc = "queued" /\ q # Head(queue)
  <2> DEFINE given == [run EXCEPT ![r] = rec]
  <2>1. given \in [Runs -> RunRecords] /\ \A q \in Runs : given[q].pc = "queued" => run[q].pc = "queued"
    BY DEF SlotInv, TypeOK
  <2>a. [given[Head(queue)] EXCEPT !.pc = "running"].pc = "running"
    BY <1>2, <2>1 DEF RunRecords
  <2>2. run' = [given EXCEPT ![Head(queue)].pc = "running"]
    BY <1>4
  <2> HIDE DEF given
  <2>3. run'[Head(queue)].pc = "running"
    BY <1>2, <2>1, <2>2, <2>a
  <2>4. \A q \in Runs \ {Head(queue)} : run'[q] = given[q]
    BY <2>1, <2>2
  <2> QED
    BY <2>1, <2>3, <2>4
<1>6. ASSUME NEW q \in Runs, run'[q].pc = "queued"
      PROVE  \E j \in 1..Len(queue') : queue'[j] = q
  <2>1. PICK i \in 1..Len(queue) : queue[i] = q
    BY <1>5, <1>6 DEF Remembered
  <2>2. i # 1
    BY <1>2, <1>5, <1>6, <2>1
  <2>3. i - 1 \in 1..Len(queue') /\ (i - 1) + 1 = i
    BY <1>1, <1>3, <2>1, <2>2
  <2> QED
    BY <1>3, <2>1, <2>3
<1> QED
  BY <1>6 DEF Remembered

LEMMA RememberedStep == SlotInv /\ Remembered /\ [Next]_vars => Remembered'
<1> SUFFICES ASSUME SlotInv, Remembered, [Next]_vars PROVE Remembered'
  OBVIOUS
<1>1. CASE UNCHANGED queue /\ \A q \in Runs : run'[q].pc = "queued" => run[q].pc = "queued"
  BY <1>1 DEF Remembered
<1>2. CASE UNCHANGED vars
  BY <1>1, <1>2 DEF vars
<1>3. ASSUME NEW r \in Runs, RunStep(r) \/ ClaudeStep(r) \/ UserStep(r)
      PROVE  Remembered'
  <2>0. run \in [Runs -> RunRecords] /\ run[r] \in RunRecords
    BY DEF SlotInv, TypeOK
  <2>a. Speaks(r) \in Sessions
    BY <2>0 DEF RunRecords, Speaks, Sessions
  <2>1. CASE Acquire(r)
    <3>1. CASE Locked
      BY <2>1, <3>1, QueuesRemembered DEF Acquire
    <3>2. CASE ~Locked
      BY <1>1, <2>0, <2>1, <3>2 DEF Acquire, RunRecords
    <3> QED
      BY <3>1, <3>2
  <2>2. CASE EndLeg(r)
    <3>1. PICK f \in {run[r].found, "error"} :
            run' = Woken([run EXCEPT ![r] = [run[r] EXCEPT !.pc = "closing", !.found = f]])
      BY <2>2 DEF EndLeg
    <3> DEFINE rec == [run[r] EXCEPT !.pc = "closing", !.found = f]
    <3>2. rec \in RunRecords /\ rec.pc = "closing"
      BY <2>0, <3>1 DEF RunRecords, PCs
    <3>3. run' = Woken([run EXCEPT ![r] = rec]) /\ run[r].pc = "running" /\ Release
      BY <2>2, <3>1 DEF EndLeg
    <3> HIDE DEF rec
    <3>4. CASE queue # <<>>
      BY <3>2, <3>3, <3>4, WakesRemembered
    <3>5. CASE queue = <<>>
      BY <1>1, <2>0, <3>2, <3>3, <3>5 DEF Woken, Release
    <3> QED
      BY <3>4, <3>5
  <2>3. ASSUME NEW leg \in RunRecords, Call(r, leg)
        PROVE  Remembered'
    <3>1. [leg EXCEPT !.pc = IF Locked THEN "announce" ELSE "running"].pc # "queued"
      BY DEF RunRecords
    <3> QED
      BY <1>1, <2>0, <2>3, <3>1 DEF Call
  <2>4. CASE Rerun(r)
    <3>1. [run[r] EXCEPT !.resume = run[r].session, !.guarded = TRUE, !.found = "none"] \in RunRecords
      BY <2>0 DEF RunRecords
    <3> QED
      BY <2>3, <2>4, <3>1 DEF Rerun
  <2>5. CASE Answered(r)
    <3>0. run[r].prompt + 1 \in Nat
      BY <2>0 DEF RunRecords
    <3>1. [run[r] EXCEPT !.prompt = @ + 1, !.session = run[r].resume, !.found = "none"] \in RunRecords
      BY <2>0, <3>0 DEF RunRecords
    <3> QED
      BY <2>3, <2>5, <3>1 DEF Answered
  <2>6. ASSUME NEW th \in Threads, Start(r, th)
        PROVE  Remembered'
    <3>1. [run[r] EXCEPT !.thread = th, !.prompt = 1, !.session = run[r].resume] \in RunRecords
      BY <2>0 DEF RunRecords
    <3> QED
      BY <2>3, <2>6, <3>1 DEF Start
  <2>7. CASE AnnounceRaises(r) \/ Finish(r) \/ AskUser(r) \/ Unanswered(r)
    BY <1>1, <2>0, <2>7 DEF AnnounceRaises, Finish, AskUser, Unanswered, RunRecords
  <2>8. CASE SessionKnown(r) \/ FindCompact(r) \/ FindAsk(r)
    <3>1. ASSUME NEW rec \in RunRecords, run' = [run EXCEPT ![r] = rec], rec.pc = run[r].pc,
                 UNCHANGED queue
          PROVE  Remembered'
      BY <1>1, <2>0, <3>1
    <3>2. CASE SessionKnown(r)
      <4> DEFINE rec == [run[r] EXCEPT !.session = Speaks(r)]
      <4>1. rec \in RunRecords /\ rec.pc = run[r].pc
        BY <2>0, <2>a DEF RunRecords
      <4> QED
        BY <3>1, <3>2, <4>1 DEF SessionKnown
    <3>3. CASE FindCompact(r)
      <4> DEFINE rec == [run[r] EXCEPT !.found = "compact", !.session = Speaks(r)]
      <4>1. rec \in RunRecords /\ rec.pc = run[r].pc
        BY <2>0, <2>a DEF RunRecords
      <4> QED
        BY <3>1, <3>3, <4>1 DEF FindCompact
    <3>4. CASE FindAsk(r)
      <4> DEFINE rec == [run[r] EXCEPT !.found = "ask"]
      <4>1. rec \in RunRecords /\ rec.pc = run[r].pc
        BY <2>0 DEF RunRecords
      <4> QED
        BY <3>1, <3>4, <4>1 DEF FindAsk
    <3> QED
      BY <2>8, <3>2, <3>3, <3>4
  <2> QED
    BY <1>3, <2>1, <2>2, <2>4, <2>5, <2>6, <2>7, <2>8 DEF RunStep, ClaudeStep, UserStep
<1> QED
  BY <1>2, <1>3 DEF Next

\* A run that waits for a slot is served in its turn: it is in the queue, and none is
\* free meanwhile (the session limit of _run_helper.py), for any limit and any runs.
\* This is the safety half of RunEnds.
THEOREM NobodyIsForgotten == Spec => [](Remembered /\ (queue # <<>> => free = 0))
<1>1. Init => Remembered
  BY DEF Init, Remembered
<1>2. IInv /\ Remembered /\ [Next]_vars => Remembered'
  BY RememberedStep DEF IInv
<1>3. IInv => (queue # <<>> => free = 0)
  BY DEF IInv, SlotInv, SlotsConserved
<1> QED
  BY <1>1, <1>2, <1>3, RunInvHolds, PTL DEF Spec
=============================================================================
