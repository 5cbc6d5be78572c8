------------------------- MODULE ThreadSessionProofs --------------------------
(***************************************************************************)
(* ThreadSession is correct for any number of threads, calls and restarts: *)
(* its type invariant, the origin of every session a thread goes on with,  *)
(* a row of pending_resumes that fires once for each on_ready task that    *)
(* reads it at most, a dictionary of active runs that is not left behind,  *)
(* waits that form no circle, and one run at a time for calm users.        *)
(***************************************************************************)
EXTENDS ThreadSession, TLAPS

USE DEF resumes

-----------------------------------------------------------------------------
(***************************************************************************)
(* Type correctness.  A record set is expanded only to see that an updated *)
(* record is still in it; the actions are then about opaque records.       *)
(***************************************************************************)
LEMMA PlacedType ==
  ASSUME NEW kind \in Kinds, NEW t \in Threads \cup {None}, NEW p \in PCs, NEW s \in Sessions
  PROVE  /\ Placed(kind, t, p, s) \in CallRecords
         /\ \A u \in Calls : [Placed(kind, t, p, s) EXCEPT !.prev = u] \in CallRecords
         /\ \A i \in Nat : [Placed(kind, t, p, s) EXCEPT !.mark = i] \in CallRecords
BY DEF Placed, CallRecords, Sessions

LEMMA InitTypeOK == Init => TypeOK
<1> SUFFICES ASSUME Init PROVE TypeOK
  OBVIOUS
<1>1. "message" \in Kinds /\ "idle" \in PCs /\ None \in Sessions
  BY DEF Kinds, PCs, Sessions
<1>2. Placed("message", None, "idle", None) \in CallRecords
  BY <1>1, PlacedType
<1> QED
  BY <1>1, <1>2 DEF Init, TypeOK, NoMarking, NotReady, Sessions

LEMMA GotoType ==
  ASSUME TypeOK, NEW c \in Calls, NEW p \in PCs, Goto(c, p)
  PROVE  call' \in [Calls -> CallRecords]
<1>1. call[c] \in CallRecords
  BY DEF TypeOK
<1>2. [call[c] EXCEPT !.pc = p] \in CallRecords
  BY <1>1 DEF CallRecords
<1> QED
  BY <1>2 DEF Goto, TypeOK

LEMMA EndedType ==
  ASSUME TypeOK, NEW c \in Calls, NEW p \in PCs
  PROVE  Ended(c, p) \in CallRecords
<1>1. call[c].thread \in Threads \cup {None} /\ call[c].mark \in Nat
  BY DEF TypeOK, CallRecords
<1>2. "message" \in Kinds /\ None \in Sessions
  BY DEF Kinds, Sessions
<1> QED
  BY <1>1, <1>2, PlacedType DEF Ended

LEMMA EndType ==
  ASSUME TypeOK, NEW c \in Calls, NEW p \in PCs, End(c, p)
  PROVE  call' \in [Calls -> CallRecords]
BY EndedType DEF End, TypeOK

LEMMA PlaceType ==
  ASSUME TypeOK, NEW c \in Calls, NEW r \in CallRecords, Place(c, r)
  PROVE  call' \in [Calls -> CallRecords]
BY DEF Place, TypeOK

LEMMA CallReads ==
  ASSUME NEW r \in CallRecords, NEW p \in PCs, NEW s \in Sessions
  PROVE  [r EXCEPT !.pc = p, !.session = s] \in CallRecords
BY DEF CallRecords

LEMMA CallWaits ==
  ASSUME NEW r \in CallRecords, NEW p \in PCs, NEW q \in Calls \cup {None},
         NEW w \in Calls \cup {None}
  PROVE  [r EXCEPT !.pc = p, !.prev = q, !.wait = w] \in CallRecords
BY DEF CallRecords

LEMMA BeginType ==
  ASSUME TypeOK, NEW c \in Calls, Begin(c)
  PROVE  call' \in [Calls -> CallRecords] /\ task' \in [Threads -> Calls \cup {None}]
<1>1. [call[c] EXCEPT !.pc = "setup", !.prev = None, !.wait = None] \in CallRecords
  <2>1. "setup" \in PCs
    BY DEF PCs, Begun
  <2>2. call[c] \in CallRecords
    BY DEF TypeOK
  <2> QED
    BY <2>1, <2>2, CallWaits
<1>2. call' = [call EXCEPT ![c] = [@ EXCEPT !.pc = "setup", !.prev = None, !.wait = None]]
  BY DEF Begin, TypeOK, CallRecords
<1> QED
  BY <1>1, <1>2 DEF Begin, TypeOK

LEMMA AwaitTaskType ==
  ASSUME TypeOK, NEW c \in Calls, AwaitTask(c)
  PROVE  call' \in [Calls -> CallRecords] /\ task' \in [Threads -> Calls \cup {None}]
<1>1. "join" \in PCs
  BY DEF PCs, SettingUp
<1> QED
  BY <1>1, GotoType, BeginType DEF AwaitTask, TypeOK

\* An idle call has no locals, any other one knows its thread, and a process
\* belongs to a run.
Shape ==
  \A c \in Calls :
    /\ call[c].pc = "idle" => call[c].thread = None /\ call[c].session = None /\ call[c].mark = 0
    /\ call[c].pc # "idle" => call[c].thread \in Threads
    /\ call[c].alive => call[c].pc = "running"

LEMMA PCFacts ==
  /\ {"idle", "lookup", "prompt", "notice", "exitwait", "join", "begin", "setup",
      "menu", "killwait", "delete", "start", "running", "done", "leaked"} = PCs
  /\ {"message", "compact", "clear", "rewind", "reset", "fork", "skill"} = Kinds
BY DEF PCs, SettingUp, Begun, Over, Kinds

LEMMA UserType ==
  ASSUME TypeOK, UserStep
  PROVE  TypeOK'
<1>0. None \in Sessions /\ \A t \in Threads : runner[t] \in Calls \cup {None} /\ row[t] \in Sessions
  BY DEF TypeOK, Sessions
<1>1. ASSUME NEW c \in Calls, NEW t \in Threads,
             NEW kind \in {"message", "compact", "rewind", "reset"}, Arrive(c, kind, t)
      PROVE  TypeOK'
  <2>1. Placed(kind, t, "lookup", None) \in CallRecords
    BY <1>0, PCFacts, PlacedType
  <2> QED
    BY <1>1, <2>1, PlaceType DEF Arrive, TypeOK
<1>2. ASSUME NEW c \in Calls, NEW t \in Threads, Clear(c, t) PROVE TypeOK'
  <2>1. /\ Placed("clear", t, "delete", None) \in CallRecords
        /\ \A u \in Calls : [Placed("clear", t, "killwait", None) EXCEPT !.prev = u] \in CallRecords
    BY <1>0, PCFacts, PlacedType
  <2>2. CASE ~Reaches(runner[t])
    <3>1. Place(c, Placed("clear", t, "delete", None))
      BY <1>2, <2>2 DEF Clear
    <3>2. call' \in [Calls -> CallRecords]
      BY <3>1, <2>1, PlaceType
    <3> QED
      BY <1>2, <2>2, <3>2 DEF Clear, TypeOK
  <2>3. CASE Reaches(runner[t])
    <3>1. runner[t] \in Calls
      BY <2>3 DEF Reaches
    <3>2. Place(c, [Placed("clear", t, "killwait", None) EXCEPT !.prev = runner[t]])
      BY <1>2, <2>3 DEF Clear
    <3>3. call' \in [Calls -> CallRecords]
      BY <3>1, <3>2, <2>1, PlaceType
    <3> QED
      BY <1>2, <2>3, <3>3 DEF Clear, TypeOK
  <2> QED
    BY <2>2, <2>3
<1>3. ASSUME NEW c \in Calls, NEW kind \in {"message", "skill"}, NEW t \in Threads,
             NEW s \in Sessions, Spawn(c, kind, t, s)
      PROVE  TypeOK'
  <2>1. Placed(kind, t, "begin", s) \in CallRecords
    BY PCFacts, PlacedType
  <2> QED
    BY <1>3, <2>1, PlaceType DEF Spawn, TypeOK
<1>4. ASSUME NEW c \in Calls, NEW t \in Threads, NEW u \in Threads, Fork(c, t, u) PROVE TypeOK'
  <2>1. Placed("fork", t, "begin", row[u]) \in CallRecords
    BY <1>0, PCFacts, PlacedType
  <2> QED
    BY <1>4, <1>0, <2>1, PlaceType DEF Fork, TypeOK
<1>5. ASSUME NEW c \in Calls, NEW t \in Threads, Skill(c, t) PROVE TypeOK'
  <2>1. Placed("skill", t, "begin", row[t]) \in CallRecords
    BY <1>0, PCFacts, PlacedType
  <2> QED
    BY <1>5, <2>1, PlaceType DEF Skill, TypeOK
<1> QED
  BY <1>0, <1>1, <1>2, <1>3, <1>4, <1>5 DEF UserStep

\* What a handler reads of its thread.
LEMMA ReadType ==
  ASSUME TypeOK, Shape, NEW c \in Calls, call[c].pc # "idle"
  PROVE  /\ call[c].thread \in Threads
         /\ runner[call[c].thread] \in Calls \cup {None}
         /\ task[call[c].thread] \in Calls \cup {None}
         /\ row[call[c].thread] \in Sessions
         /\ call[c] \in CallRecords
BY DEF TypeOK, Shape

LEMMA SessionOfType ==
  ASSUME TypeOK, NEW c \in Calls
  PROVE  SessionOf(c) \in Calls
BY DEF SessionOf, TypeOK, CallRecords, Sessions

LEMMA LaunchType ==
  ASSUME TypeOK, NEW c \in Calls,
         call' = [call EXCEPT ![c].pc = "running", ![c].alive = TRUE]
  PROVE  call' \in [Calls -> CallRecords]
<1>1. "running" \in PCs /\ call \in [Calls -> CallRecords]
  BY PCFacts DEF TypeOK
<1>2. [call[c] EXCEPT !.pc = "running", !.alive = TRUE] \in CallRecords
  BY <1>1 DEF CallRecords
<1>3. call' = [call EXCEPT ![c] = [@ EXCEPT !.pc = "running", !.alive = TRUE]]
  BY <1>1
<1> QED
  BY <1>1, <1>2, <1>3

LEMMA CallType ==
  ASSUME TypeOK, Shape, NEW c \in Calls, CallStep(c) \/ ClaudeStep(c)
  PROVE  TypeOK'
<1>1. CASE Lookup(c)
  <2>1. call[c].pc = "lookup"
    BY <1>1 DEF Lookup
  <2>2. /\ [call[c] EXCEPT !.pc = "prompt", !.session = row[call[c].thread]] \in CallRecords
        /\ [call[c] EXCEPT !.pc = "begin", !.session = row[call[c].thread]] \in CallRecords
    <3> DEFINE s == row[call[c].thread]
    <3>1. s \in Sessions /\ call[c] \in CallRecords /\ "prompt" \in PCs /\ "begin" \in PCs
      BY <2>1, ReadType, PCFacts
    <3> HIDE DEF s
    <3>2. \A p \in PCs : [call[c] EXCEPT !.pc = p, !.session = s] \in CallRecords
      BY <3>1, CallReads
    <3>3. \A p \in PCs : [call[c] EXCEPT !.pc = p, !.session = row[call[c].thread]] \in CallRecords
      BY <3>2 DEF s
    <3> QED
      BY <3>1, <3>3
  <2>3. call' \in [Calls -> CallRecords]
    <3>1. ASSUME call' = [call EXCEPT ![c].pc = "prompt", ![c].session = row[call[c].thread]]
          PROVE  call' \in [Calls -> CallRecords]
      BY <2>2, <3>1 DEF TypeOK, CallRecords
    <3>2. ASSUME call' = [call EXCEPT ![c].pc = "begin", ![c].session = row[call[c].thread]]
          PROVE  call' \in [Calls -> CallRecords]
      BY <2>2, <3>2 DEF TypeOK, CallRecords
    <3> QED
      BY <1>1, <3>1, <3>2, GotoType, EndType, PCFacts DEF Lookup
  <2> QED
    BY <1>1, <2>3 DEF Lookup, TypeOK
<1>2. CASE Drop(c)
  BY <1>2, EndType, PCFacts DEF Drop, TypeOK
<1>3. CASE CheckRunner(c)
  <2>1. call[c].pc = "prompt"
    BY <1>3 DEF CheckRunner
  <2>2. CASE Begin(c)
    BY <1>3, <2>1, <2>2, ReadType, BeginType DEF CheckRunner, TypeOK
  <2>3. CASE /\ call' = [call EXCEPT ![c].pc = "notice", ![c].prev = runner[call[c].thread],
                                     ![c].wait = task[call[c].thread]]
             /\ UNCHANGED task
    <3>1. [call[c] EXCEPT !.pc = "notice", !.prev = runner[call[c].thread],
                          !.wait = task[call[c].thread]] \in CallRecords
      BY <2>1, ReadType, PCFacts, CallWaits
    <3>2. call' \in [Calls -> CallRecords]
      BY <3>1, <2>3 DEF TypeOK, CallRecords
    <3> QED
      BY <1>3, <2>3, <3>2 DEF CheckRunner, TypeOK
  <2> QED
    BY <1>3, <2>2, <2>3 DEF CheckRunner
<1>4. CASE Interrupt(c)
  <2>1. call[c].pc = "notice"
    BY <1>4 DEF Interrupt
  <2> QED
    BY <1>4, <2>1, ReadType, AwaitTaskType, GotoType, EndType, PCFacts DEF Interrupt, TypeOK
<1>5. CASE Interrupted(c)
  <2>1. call[c].pc = "exitwait"
    BY <1>5 DEF Interrupted
  <2> QED
    BY <1>5, <2>1, ReadType, AwaitTaskType DEF Interrupted, TypeOK
<1>6. CASE Joined(c)
  <2>1. call[c].pc = "join"
    BY <1>6 DEF Joined
  <2> QED
    BY <1>6, <2>1, ReadType, BeginType DEF Joined, TypeOK
<1>7. CASE BeginRun(c)
  <2>1. call[c].pc = "begin"
    BY <1>7 DEF BeginRun
  <2> QED
    BY <1>7, <2>1, ReadType, BeginType DEF BeginRun, TypeOK
<1>8. CASE PopRunner(c)
  <2>1. call' \in [Calls -> CallRecords]
    <3>1. CASE Reaches(runner[call[c].thread])
      <4>1. runner[call[c].thread] \in Calls
        BY <3>1 DEF Reaches
      <4>2. "killwait" \in PCs /\ call[c] \in CallRecords
        BY PCFacts DEF TypeOK
      <4>3. [call[c] EXCEPT !.pc = "killwait", !.prev = runner[call[c].thread]] \in CallRecords
        BY <4>1, <4>2 DEF CallRecords
      <4>4. call' = [call EXCEPT ![c].pc = "killwait", ![c].prev = runner[call[c].thread]]
        BY <1>8, <3>1 DEF PopRunner
      <4> QED
        BY <4>3, <4>4 DEF TypeOK, CallRecords
    <3>2. CASE ~Reaches(runner[call[c].thread])
      BY <1>8, <3>2, GotoType, EndType, PCFacts DEF PopRunner
    <3> QED
      BY <3>1, <3>2
  <2> QED
    BY <1>8, <2>1 DEF PopRunner, TypeOK
<1>9. CASE Killed(c)
  <2>1. call' \in [Calls -> CallRecords]
    BY <1>9, GotoType, EndType, PCFacts DEF Killed
  <2>2. runner' \in [Threads -> Calls \cup {None}]
    BY <1>9 DEF Killed, TypeOK
  <2> QED
    BY <1>9, <2>1, <2>2 DEF Killed, TypeOK
<1>10. CASE DeleteRow(c)
  BY <1>10, EndType, PCFacts DEF DeleteRow, TypeOK, Sessions
<1>11. CASE Install(c)
  BY <1>11, GotoType, PCFacts DEF Install, TypeOK
<1>12. CASE SetupFails(c)
  BY <1>12, EndType, PCFacts DEF SetupFails, TypeOK
<1>13. CASE Launch(c)
  BY <1>13, LaunchType DEF Launch, TypeOK
<1>14. CASE CallEnd(c)
  BY <1>14, EndType, PCFacts DEF CallEnd, TypeOK
<1>15. CASE Report(c)
  BY <1>15, SessionOfType DEF Report, TypeOK, Sessions
<1>16. CASE ProcExit(c)
  <2>0. call[c] \in CallRecords
    BY DEF TypeOK
  <2>1. [call[c] EXCEPT !.alive = FALSE] \in CallRecords
    BY <2>0 DEF CallRecords
  <2> QED
    BY <1>16, <2>1 DEF ProcExit, TypeOK
<1>17. CASE SkillStarts(c)
  <2>1. call' \in [Calls -> CallRecords]
    BY <1>17, LaunchType, EndType, PCFacts DEF SkillStarts
  <2> QED
    BY <1>17, <2>1 DEF SkillStarts, TypeOK
<1>18. CASE SkillEnds(c)
  BY <1>18, EndType, PCFacts DEF SkillEnds, TypeOK
<1> QED
  BY <1>1, <1>2, <1>3, <1>4, <1>5, <1>6, <1>7, <1>8, <1>9, <1>10, <1>11, <1>12, <1>13,
     <1>14, <1>15, <1>16, <1>17, <1>18 DEF CallStep, ClaudeStep

\* What an on_ready task holds.
LEMMA HandlerType ==
  ASSUME TypeOK, NEW h \in Handlers
  PROVE  /\ ready[h].todo \subseteq Marks /\ ready[h].cur \subseteq Marks
         /\ ready[h] = [todo |-> ready[h].todo, cur |-> ready[h].cur]
BY DEF TypeOK

\* A step of one on_ready task changes its list and the row it acts on.
HandlerMoves(h, todo, cur) ==
  ready' = [ready EXCEPT ![h] = [todo |-> todo, cur |-> cur]]

LEMMA HandlerFrame ==
  ASSUME TypeOK, NEW h \in Handlers, NEW todo, NEW cur, HandlerMoves(h, todo, cur)
  PROVE  /\ ready'[h].todo = todo /\ ready'[h].cur = cur
         /\ \A g \in Handlers \ {h} : ready'[g] = ready[g]
BY DEF TypeOK, HandlerMoves

LEMMA ReadyMoves ==
  ASSUME TypeOK, NEW h \in Handlers
  PROVE  /\ \A kept : OnReady(h, kept) => HandlerMoves(h, kept, {})
         /\ \A m : ReadyDelete(h, m) => HandlerMoves(h, ready[h].todo \ {m}, {m})
         /\ ReadyFails(h) => HandlerMoves(h, {}, {})
         /\ ReadySkip(h) => HandlerMoves(h, ready[h].todo, {})
         /\ \A c, m : Resume(c, h, m) => HandlerMoves(h, ready[h].todo, {})
<1>1. /\ ready[h] = [todo |-> ready[h].todo, cur |-> ready[h].cur]
      /\ ready \in [Handlers -> [todo : SUBSET Marks, cur : SUBSET Marks]]
  BY HandlerType DEF TypeOK
<1>0. \A todo, cur, new :
        /\ [[todo |-> todo, cur |-> cur] EXCEPT !.todo = new] = [todo |-> new, cur |-> cur]
        /\ [[todo |-> todo, cur |-> cur] EXCEPT !.cur = new] = [todo |-> todo, cur |-> new]
  OBVIOUS
<1>2. ASSUME NEW kept, OnReady(h, kept) PROVE HandlerMoves(h, kept, {})
  <2>1. ready' = [ready EXCEPT ![h] = [ready[h] EXCEPT !.todo = kept]]
    BY <1>2 DEF OnReady
  <2>2. [ready[h] EXCEPT !.todo = kept] = [todo |-> kept, cur |-> {}]
    BY <1>0, <1>2 DEF OnReady, NotReady
  <2> QED
    BY <2>1, <2>2 DEF HandlerMoves
<1>3. ASSUME NEW m, ReadyDelete(h, m) PROVE HandlerMoves(h, ready[h].todo \ {m}, {m})
  BY <1>1, <1>3 DEF ReadyDelete, HandlerMoves
<1>4. ReadyFails(h) => HandlerMoves(h, {}, {})
  BY <1>1 DEF ReadyFails, NotReady, HandlerMoves
<1>5. ASSUME ready' = [ready EXCEPT ![h].cur = {}]
      PROVE  HandlerMoves(h, ready[h].todo, {})
  <2>1. ready' = [ready EXCEPT ![h] = [ready[h] EXCEPT !.cur = {}]]
    BY <1>5
  <2>2. [ready[h] EXCEPT !.cur = {}] = [todo |-> ready[h].todo, cur |-> {}]
    <3> DEFINE todo == ready[h].todo
               cur == ready[h].cur
    <3>1. ready[h] = [todo |-> todo, cur |-> cur]
      BY <1>1
    <3> HIDE DEF todo, cur
    <3>2. [ready[h] EXCEPT !.cur = {}] = [todo |-> todo, cur |-> {}]
      BY <3>1
    <3> QED
      BY <3>2 DEF todo
  <2> QED
    BY <2>1, <2>2 DEF HandlerMoves
<1> QED
  BY <1>2, <1>3, <1>4, <1>5 DEF ReadySkip, Resume

LEMMA ReadyType ==
  ASSUME TypeOK, NEW h \in Handlers, ReadyStep(h)
  PROVE  TypeOK'
<1>0. ready[h].todo \subseteq Marks /\ ready[h].cur \subseteq Marks /\ marks \subseteq Marks
  BY HandlerType DEF TypeOK
<1>1. ASSUME NEW todo \in SUBSET Marks, NEW cur \in SUBSET Marks, HandlerMoves(h, todo, cur)
      PROVE  ready' \in [Handlers -> [todo : SUBSET Marks, cur : SUBSET Marks]]
  BY <1>1 DEF TypeOK, HandlerMoves
<1>2. ASSUME NEW kept \in SUBSET marks, OnReady(h, kept) PROVE TypeOK'
  <2>1. ready' \in [Handlers -> [todo : SUBSET Marks, cur : SUBSET Marks]]
    BY <1>0, <1>1, <1>2, ReadyMoves
  <2>2. \A m \in kept : m.id \in Nat
    BY <1>0 DEF Marks
  <2> QED
    BY <1>2, <2>1, <2>2 DEF OnReady, TypeOK
<1>3. ASSUME NEW m \in ready[h].todo, ReadyDelete(h, m) PROVE TypeOK'
  <2>1. ready' \in [Handlers -> [todo : SUBSET Marks, cur : SUBSET Marks]]
    <3>1. ready[h].todo \ {m} \in SUBSET Marks /\ {m} \in SUBSET Marks
      BY <1>0
    <3> QED
      BY <3>1, <1>1, <1>3, ReadyMoves
  <2> QED
    BY <1>3, <2>1 DEF ReadyDelete, TypeOK
<1>4. CASE ReadyFails(h)
  <2>1. ready' \in [Handlers -> [todo : SUBSET Marks, cur : SUBSET Marks]]
    BY <1>1, <1>4, ReadyMoves
  <2> QED
    BY <1>4, <2>1 DEF ReadyFails, TypeOK
<1>5. CASE ReadySkip(h)
  <2>1. ready' \in [Handlers -> [todo : SUBSET Marks, cur : SUBSET Marks]]
    <3>1. ready[h].todo \in SUBSET Marks /\ {} \in SUBSET Marks
      BY <1>0
    <3> QED
      BY <3>1, <1>1, <1>5, ReadyMoves
  <2> QED
    BY <1>5, <2>1 DEF ReadySkip, TypeOK
<1>6. ASSUME NEW c \in Calls, NEW m \in ready[h].cur, Resume(c, h, m) PROVE TypeOK'
  <2>1. m.thread \in Threads /\ m.session \in Sessions /\ m.id \in Nat
    BY <1>0 DEF Marks
  <2>2. [Placed("message", m.thread, "begin", m.session) EXCEPT !.mark = m.id] \in CallRecords
    BY <2>1, PCFacts, PlacedType
  <2>3. call' \in [Calls -> CallRecords]
    BY <1>6, <2>2, PlaceType DEF Resume
  <2>4. ready' \in [Handlers -> [todo : SUBSET Marks, cur : SUBSET Marks]]
    <3>1. ready[h].todo \in SUBSET Marks /\ {} \in SUBSET Marks
      BY <1>0
    <3> QED
      BY <3>1, <1>1, <1>6, ReadyMoves
  <2> QED
    BY <1>6, <2>1, <2>3, <2>4 DEF Resume, TypeOK
<1> QED
  BY <1>2, <1>3, <1>4, <1>5, <1>6 DEF ReadyStep

LEMMA RestartType ==
  ASSUME TypeOK, RestartStep
  PROVE  TypeOK'
<1>1. ASSUME NEW T \in SUBSET Threads, MarkBegins(T) PROVE TypeOK'
  BY <1>1 DEF MarkBegins, NoMarking, TypeOK, Sessions
<1>2. ASSUME NEW t \in Threads, MarkReads(t) PROVE TypeOK'
  BY <1>2 DEF MarkReads, TypeOK
<1>3. CASE MarkWrites
  <2>1. marking.cur \in Threads /\ marking.session \in Sessions /\ written + 1 \in Nat
    BY <1>3 DEF MarkWrites, TypeOK
  <2>2. [id |-> written + 1, thread |-> marking.cur, session |-> marking.session] \in Marks
    BY <2>1 DEF Marks
  <2>3. marking' \in {NoMarking, [marking EXCEPT !.cur = None]}
    BY <1>3 DEF MarkWrites, NextMarked
  <2> QED
    BY <1>3, <2>1, <2>2, <2>3 DEF MarkWrites, NoMarking, TypeOK, Sessions
<1>4. CASE MarkFails
  <2>1. marking' \in {NoMarking, [marking EXCEPT !.cur = None]}
    BY <1>4 DEF MarkFails, NextMarked
  <2> QED
    BY <1>4, <2>1 DEF MarkFails, NoMarking, TypeOK, Sessions
<1>5. CASE Restart
  <2>1. \A c \in Calls : Ended(c, "done") \in CallRecords
    BY EndedType, PCFacts
  <2> QED
    BY <1>5, <2>1 DEF Restart, NoMarking, NotReady, TypeOK, Sessions
<1>6. ASSUME NEW h \in Handlers, ReadyStep(h) PROVE TypeOK'
  BY <1>6, ReadyType
<1> QED
  BY <1>1, <1>2, <1>3, <1>4, <1>5, <1>6 DEF RestartStep

-----------------------------------------------------------------------------
(***************************************************************************)
(* What a step does to the calls.                                          *)
(***************************************************************************)

\* A call keeps its thread and its mark, and captures only its thread's session.
LEMMA CallFrame ==
  ASSUME TypeOK, Shape, NEW c \in Calls, CallStep(c) \/ ClaudeStep(c)
  PROVE  /\ \A d \in Calls \ {c} : call'[d] = call[d]
         /\ call[c].pc # "idle" /\ call'[c].pc # "idle"
         /\ call'[c].thread = call[c].thread
         /\ call'[c].mark = call[c].mark
         /\ call'[c].session \in {None, call[c].session, row[call[c].thread]}
         /\ call'[c].alive => call'[c].pc = "running"
<1> DEFINE Frame == /\ \A d \in Calls \ {c} : call'[d] = call[d]
                    /\ call[c].pc # "idle" /\ call'[c].pc # "idle"
                    /\ call'[c].thread = call[c].thread
                    /\ call'[c].mark = call[c].mark
                    /\ call'[c].session \in {None, call[c].session, row[call[c].thread]}
                    /\ call'[c].alive => call'[c].pc = "running"
<1> HIDE DEF Frame
<1> SUFFICES Frame
  BY DEF Frame
<1>0. /\ call \in [Calls -> CallRecords] /\ call[c] \in CallRecords
      /\ call[c].alive => call[c].pc = "running"
  BY DEF TypeOK, Shape
<1>1. ASSUME NEW p \in PCs \ {"idle"}, call[c].pc # "idle" /\ call[c].pc # "running", Goto(c, p) PROVE Frame
  BY <1>0, <1>1 DEF Frame, Goto, CallRecords
<1>2. ASSUME NEW p \in PCs \ {"idle"}, call[c].pc # "idle", End(c, p) PROVE Frame
  BY <1>0, <1>2 DEF Frame, End, Ended, Placed, CallRecords
<1>3. ASSUME call[c].pc # "idle" /\ call[c].pc # "running", Begin(c) PROVE Frame
  BY <1>0, <1>3 DEF Frame, Begin, CallRecords
<1>4. ASSUME call[c].pc # "idle" /\ call[c].pc # "running", AwaitTask(c) PROVE Frame
  BY <1>1, <1>3, <1>4, PCFacts DEF AwaitTask
<1>5. CASE Lookup(c)
  <2>1. call[c].pc # "idle" /\ call[c].pc # "running"
    BY <1>5 DEF Lookup
  <2>2. ASSUME call' = [call EXCEPT ![c].pc = "prompt", ![c].session = row[call[c].thread]]
        PROVE  Frame
    BY <1>0, <2>1, <2>2 DEF Frame, CallRecords
  <2>3. ASSUME call' = [call EXCEPT ![c].pc = "begin", ![c].session = row[call[c].thread]]
        PROVE  Frame
    BY <1>0, <2>1, <2>3 DEF Frame, CallRecords
  <2> QED
    BY <1>1, <1>2, <1>5, <2>1, <2>2, <2>3, PCFacts DEF Lookup
<1>6. CASE Drop(c) \/ SetupFails(c) \/ CallEnd(c) \/ DeleteRow(c) \/ Install(c)
  <2>1. call[c].pc # "idle" /\ (Install(c) => call[c].pc # "running")
    BY <1>6 DEF Drop, SetupFails, CallEnd, DeleteRow, Install
  <2>2. End(c, "done") \/ End(c, "leaked") \/ (Install(c) /\ Goto(c, "start"))
    BY <1>6 DEF Drop, SetupFails, CallEnd, DeleteRow, Install
  <2> QED
    BY <1>1, <1>2, <2>1, <2>2, PCFacts
<1>7. CASE CheckRunner(c)
  <2>1. call[c].pc # "idle" /\ call[c].pc # "running"
    BY <1>7 DEF CheckRunner
  <2>2. ASSUME call' = [call EXCEPT ![c].pc = "notice", ![c].prev = runner[call[c].thread],
                                    ![c].wait = task[call[c].thread]]
        PROVE  Frame
    BY <1>0, <2>1, <2>2 DEF Frame, CallRecords
  <2> QED
    BY <1>3, <1>7, <2>1, <2>2 DEF CheckRunner
<1>8. CASE Interrupt(c)
  <2>1. call[c].pc # "idle" /\ call[c].pc # "running"
    BY <1>8 DEF Interrupt
  <2> QED
    BY <1>1, <1>2, <1>4, <1>8, <2>1, PCFacts DEF Interrupt
<1>9. CASE Interrupted(c) \/ Joined(c) \/ BeginRun(c)
  <2>1. call[c].pc # "idle" /\ call[c].pc # "running" /\ (Begin(c) \/ AwaitTask(c))
    BY <1>9 DEF Interrupted, Joined, BeginRun
  <2> QED
    BY <1>3, <1>4, <2>1
<1>10. CASE PopRunner(c)
  <2>1. call[c].pc # "idle" /\ call[c].pc # "running"
    BY <1>10 DEF PopRunner
  <2>2. ASSUME NEW u, call' = [call EXCEPT ![c].pc = "killwait", ![c].prev = u] PROVE Frame
    BY <1>0, <2>1, <2>2 DEF Frame, CallRecords
  <2> QED
    BY <1>1, <1>2, <1>10, <2>1, <2>2, PCFacts DEF PopRunner
<1>11. CASE Killed(c)
  <2>1. call[c].pc # "idle" /\ call[c].pc # "running"
    BY <1>11 DEF Killed
  <2> QED
    BY <1>1, <1>2, <1>11, <2>1, PCFacts DEF Killed
<1>12. ASSUME call[c].pc # "idle",
              call' = [call EXCEPT ![c].pc = "running", ![c].alive = TRUE]
       PROVE  Frame
  BY <1>0, <1>12 DEF Frame, CallRecords
<1>13. CASE Report(c)
  BY <1>0, <1>13 DEF Frame, Report, CallRecords
<1>14. CASE ProcExit(c)
  <2>1. call[c].pc # "idle"
    BY <1>0, <1>14 DEF ProcExit
  <2> QED
    BY <1>0, <1>14, <2>1 DEF Frame, ProcExit, CallRecords
<1>15. CASE Launch(c)
  BY <1>12, <1>15 DEF Launch
<1>16. CASE SkillStarts(c) \/ SkillEnds(c)
  <2>1. call[c].pc # "idle"
    BY <1>16 DEF SkillStarts, SkillEnds
  <2> QED
    BY <1>2, <1>12, <1>16, <2>1, PCFacts DEF SkillStarts, SkillEnds
<1> QED
  BY <1>5, <1>6, <1>7, <1>8, <1>9, <1>10, <1>11, <1>13, <1>14, <1>15, <1>16
     DEF CallStep, ClaudeStep

\* What users start: an idle call, with no session or the one of the thread's row,
\* or in a new thread with the one it is given.
Placing(c, t, s) ==
  /\ call[c].pc = "idle"
  /\ \A d \in Calls \ {c} : call'[d] = call[d]
  /\ call'[c].pc # "idle" /\ ~call'[c].alive
  /\ call'[c].thread = t /\ call'[c].session = s

LEMMA UserFrame ==
  ASSUME TypeOK, Shape, UserStep
  PROVE  /\ UNCHANGED <<row, marks, written, marking, ready, shared, doubled>>
         /\ \E c \in Calls, t \in Threads, s \in Sessions :
              /\ Placing(c, t, s) /\ call'[c].mark = 0
              /\ \/ s \in {None, row[t]} /\ UNCHANGED given
                 \/ Untouched(t) /\ given' = [given EXCEPT ![t] = s]
<1> DEFINE Frame == /\ UNCHANGED <<row, marks, written, marking, ready, shared, doubled>>
                    /\ \E c \in Calls, t \in Threads, s \in Sessions :
                         /\ Placing(c, t, s) /\ call'[c].mark = 0
                         /\ \/ s \in {None, row[t]} /\ UNCHANGED given
                            \/ Untouched(t) /\ given' = [given EXCEPT ![t] = s]
<1> HIDE DEF Frame
<1> SUFFICES Frame
  BY DEF Frame
<1>0. None \in Sessions /\ \A t \in Threads : row[t] \in Sessions
  BY DEF TypeOK, Sessions
<1>1. ASSUME NEW c \in Calls, NEW t \in Threads, NEW kind, NEW pc, NEW s, pc # "idle",
             Place(c, Placed(kind, t, pc, s))
      PROVE  Placing(c, t, s) /\ call'[c].mark = 0
  BY <1>1 DEF TypeOK, Place, Placed, Placing
<1>2. ASSUME NEW c \in Calls, NEW t \in Threads,
             NEW kind \in {"message", "compact", "rewind", "reset"}, Arrive(c, kind, t)
      PROVE  Frame
  <2>1. Placing(c, t, None) /\ call'[c].mark = 0
    BY <1>1, <1>2 DEF Arrive
  <2> QED
    BY <1>0, <1>2, <2>1 DEF Arrive, Frame
<1>3. ASSUME NEW c \in Calls, NEW t \in Threads, Clear(c, t) PROVE Frame
  <2>1. Placing(c, t, None) /\ call'[c].mark = 0
    <3>1. CASE Place(c, Placed("clear", t, "delete", None))
      BY <1>1, <3>1
    <3>2. CASE Place(c, [Placed("clear", t, "killwait", None) EXCEPT !.prev = runner[t]])
      BY <3>2 DEF TypeOK, Place, Placed, Placing
    <3> QED
      BY <1>3, <3>1, <3>2 DEF Clear
  <2> QED
    BY <1>0, <1>3, <2>1 DEF Clear, Frame
<1>4. ASSUME NEW c \in Calls, NEW kind, NEW t \in Threads, NEW s \in Sessions,
             Spawn(c, kind, t, s)
      PROVE  Frame
  <2>1. Placing(c, t, s) /\ call'[c].mark = 0
    BY <1>1, <1>4 DEF Spawn
  <2> QED
    BY <1>4, <2>1 DEF Spawn, Frame
<1>5. ASSUME NEW c \in Calls, NEW t \in Threads, NEW u \in Threads, Fork(c, t, u) PROVE Frame
  <2>1. Placing(c, t, row[u]) /\ call'[c].mark = 0
    BY <1>1, <1>5 DEF Fork
  <2> QED
    BY <1>0, <1>5, <2>1 DEF Fork, Frame
<1>6. ASSUME NEW c \in Calls, NEW t \in Threads, Skill(c, t) PROVE Frame
  <2>1. Placing(c, t, row[t]) /\ call'[c].mark = 0
    BY <1>1, <1>6 DEF Skill
  <2> QED
    BY <1>0, <1>6, <2>1 DEF Skill, Frame
<1> QED
  BY <1>0, <1>2, <1>3, <1>4, <1>5, <1>6 DEF UserStep

LEMMA ResumeFrame ==
  ASSUME TypeOK, NEW c \in Calls, NEW h \in Handlers, NEW m \in ready[h].cur, Resume(c, h, m)
  PROVE  /\ m \in Marks
         /\ Placing(c, m.thread, m.session) /\ call'[c].mark = m.id
<1>1. m \in Marks
  BY HandlerType
<1>2. call' = [call EXCEPT ![c] = [Placed("message", m.thread, "begin", m.session)
                                     EXCEPT !.mark = m.id]] /\ call[c].pc = "idle"
  BY DEF Resume, Place
<1> QED
  BY <1>1, <1>2 DEF TypeOK, Placed, Placing

\* A restart ends the calls that are on their way.
LEMMA RestartFrame ==
  ASSUME TypeOK, Shape, Restart
  PROVE  \A c \in Calls :
           /\ (call'[c].pc = "idle") <=> (call[c].pc = "idle")
           /\ call'[c].thread = call[c].thread /\ call'[c].mark = call[c].mark
           /\ call'[c].session \in {None, call[c].session}
           /\ call'[c].alive => call'[c].pc = "running"
<1> SUFFICES ASSUME NEW c \in Calls
             PROVE  /\ (call'[c].pc = "idle") <=> (call[c].pc = "idle")
                    /\ call'[c].thread = call[c].thread /\ call'[c].mark = call[c].mark
                    /\ call'[c].session \in {None, call[c].session}
                    /\ call'[c].alive => call'[c].pc = "running"
  OBVIOUS
<1>1. CASE Live(c)
  <2>1. call'[c] = Ended(c, "done")
    BY <1>1 DEF Restart
  <2>2. call[c].pc # "idle"
    BY <1>1 DEF Live, SettingUp, Begun
  <2> QED
    BY <2>1, <2>2 DEF Ended, Placed
<1>2. CASE ~Live(c)
  BY <1>2 DEF Restart, Shape
<1> QED
  BY <1>1, <1>2

\* The steps of an on_ready task, and of the marking, that leave the calls and the
\* sessions alone.
ReadyTurn(h) ==
  \/ \E kept \in SUBSET marks : OnReady(h, kept)
  \/ \E m \in ready[h].todo : ReadyDelete(h, m)
  \/ ReadyFails(h)
  \/ ReadySkip(h)

MarkStep ==
  \/ \E T \in SUBSET Threads : MarkBegins(T)
  \/ \E t \in Threads : MarkReads(t)
  \/ MarkWrites \/ MarkFails
  \/ \E h \in Handlers : ReadyTurn(h)

LEMMA TurnFrame ==
  ASSUME NEW h \in Handlers, ReadyTurn(h)
  PROVE  UNCHANGED <<runner, task, row, call, given, calm, written, marking, doubled>>
BY DEF ReadyTurn, OnReady, ReadyDelete, ReadyFails, ReadySkip

LEMMA MarkFrame == MarkStep => UNCHANGED <<runner, task, row, call, given, calm, doubled>>
BY TurnFrame DEF MarkStep, MarkBegins, MarkReads, MarkWrites, MarkFails

LEMMA NextCases ==
  ASSUME Next
  PROVE  \/ UserStep
         \/ \E c \in Calls : CallStep(c) \/ ClaudeStep(c)
         \/ MarkStep
         \/ Restart
         \/ \E h \in Handlers : \E c \in Calls, m \in ready[h].cur : Resume(c, h, m)
BY DEF Next, RestartStep, MarkStep, ReadyStep, ReadyTurn

LEMMA CallUnchanged ==
  ASSUME NEW c \in Calls, CallStep(c) \/ ClaudeStep(c)
  PROVE  UNCHANGED <<marks, written, marking, ready, shared, doubled, given, calm>>
<1> HIDE DEF resumes
<1>1. CASE \/ Lookup(c) \/ Drop(c) \/ CheckRunner(c) \/ Interrupt(c) \/ Interrupted(c)
         \/ Joined(c) \/ BeginRun(c) \/ PopRunner(c) \/ Killed(c)
  <2>1. UNCHANGED <<resumes, given, calm>>
    BY <1>1 DEF Lookup, Drop, CheckRunner, Interrupt, Interrupted, Joined, BeginRun,
       PopRunner, Killed
  <2> QED
    BY <2>1 DEF resumes
<1>2. CASE \/ DeleteRow(c) \/ Install(c) \/ SetupFails(c) \/ Launch(c) \/ CallEnd(c)
         \/ SkillStarts(c) \/ SkillEnds(c) \/ Report(c) \/ ProcExit(c)
  <2>1. UNCHANGED <<resumes, given, calm>>
    BY <1>2 DEF DeleteRow, Install, SetupFails, Launch, CallEnd, SkillStarts, SkillEnds,
       Report, ProcExit
  <2> QED
    BY <2>1 DEF resumes
<1> QED
  BY <1>1, <1>2 DEF CallStep, ClaudeStep

LEMMA ShapePlacing ==
  ASSUME Shape, NEW c \in Calls, NEW t \in Threads, NEW s, Placing(c, t, s)
  PROVE  Shape'
BY DEF Shape, Placing

LEMMA StepShape ==
  ASSUME TypeOK, Shape, Next
  PROVE  Shape'
<1>1. CASE UserStep
  BY <1>1, UserFrame, ShapePlacing
<1>2. ASSUME NEW c \in Calls, CallStep(c) \/ ClaudeStep(c) PROVE Shape'
  <2>1. SUFFICES ASSUME NEW d \in Calls
                 PROVE  /\ call'[d].pc = "idle" => call'[d].thread = None
                             /\ call'[d].session = None /\ call'[d].mark = 0
                        /\ call'[d].pc # "idle" => call'[d].thread \in Threads
                        /\ call'[d].alive => call'[d].pc = "running"
    BY DEF Shape
  <2>2. CASE d = c
    BY <1>2, <2>2, CallFrame DEF Shape
  <2>3. CASE d # c
    <3>1. call'[d] = call[d]
      BY <1>2, <2>3, CallFrame
    <3> QED
      BY <3>1 DEF Shape
  <2> QED
    BY <2>2, <2>3
<1>3. CASE MarkStep
  BY <1>3, MarkFrame DEF Shape
<1>4. CASE Restart
  BY <1>4, RestartFrame DEF Shape
<1>5. ASSUME NEW h \in Handlers, NEW c \in Calls, NEW m \in ready[h].cur, Resume(c, h, m) PROVE Shape'
  <2>1. m.thread \in Threads /\ Placing(c, m.thread, m.session)
    BY <1>5, ResumeFrame DEF Marks
  <2> QED
    BY <2>1, ShapePlacing
<1> QED
  BY <1>1, <1>2, <1>3, <1>4, <1>5, NextCases

LEMMA TypeStep ==
  ASSUME TypeOK, Shape, [Next]_vars
  PROVE  TypeOK' /\ Shape'
<1>1. CASE Next
  BY <1>1, UserType, CallType, RestartType, StepShape DEF Next
<1>2. CASE UNCHANGED vars
  BY <1>2 DEF vars, TypeOK, Shape
<1> QED
  BY <1>1, <1>2

LEMMA InitShape == Init => Shape
BY DEF Init, Placed, Shape

\* Every variable keeps its type in every behaviour of the bot.
THEOREM TypeCorrect == Spec => []TypeOK
<1>1. TypeOK /\ Shape /\ [Next]_vars => TypeOK' /\ Shape'
  BY TypeStep
<1> QED
  BY <1>1, InitTypeOK, InitShape, PTL DEF Spec

\* The type and the shape of a call (what its fields are at each pc) hold of every
\* behaviour; the invariants below rest on both.
THEOREM TypeAndShape == Spec => [](TypeOK /\ Shape)
<1>1. TypeOK /\ Shape /\ [Next]_vars => (TypeOK /\ Shape)'
  BY TypeStep
<1> QED
  BY <1>1, InitTypeOK, InitShape, PTL DEF Spec

-----------------------------------------------------------------------------
(***************************************************************************)
(* A mark fires once.  Unless two on_ready tasks have read it, its id is   *)
(* in one place: with the table and one task's list, with the entry that a *)
(* task is acting on, or with the call that resumed it.  A row that a task *)
(* acts on is no longer in the table, and an id is never given twice.      *)
(***************************************************************************)
Holds(h) == ready[h].todo \cup ready[h].cur

EveryRow == marks \cup UNION {Holds(h) : h \in Handlers}

Fire ==
  /\ \A m \in EveryRow : m.id # 0 /\ m.id <= written
  /\ \A m, n \in EveryRow : m.id = n.id => m = n
  /\ \A c \in Calls : call[c].mark <= written
  /\ \A m \in marks, c \in Calls : call[c].mark # m.id
  /\ \A h \in Handlers : \A m \in ready[h].cur :
       /\ \A n \in ready[h].cur : m = n
       /\ \A n \in marks \cup ready[h].todo : m.id # n.id
  /\ \A h \in Handlers : \A m \in Holds(h) :
       /\ \A g \in Handlers \ {h} : \A n \in Holds(g) : m.id = n.id => m.id \in shared
       /\ \A c \in Calls : call[c].mark = m.id => m.id \in shared
  /\ SingleFire

LEMMA InitFire == Init => Fire
BY DEF Init, NotReady, Placed, Holds, EveryRow, Fire, SingleFire

\* Rows are let go of, and no call gets a new mark.
LEMMA LessFire ==
  ASSUME TypeOK, Fire, marks' \subseteq marks, written' = written, shared \subseteq shared',
         \A h \in Handlers :
           ready'[h].todo \subseteq ready[h].todo /\ ready'[h].cur \subseteq ready[h].cur,
         \A c \in Calls : call'[c].mark \in {0, call[c].mark}
  PROVE  Fire'
<1>1. /\ EveryRow' \subseteq EveryRow /\ \A h \in Handlers : Holds(h)' \subseteq Holds(h)
      /\ \A h \in Handlers : Holds(h) \subseteq EveryRow
  BY DEF EveryRow, Holds
<1>2. /\ \A m \in EveryRow' : m.id # 0 /\ m.id <= written'
      /\ \A m, n \in EveryRow' : m.id = n.id => m = n
  BY <1>1 DEF Fire
<1>3. /\ \A c \in Calls : call'[c].mark <= written'
      /\ \A m \in marks', c \in Calls : call'[c].mark # m.id
  <2>1. written \in Nat /\ marks \subseteq EveryRow
    BY DEF TypeOK, EveryRow
  <2> QED
    BY <2>1 DEF Fire
<1>4. \A h \in Handlers : \A m \in ready'[h].cur :
        /\ \A n \in ready'[h].cur : m = n
        /\ \A n \in marks' \cup ready'[h].todo : m.id # n.id
  BY DEF Fire
<1>5. \A h \in Handlers : \A m \in Holds(h)' :
        /\ \A g \in Handlers \ {h} : \A n \in Holds(g)' : m.id = n.id => m.id \in shared'
        /\ \A c \in Calls : call'[c].mark = m.id => m.id \in shared'
  BY <1>1 DEF Fire
<1>6. SingleFire'
  BY DEF Fire, SingleFire
<1> QED
  BY <1>2, <1>3, <1>4, <1>5, <1>6 DEF Fire

LEMMA WritesFire ==
  ASSUME TypeOK, Fire, MarkWrites
  PROVE  Fire'
<1> DEFINE new == [id |-> written + 1, thread |-> marking.cur, session |-> marking.session]
<1>1. /\ marks' \subseteq marks \cup {new} /\ UNCHANGED <<ready, call, shared>>
      /\ written' = written + 1 /\ written \in Nat
  BY DEF MarkWrites, TypeOK
<1>2. new.id = written + 1
  OBVIOUS
<1>3. /\ \A m \in EveryRow : m.id \in Nat /\ m.id <= written
      /\ \A c \in Calls : call[c].mark \in Nat /\ call[c].mark <= written
  BY HandlerType DEF TypeOK, Marks, EveryRow, Holds, CallRecords, Fire
<1> HIDE DEF new
<1>4. /\ EveryRow' \subseteq EveryRow \cup {new}
      /\ \A h \in Handlers : Holds(h)' = Holds(h) /\ Holds(h) \subseteq EveryRow
  BY <1>1 DEF EveryRow, Holds
<1>5. /\ \A m \in EveryRow' : m.id # 0 /\ m.id <= written'
      /\ \A m, n \in EveryRow' : m.id = n.id => m = n
  BY <1>1, <1>2, <1>3, <1>4 DEF Fire
<1>6. /\ \A c \in Calls : call'[c].mark <= written'
      /\ \A m \in marks', c \in Calls : call'[c].mark # m.id
  BY <1>1, <1>2, <1>3 DEF Fire
<1>7. \A h \in Handlers : \A m \in ready'[h].cur :
        /\ \A n \in ready'[h].cur : m = n
        /\ \A n \in marks' \cup ready'[h].todo : m.id # n.id
  <2>1. \A h \in Handlers : \A m \in ready[h].cur : m \in EveryRow
    BY DEF EveryRow, Holds
  <2> QED
    BY <1>1, <1>2, <1>3, <2>1 DEF Fire
<1>8. \A h \in Handlers : \A m \in Holds(h)' :
        /\ \A g \in Handlers \ {h} : \A n \in Holds(g)' : m.id = n.id => m.id \in shared'
        /\ \A c \in Calls : call'[c].mark = m.id => m.id \in shared'
  BY <1>1, <1>4 DEF Fire
<1>9. SingleFire'
  BY <1>1 DEF Fire, SingleFire
<1> QED
  BY <1>5, <1>6, <1>7, <1>8, <1>9 DEF Fire

LEMMA ReadsFire ==
  ASSUME TypeOK, Fire, NEW h \in Handlers, NEW kept \in SUBSET marks, OnReady(h, kept)
  PROVE  Fire'
<1>1. /\ ready'[h].todo = kept /\ ready'[h].cur = {} /\ Holds(h) = {}
      /\ \A g \in Handlers \ {h} : ready'[g] = ready[g]
  <2>1. HandlerMoves(h, kept, {})
    BY ReadyMoves
  <2>2. Holds(h) = {}
    BY DEF OnReady, NotReady, Holds
  <2> QED
    BY <2>1, <2>2, HandlerFrame
<1>2. /\ marks' = kept /\ UNCHANGED <<call, written>>
      /\ shared \subseteq shared'
      /\ \A g \in Handlers, m \in kept : m \in ready[g].todo => m.id \in shared'
  BY DEF OnReady
<1>3. /\ Holds(h)' = kept
      /\ \A g \in Handlers \ {h} : Holds(g)' = Holds(g)
      /\ \A g \in Handlers : Holds(g) \subseteq EveryRow
      /\ kept \subseteq EveryRow
  BY <1>1 DEF Holds, EveryRow
<1>4. EveryRow' \subseteq EveryRow
  BY <1>2, <1>3 DEF EveryRow
<1>5. /\ \A m \in EveryRow' : m.id # 0 /\ m.id <= written'
      /\ \A m, n \in EveryRow' : m.id = n.id => m = n
      /\ \A c \in Calls : call'[c].mark <= written'
      /\ \A m \in marks', c \in Calls : call'[c].mark # m.id
  BY <1>2, <1>4 DEF Fire
<1>6. \A g \in Handlers : \A m \in ready'[g].cur :
        /\ \A n \in ready'[g].cur : m = n
        /\ \A n \in marks' \cup ready'[g].todo : m.id # n.id
  BY <1>1, <1>2 DEF Fire
<1>7. \A g \in Handlers \ {h} : \A m \in Holds(g), n \in kept : m.id = n.id => n.id \in shared'
  <2> SUFFICES ASSUME NEW g \in Handlers \ {h}, NEW m \in Holds(g), NEW n \in kept, m.id = n.id
               PROVE  n.id \in shared'
    OBVIOUS
  <2>1. m = n
    BY <1>3 DEF Fire
  <2>2. m \in ready[g].todo
    BY <2>1 DEF Fire, Holds
  <2> QED
    BY <1>2, <2>1, <2>2
<1>8. \A g \in Handlers : \A m \in Holds(g)' :
        /\ \A e \in Handlers \ {g} : \A n \in Holds(e)' : m.id = n.id => m.id \in shared'
        /\ \A c \in Calls : call'[c].mark = m.id => m.id \in shared'
  BY <1>2, <1>3, <1>7 DEF Fire
<1>9. SingleFire'
  BY <1>2 DEF Fire, SingleFire
<1> QED
  BY <1>5, <1>6, <1>8, <1>9 DEF Fire

LEMMA DeletesFire ==
  ASSUME TypeOK, Fire, NEW h \in Handlers, NEW m \in ready[h].todo, ReadyDelete(h, m)
  PROVE  Fire'
<1>1. /\ ready'[h].todo = ready[h].todo \ {m} /\ ready'[h].cur = {m} /\ ready[h].cur = {}
      /\ \A g \in Handlers \ {h} : ready'[g] = ready[g]
  <2>1. HandlerMoves(h, ready[h].todo \ {m}, {m})
    BY ReadyMoves
  <2>2. ready[h].cur = {}
    BY DEF ReadyDelete
  <2> QED
    BY <2>1, <2>2, HandlerFrame
<1>2. marks' = {n \in marks : n.id # m.id} /\ UNCHANGED <<call, written, shared>>
  BY DEF ReadyDelete
<1>3. /\ \A g \in Handlers : Holds(g)' = Holds(g) /\ Holds(g) \subseteq EveryRow
      /\ m \in Holds(h)
  BY <1>1 DEF Holds, EveryRow
<1>4. EveryRow' \subseteq EveryRow
  BY <1>2, <1>3 DEF EveryRow
<1>5. /\ \A k \in EveryRow' : k.id # 0 /\ k.id <= written'
      /\ \A k, n \in EveryRow' : k.id = n.id => k = n
      /\ \A c \in Calls : call'[c].mark <= written'
      /\ \A k \in marks', c \in Calls : call'[c].mark # k.id
  BY <1>2, <1>4 DEF Fire
<1>6. \A g \in Handlers : \A k \in ready'[g].cur :
        /\ \A n \in ready'[g].cur : k = n
        /\ \A n \in marks' \cup ready'[g].todo : k.id # n.id
  <2>1. \A n \in ready[h].todo \ {m} : m.id # n.id
    BY <1>3 DEF Fire, Holds
  <2> QED
    BY <1>1, <1>2, <2>1 DEF Fire
<1>7. \A g \in Handlers : \A k \in Holds(g)' :
        /\ \A e \in Handlers \ {g} : \A n \in Holds(e)' : k.id = n.id => k.id \in shared'
        /\ \A c \in Calls : call'[c].mark = k.id => k.id \in shared'
  BY <1>2, <1>3 DEF Fire
<1>8. SingleFire'
  BY <1>2 DEF Fire, SingleFire
<1> QED
  BY <1>5, <1>6, <1>7, <1>8 DEF Fire

LEMMA ResumesFire ==
  ASSUME TypeOK, Fire, NEW h \in Handlers, NEW c \in Calls, NEW m \in ready[h].cur,
         Resume(c, h, m)
  PROVE  Fire'
<1>1. /\ ready'[h].todo = ready[h].todo /\ ready'[h].cur = {}
      /\ \A g \in Handlers \ {h} : ready'[g] = ready[g]
  <2>1. HandlerMoves(h, ready[h].todo, {})
    BY ReadyMoves
  <2> QED
    BY <2>1, HandlerFrame
<1>2. /\ UNCHANGED <<marks, written, shared>>
      /\ call'[c].mark = m.id /\ \A d \in Calls \ {c} : call'[d] = call[d]
  BY ResumeFrame DEF Resume, Placing
<1>3. /\ \A g \in Handlers \ {h} : Holds(g)' = Holds(g)
      /\ Holds(h)' = ready[h].todo
      /\ \A g \in Handlers : Holds(g)' \subseteq Holds(g) /\ Holds(g) \subseteq EveryRow
      /\ m \in Holds(h) /\ m \in EveryRow
  BY <1>1 DEF Holds, EveryRow
<1>4. EveryRow' \subseteq EveryRow
  BY <1>2, <1>3 DEF EveryRow
<1>5. /\ \A k \in EveryRow' : k.id # 0 /\ k.id <= written'
      /\ \A k, n \in EveryRow' : k.id = n.id => k = n
      /\ \A d \in Calls : call'[d].mark <= written'
      /\ \A k \in marks', d \in Calls : call'[d].mark # k.id
  BY <1>2, <1>3, <1>4 DEF Fire
<1>6. \A g \in Handlers : \A k \in ready'[g].cur :
        /\ \A n \in ready'[g].cur : k = n
        /\ \A n \in marks' \cup ready'[g].todo : k.id # n.id
  BY <1>1, <1>2 DEF Fire
<1>7. \A g \in Handlers : \A k \in Holds(g)' :
        \A e \in Handlers \ {g} : \A n \in Holds(e)' : k.id = n.id => k.id \in shared'
  BY <1>2, <1>3 DEF Fire
<1>8. \A g \in Handlers : \A k \in Holds(g)' : m.id = k.id => k.id \in shared
  <2>1. \A k \in ready[h].todo : m.id # k.id
    BY DEF Fire
  <2> QED
    BY <1>3, <2>1 DEF Fire
<1>9. \A g \in Handlers : \A k \in Holds(g)' : \A d \in Calls :
        call'[d].mark = k.id => k.id \in shared'
  BY <1>2, <1>3, <1>8 DEF Fire
<1>10. SingleFire'
  <2>1. \A d \in Calls : call[d].mark = m.id => m.id \in shared
    BY <1>3 DEF Fire
  <2> QED
    BY <1>2, <2>1 DEF Fire, SingleFire
<1> QED
  BY <1>5, <1>6, <1>7, <1>9, <1>10 DEF Fire

LEMMA StepFire ==
  ASSUME TypeOK, Shape, Fire, Next
  PROVE  Fire'
<1>1. CASE UserStep
  <2>1. /\ UNCHANGED <<marks, written, ready, shared>>
        /\ \A c \in Calls : call'[c].mark \in {0, call[c].mark}
    BY <1>1, UserFrame DEF Placing
  <2> QED
    BY <2>1, LessFire
<1>2. ASSUME NEW c \in Calls, CallStep(c) \/ ClaudeStep(c) PROVE Fire'
  <2>1. /\ UNCHANGED <<marks, written, ready, shared>>
        /\ \A d \in Calls : call'[d].mark \in {0, call[d].mark}
    BY <1>2, CallFrame, CallUnchanged
  <2> QED
    BY <2>1, LessFire
<1>3. CASE Restart
  <2>1. /\ UNCHANGED <<marks, written, shared>>
        /\ \A h \in Handlers : ready'[h].todo = {} /\ ready'[h].cur = {}
    BY <1>3 DEF Restart, NotReady
  <2>2. \A c \in Calls : call'[c].mark \in {0, call[c].mark}
    BY <1>3, RestartFrame
  <2> QED
    BY <2>1, <2>2, LessFire
<1>4. ASSUME UNCHANGED <<marks, written, ready, call, shared>> PROVE Fire'
  BY <1>4, LessFire
<1>5. ASSUME NEW T \in SUBSET Threads, MarkBegins(T) PROVE Fire'
  BY <1>4, <1>5 DEF MarkBegins
<1>6. ASSUME NEW t \in Threads, MarkReads(t) PROVE Fire'
  BY <1>4, <1>6 DEF MarkReads
<1>7. CASE MarkFails
  BY <1>4, <1>7 DEF MarkFails
<1>8. ASSUME NEW h \in Handlers, ReadyFails(h) \/ ReadySkip(h) PROVE Fire'
  <2>1. UNCHANGED <<marks, written, call, shared>>
    BY <1>8 DEF ReadyFails, ReadySkip
  <2>2. \A g \in Handlers :
          ready'[g].todo \subseteq ready[g].todo /\ ready'[g].cur \subseteq ready[g].cur
    <3>1. HandlerMoves(h, {}, {}) \/ HandlerMoves(h, ready[h].todo, {})
      BY <1>8, ReadyMoves
    <3> QED
      BY <3>1, HandlerFrame
  <2> QED
    BY <2>1, <2>2, LessFire
<1>9. CASE MarkStep
  BY <1>5, <1>6, <1>7, <1>8, <1>9, WritesFire, ReadsFire, DeletesFire DEF MarkStep, ReadyTurn
<1> QED
  BY <1>1, <1>2, <1>3, <1>9, ResumesFire, NextCases

\* A row of pending_resumes resumes its thread at most once, wherever a crash
\* falls between its being read, deleted and acted upon, unless two on_ready tasks
\* of one process had both read it before either deleted it.
THEOREM FiresOnce == Spec => []SingleFire
<1>1. TypeOK /\ Shape /\ Fire /\ [Next]_vars => Fire'
  <2>1. ASSUME Fire, UNCHANGED vars PROVE Fire'
    BY <2>1 DEF vars, Fire, SingleFire, EveryRow, Holds
  <2> QED
    BY <2>1, StepFire
<1>2. Fire => SingleFire
  BY DEF Fire
<1> QED
  BY <1>1, <1>2, InitFire, TypeAndShape, PTL DEF Spec

-----------------------------------------------------------------------------
(***************************************************************************)
(* The origin of sessions.  Besides rows, calls and marks, the handlers of *)
(* a restart hold sessions: on_ready's tasks in their lists, the marking   *)
(* in its locals.  A thread that was given a session has been seen by a    *)
(* call, so a new thread disturbs no ownership.                            *)
(***************************************************************************)
Origin ==
  /\ SessionOrigin
  /\ \A m \in EveryRow : m.session # None => Own(m.thread, m.session)
  /\ marking.cur # None /\ marking.session # None => Own(marking.cur, marking.session)
  /\ \A t \in Threads : given[t] # None => \E c \in Calls : call[c].thread = t

LEMMA InitOrigin == Init => Origin
BY DEF Init, NotReady, NoMarking, Placed, EveryRow, Holds, Origin, SessionOrigin

\* on_ready's tasks make no rows.
LEMMA TurnRows ==
  ASSUME TypeOK, NEW h \in Handlers,
         ReadyTurn(h) \/ \E c \in Calls, m \in ready[h].cur : Resume(c, h, m)
  PROVE  EveryRow' \subseteq EveryRow
<1>0. \A todo, cur : HandlerMoves(h, todo, cur) => Holds(h)' = todo \cup cur
                        /\ \A g \in Handlers \ {h} : Holds(g)' = Holds(g)
  BY HandlerFrame DEF Holds
<1>1. ASSUME NEW todo, NEW cur, HandlerMoves(h, todo, cur),
             todo \cup cur \subseteq marks \cup Holds(h), marks' \subseteq marks
      PROVE  EveryRow' \subseteq EveryRow
  BY <1>0, <1>1 DEF EveryRow
<1>2. ASSUME NEW kept \in SUBSET marks, OnReady(h, kept) PROVE EveryRow' \subseteq EveryRow
  <2>1. HandlerMoves(h, kept, {}) /\ marks' = kept
    BY <1>2, ReadyMoves DEF OnReady
  <2> QED
    BY <1>1, <2>1
<1>3. ASSUME NEW m \in ready[h].todo, ReadyDelete(h, m) PROVE EveryRow' \subseteq EveryRow
  <2>1. HandlerMoves(h, ready[h].todo \ {m}, {m}) /\ marks' \subseteq marks
    BY <1>3, ReadyMoves DEF ReadyDelete
  <2>2. (ready[h].todo \ {m}) \cup {m} \subseteq marks \cup Holds(h)
    BY DEF Holds
  <2> QED
    BY <1>1, <2>1, <2>2
<1>4. ASSUME ReadyFails(h) \/ ReadySkip(h) \/ \E c \in Calls, m \in ready[h].cur : Resume(c, h, m)
      PROVE  EveryRow' \subseteq EveryRow
  <2>1. HandlerMoves(h, {}, {}) \/ HandlerMoves(h, ready[h].todo, {})
    BY <1>4, ReadyMoves
  <2>2. marks' = marks
    BY <1>4 DEF ReadyFails, ReadySkip, Resume
  <2>3. {} \cup {} \subseteq marks \cup Holds(h) /\ ready[h].todo \cup {} \subseteq marks \cup Holds(h)
    BY DEF Holds
  <2> QED
    BY <1>1, <2>1, <2>2, <2>3
<1> QED
  BY <1>2, <1>3, <1>4 DEF ReadyTurn

\* Ownership in the next state.
OwnNext(t, s) == s = given'[t] \/ call'[s].thread = t

\* Ownership is never lost.
LEMMA OwnKept ==
  ASSUME TypeOK, Shape, Origin, Next, NEW t \in Threads, NEW s \in Calls, Own(t, s)
  PROVE  OwnNext(t, s)
<1>1. CASE UserStep
  <2>1. PICK c \in Calls, u \in Threads, r \in Sessions :
          /\ Placing(c, u, r)
          /\ \/ r \in {None, row[u]} /\ UNCHANGED given
             \/ Untouched(u) /\ given' = [given EXCEPT ![u] = r]
    BY <1>1, UserFrame
  <2>2. CASE call[s].thread = t
    <3>1. s # c
      BY <2>1, <2>2, NoneAssumption DEF Placing, Shape
    <3> QED
      BY <2>1, <2>2, <3>1 DEF Placing, Own, OwnNext
  <2>3. CASE s = given[t]
    <3>1. \E d \in Calls : call[d].thread = t
      BY <2>3, NoneAssumption DEF Origin
    <3>2. given'[t] = given[t]
      BY <2>1, <3>1 DEF Untouched, TypeOK
    <3> QED
      BY <2>3, <3>2 DEF Own, OwnNext
  <2> QED
    BY <2>2, <2>3 DEF Own, OwnNext
<1>2. ASSUME NEW c \in Calls, CallStep(c) \/ ClaudeStep(c) PROVE OwnNext(t, s)
  <2>1. call'[s].thread = call[s].thread /\ UNCHANGED given
    BY <1>2, CallFrame, CallUnchanged
  <2> QED
    BY <2>1 DEF Own, OwnNext
<1>3. CASE MarkStep
  BY <1>3, MarkFrame DEF Own, OwnNext
<1>4. CASE Restart
  <2>1. call'[s].thread = call[s].thread /\ UNCHANGED given
    BY <1>4, RestartFrame DEF Restart
  <2> QED
    BY <2>1 DEF Own, OwnNext
<1>5. ASSUME NEW h \in Handlers, NEW c \in Calls, NEW m \in ready[h].cur, Resume(c, h, m) PROVE OwnNext(t, s)
  <2>1. Placing(c, m.thread, m.session) /\ UNCHANGED given
    BY <1>5, ResumeFrame DEF Resume
  <2>2. call[s].thread = t => s # c
    BY <2>1, NoneAssumption DEF Placing, Shape
  <2> QED
    BY <2>1, <2>2 DEF Placing, Own, OwnNext
<1> QED
  BY <1>1, <1>2, <1>3, <1>4, <1>5, NextCases

LEMMA RowFrame ==
  ASSUME TypeOK, Shape, NEW c \in Calls, CallStep(c) \/ ClaudeStep(c), NEW t \in Threads
  PROVE  \/ row'[t] \in {None, row[t]}
         \/ call[c].thread = t /\ row'[t] = SessionOf(c)
<1>1. CASE Report(c)
  BY <1>1 DEF Report, TypeOK
<1>2. CASE DeleteRow(c)
  BY <1>2 DEF DeleteRow, TypeOK
<1>3. CASE ~Report(c) /\ ~DeleteRow(c)
  BY <1>3 DEF CallStep, ClaudeStep, Lookup, Drop, CheckRunner, Interrupt, Interrupted,
     Joined, BeginRun, PopRunner, Killed, Install, SetupFails, Launch, CallEnd, SkillStarts,
     SkillEnds, ProcExit
<1> QED
  BY <1>1, <1>2, <1>3

LEMMA StepOrigin ==
  ASSUME TypeOK, Shape, Origin, Next
  PROVE  Origin'
<1> DEFINE Rows == \A t \in Threads : row'[t] # None => OwnNext(t, row'[t])
           Locals == \A c \in Calls : call'[c].session # None => OwnNext(call'[c].thread, call'[c].session)
           Kept == \A m \in EveryRow' : m.session # None => OwnNext(m.thread, m.session)
           Marking == marking'.cur # None /\ marking'.session # None
                        => OwnNext(marking'.cur, marking'.session)
           Given == \A t \in Threads : given'[t] # None => \E c \in Calls : call'[c].thread = t
<1>0. SUFFICES Rows /\ Locals /\ Kept /\ Marking /\ Given
  <2>1. marks' \subseteq EveryRow'
    BY DEF EveryRow
  <2> QED
    BY <2>1 DEF Origin, SessionOrigin, Own, OwnNext
<1> HIDE DEF Rows, Locals, Kept, Marking, Given
<1>a. /\ \A t \in Threads : row[t] \in Calls \cup {None}
      /\ \A c \in Calls : call[c].session \in Calls \cup {None}
      /\ \A m \in EveryRow : m.thread \in Threads /\ m.session \in Calls \cup {None}
      /\ marking.cur \in Threads \cup {None} /\ marking.session \in Calls \cup {None}
  <2>1. EveryRow \subseteq Marks
    BY HandlerType DEF EveryRow, Holds, TypeOK
  <2> QED
    BY <2>1 DEF TypeOK, CallRecords, Marks, Sessions
<1>b. \A t \in Threads, s \in Calls : Own(t, s) => OwnNext(t, s)
  BY OwnKept
<1>c. \A t \in Threads : row[t] # None => OwnNext(t, row[t])
  BY <1>a, <1>b DEF Origin, SessionOrigin
<1>d. \A c \in Calls : call[c].session # None => OwnNext(call[c].thread, call[c].session)
  BY <1>a, <1>b DEF Origin, SessionOrigin, Shape
<1>e. \A m \in EveryRow : m.session # None => OwnNext(m.thread, m.session)
  BY <1>a, <1>b DEF Origin
<1>f. marking.cur # None /\ marking.session # None => OwnNext(marking.cur, marking.session)
  BY <1>a, <1>b DEF Origin
<1>g. ASSUME EveryRow' \subseteq EveryRow PROVE Kept
  BY <1>e, <1>g DEF Kept
<1>h. UNCHANGED <<marks, ready>> => EveryRow' \subseteq EveryRow
  BY DEF EveryRow, Holds
<1>1. CASE UserStep
  <2>1. PICK c \in Calls, t \in Threads, s \in Sessions :
          /\ Placing(c, t, s)
          /\ \/ s \in {None, row[t]} /\ UNCHANGED given
             \/ Untouched(t) /\ given' = [given EXCEPT ![t] = s]
    BY <1>1, UserFrame
  <2>2. UNCHANGED <<row, marks, marking, ready>>
    BY <1>1, UserFrame
  <2>3. s # None => OwnNext(t, s)
    BY <2>1, <1>c DEF OwnNext, TypeOK
  <2>4. Locals
    BY <2>1, <2>3, <1>d DEF Locals, Placing
  <2>5. Given
    BY <2>1, NoneAssumption DEF Given, Placing, Origin, TypeOK, Shape
  <2> QED
    BY <2>2, <2>4, <2>5, <1>c, <1>f, <1>g, <1>h DEF Rows, Marking
<1>2. ASSUME NEW c \in Calls, CallStep(c) \/ ClaudeStep(c)
      PROVE  Rows /\ Locals /\ Kept /\ Marking /\ Given
  <2>1. /\ \A d \in Calls \ {c} : call'[d] = call[d]
        /\ call[c].thread \in Threads /\ call'[c].thread = call[c].thread
        /\ call'[c].session \in {None, call[c].session, row[call[c].thread]}
    BY <1>2, CallFrame DEF Shape
  <2>2. UNCHANGED <<marks, marking, ready, given>>
    BY <1>2, CallUnchanged
  <2>3. Locals
    BY <2>1, <1>c, <1>d DEF Locals
  <2>4. Given
    BY <2>1, <2>2 DEF Given, Origin
  <2>5. SessionOf(c) # None => OwnNext(call[c].thread, SessionOf(c))
    <3>1. CASE SessionOf(c) = c
      BY <2>1, <3>1 DEF OwnNext
    <3>2. CASE SessionOf(c) = call[c].session
      BY <3>2, <1>d
    <3> QED
      BY <3>1, <3>2 DEF SessionOf
  <2>6. Rows
    BY <1>2, <2>5, <1>c, RowFrame DEF Rows
  <2> QED
    BY <2>2, <2>3, <2>4, <2>6, <1>f, <1>g, <1>h DEF Marking
<1>3. CASE MarkStep
  <2>1. UNCHANGED <<row, call, given>>
    BY <1>3, MarkFrame
  <2>2. Rows /\ Locals /\ Given
    BY <2>1, <1>c, <1>d DEF Rows, Locals, Given, Origin
  <2>3. ASSUME NEW T \in SUBSET Threads, MarkBegins(T) PROVE Kept /\ Marking
    BY <2>3, <1>g, <1>h DEF MarkBegins, NoMarking, Marking
  <2>4. ASSUME NEW t \in Threads, MarkReads(t) PROVE Kept /\ Marking
    BY <2>4, <1>c, <1>g, <1>h DEF MarkReads, Marking
  <2>5. ASSUME MarkFails PROVE Kept /\ Marking
    BY <2>5, <1>g, <1>h DEF MarkFails, NextMarked, NoMarking, Marking, TypeOK
  <2>6. ASSUME MarkWrites PROVE Kept /\ Marking
    <3>1. Marking
      BY <2>6 DEF MarkWrites, NextMarked, NoMarking, Marking, TypeOK
    <3>2. ready' = ready /\ marking.cur # None
      BY <2>6 DEF MarkWrites
    <3>3. \A m \in marks' : m \in marks \/ (m.thread = marking.cur /\ m.session = marking.session)
      BY <2>6 DEF MarkWrites
    <3>4. \A m \in EveryRow' :
            m \in EveryRow \/ (m.thread = marking.cur /\ m.session = marking.session)
      BY <3>2, <3>3 DEF EveryRow, Holds
    <3> QED
      BY <3>1, <3>2, <3>4, <1>e, <1>f DEF Kept
  <2>7. ASSUME NEW h \in Handlers, ReadyTurn(h) PROVE Kept /\ Marking
    <3>1. EveryRow' \subseteq EveryRow /\ UNCHANGED marking
      BY <2>7, TurnRows, TurnFrame
    <3> QED
      BY <3>1, <1>f, <1>g DEF Marking
  <2> QED
    BY <1>3, <2>2, <2>3, <2>4, <2>5, <2>6, <2>7 DEF MarkStep
<1>4. CASE Restart
  <2>1. \A c \in Calls : call'[c].thread = call[c].thread
                         /\ call'[c].session \in {None, call[c].session}
    BY <1>4, RestartFrame
  <2>2. /\ UNCHANGED <<row, marks, given>>
        /\ marking' = NoMarking /\ \A h \in Handlers : ready'[h] = NotReady
    BY <1>4 DEF Restart
  <2>3. Rows /\ Locals /\ Given
    BY <2>1, <2>2, <1>c, <1>d DEF Rows, Locals, Given, Origin
  <2>4. EveryRow' \subseteq EveryRow
    BY <2>2 DEF EveryRow, Holds, NotReady
  <2>5. Kept /\ Marking
    BY <2>2, <2>4, <1>g DEF Marking, NoMarking
  <2> QED
    BY <2>3, <2>5
<1>5. ASSUME NEW h \in Handlers, NEW c \in Calls, NEW m \in ready[h].cur, Resume(c, h, m)
      PROVE  Rows /\ Locals /\ Kept /\ Marking /\ Given
  <2>1. Placing(c, m.thread, m.session) /\ m \in EveryRow /\ m.thread \in Threads
    BY <1>5, <1>a, ResumeFrame DEF EveryRow, Holds
  <2>2. UNCHANGED <<row, marking, given>> /\ EveryRow' \subseteq EveryRow
    BY <1>5, TurnRows DEF Resume
  <2>3. Locals
    BY <2>1, <1>d, <1>e DEF Locals, Placing
  <2>4. Given
    BY <2>1, <2>2, NoneAssumption DEF Given, Placing, Origin, Shape
  <2> QED
    BY <2>2, <2>3, <2>4, <1>c, <1>f, <1>g DEF Rows, Marking
<1> QED
  BY <1>1, <1>2, <1>3, <1>4, <1>5, NextCases

\* No row, mark or captured session ever comes from another thread, unless the
\* thread was made with it.
THEOREM SessionsStay == Spec => []SessionOrigin
<1>1. TypeOK /\ Shape /\ Origin /\ [Next]_vars => Origin'
  <2>1. ASSUME Origin, UNCHANGED vars PROVE Origin'
    BY <2>1 DEF vars, Origin, SessionOrigin, Own, EveryRow, Holds
  <2> QED
    BY <2>1, StepOrigin
<1>2. Origin => SessionOrigin
  BY DEF Origin
<1> QED
  BY <1>1, <1>2, InitOrigin, TypeAndShape, PTL DEF Spec

-----------------------------------------------------------------------------
(***************************************************************************)
(* Who waits for whom, and what the two dictionaries point at.  A call     *)
(* that has begun never goes back, so an entry made by one, and a handler  *)
(* that has read the entry, keep pointing at a call past its own waiting.  *)
(* The run of a /skill is in neither.                                      *)
(***************************************************************************)
PastWaiting(d) == call[d].pc \in Begun \cup Over

Entries ==
  /\ CountsLive
  /\ \A c \in Calls : call[c].kind = "skill" => call[c].pc \in {"begin", "running"}
  /\ \A t \in Threads : runner[t] # None => call[runner[t]].kind # "skill"
  /\ \A t \in Threads : task[t] # None => PastWaiting(task[t])
  /\ \A c \in Calls : call[c].wait # None => PastWaiting(call[c].wait)
  /\ \A c \in Calls : call[c].prev # None => PastWaiting(call[c].prev)
  /\ \A c \in Calls : call[c].pc = "join" => call[c].wait # None
  /\ \A c \in Calls : call[c].pc \in {"notice", "exitwait", "killwait"} => call[c].prev # None

(***************************************************************************)
(* Calm users.  A thread that on_ready has not resumed beside a call       *)
(* (Plain) has one handler that others do not see (OneHandler).  The run   *)
(* on its way is the one in the dictionaries (Tracked), a handler that is  *)
(* past its waiting, or resets, has no run beside it (Alone), and one that *)
(* still waits does so for the right run (Awaits).  The run of a /skill is *)
(* none of these.                                                          *)
(***************************************************************************)
Plain(c) == call[c].thread \notin doubled

Together(c, d) == Plain(c) /\ call[c].thread = call[d].thread

Runs(d) == call[d].pc \in Begun /\ call[d].kind # "skill"

OneHandler ==
  \A c, d \in Calls :
    Together(c, d) /\ call[c].pc \in SettingUp /\ call[d].pc \in SettingUp => c = d

Tracked ==
  \A c \in Calls : Plain(c) /\ Runs(c) =>
    /\ task[call[c].thread] = c
    /\ call[c].pc \in {"start", "running"} => runner[call[c].thread] = c

Sole(c) ==
  \/ call[c].pc = "begin" /\ call[c].kind # "skill"
  \/ call[c].pc \in {"menu", "killwait", "delete"}
  \/ call[c].pc = "lookup" /\ call[c].kind \in {"rewind", "reset"}

Alone == \A c, d \in Calls : Together(c, d) /\ Sole(c) => ~Runs(d)

Awaits ==
  \A c, d \in Calls :
    Together(c, d) /\ call[c].pc \in {"notice", "exitwait", "join"} /\ Runs(d)
      => call[c].wait = d

Calm == calm => OneHandler /\ Tracked /\ Alone /\ Awaits

-----------------------------------------------------------------------------
(***************************************************************************)
(* How a call moves, and what it does to the dictionaries.                 *)
(***************************************************************************)
Kept(c) == /\ call'[c].prev = call[c].prev /\ call'[c].wait = call[c].wait
           /\ call'[c].kind = call[c].kind
Cleared(c) == call'[c].prev = None /\ call'[c].wait = None
Popped(f, c) == [f EXCEPT ![call[c].thread] = None]
Entered(f, c) == [f EXCEPT ![call[c].thread] = c]

Stays(c) ==
  call'[c].pc = call[c].pc /\ Kept(c) /\ UNCHANGED <<runner, task>>

Looks(c) ==
  /\ call[c].pc = "lookup" /\ Kept(c) /\ UNCHANGED <<runner, task>>
  /\ \/ call'[c].pc = "prompt"
     \/ call'[c].pc = "begin" /\ runner[call[c].thread] = None
     \/ call'[c].pc = "menu" /\ call[c].kind \in {"rewind", "reset"}

Finds(c) ==
  /\ call[c].pc = "prompt" /\ call'[c].pc = "notice"
  /\ runner[call[c].thread] # None
  /\ call'[c].prev = runner[call[c].thread] /\ call'[c].wait = task[call[c].thread]
  /\ call'[c].kind = call[c].kind /\ UNCHANGED <<runner, task>>

Waits(c) ==
  /\ \/ call[c].pc = "notice" /\ call'[c].pc = "exitwait"
     \/ /\ call[c].pc \in {"notice", "exitwait"} /\ call'[c].pc = "join"
        /\ ~Finished(call[c].wait)
  /\ Kept(c) /\ UNCHANGED <<runner, task>>

Starts(c) ==
  /\ \/ call[c].pc = "prompt" /\ runner[call[c].thread] = None
     \/ call[c].pc \in {"notice", "exitwait", "join"} /\ Finished(call[c].wait)
     \/ call[c].pc = "begin" /\ call[c].kind # "skill"
  /\ call'[c].pc = "setup" /\ Cleared(c) /\ call'[c].kind = call[c].kind
  /\ task' = Entered(task, c) /\ runner' = runner

Kills(c) ==
  /\ call[c].pc = "menu" /\ call'[c].pc = "killwait"
  /\ runner[call[c].thread] # None
  /\ call'[c].prev = runner[call[c].thread] /\ call'[c].wait = call[c].wait
  /\ call'[c].kind = call[c].kind
  /\ runner' = Popped(runner, c) /\ task' = task

Resets(c) ==
  /\ call[c].pc \in {"menu", "killwait"} /\ call'[c].pc = "delete" /\ Kept(c)
  /\ runner' \in {runner, Popped(runner, c)} /\ task' = task

Enters(c) ==
  /\ call[c].pc = "setup" /\ call'[c].pc = "start" /\ Kept(c)
  /\ runner' = Entered(runner, c) /\ task' = task

Launches(c) ==
  call[c].pc = "start" /\ call'[c].pc = "running" /\ Kept(c) /\ UNCHANGED <<runner, task>>

Skills(c) ==
  /\ call[c].pc = "begin" /\ call[c].kind = "skill"
  /\ call'[c].pc = "running" /\ Kept(c) /\ UNCHANGED <<runner, task>>

Ends(c) ==
  /\ call'[c].pc \in Over /\ Cleared(c) /\ call'[c].kind = "message"
  /\ \/ /\ call[c].pc \in SettingUp
        /\ runner' = runner \/ (runner' = Popped(runner, c) /\ call[c].pc \in {"menu", "killwait"})
        /\ task' = task
     \/ /\ call[c].pc = "start" /\ call'[c].pc = "leaked"
        /\ UNCHANGED <<runner, task>>
     \/ /\ call[c].pc = "running" /\ call[c].kind # "skill"
        /\ runner' = Popped(runner, c) /\ task' = Popped(task, c)
     \/ /\ call[c].pc = "running" /\ call[c].kind = "skill"
        /\ UNCHANGED <<runner, task>>

Moves(c) ==
  \/ Stays(c) \/ Looks(c) \/ Finds(c) \/ Waits(c) \/ Starts(c) \/ Kills(c)
  \/ Resets(c) \/ Enters(c) \/ Launches(c) \/ Skills(c) \/ Ends(c)

LEMMA GotoMoves ==
  ASSUME TypeOK, NEW c \in Calls, NEW p, Goto(c, p)
  PROVE  call'[c].pc = p /\ Kept(c)
BY DEF TypeOK, CallRecords, Goto, Kept

LEMMA EndMoves ==
  ASSUME TypeOK, NEW c \in Calls, NEW p, End(c, p)
  PROVE  call'[c].pc = p /\ Cleared(c) /\ call'[c].kind = "message"
BY DEF TypeOK, End, Ended, Placed, Cleared

LEMMA BeginMoves ==
  ASSUME TypeOK, NEW c \in Calls, Begin(c)
  PROVE  /\ call'[c].pc = "setup" /\ Cleared(c) /\ call'[c].kind = call[c].kind
         /\ task' = Entered(task, c)
BY DEF TypeOK, CallRecords, Begin, Cleared, Entered

LEMMA AwaitMoves ==
  ASSUME TypeOK, NEW c \in Calls, AwaitTask(c), runner' = runner,
         call[c].pc \in {"notice", "exitwait"}
  PROVE  Moves(c)
<1>1. CASE Finished(call[c].wait) /\ Begin(c)
  BY <1>1, BeginMoves DEF Moves, Starts
<1>2. CASE ~Finished(call[c].wait) /\ Goto(c, "join") /\ UNCHANGED task
  BY <1>2, GotoMoves DEF Moves, Waits
<1> QED
  BY <1>1, <1>2 DEF AwaitTask

LEMMA Passage ==
  ASSUME TypeOK, NEW c \in Calls, CallStep(c) \/ ClaudeStep(c)
  PROVE  Moves(c)
<1>0. call \in [Calls -> CallRecords] /\ call[c] \in CallRecords
  BY DEF TypeOK
<1>1. ASSUME call[c].pc \in SettingUp, End(c, "done") \/ End(c, "leaked"), task' = task,
             runner' = runner \/ (runner' = Popped(runner, c) /\ call[c].pc \in {"menu", "killwait"})
      PROVE  Moves(c)
  BY <1>1, EndMoves DEF Moves, Ends, Over
<1>2. CASE Lookup(c)
  <2>1. ASSUME NEW p, call' = [call EXCEPT ![c].pc = p, ![c].session = row[call[c].thread]]
        PROVE  call'[c].pc = p /\ Kept(c)
    BY <1>0, <2>1 DEF CallRecords, Kept
  <2> QED
    BY <1>1, <1>2, <2>1, GotoMoves DEF Lookup, Moves, Looks, SettingUp
<1>3. CASE Drop(c) \/ DeleteRow(c)
  BY <1>1, <1>3 DEF Drop, DeleteRow, SettingUp
<1>4. CASE CheckRunner(c)
  <2>1. CASE runner[call[c].thread] = None /\ Begin(c)
    BY <1>4, <2>1, BeginMoves DEF CheckRunner, Moves, Starts
  <2>2. CASE /\ runner[call[c].thread] # None
             /\ call' = [call EXCEPT ![c].pc = "notice", ![c].prev = runner[call[c].thread],
                                     ![c].wait = task[call[c].thread]]
             /\ UNCHANGED task
    <3>1. /\ call'[c].pc = "notice" /\ call'[c].prev = runner[call[c].thread]
          /\ call'[c].wait = task[call[c].thread] /\ call'[c].kind = call[c].kind
      BY <1>0, <2>2 DEF CallRecords
    <3> QED
      BY <1>4, <2>2, <3>1 DEF CheckRunner, Moves, Finds
  <2> QED
    BY <1>4, <2>1, <2>2 DEF CheckRunner
<1>5. CASE Interrupt(c)
  <2>1. call[c].pc = "notice" /\ runner' = runner
    BY <1>5 DEF Interrupt
  <2>2. CASE Goto(c, "exitwait") /\ UNCHANGED task
    BY <2>1, <2>2, GotoMoves DEF Moves, Waits
  <2> QED
    BY <1>1, <1>5, <2>1, <2>2, AwaitMoves DEF Interrupt, SettingUp
<1>6. CASE Interrupted(c)
  BY <1>6, AwaitMoves DEF Interrupted
<1>7. CASE Joined(c) \/ BeginRun(c)
  BY <1>7, BeginMoves DEF Joined, BeginRun, Moves, Starts
<1>8. CASE PopRunner(c)
  <2>1. call[c].pc = "menu" /\ runner' = Popped(runner, c) /\ task' = task
    BY <1>8 DEF PopRunner, Popped
  <2>2. CASE Goto(c, "delete")
    BY <2>1, <2>2, GotoMoves DEF Moves, Resets
  <2>3. CASE End(c, "done")
    BY <1>1, <2>1, <2>3 DEF SettingUp
  <2>4. CASE /\ Reaches(runner[call[c].thread])
             /\ call' = [call EXCEPT ![c].pc = "killwait", ![c].prev = runner[call[c].thread]]
    <3>1. /\ call'[c].pc = "killwait" /\ call'[c].prev = runner[call[c].thread]
          /\ call'[c].wait = call[c].wait /\ call'[c].kind = call[c].kind
      BY <1>0, <2>4 DEF CallRecords
    <3>2. runner[call[c].thread] # None
      BY <2>4, NoneAssumption DEF Reaches
    <3> QED
      BY <2>1, <3>1, <3>2 DEF Moves, Kills
  <2> QED
    BY <1>8, <2>2, <2>3, <2>4 DEF PopRunner
<1>9. CASE Killed(c)
  <2>1. /\ call[c].pc = "killwait" /\ task' = task
        /\ runner' \in {runner, Popped(runner, c)}
    BY <1>9 DEF Killed, Popped
  <2>2. CASE Goto(c, "delete")
    BY <2>1, <2>2, GotoMoves DEF Moves, Resets
  <2>3. CASE End(c, "done")
    BY <1>1, <2>1, <2>3 DEF SettingUp
  <2> QED
    BY <1>9, <2>2, <2>3 DEF Killed
<1>10. CASE Install(c)
  BY <1>10, GotoMoves DEF Install, Moves, Enters, Entered
<1>11. CASE SetupFails(c)
  <2>1. CASE call[c].pc = "setup"
    BY <1>1, <1>11, <2>1 DEF SetupFails, SettingUp
  <2>2. CASE call[c].pc = "start"
    BY <1>11, <2>2, EndMoves DEF SetupFails, Moves, Ends, Over
  <2> QED
    BY <1>11, <2>1, <2>2 DEF SetupFails
<1>12. CASE Launch(c)
  <2>1. call'[c].pc = "running" /\ Kept(c)
    BY <1>0, <1>12 DEF Launch, CallRecords, Kept
  <2> QED
    BY <1>12, <2>1 DEF Launch, Moves, Launches
<1>13. CASE CallEnd(c)
  BY <1>13, EndMoves DEF CallEnd, Moves, Ends, Over, Popped
<1>14. CASE Report(c)
  BY <1>14 DEF Report, Moves, Stays, Kept
<1>15. CASE ProcExit(c)
  <2>1. call'[c].pc = call[c].pc /\ Kept(c)
    BY <1>0, <1>15 DEF ProcExit, CallRecords, Kept
  <2> QED
    BY <1>15, <2>1 DEF ProcExit, Moves, Stays
<1>16. CASE SkillStarts(c)
  <2>1. CASE call' = [call EXCEPT ![c].pc = "running", ![c].alive = TRUE]
    <3>1. call'[c].pc = "running" /\ Kept(c)
      BY <1>0, <2>1 DEF CallRecords, Kept
    <3> QED
      BY <1>16, <3>1 DEF SkillStarts, Moves, Skills
  <2>2. CASE End(c, "done")
    BY <1>1, <1>16, <2>2 DEF SkillStarts, SettingUp
  <2> QED
    BY <1>16, <2>1, <2>2 DEF SkillStarts
<1>17. CASE SkillEnds(c)
  BY <1>17, EndMoves DEF SkillEnds, Moves, Ends, Over
<1> QED
  BY <1>2, <1>3, <1>4, <1>5, <1>6, <1>7, <1>8, <1>9, <1>10, <1>11, <1>12, <1>13, <1>14,
     <1>15, <1>16, <1>17 DEF CallStep, ClaudeStep

\* How users bring in a call, and on_ready one.
Appears(c, t) ==
  /\ call[c].pc = "idle" /\ t \in Threads
  /\ \A d \in Calls \ {c} : call'[d] = call[d]
  /\ call'[c].thread = t /\ call'[c].wait = None
  /\ runner' \in {runner, [runner EXCEPT ![t] = None]} /\ task' = task
  /\ call'[c].kind = "skill" => call'[c].pc = "begin"
  /\ \/ call'[c].pc \in {"lookup", "delete", "begin"} /\ call'[c].prev = None
     \/ call'[c].pc = "killwait" /\ call'[c].prev = runner[t] /\ runner[t] # None

\* What the users wait for, in the case of each command.
Permitted(c, t) ==
  \/ /\ call'[c].pc = "lookup" /\ Quiet(t) /\ runner' = runner
     /\ call'[c].kind \in {"rewind", "reset"} => Idle(t)
  \/ call'[c].pc \in {"delete", "killwait"} /\ Quiet(t) /\ Idle(t)
  \/ call'[c].pc = "begin" /\ Untouched(t) /\ runner' = runner
  \/ /\ call'[c].pc = "begin" /\ call'[c].kind = "skill" /\ Quiet(t)
     /\ runner' = runner

LEMMA UserAppears ==
  ASSUME TypeOK, UserStep
  PROVE  /\ UNCHANGED <<calm, doubled>>
         /\ \E c \in Calls, t \in Threads : Appears(c, t) /\ Permitted(c, t)
<1> DEFINE Frame == /\ UNCHANGED <<calm, doubled>>
                    /\ \E c \in Calls, t \in Threads : Appears(c, t) /\ Permitted(c, t)
<1> HIDE DEF Frame
<1> SUFFICES Frame
  BY DEF Frame
<1>1. ASSUME NEW c \in Calls, NEW t, NEW kind, NEW pc, NEW s,
             Place(c, Placed(kind, t, pc, s))
      PROVE  /\ call[c].pc = "idle" /\ \A d \in Calls \ {c} : call'[d] = call[d]
             /\ call'[c].thread = t /\ call'[c].wait = None /\ call'[c].prev = None
             /\ call'[c].pc = pc /\ call'[c].kind = kind
  BY <1>1 DEF TypeOK, Place, Placed
<1>2. ASSUME NEW c \in Calls, NEW t \in Threads,
             NEW kind \in {"message", "compact", "rewind", "reset"}, Arrive(c, kind, t)
      PROVE  Frame
  <2>1. Place(c, Placed(kind, t, "lookup", None)) /\ UNCHANGED <<runner, task, calm, doubled>>
        /\ Quiet(t) /\ (kind \in {"rewind", "reset"} => Idle(t))
    BY <1>2 DEF Arrive
  <2>2. Appears(c, t) /\ Permitted(c, t)
    BY <1>1, <2>1 DEF Appears, Permitted
  <2> QED
    BY <2>1, <2>2 DEF Frame
<1>3. ASSUME NEW c \in Calls, NEW t \in Threads, Clear(c, t) PROVE Frame
  <2>1. Quiet(t) /\ Idle(t) /\ UNCHANGED <<task, calm, doubled>>
    BY <1>3 DEF Clear
  <2>2. CASE /\ Place(c, Placed("clear", t, "delete", None))
             /\ runner' = [runner EXCEPT ![t] = None]
    <3>1. /\ call[c].pc = "idle" /\ \A d \in Calls \ {c} : call'[d] = call[d]
          /\ call'[c].thread = t /\ call'[c].wait = None /\ call'[c].prev = None
          /\ call'[c].pc = "delete" /\ call'[c].kind = "clear"
      BY <1>1, <2>2
    <3>2. Appears(c, t)
      BY <2>1, <2>2, <3>1 DEF Appears
    <3>3. Permitted(c, t)
      BY <2>1, <3>1 DEF Permitted
    <3> QED
      BY <2>1, <3>2, <3>3 DEF Frame
  <2>3. CASE /\ Place(c, [Placed("clear", t, "killwait", None) EXCEPT !.prev = runner[t]])
             /\ Reaches(runner[t]) /\ UNCHANGED runner
    <3>1. /\ call[c].pc = "idle" /\ \A d \in Calls \ {c} : call'[d] = call[d]
          /\ call'[c].thread = t /\ call'[c].wait = None /\ call'[c].prev = runner[t]
          /\ call'[c].pc = "killwait" /\ call'[c].kind = "clear"
      BY <2>3 DEF TypeOK, Place, Placed
    <3>2. runner[t] # None
      BY <2>3, NoneAssumption DEF Reaches
    <3> QED
      BY <2>1, <2>3, <3>1, <3>2 DEF Appears, Permitted, Frame
  <2> QED
    BY <1>3, <2>2, <2>3 DEF Clear
<1>4. ASSUME NEW c \in Calls, NEW t \in Threads, NEW kind, NEW s,
             Place(c, Placed(kind, t, "begin", s)), Untouched(t),
             UNCHANGED <<runner, task, calm, doubled>>
      PROVE  Frame
  BY <1>1, <1>4 DEF Appears, Permitted, Frame
<1>5. ASSUME NEW c \in Calls, NEW kind, NEW t \in Threads, NEW s, Spawn(c, kind, t, s)
      PROVE  Frame
  BY <1>4, <1>5 DEF Spawn
<1>6. ASSUME NEW c \in Calls, NEW t \in Threads, NEW u \in Threads, Fork(c, t, u) PROVE Frame
  BY <1>4, <1>6 DEF Fork
<1>7. ASSUME NEW c \in Calls, NEW t \in Threads, Skill(c, t) PROVE Frame
  <2>1. /\ Place(c, Placed("skill", t, "begin", row[t])) /\ Quiet(t)
        /\ UNCHANGED <<runner, task, calm, doubled>>
    BY <1>7 DEF Skill
  <2>2. Appears(c, t) /\ Permitted(c, t)
    BY <1>1, <2>1 DEF Appears, Permitted
  <2> QED
    BY <2>1, <2>2 DEF Frame
<1> QED
  BY <1>2, <1>3, <1>5, <1>6, <1>7 DEF UserStep

LEMMA ResumeAppears ==
  ASSUME TypeOK, NEW h \in Handlers, NEW c \in Calls, NEW m \in ready[h].cur, Resume(c, h, m)
  PROVE  Appears(c, m.thread) /\ call'[c].pc = "begin"
<1>1. m.thread \in Threads
  BY HandlerType DEF Marks
<1>2. /\ call' = [call EXCEPT ![c] = [Placed("message", m.thread, "begin", m.session)
                                        EXCEPT !.mark = m.id]]
      /\ call[c].pc = "idle" /\ UNCHANGED <<runner, task>>
  BY DEF Resume, Place
<1> QED
  BY <1>1, <1>2 DEF TypeOK, Placed, Appears

LEMMA RestartMoves ==
  ASSUME TypeOK, Restart
  PROVE  /\ \A t \in Threads : runner'[t] = None /\ task'[t] = None
         /\ \A c \in Calls : \/ call'[c] = call[c] /\ ~Live(c)
                             \/ /\ call'[c].pc = "done" /\ Cleared(c)
                                /\ call'[c].kind = "message"
BY DEF Restart, Ended, Placed, Cleared

-----------------------------------------------------------------------------
LEMMA InitEntries == Init => Entries
BY DEF Init, Placed, Entries, CountsLive

\* What has got past its waiting does not fall back.
LEMMA Forward ==
  ASSUME TypeOK, Shape, Next, NEW d \in Calls, PastWaiting(d)
  PROVE  call'[d].pc \in Begun \cup Over
<1>1. CASE UserStep
  BY <1>1, UserAppears DEF Appears, PastWaiting, Begun, Over
<1>2. ASSUME NEW c \in Calls, CallStep(c) \/ ClaudeStep(c)
      PROVE  call'[d].pc \in Begun \cup Over
  <2>1. Moves(c) /\ \A e \in Calls \ {c} : call'[e] = call[e]
    BY <1>2, Passage, CallFrame
  <2> QED
    BY <2>1 DEF PastWaiting, Begun, Over, Moves, Stays, Looks, Finds, Waits, Starts, Kills,
       Resets, Enters, Launches, Skills, Ends
<1>3. CASE MarkStep
  BY <1>3, MarkFrame DEF PastWaiting
<1>4. CASE Restart
  BY <1>4, RestartMoves DEF PastWaiting, Over
<1>5. ASSUME NEW h \in Handlers, NEW c \in Calls, NEW m \in ready[h].cur, Resume(c, h, m)
      PROVE  call'[d].pc \in Begun \cup Over
  BY <1>5, ResumeAppears DEF Appears, PastWaiting, Begun, Over
<1> QED
  BY <1>1, <1>2, <1>3, <1>4, <1>5, NextCases

LEMMA AppearsEntries ==
  ASSUME TypeOK, Shape, Entries, Next, NEW c \in Calls, NEW t \in Threads, Appears(c, t)
  PROVE  Entries'
<1>1. \A d \in Calls : PastWaiting(d) => call'[d].pc \in Begun \cup Over
  BY Forward
<1>2. /\ \A u \in Threads : runner'[u] \in {None, runner[u]} /\ task'[u] = task[u]
      /\ \A u \in Threads : runner[u] \in Calls \cup {None} /\ task[u] \in Calls \cup {None}
      /\ \A d \in Calls : call[d].wait \in Calls \cup {None} /\ call[d].prev \in Calls \cup {None}
  BY DEF Appears, TypeOK, CallRecords
<1>3. CountsLive'
  BY <1>2 DEF Appears, Entries, CountsLive
<1>4. runner[t] # None => PastWaiting(runner[t])
  BY <1>2 DEF Entries, CountsLive, PastWaiting, Begun, Over
<1>5. /\ \A d \in Calls : call'[d].kind = "skill" => call'[d].pc \in {"begin", "running"}
      /\ \A u \in Threads : runner'[u] # None => call'[runner'[u]].kind # "skill"
  BY <1>2 DEF Appears, Entries, CountsLive
<1> QED
  BY <1>1, <1>2, <1>3, <1>4, <1>5 DEF Appears, Entries, PastWaiting

LEMMA MovesEntries ==
  ASSUME TypeOK, Shape, Entries, Next, NEW c \in Calls, CallStep(c) \/ ClaudeStep(c)
  PROVE  Entries'
<1> DEFINE t == call[c].thread
<1>1. \A d \in Calls : PastWaiting(d) => call'[d].pc \in Begun \cup Over
  BY Forward
<1>2. /\ \A u \in Threads : runner[u] \in Calls \cup {None} /\ task[u] \in Calls \cup {None}
      /\ \A d \in Calls : call[d].wait \in Calls \cup {None} /\ call[d].prev \in Calls \cup {None}
  BY DEF TypeOK, CallRecords
<1>3. /\ Moves(c) /\ \A d \in Calls \ {c} : call'[d] = call[d]
      /\ t \in Threads /\ call'[c].thread = t
  BY Passage, CallFrame DEF Shape
<1>4. \A u \in Threads : runner[u] # None => PastWaiting(runner[u])
  BY <1>2 DEF Entries, CountsLive, PastWaiting, Begun, Over
<1>5. CountsLive'
  <2>1. ASSUME NEW u \in Threads, runner'[u] # None
        PROVE  call'[runner'[u]].thread = u /\ call'[runner'[u]].pc \in {"start", "running", "leaked"}
    <3>1. CASE Enters(c)
      BY <1>2, <1>3, <2>1, <3>1 DEF Enters, Entered, Entries, CountsLive, TypeOK
    <3>2. CASE ~Enters(c)
      <4>1. runner'[u] = runner[u]
        BY <1>3, <2>1, <3>2 DEF TypeOK, Moves, Stays, Looks, Finds, Waits, Starts, Kills, Resets,
           Launches, Skills, Ends, Popped
      <4>2. CASE runner[u] # c
        BY <1>2, <1>3, <2>1, <4>1, <4>2 DEF Entries, CountsLive
      <4>3. CASE runner[u] = c
        <5>1. u = t /\ call[c].pc \in {"start", "running", "leaked"}
          BY <2>1, <4>1, <4>3 DEF Entries, CountsLive
        <5>2. call[c].pc = "running" => ~Ends(c)
          BY <2>1, <4>1, <4>3, <5>1, <1>3 DEF Ends, Popped, SettingUp, TypeOK, Entries
        <5>3. call'[c].pc \in {"start", "running", "leaked"}
          BY <1>3, <3>2, <5>1, <5>2 DEF Moves, Stays, Looks, Finds, Waits, Starts, Kills, Resets,
             Launches, Skills, Ends, SettingUp
        <5> QED
          BY <1>3, <4>1, <4>3, <5>1, <5>3
      <4> QED
        BY <4>2, <4>3
    <3> QED
      BY <3>1, <3>2
  <2> QED
    BY <2>1 DEF CountsLive
<1>6. \A u \in Threads : task'[u] # None => call'[task'[u]].pc \in Begun \cup Over
  <2>1. \A u \in Threads : task'[u] \in {None, task[u]} \/ (Starts(c) /\ task'[u] \in {c, task[u]})
    BY <1>3 DEF TypeOK, Moves, Stays, Looks, Finds, Waits, Starts, Kills, Resets, Enters,
       Launches, Skills, Ends, Popped, Entered
  <2>2. Starts(c) => call'[c].pc \in Begun
    BY DEF Starts, Begun
  <2> QED
    BY <1>1, <1>2, <2>1, <2>2 DEF Entries, PastWaiting
<1>7. \A d \in Calls : call'[d].wait # None => call'[call'[d].wait].pc \in Begun \cup Over
  <2>1. call'[c].wait \in {None, call[c].wait, task[t]}
    BY <1>3 DEF Moves, Stays, Looks, Finds, Waits, Starts, Kills, Resets, Enters, Launches, Skills,
       Ends, Kept, Cleared
  <2> QED
    BY <1>1, <1>2, <1>3, <2>1 DEF Entries, PastWaiting
<1>8. \A d \in Calls : call'[d].prev # None => call'[call'[d].prev].pc \in Begun \cup Over
  <2>1. call'[c].prev \in {None, call[c].prev, runner[t]}
    BY <1>3 DEF Moves, Stays, Looks, Finds, Waits, Starts, Kills, Resets, Enters, Launches, Skills,
       Ends, Kept, Cleared
  <2> QED
    BY <1>1, <1>2, <1>3, <1>4, <2>1 DEF Entries, PastWaiting
<1>9. call'[c].pc = "join" => call'[c].wait # None
  BY <1>3 DEF Entries, Finished, Moves, Stays, Looks, Finds, Waits, Starts, Kills, Resets,
     Enters, Launches, Skills, Ends, Kept, Over
<1>10. call'[c].pc \in {"notice", "exitwait", "killwait"} => call'[c].prev # None
  BY <1>3 DEF Entries, Moves, Stays, Looks, Finds, Waits, Starts, Kills, Resets,
     Enters, Launches, Skills, Ends, Kept, Over
<1>11. /\ \A d \in Calls : call'[d].pc = "join" => call'[d].wait # None
       /\ \A d \in Calls : call'[d].pc \in {"notice", "exitwait", "killwait"} => call'[d].prev # None
  BY <1>3, <1>9, <1>10 DEF Entries
<1>12. \A d \in Calls : call'[d].kind = "skill" => call'[d].pc \in {"begin", "running"}
  <2>1. call'[c].kind = "skill" => call[c].kind = "skill"
    BY <1>3 DEF Moves, Stays, Looks, Finds, Waits, Starts, Kills, Resets, Enters, Launches,
       Skills, Ends, Kept
  <2>2. call'[c].kind = "skill" => call[c].pc \in {"begin", "running"}
    BY <2>1 DEF Entries
  <2>3. call'[c].kind = "skill" => call'[c].pc \in {"begin", "running"}
    BY <1>3, <2>1, <2>2 DEF Moves, Stays, Looks, Finds, Waits, Starts, Kills, Resets, Enters,
       Launches, Skills, Ends
  <2> QED
    BY <1>3, <2>3 DEF Entries
<1>13. \A u \in Threads : runner'[u] # None => call'[runner'[u]].kind # "skill"
  <2>1. \A u \in Threads : runner'[u] \in {None, runner[u]} \/ (Enters(c) /\ runner'[u] = c)
    BY <1>3 DEF TypeOK, Moves, Stays, Looks, Finds, Waits, Starts, Kills, Resets, Enters,
       Launches, Skills, Ends, Popped, Entered
  <2>2. call'[c].kind = "skill" => call[c].kind = "skill"
    BY <1>3 DEF Moves, Stays, Looks, Finds, Waits, Starts, Kills, Resets, Enters, Launches,
       Skills, Ends, Kept
  <2>3. Enters(c) => call[c].kind # "skill"
    BY DEF Enters, Entries
  <2> QED
    BY <1>2, <1>3, <2>1, <2>2, <2>3 DEF Entries
<1> QED
  BY <1>5, <1>6, <1>7, <1>8, <1>11, <1>12, <1>13 DEF Entries, PastWaiting

LEMMA StepEntries ==
  ASSUME TypeOK, Shape, Entries, Next
  PROVE  Entries'
<1>1. CASE UserStep
  BY <1>1, UserAppears, AppearsEntries
<1>2. ASSUME NEW c \in Calls, CallStep(c) \/ ClaudeStep(c) PROVE Entries'
  BY <1>2, MovesEntries
<1>3. CASE MarkStep
  BY <1>3, MarkFrame DEF Entries, CountsLive, PastWaiting
<1>4. CASE Restart
  <2>1. /\ \A t \in Threads : runner'[t] = None /\ task'[t] = None
        /\ \A c \in Calls : \/ call'[c] = call[c] /\ ~Live(c)
                            \/ /\ call'[c].pc = "done" /\ Cleared(c)
                               /\ call'[c].kind = "message"
    BY <1>4, RestartMoves
  <2>2. \A d \in Calls : PastWaiting(d) => call'[d].pc \in Begun \cup Over
    BY Forward
  <2>3. \A d \in Calls : call[d].wait \in Calls \cup {None} /\ call[d].prev \in Calls \cup {None}
    BY DEF TypeOK, CallRecords
  <2> QED
    BY <2>1, <2>2, <2>3 DEF Entries, CountsLive, PastWaiting, Cleared
<1>5. ASSUME NEW h \in Handlers, NEW c \in Calls, NEW m \in ready[h].cur, Resume(c, h, m) PROVE Entries'
  <2>1. m.thread \in Threads
    BY HandlerType DEF Marks
  <2> QED
    BY <1>5, <2>1, ResumeAppears, AppearsEntries
<1> QED
  BY <1>1, <1>2, <1>3, <1>4, <1>5, NextCases

LEMMA EntriesInvariant == Spec => []Entries
<1>1. TypeOK /\ Shape /\ Entries /\ [Next]_vars => Entries'
  <2>1. ASSUME Entries, UNCHANGED vars PROVE Entries'
    BY <2>1 DEF vars, Entries, CountsLive, PastWaiting
  <2> QED
    BY <2>1, StepEntries
<1> QED
  BY <1>1, InitEntries, TypeAndShape, PTL DEF Spec

\* The dictionary whose size an upgrade waits for only holds runs that are on
\* their way, or whose set-up failed, although runs overwrite and pop each
\* other's entries.
THEOREM CountIsLive == Spec => []CountsLive
<1>1. Entries => CountsLive
  BY DEF Entries
<1> QED
  BY <1>1, EntriesInvariant, PTL

\* Replies and resets that replace each other never wait in a circle.
THEOREM NoCircularWait == Spec => []WaitsOnBegun
<1>1. Entries => WaitsOnBegun
  BY DEF Entries, WaitsOnBegun, PastWaiting
<1> QED
  BY <1>1, EntriesInvariant, PTL

-----------------------------------------------------------------------------
(***************************************************************************)
(* Calm users get one run at a time.                                       *)
(***************************************************************************)
LEMMA InitCalm == Init => Calm
BY NoneAssumption DEF Init, Placed, Calm, OneHandler, Tracked, Runs, Alone, Sole, Awaits,
   SettingUp, Begun

\* A call may appear where no other sets up, and one that resets, or is to run
\* at once, where nothing is on its way; in a thread that is then not plain, any may.
LEMMA AppearsCalm ==
  ASSUME TypeOK, Shape, OneHandler, Tracked, Alone, Awaits, doubled \subseteq doubled',
         NEW c \in Calls, NEW t \in Threads, Appears(c, t),
         t \notin doubled' =>
           \A d \in Calls : call[d].thread = t => call[d].pc \notin SettingUp,
         t \notin doubled' /\ (Sole(c)' \/ runner' # runner) =>
           \A d \in Calls : call[d].thread = t => ~Live(d)
  PROVE  OneHandler' /\ Tracked' /\ Alone' /\ Awaits'
<1>1. /\ \A d \in Calls \ {c} : call'[d] = call[d]
      /\ call'[c].thread = t /\ task' = task
      /\ \A u \in Threads \ {t} : runner'[u] = runner[u]
      /\ call'[c].pc \in {"lookup", "delete", "begin", "killwait"}
  BY DEF Appears, TypeOK
<1>2. call'[c].pc \notin Begun \cup {"notice", "exitwait", "join"}
  BY <1>1 DEF Begun
<1>3. \A d \in Calls : call[d].pc \in SettingUp \cup Begun => call[d].thread \in Threads
  BY DEF Shape, SettingUp, Begun
<1>4. OneHandler'
  BY <1>1 DEF OneHandler, Together, Plain
<1>5. Tracked'
  <2>1. ASSUME NEW d \in Calls, Plain(d)', Runs(d)'
        PROVE  /\ task'[call'[d].thread] = d
               /\ call'[d].pc \in {"start", "running"} => runner'[call'[d].thread] = d
    <3>1. d # c /\ call'[d] = call[d] /\ call[d].thread \in Threads /\ Runs(d) /\ Plain(d)
      BY <1>1, <1>2, <1>3, <2>1 DEF Runs, Plain
    <3>2. CASE call[d].thread = t /\ runner' # runner
      BY <2>1, <3>1, <3>2 DEF Live, Runs, Plain
    <3>3. CASE call[d].thread # t \/ runner' = runner
      BY <1>1, <2>1, <3>1, <3>3 DEF Tracked
    <3> QED
      BY <3>2, <3>3
  <2> QED
    BY <2>1 DEF Tracked
<1>6. Alone'
  <2>1. ASSUME NEW d \in Calls, NEW e \in Calls, Together(d, e)', Sole(d)'
        PROVE  ~Runs(e)'
    <3>1. CASE e = c
      BY <1>2, <3>1 DEF Runs
    <3>2. CASE e # c /\ d = c
      BY <1>1, <2>1, <3>2 DEF Live, Together, Plain, Runs
    <3>3. CASE e # c /\ d # c
      BY <1>1, <2>1, <3>3 DEF Alone, Together, Plain, Sole, Runs
    <3> QED
      BY <3>1, <3>2, <3>3
  <2> QED
    BY <2>1 DEF Alone
<1>7. Awaits'
  BY <1>1, <1>2 DEF Awaits, Together, Plain, Runs
<1> QED
  BY <1>4, <1>5, <1>6, <1>7

LEMMA MovesCalm ==
  ASSUME TypeOK, Shape, Entries, OneHandler, Tracked, Alone, Awaits,
         NEW c \in Calls, CallStep(c) \/ ClaudeStep(c)
  PROVE  OneHandler' /\ Tracked' /\ Alone' /\ Awaits'
<1> DEFINE t == call[c].thread
<1>0. /\ Moves(c) /\ \A d \in Calls \ {c} : call'[d] = call[d]
      /\ t \in Threads /\ call'[c].thread = t /\ doubled' = doubled
  BY Passage, CallFrame, CallUnchanged DEF Shape
<1>1. \A d \in Calls : call[d].pc \in SettingUp \cup Begun => call[d].thread \in Threads
  BY DEF Shape, SettingUp, Begun
<1>2. /\ call'[c].pc \in SettingUp => call[c].pc \in SettingUp
      /\ Runs(c)' => Runs(c) \/ Starts(c)
      /\ Starts(c) => call[c].pc \in SettingUp
  BY <1>0 DEF Runs, Kept, Moves, Stays, Looks, Finds, Waits, Starts, Kills, Resets, Enters, Launches, Skills, Ends,
     SettingUp, Begun, Over
\* Without an entry there is no run, while c sets up.
<1>3. ASSUME Plain(c), runner[t] = None, call[c].pc \in SettingUp, call[c].pc # "setup"
      PROVE  \A d \in Calls : call[d].thread = t => ~Runs(d)
  <2>1. ASSUME NEW d \in Calls, call[d].thread = t, Runs(d) PROVE FALSE
    <3>1. CASE call[d].pc = "setup"
      BY <1>3, <2>1, <3>1 DEF OneHandler, Together, SettingUp
    <3>2. CASE call[d].pc \in {"start", "running"}
      BY <1>3, <2>1, <3>2, NoneAssumption DEF Tracked, Plain
    <3> QED
      BY <2>1, <3>1, <3>2 DEF Begun, Runs
  <2> QED
    BY <2>1
<1>4. ASSUME Plain(c), Starts(c)
      PROVE  \A d \in Calls : call[d].thread = t => ~Runs(d)
  <2>1. CASE call[c].pc = "prompt" /\ runner[t] = None
    BY <1>3, <1>4, <2>1 DEF SettingUp
  <2>2. CASE call[c].pc \in {"notice", "exitwait", "join"} /\ Finished(call[c].wait)
    <3>1. ASSUME NEW d \in Calls, call[d].thread = t, Runs(d) PROVE FALSE
      <4>1. call[c].wait = d /\ d # None
        BY <1>4, <2>2, <3>1, NoneAssumption DEF Awaits, Together
      <4> QED
        BY <2>2, <3>1, <4>1 DEF Finished, Runs, Begun, Over
    <3> QED
      BY <3>1
  <2>3. CASE call[c].pc = "begin" /\ call[c].kind # "skill"
    BY <1>4, <2>3 DEF Alone, Together, Sole
  <2> QED
    BY <1>4, <2>1, <2>2, <2>3 DEF Starts
<1>5. ASSUME Plain(c), Sole(c)'
      PROVE  \A d \in Calls : call[d].thread = t => ~Runs(d)
  <2>1. Sole(c)' => Sole(c) \/ (runner[t] = None /\ call[c].pc = "lookup")
    BY <1>0 DEF Sole, Moves, Stays, Looks, Finds, Waits, Starts, Kills, Resets, Enters, Launches, Skills,
       Ends, Kept, Over
  <2> QED
    BY <1>3, <1>5, <2>1 DEF Alone, Together, SettingUp
<1>6. OneHandler'
  BY <1>0, <1>2 DEF OneHandler, Together, Plain
<1>7. Tracked'
  <2>1. ASSUME Plain(c), Runs(c)'
        PROVE  /\ task'[t] = c
               /\ call'[c].pc \in {"start", "running"} => runner'[t] = c
    <3>1. CASE Starts(c)
      BY <1>0, <3>1 DEF Starts, Entered, TypeOK
    <3>2. CASE Enters(c)
      BY <1>0, <2>1, <3>2 DEF Enters, Entered, TypeOK, Tracked, Runs, Begun, Kept
    <3>3. CASE ~Starts(c) /\ ~Enters(c)
      <4>1. Stays(c) \/ Launches(c)
        BY <1>0, <2>1, <3>3 DEF Moves, Looks, Finds, Waits, Kills, Resets, Skills, Ends, Runs,
           Kept, Begun, Over
      <4>2. Runs(c)
        BY <2>1, <4>1 DEF Stays, Launches, Kept, Runs, Begun
      <4> QED
        BY <2>1, <4>1, <4>2 DEF Stays, Launches, Tracked
    <3> QED
      BY <3>1, <3>2, <3>3
  <2>2. ASSUME NEW d \in Calls, d # c, Plain(d), Runs(d)
        PROVE  /\ task'[call[d].thread] = task[call[d].thread]
               /\ call[d].pc \in {"start", "running"} =>
                    runner'[call[d].thread] = runner[call[d].thread]
    <3>0. call[d].thread \in Threads
      BY <1>1, <2>2 DEF Runs
    <3>1. CASE call[d].thread # t
      BY <1>0, <3>0, <3>1 DEF Moves, Stays, Looks, Finds, Waits, Starts, Kills, Resets, Enters,
         Launches, Skills, Ends, Popped, Entered, TypeOK
    <3>2. CASE call[d].thread = t
      <4>0. Plain(c)
        BY <2>2, <3>2 DEF Plain
      <4>1. ~Starts(c)
        BY <1>4, <2>2, <3>2, <4>0
      <4>2. ~Sole(c)
        BY <2>2, <3>2, <4>0 DEF Alone, Together
      <4>3. ~Runs(c)
        BY <2>2, <3>2, <4>0 DEF Tracked
      <4>4. call[c].kind = "skill" => call[c].pc \in {"begin", "running"}
        BY DEF Entries
      <4>5. UNCHANGED <<runner, task>>
        BY <1>0, <4>1, <4>2, <4>3, <4>4 DEF Sole, Runs, Begun, Moves, Stays, Looks, Finds, Waits,
           Kills, Resets, Enters, Launches, Skills, Ends
      <4> QED
        BY <4>5
    <3> QED
      BY <3>1, <3>2
  <2>3. ASSUME NEW d \in Calls, Plain(d)', Runs(d)'
        PROVE  /\ task'[call'[d].thread] = d
               /\ call'[d].pc \in {"start", "running"} => runner'[call'[d].thread] = d
    <3>1. CASE d = c
      BY <1>0, <2>1, <2>3, <3>1 DEF Plain
    <3>2. CASE d # c
      <4>1. call'[d] = call[d] /\ Plain(d) /\ Runs(d)
        BY <1>0, <2>3, <3>2 DEF Plain, Runs
      <4> QED
        BY <2>2, <3>2, <4>1 DEF Tracked
    <3> QED
      BY <3>1, <3>2
  <2> QED
    BY <2>3 DEF Tracked
<1>8. Alone'
  <2>1. ASSUME NEW d \in Calls, NEW e \in Calls, Together(d, e)', Sole(d)', Runs(e)'
        PROVE  FALSE
    <3>0. Plain(d) /\ Plain(e) /\ Together(d, e) /\ Together(e, d)
      BY <1>0, <2>1 DEF Together, Plain
    <3>1. CASE d = c
      <4>1. e # c
        BY <2>1, <3>1 DEF Sole, Runs, Begun
      <4>2. Runs(e) /\ call[e].thread = t
        BY <1>0, <2>1, <3>0, <3>1, <4>1 DEF Runs, Together
      <4> QED
        BY <1>5, <2>1, <3>0, <3>1, <4>2
    <3>2. CASE d # c
      <4>1. Sole(d) /\ call[d].pc \in SettingUp
        BY <1>0, <2>1, <3>2 DEF Sole, SettingUp
      <4>2. e = c /\ Starts(c)
        <5>1. ~Runs(e)
          BY <3>0, <4>1 DEF Alone
        <5> QED
          BY <1>0, <1>2, <2>1, <5>1 DEF Runs
      <4> QED
        BY <1>2, <3>0, <3>2, <4>1, <4>2 DEF OneHandler
    <3> QED
      BY <3>1, <3>2
  <2> QED
    BY <2>1 DEF Alone
<1>9. Awaits'
  <2>1. ASSUME NEW d \in Calls, NEW e \in Calls, Together(d, e)',
               call'[d].pc \in {"notice", "exitwait", "join"}, Runs(e)'
        PROVE  call'[d].wait = e
    <3>0. Plain(d) /\ Plain(e) /\ Together(d, e) /\ Together(e, d)
      BY <1>0, <2>1 DEF Together, Plain
    <3>1. CASE d = c
      <4>1. e # c /\ call'[e] = call[e] /\ call[e].thread = t /\ Runs(e)
        BY <1>0, <2>1, <3>0, <3>1 DEF Runs, Begun, Together
      <4>2. CASE Finds(c)
        BY <2>1, <3>0, <3>1, <4>1, <4>2 DEF Finds, Tracked
      <4>3. CASE ~Finds(c)
        <5>1. call[c].pc \in {"notice", "exitwait", "join"} /\ call'[c].wait = call[c].wait
          BY <1>0, <2>1, <3>1, <4>3 DEF Moves, Stays, Looks, Waits, Starts, Kills, Resets, Enters,
             Launches, Skills, Ends, Kept, Over
        <5> QED
          BY <3>0, <3>1, <4>1, <5>1 DEF Awaits
      <4> QED
        BY <4>2, <4>3
    <3>2. CASE d # c
      <4>1. call'[d] = call[d] /\ call[d].pc \in SettingUp
        BY <1>0, <2>1, <3>2 DEF SettingUp
      <4>2. CASE e = c /\ Starts(c)
        BY <1>2, <3>0, <3>2, <4>1, <4>2 DEF OneHandler
      <4>3. CASE ~(e = c /\ Starts(c))
        <5>1. Runs(e)
          BY <1>0, <1>2, <2>1, <4>3 DEF Runs
        <5> QED
          BY <2>1, <3>0, <4>1, <5>1 DEF Awaits
      <4> QED
        BY <4>2, <4>3
    <3> QED
      BY <3>1, <3>2
  <2> QED
    BY <2>1 DEF Awaits
<1> QED
  BY <1>6, <1>7, <1>8, <1>9

LEMMA StepCalm ==
  ASSUME TypeOK, Shape, Entries, Calm, Next, calm
  PROVE  OneHandler' /\ Tracked' /\ Alone' /\ Awaits'
<1>0. OneHandler /\ Tracked /\ Alone /\ Awaits
  BY DEF Calm
<1>1. CASE UserStep
  <2>1. PICK c \in Calls, t \in Threads : Appears(c, t) /\ Permitted(c, t)
    BY <1>1, UserAppears
  <2>2. doubled' = doubled
    BY <1>1, UserAppears
  <2>3. /\ \A d \in Calls : call[d].thread = t => call[d].pc \notin SettingUp
        /\ Sole(c)' \/ runner' # runner => \A d \in Calls : call[d].thread = t => ~Live(d)
    <3>1. CASE Untouched(t)
      BY <3>1 DEF Untouched
    <3>2. CASE Quiet(t) /\ Idle(t)
      BY <3>2 DEF Quiet, Idle
    <3>3. CASE /\ call'[c].pc = "lookup" /\ call'[c].kind \notin {"rewind", "reset"}
               /\ Quiet(t) /\ runner' = runner
      BY <3>3 DEF Quiet, Sole
    <3>4. CASE /\ call'[c].pc = "begin" /\ call'[c].kind = "skill"
               /\ Quiet(t) /\ runner' = runner
      BY <3>4 DEF Quiet, Sole
    <3> QED
      BY <2>1, <3>1, <3>2, <3>3, <3>4 DEF Permitted
  <2> QED
    BY <1>0, <2>1, <2>2, <2>3, AppearsCalm
<1>2. ASSUME NEW c \in Calls, CallStep(c) \/ ClaudeStep(c)
      PROVE  OneHandler' /\ Tracked' /\ Alone' /\ Awaits'
  BY <1>0, <1>2, MovesCalm
<1>3. CASE MarkStep
  <2>1. UNCHANGED <<runner, task, call, doubled>>
    BY <1>3, MarkFrame
  <2> QED
    BY <1>0, <2>1 DEF OneHandler, Tracked, Runs, Alone, Sole, Awaits, Together, Plain
<1>4. CASE Restart
  <2>1. \A c \in Calls : call'[c].pc \notin SettingUp \cup Begun
    BY <1>4, RestartMoves DEF Live, SettingUp, Begun
  <2>2. \A c \in Calls : ~Sole(c)' /\ ~Runs(c)'
    BY <2>1 DEF Sole, Runs, SettingUp
  <2> QED
    BY <2>1, <2>2 DEF OneHandler, Tracked, Alone, Awaits
<1>5. ASSUME NEW h \in Handlers, NEW c \in Calls, NEW m \in ready[h].cur, Resume(c, h, m)
      PROVE  OneHandler' /\ Tracked' /\ Alone' /\ Awaits'
  <2>1. m.thread \in Threads /\ Appears(c, m.thread)
    BY <1>5, ResumeAppears DEF Appears
  <2>2. /\ doubled \subseteq doubled'
        /\ m.thread \notin doubled' =>
             \A d \in Calls : call[d].thread = m.thread => ~Live(d)
    BY <1>5 DEF Resume
  <2>3. m.thread \notin doubled' =>
          \A d \in Calls : call[d].thread = m.thread => call[d].pc \notin SettingUp
    BY <2>2 DEF Live
  <2> QED
    BY <1>0, <2>1, <2>2, <2>3, AppearsCalm
<1> QED
  BY <1>1, <1>2, <1>3, <1>4, <1>5, NextCases

\* Users who wait for what they asked for get one run of a thread at a time,
\* across interruptions, resets, restarts, reconnections and resumptions, unless
\* on_ready has resumed the thread beside a call of it, and a /skill aside.
THEOREM OneAtATime == Spec => []OneRun
<1>1. TypeOK /\ Shape /\ Entries /\ Calm /\ [Next]_vars => Calm'
  <2>1. ASSUME Calm, UNCHANGED vars PROVE Calm'
    BY <2>1 DEF vars, Calm, OneHandler, Tracked, Runs, Alone, Sole, Awaits, Together, Plain
  <2>2. ASSUME TypeOK, Shape, Entries, Calm, Next PROVE Calm'
    <3>1. calm' = calm
      BY <2>2, UserAppears, CallUnchanged, MarkFrame, NextCases DEF Restart, Resume
    <3> QED
      BY <2>2, <3>1, StepCalm DEF Calm
  <2> QED
    BY <2>1, <2>2
<1>2. Calm => OneRun
  BY DEF Calm, Tracked, Plain, Runs, OneRun
<1> QED
  BY <1>1, <1>2, InitCalm, TypeAndShape, EntriesInvariant, PTL DEF Spec

=============================================================================
