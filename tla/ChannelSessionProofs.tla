------------------------ MODULE ChannelSessionProofs --------------------------
(***************************************************************************)
(* ChannelSession is correct for any number of channels, turns, cleanups   *)
(* and slugs: its type invariant, the invariant behind every wait, and the *)
(* isolation of the channels' sessions.                                    *)
(***************************************************************************)
EXTENDS ChannelSession, TLAPS

-----------------------------------------------------------------------------
(***************************************************************************)
(* Type correctness.  A record set is expanded only to see that an updated *)
(* record is still in it; the actions are then about opaque records.       *)
(***************************************************************************)
LEMMA InitTypeOK == Init => TypeOK
BY NoneAssumption DEF Init, TypeOK, Rows, TurnRecords, CleanupRecords, TurnPCs,
   CleanupPCs, Kinds, Names, Blank

\* Updates of a turn's record, seen apart from the function it is in.
LEMMA MovedType ==
  ASSUME NEW r \in TurnRecords, NEW p \in TurnPCs
  PROVE  /\ [r EXCEPT !.pc = p] \in TurnRecords
         /\ [r EXCEPT !.pc = p, !.name = None, !.out = "ok"] \in TurnRecords
         /\ \A u \in Turns \cup {None} : [r EXCEPT !.pc = p, !.wait = u] \in TurnRecords
         /\ \A o \in {"ok", "failed", "raised"} : [r EXCEPT !.pc = p, !.out = o] \in TurnRecords
BY DEF TurnRecords

LEMMA RunningType ==
  ASSUME NEW r \in TurnRecords, NEW o \in {"ok", "failed", "raised"},
         NEW q \in {"none", "running", "signalled", "exited"}
  PROVE  [r EXCEPT !.proc = q] \in TurnRecords /\ [r EXCEPT !.proc = q, !.out = o] \in TurnRecords
BY DEF TurnRecords

LEMMA GotoType ==
  ASSUME TypeOK, NEW t \in Turns, NEW p \in TurnPCs, Goto(t, p)
  PROVE  turn' \in [Turns -> TurnRecords]
<1>1. [turn[t] EXCEPT !.pc = p] \in TurnRecords
  BY MovedType DEF TypeOK
<1> QED
  BY <1>1 DEF Goto, TypeOK

LEMMA LeaveType ==
  ASSUME TypeOK, NEW t \in Turns, NEW p \in TurnPCs, Leave(t, p)
  PROVE  turn' \in [Turns -> TurnRecords]
<1>1. [turn[t] EXCEPT !.pc = p, !.name = None, !.out = "ok"] \in TurnRecords
  BY MovedType DEF TypeOK
<1> QED
  BY <1>1 DEF Leave, TypeOK

LEMMA TurnAwaitsType ==
  ASSUME TypeOK, NEW t \in Turns, turn[t].chan \in Channels, TurnAwaits(t)
  PROVE  turn' \in [Turns -> TurnRecords]
<1> DEFINE u == active[turn[t].chan]
           p == IF u = None THEN "prepare" ELSE "join"
<1>1. u \in Turns \cup {None} /\ p \in TurnPCs
  BY DEF TypeOK, TurnPCs
<1>2. turn' = [turn EXCEPT ![t] = [@ EXCEPT !.pc = p, !.wait = u]]
  BY DEF TurnAwaits
<1> HIDE DEF u, p
<1>3. [turn[t] EXCEPT !.pc = p, !.wait = u] \in TurnRecords
  BY <1>1, MovedType DEF TypeOK
<1> QED
  BY <1>2, <1>3 DEF TypeOK

LEMMA KGotoType ==
  ASSUME TypeOK, NEW k \in Cleanups, NEW p \in CleanupPCs, KGoto(k, p)
  PROVE  cleanup' \in [Cleanups -> CleanupRecords]
<1>1. [cleanup[k] EXCEPT !.pc = p] \in CleanupRecords
  BY DEF TypeOK, CleanupRecords
<1> QED
  BY <1>1 DEF KGoto, TypeOK

\* A signalled subprocess changes nothing else of its turn.
LEMMA SignalType ==
  ASSUME TypeOK, NEW u \in Turns, turn' = [turn EXCEPT ![u].proc = "signalled"]
  PROVE  turn' \in [Turns -> TurnRecords]
<1>1. [turn[u] EXCEPT !.proc = "signalled"] \in TurnRecords
  BY RunningType DEF TypeOK
<1> QED
  BY <1>1 DEF TypeOK

LEMMA TeardownType ==
  ASSUME TypeOK, NEW k \in Cleanups, NEW c \in Channels, NEW kd \in Kinds,
         NEW n \in Names \cup {None}, Teardown(k, c, kd, n)
  PROVE  TypeOK'
<1> DEFINE u == active[c]
           hit == u # None /\ Reaches(u)
           r == [pc |-> IF u = None THEN "record" ELSE IF hit THEN "exitwait" ELSE "join",
                 chan |-> c, kind |-> kd, wait |-> u, name |-> None, to |-> n,
                 kept |-> FALSE]
<1>1. u \in Turns \cup {None}
  BY DEF TypeOK
<1>2. r \in CleanupRecords
  BY <1>1 DEF CleanupRecords, CleanupPCs
<1>3. cleanup' \in [Cleanups -> CleanupRecords]
  BY <1>2 DEF Teardown, TypeOK
<1>4. turn' \in [Turns -> TurnRecords]
  <2>1. CASE hit
    BY <2>1, <1>1, SignalType DEF Teardown
  <2>2. CASE ~hit
    BY <2>2 DEF Teardown, TypeOK
  <2> QED
    BY <2>1, <2>2
<1> QED
  BY <1>3, <1>4 DEF Teardown, TypeOK

LEMMA UserType == TypeOK /\ UserStep => TypeOK'
<1> SUFFICES ASSUME TypeOK, UserStep PROVE TypeOK'
  OBVIOUS
<1>1. ASSUME NEW c \in Channels, NEW n \in Names, Register(c, n) PROVE TypeOK'
  BY <1>1 DEF Register, TypeOK
<1>2. ASSUME NEW c \in Channels, DropCategory(c) PROVE TypeOK'
  BY <1>2 DEF DropCategory, TypeOK
<1>3. ASSUME NEW t \in Turns, NEW c \in Channels, Arrive(t, c) PROVE TypeOK'
  <2>0. turn[t] \in TurnRecords /\ index[c] \in Names \cup {None}
    BY DEF TypeOK
  <2>1. [turn[t] EXCEPT !.pc = "prompt", !.chan = c, !.name = index[c]] \in TurnRecords
    BY <2>0 DEF TurnRecords, TurnPCs
  <2> QED
    BY <1>3, <2>1 DEF Arrive, TypeOK
<1>4. ASSUME NEW k \in Cleanups, NEW c \in Channels, BeginDelete(k, c) PROVE TypeOK'
  BY <1>4, TeardownType DEF BeginDelete, Kinds
<1>5. ASSUME NEW k \in Cleanups, NEW c \in Channels, BeginReset(k, c) PROVE TypeOK'
  <2>0. cleanup[k] \in CleanupRecords /\ "confirm" \in CleanupPCs /\ "reset" \in Kinds
    BY DEF TypeOK, CleanupPCs, Kinds
  <2>1. [cleanup[k] EXCEPT !.pc = "confirm", !.chan = c, !.kind = "reset"] \in CleanupRecords
    BY <2>0 DEF CleanupRecords
  <2> QED
    BY <1>5, <2>1 DEF BeginReset, TypeOK
<1>6. ASSUME NEW k \in Cleanups, NEW c \in Channels, NEW n \in Names \cup {None},
             BeginUpdate(k, c, n) PROVE TypeOK'
  BY <1>6, TeardownType DEF BeginUpdate, Kinds
<1> QED
  BY <1>1, <1>2, <1>3, <1>4, <1>5, <1>6 DEF UserStep

\* A handler that has begun knows its channel and is waiting for a turn.
Placed ==
  /\ \A t \in Turns : turn[t].pc # "idle" => turn[t].chan \in Channels
  /\ \A t \in Turns : turn[t].pc \notin {"idle", "aborted", "done", "cachemiss"} =>
       turn[t].name \in Names
  /\ \A t \in Turns : turn[t].pc \in Waiting => turn[t].wait \in Turns
  /\ \A k \in Cleanups : cleanup[k].pc # "idle" => cleanup[k].chan \in Channels
  /\ \A k \in Cleanups : cleanup[k].pc \in {"status", "remove"} => cleanup[k].name \in Slugs

LEMMA TurnStepType ==
  ASSUME TypeOK, Placed, NEW t \in Turns, TurnStep(t)
  PROVE  TypeOK'
<1> DEFINE c == turn[t].chan
<1>0. turn[t] \in TurnRecords /\ (turn[t].pc # "idle" => c \in Channels)
  BY DEF TypeOK, Placed
<1>1. CASE CheckActive(t)
  <2>1. CASE Leave(t, "aborted")
    BY <1>1, <2>1, LeaveType DEF CheckActive, TypeOK, TurnPCs
  <2>2. CASE ~Leave(t, "aborted")
    <3> DEFINE u == active[c]
               p == IF u = None THEN "prepare" ELSE "react"
    <3>1. u \in Turns \cup {None} /\ p \in TurnPCs
      BY <1>0, <1>1 DEF TypeOK, TurnPCs, CheckActive
    <3>2. turn' = [turn EXCEPT ![t] = [@ EXCEPT !.pc = p, !.wait = u]]
      BY <1>1, <2>2 DEF CheckActive
    <3> HIDE DEF u, p
    <3>3. [turn[t] EXCEPT !.pc = p, !.wait = u] \in TurnRecords
      BY <1>0, <3>1, MovedType
    <3> QED
      BY <1>1, <3>2, <3>3 DEF CheckActive, TypeOK
  <2> QED
    BY <2>1, <2>2
<1>2. CASE Interrupt(t)
  <2>1. CASE Reaches(turn[t].wait)
    <3> DEFINE u == turn[t].wait
               f == [turn EXCEPT ![t].pc = "exitwait"]
    <3>1. u \in Turns
      BY <1>2 DEF Interrupt, Placed, Waiting
    <3>2. [turn[t] EXCEPT !.pc = "exitwait"] \in TurnRecords
      BY DEF TypeOK, TurnRecords, TurnPCs
    <3>3. f \in [Turns -> TurnRecords]
      BY <3>2 DEF TypeOK
    <3>4. turn' = [f EXCEPT ![u].proc = "signalled"]
      BY <1>2, <2>1 DEF Interrupt
    <3> HIDE DEF f, u
    <3>5. [f[u] EXCEPT !.proc = "signalled"] \in TurnRecords
      BY <3>1, <3>3 DEF TurnRecords
    <3>6. turn' \in [Turns -> TurnRecords]
      BY <3>3, <3>4, <3>5
    <3> QED
      BY <1>2, <3>6 DEF Interrupt, TypeOK
  <2>2. CASE ~Reaches(turn[t].wait)
    BY <1>0, <1>2, <2>2, TurnAwaitsType DEF Interrupt, TypeOK
  <2> QED
    BY <2>1, <2>2
<1>3. CASE Interrupted(t)
  BY <1>0, <1>3, TurnAwaitsType DEF Interrupted, TypeOK
<1>4. CASE Joined(t)
  <2>1. [turn[t] EXCEPT !.pc = "prepare", !.wait = None] \in TurnRecords
    BY <1>0 DEF TurnRecords, TurnPCs
  <2> QED
    BY <1>4, <2>1 DEF Joined, TypeOK
<1>5. CASE PrepareCwd(t)
  <2>1. turn' \in [Turns -> TurnRecords]
    BY <1>5, GotoType, LeaveType DEF PrepareCwd, TurnPCs
  <2>2. worktree' \in [Slugs -> {"absent", "clean", "dirty"}]
    BY <1>5 DEF PrepareCwd, TypeOK
  <2> QED
    BY <1>5, <2>1, <2>2 DEF PrepareCwd, TypeOK
<1>6. CASE EnsureRow(t)
  <2>0. row[c].session \in Turns \cup {None} /\ epoch[c] \in Nat
    BY <1>0, <1>6 DEF TypeOK, Rows, EnsureRow
  <2>1. [turn[t] EXCEPT !.pc = "count", !.session = row[c].session, !.born = epoch[c]]
          \in TurnRecords
    BY <1>0, <2>0 DEF TurnRecords, TurnPCs
  <2>2. [row[c] EXCEPT !.name = turn[t].name] \in Rows
    <3>1. turn[t].name \in Names \cup {None}
      BY <1>0 DEF TurnRecords
    <3>2. row[c] \in Rows
      BY <1>0, <1>6 DEF TypeOK, EnsureRow
    <3> QED
      BY <3>1, <3>2 DEF Rows
  <2> QED
    BY <1>6, <2>1, <2>2 DEF EnsureRow, TypeOK
<1>7. CASE CountTurn(t)
  <2>1. [row[c] EXCEPT !.turns = row[c].turns + 1] \in Rows
    BY <1>0, <1>7 DEF TypeOK, Rows, CountTurn
  <2>2. turn' \in [Turns -> TurnRecords]
    BY <1>7, GotoType DEF CountTurn, TurnPCs
  <2> QED
    BY <1>7, <2>1, <2>2 DEF CountTurn, TypeOK
<1>8. CASE Launch(t)
  BY <1>8, GotoType, LeaveType DEF Launch, TypeOK, TurnPCs
<1>9. CASE Start(t)
  BY <1>9, GotoType DEF Start, TypeOK, TurnPCs
<1>10. CASE Spawn(t)
  <2>1. [turn[t] EXCEPT !.proc = "running"] \in TurnRecords
    BY RunningType DEF TypeOK
  <2> QED
    BY <1>10, <2>1 DEF Spawn, TypeOK
<1>11. CASE SpawnFails(t)
  <2>1. [turn[t] EXCEPT !.proc = "exited", !.out = "failed"] \in TurnRecords
    BY RunningType DEF TypeOK
  <2> QED
    BY <1>11, <2>1 DEF SpawnFails, TypeOK
<1>12. CASE TurnEnd(t)
  <2>1. PICK o \in {turn[t].out, "raised"} :
          turn' = [turn EXCEPT ![t] = [@ EXCEPT !.pc = "post", !.out = o]]
    BY <1>12 DEF TurnEnd
  <2>2. o \in {"ok", "failed", "raised"} /\ "post" \in TurnPCs
    BY <1>0 DEF TurnRecords, TurnPCs
  <2>3. [turn[t] EXCEPT !.pc = "post", !.out = o] \in TurnRecords
    BY <1>0, <2>2, MovedType
  <2> QED
    BY <1>12, <2>1, <2>3 DEF TurnEnd, TypeOK
<1>13. CASE PostTurn(t)
  <2> DEFINE e == IF turn[t].out = "raised" THEN row[c].errors + 1 ELSE 0
  <2>1. e \in Nat /\ c \in Channels
    BY <1>0, <1>13 DEF TypeOK, Rows, PostTurn
  <2>2. row' = IF HasRow(c) THEN [row EXCEPT ![c].errors = e] ELSE row
    BY <1>13 DEF PostTurn
  <2> HIDE DEF e
  <2>3. [row[c] EXCEPT !.errors = e] \in Rows
    BY <2>1 DEF TypeOK, Rows
  <2>4. turn' \in [Turns -> TurnRecords]
    BY <1>13, LeaveType DEF PostTurn, TurnPCs
  <2> QED
    BY <1>13, <2>2, <2>3, <2>4 DEF PostTurn, TypeOK
<1> QED
  BY <1>1, <1>2, <1>3, <1>4, <1>5, <1>6, <1>7, <1>8, <1>9, <1>10, <1>11, <1>12,
     <1>13 DEF TurnStep

LEMMA ClaudeStepType ==
  ASSUME TypeOK, Placed, NEW t \in Turns, ClaudeStep(t)
  PROVE  TypeOK'
<1>1. CASE Report(t)
  <2> DEFINE c == turn[t].chan
             s == IF turn[t].session = None THEN t ELSE turn[t].session
  <2>1. s \in Turns \cup {None} /\ c \in Channels
    BY <1>1 DEF TypeOK, TurnRecords, Report, Placed
  <2>2. row' = IF HasRow(c) THEN [row EXCEPT ![c].session = s] ELSE row
    BY <1>1 DEF Report
  <2> HIDE DEF s
  <2>3. [row[c] EXCEPT !.session = s] \in Rows
    BY <2>1 DEF TypeOK, Rows
  <2> QED
    BY <1>1, <2>2, <2>3 DEF Report, TypeOK
<1>2. CASE EditFiles(t)
  BY <1>2 DEF EditFiles, TypeOK
<1>3. CASE ProcExit(t)
  <2>1. PICK o \in {"ok", "failed"} :
          turn' = [turn EXCEPT ![t] = [@ EXCEPT !.proc = "exited", !.out = o]]
    BY <1>3 DEF ProcExit
  <2>2. [turn[t] EXCEPT !.proc = "exited", !.out = o] \in TurnRecords
    BY RunningType DEF TypeOK
  <2> QED
    BY <1>3, <2>1, <2>2 DEF ProcExit, TypeOK
<1> QED
  BY <1>1, <1>2, <1>3 DEF ClaudeStep

LEMMA CleanupStepType ==
  ASSUME TypeOK, Placed, NEW k \in Cleanups, CleanupStep(k)
  PROVE  TypeOK'
<1> DEFINE c == cleanup[k].chan
<1>0. cleanup[k] \in CleanupRecords /\ (cleanup[k].pc # "idle" => c \in Channels)
  BY DEF TypeOK, Placed
<1>1. CASE Confirm(k)
  BY <1>0, <1>1, TeardownType DEF Confirm, Kinds
<1>2. CASE Cancel(k)
  BY <1>2, KGotoType DEF Cancel, TypeOK, CleanupPCs
<1>3. CASE KInterrupted(k)
  <2> DEFINE u == active[c]
             p == IF u = None THEN "record" ELSE "join"
  <2>1. u \in Turns \cup {None} /\ p \in CleanupPCs
    BY <1>0, <1>3 DEF TypeOK, CleanupPCs, KInterrupted
  <2>2. cleanup' = [cleanup EXCEPT ![k] = [@ EXCEPT !.pc = p, !.wait = u]]
    BY <1>3 DEF KInterrupted
  <2> HIDE DEF u, p
  <2>3. [cleanup[k] EXCEPT !.pc = p, !.wait = u] \in CleanupRecords
    BY <1>0, <2>1 DEF CleanupRecords
  <2> QED
    BY <1>3, <2>2, <2>3 DEF KInterrupted, TypeOK
<1>4. CASE KJoined(k)
  <2>1. [cleanup[k] EXCEPT !.pc = "record", !.wait = None] \in CleanupRecords
    BY <1>0 DEF CleanupRecords, CleanupPCs
  <2> QED
    BY <1>4, <2>1 DEF KJoined, TypeOK
<1>5. CASE ReadRecord(k)
  <2> DEFINE n == row[c].name
             p == IF n \in Slugs THEN "status" ELSE "delete"
  <2>1. n \in Names \cup {None} /\ p \in CleanupPCs
    BY <1>0, <1>5 DEF TypeOK, Rows, CleanupPCs, ReadRecord
  <2>2. cleanup' = [cleanup EXCEPT ![k] = [@ EXCEPT !.name = n, !.pc = p]]
    BY <1>5 DEF ReadRecord
  <2> HIDE DEF n, p
  <2>3. [cleanup[k] EXCEPT !.name = n, !.pc = p] \in CleanupRecords
    BY <1>0, <2>1 DEF CleanupRecords
  <2> QED
    BY <1>5, <2>2, <2>3 DEF ReadRecord, TypeOK
<1>6. CASE CheckClean(k)
  <2> DEFINE w == worktree[cleanup[k].name]
  <2>0. PICK d \in {w = "dirty", w # "absent"} :
          cleanup' = [cleanup EXCEPT ![k] = [@ EXCEPT !.kept = d,
                        !.pc = IF w = "clean" /\ ~d THEN "remove" ELSE "delete"]]
    BY <1>6 DEF CheckClean
  <2> DEFINE p == IF w = "clean" /\ ~d THEN "remove" ELSE "delete"
  <2>1. d \in BOOLEAN /\ p \in CleanupPCs
    BY <2>0 DEF CleanupPCs
  <2>2. cleanup' = [cleanup EXCEPT ![k] = [@ EXCEPT !.kept = d, !.pc = p]]
    BY <2>0
  <2> HIDE DEF p
  <2>3. [cleanup[k] EXCEPT !.kept = d, !.pc = p] \in CleanupRecords
    BY <1>0, <2>1 DEF CleanupRecords
  <2> QED
    BY <1>6, <2>2, <2>3 DEF CheckClean, TypeOK
<1>7. CASE RemoveWorktree(k)
  <2>1. cleanup' \in [Cleanups -> CleanupRecords]
    BY <1>7, KGotoType DEF RemoveWorktree, CleanupPCs
  <2> QED
    BY <1>7, <2>1 DEF RemoveWorktree, TypeOK
<1>8. CASE DeleteRow(k)
  <2>1. cleanup' \in [Cleanups -> CleanupRecords]
    BY <1>8, KGotoType DEF DeleteRow, CleanupPCs
  <2>2. Blank \in Rows
    BY DEF Blank, Rows
  <2> QED
    BY <1>0, <1>8, <2>1, <2>2 DEF DeleteRow, TypeOK
<1>9. CASE Unregister(k)
  <2>1. cleanup' \in [Cleanups -> CleanupRecords]
    BY <1>9, KGotoType DEF Unregister, CleanupPCs
  <2>2. cleanup[k].to \in Names \cup {None}
    BY <1>0 DEF CleanupRecords
  <2> QED
    BY <1>9, <2>1, <2>2 DEF Unregister, TypeOK
<1>10. CASE Reregister(k)
  <2>1. cleanup' \in [Cleanups -> CleanupRecords]
    BY <1>10, KGotoType DEF Reregister, CleanupPCs
  <2>2. cleanup[k].to \in Names \cup {None}
    BY <1>0 DEF CleanupRecords
  <2> QED
    BY <1>10, <2>1, <2>2 DEF Reregister, TypeOK
<1> QED
  BY <1>1, <1>2, <1>3, <1>4, <1>5, <1>6, <1>7, <1>8, <1>9, <1>10 DEF CleanupStep

-----------------------------------------------------------------------------
(***************************************************************************)
(* The inductive invariant.  Besides what is to be shown it says that a    *)
(* handler past its first step knows its channel (Placed), and when in its *)
(* life a turn has a subprocess and a session to resume (Lifecycle).       *)
(***************************************************************************)
Lifecycle ==
  \A t \in Turns :
    /\ turn[t].proc # "none" => turn[t].pc \in {"running", "post", "done"}
    /\ turn[t].proc \in {"running", "signalled"} => turn[t].pc = "running"
    /\ turn[t].session # None =>
         turn[t].pc \in {"count", "launch", "start", "running", "post", "done", "cachemiss"}

Behaviour == Placed /\ Lifecycle /\ ActiveIsLive /\ WaitsOnStarted /\ SessionIsolation

Inv == TypeOK /\ Behaviour

LEMMA TeardownInv ==
  ASSUME Inv, NEW k \in Cleanups, NEW c \in Channels, NEW kd \in Kinds,
         NEW n \in Names \cup {None}, Teardown(k, c, kd, n), cleanup[k].pc \in {"idle", "confirm"}
  PROVE  Behaviour'
<1> DEFINE u == active[c]
           hit == u # None /\ Reaches(u)
<1> USE NoneAssumption DEF Inv, Behaviour, Waiting, TypeOK, TurnRecords, CleanupRecords
<1>1. CASE hit
  <2>1. u \in Turns /\ turn[u].pc = "running" /\ turn' = [turn EXCEPT ![u].proc = "signalled"]
    BY <1>1 DEF Teardown, ActiveIsLive
  <2>2. \A t \in Turns : turn'[t].pc = turn[t].pc /\ turn'[t].chan = turn[t].chan
          /\ turn'[t].name = turn[t].name /\ turn'[t].wait = turn[t].wait
          /\ turn'[t].session = turn[t].session
    BY <2>1
  <2>3. \A t \in Turns : turn'[t].proc = IF t = u THEN "signalled" ELSE turn[t].proc
    BY <2>1
  <2>4. turn[u].proc # "none"
    BY <1>1 DEF Reaches
  <2>5. Placed' /\ WaitsOnStarted'
    BY <1>1, <2>1, <2>2 DEF Teardown, Placed, WaitsOnStarted
  <2>6. Lifecycle' /\ ActiveIsLive'
    BY <1>1, <2>1, <2>2, <2>3 DEF Teardown, Lifecycle, ActiveIsLive
  <2>7. SessionIsolation'
    <3>1. \A t \in Turns : turn[t].proc # "none" => turn'[t].proc # "none"
      BY <2>3
    <3>2. row' = row /\ \A d \in Channels : row[d].session \in Turns \cup {None}
      BY DEF Teardown, Rows
    <3>3. \A t \in Turns : turn[t].session \in Turns \cup {None}
      OBVIOUS
    <3>4. SessionIsolation
      OBVIOUS
    <3> HIDE DEF u, hit, Inv, Behaviour, TypeOK, TurnRecords, CleanupRecords
    <3> QED
      BY <2>2, <3>1, <3>2, <3>3, <3>4 DEF SessionIsolation, CreatedIn
  <2> QED
    BY <2>5, <2>6, <2>7
<1>2. CASE ~hit
  <2>1. turn' = turn /\ UNCHANGED <<row, active>>
    BY <1>2 DEF Teardown
  <2>2. /\ cleanup'[k].chan = c /\ cleanup'[k].wait = u
        /\ cleanup'[k].pc = IF u = None THEN "record" ELSE "join"
        /\ \A j \in Cleanups \ {k} : cleanup'[j] = cleanup[j]
    BY <1>2 DEF Teardown
  <2>3. u # None => turn[u].pc = "running"
    BY DEF ActiveIsLive
  <2>4. Placed /\ Lifecycle /\ ActiveIsLive /\ WaitsOnStarted /\ SessionIsolation
    OBVIOUS
  <2> HIDE DEF u, hit, Inv, Behaviour, TypeOK, TurnRecords, CleanupRecords
  <2>5. Placed'
    BY <2>1, <2>2, <2>4 DEF Placed
  <2>6. WaitsOnStarted'
    <3>1. ASSUME NEW j \in Cleanups, cleanup'[j].pc \in {"exitwait", "join"}
          PROVE  cleanup'[j].wait # None /\ turn[cleanup'[j].wait].pc \in {"running", "post", "done"}
      <4>1. CASE j = k
        BY <2>2, <2>3, <3>1, <4>1
      <4>2. CASE j # k
        BY <2>2, <2>4, <3>1, <4>2 DEF WaitsOnStarted
      <4> QED
        BY <4>1, <4>2
    <3> QED
      BY <2>1, <2>4, <3>1 DEF WaitsOnStarted
  <2>7. Lifecycle' /\ ActiveIsLive' /\ SessionIsolation'
    BY <2>1, <2>4 DEF Lifecycle, ActiveIsLive, SessionIsolation, CreatedIn
  <2> QED
    BY <2>5, <2>6, <2>7 DEF Behaviour
<1> QED
  BY <1>1, <1>2

LEMMA UserInv == Inv /\ UserStep => Behaviour'
<1> SUFFICES ASSUME Inv, UserStep PROVE Behaviour'
  OBVIOUS
<1> USE NoneAssumption, NamesAssumption DEF Inv, Behaviour
<1>1. ASSUME NEW c \in Channels, NEW n \in Names, Register(c, n) PROVE Behaviour'
  BY <1>1 DEF Register, Placed, Lifecycle, ActiveIsLive, WaitsOnStarted,
     SessionIsolation, CreatedIn
<1>2. ASSUME NEW c \in Channels, DropCategory(c) PROVE Behaviour'
  BY <1>2 DEF DropCategory, Placed, Lifecycle, ActiveIsLive, WaitsOnStarted,
     SessionIsolation, CreatedIn
<1>3. ASSUME NEW t \in Turns, NEW c \in Channels, Arrive(t, c) PROVE Behaviour'
  <2> USE DEF Arrive, TypeOK, TurnRecords
  <2>1. Placed'
    BY <1>3 DEF Placed, Waiting
  <2>2. Lifecycle' /\ ActiveIsLive'
    BY <1>3 DEF Lifecycle, ActiveIsLive
  <2>3. WaitsOnStarted'
    BY <1>3 DEF WaitsOnStarted, Waiting
  <2>4. SessionIsolation'
    BY <1>3 DEF SessionIsolation, CreatedIn, Lifecycle, Rows
  <2> QED
    BY <2>1, <2>2, <2>3, <2>4
<1>4. ASSUME NEW k \in Cleanups, NEW c \in Channels, BeginDelete(k, c) PROVE Behaviour'
  BY <1>4, TeardownInv DEF BeginDelete, Kinds
<1>5. ASSUME NEW k \in Cleanups, NEW c \in Channels, BeginReset(k, c) PROVE Behaviour'
  <2> USE DEF BeginReset, TypeOK, CleanupRecords
  <2>1. Placed' /\ WaitsOnStarted'
    BY <1>5 DEF Placed, WaitsOnStarted
  <2>2. Lifecycle' /\ ActiveIsLive' /\ SessionIsolation'
    BY <1>5 DEF Lifecycle, ActiveIsLive, SessionIsolation, CreatedIn
  <2> QED
    BY <2>1, <2>2
<1>6. ASSUME NEW k \in Cleanups, NEW c \in Channels, NEW n \in Names \cup {None},
             BeginUpdate(k, c, n) PROVE Behaviour'
  BY <1>6, TeardownInv DEF BeginUpdate, Kinds
<1> QED
  BY <1>1, <1>2, <1>3, <1>4, <1>5, <1>6 DEF UserStep

\* A step that keeps or clears the rows' sessions, and moves no turn to another
\* channel or session, keeps the channels' sessions apart.
LEMMA SessionFrame ==
  ASSUME Inv,
         \A c \in Channels : row'[c].session \in {row[c].session, None},
         \A u \in Turns : /\ turn'[u].chan = turn[u].chan
                          /\ turn'[u].session = turn[u].session
                          /\ turn[u].proc # "none" => turn'[u].proc # "none"
  PROVE  SessionIsolation'
BY NoneAssumption DEF Inv, Behaviour, SessionIsolation, CreatedIn, TypeOK, Rows, TurnRecords

\* A handler moves on, or returns, without touching another's state.
LEMMA MoveInv ==
  ASSUME Inv, NEW t \in Turns, NEW p,
         Goto(t, p) \/ (Leave(t, p) /\ p \in {"aborted", "done", "cachemiss"}),
         turn[t].pc \in SettingUp \cup {"prompt", "post"},
         p \notin Waiting \cup {"idle", "running"},
         turn[t].proc # "none" => p = "done",
         turn[t].session # None => p \in {"launch", "start", "done", "cachemiss"},
         turn[t].pc = "post" => p = "done",
         UNCHANGED <<active, cleanup>>,
         \A c \in Channels : row'[c].session = row[c].session
  PROVE  Behaviour'
<1> USE DEF Inv, Behaviour, TypeOK
<1>1. \A u \in Turns \ {t} : turn'[u] = turn[u]
  BY DEF Goto, Leave
<1>2. /\ turn'[t].pc = p /\ turn'[t].chan = turn[t].chan /\ turn'[t].wait = turn[t].wait
      /\ turn'[t].session = turn[t].session /\ turn'[t].proc = turn[t].proc
  <2>1. CASE Goto(t, p)
    BY <2>1 DEF Goto, TurnRecords
  <2>2. CASE Leave(t, p)
    BY <2>2 DEF Leave, TurnRecords
  <2> QED
    BY <2>1, <2>2
<1>3. p \notin {"aborted", "done", "cachemiss"} => turn'[t].name = turn[t].name
  BY DEF Goto, TurnRecords
<1>4. Placed'
  BY <1>1, <1>2, <1>3 DEF Placed, Waiting, SettingUp
<1>5. Lifecycle' /\ ActiveIsLive'
  BY <1>1, <1>2 DEF Lifecycle, ActiveIsLive, SettingUp
<1>6. WaitsOnStarted'
  <2>1. \A v \in Turns : turn[v].pc \in {"running", "post", "done"} =>
                           turn'[v].pc \in {"running", "post", "done"}
    BY <1>1, <1>2 DEF SettingUp
  <2>2. \A k \in Cleanups : cleanup[k].wait \in Turns \cup {None}
    BY DEF CleanupRecords
  <2> QED
    BY <1>1, <1>2, <2>1, <2>2 DEF WaitsOnStarted, Placed, Waiting
<1>7. SessionIsolation'
  BY <1>1, <1>2, SessionFrame
<1> QED
  BY <1>4, <1>5, <1>6, <1>7

\* A handler reads _active: it goes on if there is no entry, else it waits for
\* the turn it found there, which is running.
LEMMA AwaitInv ==
  ASSUME Inv, NEW t \in Turns, NEW u, NEW p,
         turn[t].pc \in Waiting \cup {"prompt"},
         u = active[turn[t].chan],
         p = IF u = None THEN "prepare" ELSE IF turn[t].pc = "prompt" THEN "react" ELSE "join",
         turn' = [turn EXCEPT ![t] = [@ EXCEPT !.pc = p, !.wait = u]],
         UNCHANGED <<active, cleanup, row>>
  PROVE  Behaviour'
<1> USE DEF Inv, Behaviour, TypeOK
<1>1. \A v \in Turns \ {t} : turn'[v] = turn[v]
  OBVIOUS
<1>2. /\ turn'[t].pc = p /\ turn'[t].chan = turn[t].chan /\ turn'[t].wait = u
      /\ turn'[t].session = turn[t].session /\ turn'[t].proc = turn[t].proc
      /\ turn'[t].name = turn[t].name
  BY DEF TurnRecords
<1>3. turn[t].chan \in Channels /\ turn[t].proc = "none" /\ turn[t].session = None
  BY DEF Placed, Lifecycle, Waiting
<1>4. u # None => u \in Turns /\ u # t /\ turn[u].pc = "running"
  BY <1>3, NoneAssumption DEF ActiveIsLive, Waiting
<1>5. p \in {"prepare", "react", "join"} /\ (p # "prepare" <=> u # None)
  OBVIOUS
<1>6. Placed'
  BY <1>1, <1>2, <1>3, <1>4, <1>5 DEF Placed, Waiting
<1>7. Lifecycle' /\ ActiveIsLive'
  BY <1>1, <1>2, <1>3, <1>5 DEF Lifecycle, ActiveIsLive, Waiting
<1>8. WaitsOnStarted'
  <2>1. \A v \in Turns : turn[v].pc \in {"running", "post", "done"} => turn'[v].pc = turn[v].pc
    BY <1>1, <1>2 DEF Waiting
  <2> QED
    BY <1>1, <1>2, <1>4, <1>5, <2>1 DEF WaitsOnStarted, Placed, Waiting
<1>9. SessionIsolation'
  BY <1>1, <1>2, SessionFrame
<1> QED
  BY <1>6, <1>7, <1>8, <1>9

LEMMA InterruptInv ==
  ASSUME Inv, NEW t \in Turns, Interrupt(t)
  PROVE  Behaviour'
<1> USE DEF Inv, Behaviour, TypeOK
<1> DEFINE u == turn[t].wait
<1>1. CASE ~Reaches(u)
  BY <1>1, AwaitInv DEF Interrupt, TurnAwaits, Waiting
<1>2. CASE Reaches(u)
  <2>1. u \in Turns /\ turn[u].pc = "running" /\ u # t /\ turn[t].pc = "react"
    BY <1>2 DEF Interrupt, Placed, Reaches, Lifecycle, Waiting
  <2>2. turn' = [turn EXCEPT ![t].pc = "exitwait", ![u].proc = "signalled"]
        /\ UNCHANGED <<active, cleanup, row>>
    BY <1>2 DEF Interrupt
  <2> HIDE DEF u
  <2>3. \A v \in Turns : /\ turn'[v].pc = IF v = t THEN "exitwait" ELSE turn[v].pc
                         /\ turn'[v].proc = IF v = u THEN "signalled" ELSE turn[v].proc
                         /\ turn'[v].chan = turn[v].chan /\ turn'[v].wait = turn[v].wait
                         /\ turn'[v].session = turn[v].session /\ turn'[v].name = turn[v].name
    <3> DEFINE f == [turn EXCEPT ![t].pc = "exitwait"]
    <3>1. turn' = [f EXCEPT ![u].proc = "signalled"]
      BY <2>2
    <3>2. /\ DOMAIN f = Turns
          /\ f[t] = [turn[t] EXCEPT !.pc = "exitwait"]
          /\ \A v \in Turns \ {t} : f[v] = turn[v]
      OBVIOUS
    <3> HIDE DEF f
    <3>3. /\ turn'[t] = f[t]
          /\ turn'[u] = [turn[u] EXCEPT !.proc = "signalled"]
          /\ \A v \in Turns \ {t, u} : turn'[v] = turn[v]
      BY <2>1, <3>1, <3>2
    <3>4. turn[t] \in TurnRecords /\ turn[u] \in TurnRecords
      BY <2>1
    <3> QED
      BY <2>1, <3>2, <3>3, <3>4 DEF TurnRecords
  <2>4. Placed'
    BY <2>1, <2>2, <2>3 DEF Placed, Waiting
  <2>8. \A k \in Cleanups : cleanup[k].wait \in Turns \cup {None}
    BY DEF CleanupRecords
  <2>9. WaitsOnStarted'
    BY <2>1, <2>2, <2>3, <2>8 DEF WaitsOnStarted, Placed, Waiting
  <2>5. Lifecycle' /\ ActiveIsLive'
    BY <2>1, <2>2, <2>3 DEF Lifecycle, ActiveIsLive
  <2>6. SessionIsolation'
    BY <2>2, <2>3, SessionFrame
  <2> QED
    BY <2>4, <2>5, <2>6, <2>9
<1> QED
  BY <1>1, <1>2

LEMMA TurnStepInv ==
  ASSUME Inv, NEW t \in Turns, TurnStep(t)
  PROVE  Behaviour'
<1> USE NoneAssumption DEF Inv, Behaviour, TypeOK
<1> DEFINE c == turn[t].chan
<1>0. /\ turn[t] \in TurnRecords
      /\ turn[t].pc \notin {"running", "post", "done"} => turn[t].proc = "none"
      /\ turn[t].pc \notin {"count", "launch", "start", "running", "post", "done", "cachemiss"} =>
           turn[t].session = None
  BY DEF Lifecycle
<1>1. CASE CheckActive(t)
  <2>1. CASE Leave(t, "aborted")
    BY <1>0, <1>1, <2>1, MoveInv DEF CheckActive, Waiting
  <2>2. CASE ~Leave(t, "aborted")
    BY <1>1, <2>2, AwaitInv DEF CheckActive
  <2> QED
    BY <2>1, <2>2
<1>2. CASE Interrupt(t)
  BY <1>2, InterruptInv
<1>3. CASE Interrupted(t)
  BY <1>3, AwaitInv DEF Interrupted, TurnAwaits, Waiting
<1>4. CASE Joined(t)
  <2>1. \A u \in Turns : turn'[u] = IF u = t THEN [turn[t] EXCEPT !.pc = "prepare", !.wait = None]
                                             ELSE turn[u]
    BY <1>4 DEF Joined
  <2>2. Placed' /\ Lifecycle'
    BY <1>0, <1>4, <2>1 DEF Joined, Placed, Lifecycle, Waiting, TurnRecords
  <2>3. ActiveIsLive' /\ WaitsOnStarted'
    BY <1>0, <1>4, <2>1 DEF Joined, ActiveIsLive, WaitsOnStarted, Waiting, TurnRecords, CleanupRecords
  <2>4. SessionIsolation'
    BY <1>0, <1>4, <2>1, SessionFrame DEF Joined, TurnRecords
  <2> QED
    BY <2>2, <2>3, <2>4
<1>5. CASE PrepareCwd(t)
  BY <1>0, <1>5, MoveInv DEF PrepareCwd, SettingUp, Waiting
<1>6. CASE EnsureRow(t)
  <2>1. c \in Channels
    BY <1>6 DEF EnsureRow, Placed
  <2>2. /\ \A u \in Turns \ {t} : turn'[u] = turn[u]
        /\ turn'[t].pc = "count" /\ turn'[t].chan = c /\ turn'[t].name = turn[t].name
        /\ turn'[t].session = row[c].session /\ turn'[t].wait = turn[t].wait
        /\ turn'[t].proc = "none"
    BY <1>0, <1>6 DEF EnsureRow, TurnRecords
  <2>3. \A d \in Channels : row'[d].session = row[d].session /\ row[d].session \in Turns \cup {None}
    BY <1>6 DEF EnsureRow, Rows
  <2>4. Placed' /\ Lifecycle'
    BY <1>0, <1>6, <2>1, <2>2 DEF EnsureRow, Placed, Lifecycle, Waiting
  <2>5. ActiveIsLive' /\ WaitsOnStarted'
    BY <1>0, <1>6, <2>2 DEF EnsureRow, ActiveIsLive, WaitsOnStarted, Waiting, TurnRecords, CleanupRecords
  <2>6. \A s \in Turns, d \in Channels : CreatedIn(s, d) => s # t /\ CreatedIn(s, d)'
    BY <1>0, <1>6, <2>2 DEF EnsureRow, CreatedIn
  <2>7. SessionIsolation'
    BY <2>1, <2>2, <2>3, <2>6 DEF SessionIsolation, TurnRecords, Lifecycle, Placed
  <2> QED
    BY <2>4, <2>5, <2>7
<1>7. CASE CountTurn(t)
  <2>1. \A d \in Channels : row'[d].session = row[d].session
    BY <1>7 DEF CountTurn, Rows
  <2> QED
    BY <1>0, <1>7, <2>1, MoveInv DEF CountTurn, SettingUp, Waiting
<1>8. CASE Launch(t)
  BY <1>0, <1>8, MoveInv DEF Launch, SettingUp, Waiting
<1>9. CASE Start(t)
  <2>1. c \in Channels /\ turn[t].name \in Names
    BY <1>9 DEF Start, Placed
  <2>2. /\ \A u \in Turns \ {t} : turn'[u] = turn[u]
        /\ turn'[t] = [turn[t] EXCEPT !.pc = "running"]
    BY <1>9 DEF Start, Goto
  <2>3. Placed' /\ Lifecycle'
    BY <1>0, <1>9, <2>1, <2>2 DEF Start, Placed, Lifecycle, Waiting, TurnRecords
  <2>4. ActiveIsLive'
    BY <1>0, <1>9, <2>1, <2>2 DEF Start, ActiveIsLive, TurnRecords
  <2>5. WaitsOnStarted'
    BY <1>0, <1>9, <2>2 DEF Start, WaitsOnStarted, Waiting, TurnRecords, CleanupRecords
  <2>6. SessionIsolation'
    BY <1>0, <1>9, <2>2, SessionFrame DEF Start, TurnRecords
  <2> QED
    BY <2>3, <2>4, <2>5, <2>6
<1>10. ASSUME Spawn(t) \/ SpawnFails(t) PROVE Behaviour'
  <2>1. \A u \in Turns \ {t} : turn'[u] = turn[u]
    BY <1>10 DEF Spawn, SpawnFails
  <2>2. /\ turn'[t].pc = "running" /\ turn'[t].chan = c /\ turn'[t].name = turn[t].name
        /\ turn'[t].session = turn[t].session /\ turn'[t].wait = turn[t].wait
        /\ turn[t].pc = "running" /\ turn[t].proc = "none"
    <3>1. CASE Spawn(t)
      BY <1>0, <3>1 DEF Spawn, TurnRecords
    <3>2. CASE SpawnFails(t)
      BY <1>0, <3>2 DEF SpawnFails, TurnRecords
    <3> QED
      BY <1>10, <3>1, <3>2
  <2>3. UNCHANGED <<active, cleanup, row>>
    BY <1>10 DEF Spawn, SpawnFails
  <2>4. Placed' /\ Lifecycle'
    BY <1>0, <2>1, <2>2, <2>3 DEF Placed, Lifecycle, Waiting
  <2>5. ActiveIsLive' /\ WaitsOnStarted'
    BY <1>0, <2>1, <2>2, <2>3 DEF ActiveIsLive, WaitsOnStarted, Waiting, TurnRecords, CleanupRecords
  <2>6. SessionIsolation'
    BY <2>1, <2>2, <2>3, SessionFrame
  <2> QED
    BY <2>4, <2>5, <2>6
<1>11. CASE TurnEnd(t)
  <2>1. c \in Channels
    BY <1>11 DEF TurnEnd, Placed
  <2>2. \A u \in Turns \ {t} : turn'[u] = turn[u]
    BY <1>11 DEF TurnEnd
  <2>3. /\ turn'[t].pc = "post" /\ turn'[t].chan = c /\ turn'[t].name = turn[t].name
        /\ turn'[t].session = turn[t].session /\ turn'[t].wait = turn[t].wait
        /\ turn'[t].proc = "exited" /\ turn[t].proc = "exited" /\ turn[t].pc = "running"
    BY <1>0, <1>11 DEF TurnEnd, TurnRecords
  <2>4. Placed' /\ Lifecycle'
    BY <1>11, <2>2, <2>3 DEF TurnEnd, Placed, Lifecycle, Waiting
  <2>5. ActiveIsLive'
    BY <1>11, <2>1, <2>2, <2>3 DEF TurnEnd, ActiveIsLive
  <2>6. WaitsOnStarted'
    BY <1>11, <2>2, <2>3 DEF TurnEnd, WaitsOnStarted, Waiting, TurnRecords, CleanupRecords
  <2>7. SessionIsolation'
    BY <1>11, <2>2, <2>3, SessionFrame DEF TurnEnd
  <2> QED
    BY <2>4, <2>5, <2>6, <2>7
<1>12. CASE PostTurn(t)
  <2>1. \A d \in Channels : row'[d].session = row[d].session
    BY <1>12 DEF PostTurn, Rows
  <2> QED
    BY <1>0, <1>12, <2>1, MoveInv DEF PostTurn, SettingUp, Waiting
<1> QED
  BY <1>1, <1>2, <1>3, <1>4, <1>5, <1>6, <1>7, <1>8, <1>9, <1>10, <1>11, <1>12
     DEF TurnStep

LEMMA ClaudeStepInv ==
  ASSUME Inv, NEW t \in Turns, ClaudeStep(t)
  PROVE  Behaviour'
<1> USE NoneAssumption DEF Inv, Behaviour, TypeOK
<1>1. CASE Report(t)
  <2> DEFINE c == turn[t].chan
             s == IF turn[t].session = None THEN t ELSE turn[t].session
  <2>1. c \in Channels /\ UNCHANGED <<turn, active, cleanup>>
    BY <1>1 DEF Report, Placed
  <2>2. s \in Turns /\ CreatedIn(s, c)
    BY <1>1, <2>1 DEF Report, SessionIsolation, CreatedIn, TurnRecords
  <2> HIDE DEF s
  <2>3. \A d \in Channels : row'[d].session = row[d].session \/ (d = c /\ row'[d].session = s)
    BY <1>1, <2>1 DEF Report, Rows, s
  <2>4. SessionIsolation'
    BY <2>1, <2>2, <2>3 DEF SessionIsolation, CreatedIn
  <2>5. Placed' /\ Lifecycle' /\ ActiveIsLive' /\ WaitsOnStarted'
    BY <2>1 DEF Placed, Lifecycle, ActiveIsLive, WaitsOnStarted
  <2> QED
    BY <2>4, <2>5
<1>2. CASE EditFiles(t)
  BY <1>2 DEF EditFiles, Placed, Lifecycle, ActiveIsLive, WaitsOnStarted, SessionIsolation, CreatedIn
<1>3. CASE ProcExit(t)
  <2>1. \A u \in Turns \ {t} : turn'[u] = turn[u]
    BY <1>3 DEF ProcExit
  <2>2. /\ turn'[t].pc = turn[t].pc /\ turn'[t].chan = turn[t].chan /\ turn'[t].name = turn[t].name
        /\ turn'[t].session = turn[t].session /\ turn'[t].wait = turn[t].wait
        /\ turn'[t].proc = "exited" /\ turn[t].pc = "running"
    BY <1>3 DEF ProcExit, TurnRecords, Lifecycle
  <2>3. UNCHANGED <<active, cleanup, row>>
    BY <1>3 DEF ProcExit
  <2>4. Placed' /\ Lifecycle'
    BY <2>1, <2>2, <2>3 DEF Placed, Lifecycle, Waiting
  <2>5. ActiveIsLive' /\ WaitsOnStarted'
    BY <2>1, <2>2, <2>3 DEF ActiveIsLive, WaitsOnStarted, Waiting, TurnRecords, CleanupRecords
  <2>6. SessionIsolation'
    BY <2>1, <2>2, <2>3, SessionFrame
  <2> QED
    BY <2>4, <2>5, <2>6
<1> QED
  BY <1>1, <1>2, <1>3 DEF ClaudeStep

\* A step of a teardown that has no turn to signal.
LEMMA CleanupFrame ==
  ASSUME Inv, NEW k \in Cleanups,
         cleanup[k].pc # "idle",
         UNCHANGED <<turn, active>>,
         \A c \in Channels : row'[c].session \in {row[c].session, None},
         \A j \in Cleanups \ {k} : cleanup'[j] = cleanup[j],
         cleanup'[k].chan = cleanup[k].chan,
         cleanup'[k].pc \in {"exitwait", "join"} =>
           cleanup'[k].wait \in Turns /\ turn[cleanup'[k].wait].pc = "running",
         cleanup'[k].pc \in {"status", "remove"} => cleanup'[k].name \in Slugs
  PROVE  Behaviour'
<1> USE NoneAssumption DEF Inv, Behaviour, TypeOK
<1>1. Placed'
  BY DEF Placed
<1>2. Lifecycle' /\ ActiveIsLive'
  BY DEF Lifecycle, ActiveIsLive
<1>3. WaitsOnStarted'
  BY DEF WaitsOnStarted
<1>4. SessionIsolation'
  BY SessionFrame
<1> QED
  BY <1>1, <1>2, <1>3, <1>4

LEMMA CleanupStepInv ==
  ASSUME Inv, NEW k \in Cleanups, CleanupStep(k)
  PROVE  Behaviour'
<1> USE NoneAssumption DEF Inv, Behaviour, TypeOK
<1> DEFINE c == cleanup[k].chan
<1>0. /\ cleanup[k] \in CleanupRecords
      /\ cleanup[k].pc # "idle" => c \in Channels
      /\ cleanup[k].pc \in {"status", "remove"} => cleanup[k].name \in Slugs
  BY DEF Placed
<1>1. CASE Confirm(k)
  BY <1>0, <1>1, TeardownInv DEF Confirm, Kinds
<1>2. CASE Cancel(k)
  BY <1>0, <1>2, CleanupFrame DEF Cancel, KGoto, CleanupRecords
<1>3. CASE KInterrupted(k)
  <2>1. c \in Channels /\ active[c] \in Turns \cup {None}
    BY <1>0, <1>3 DEF KInterrupted
  <2>2. active[c] # None => turn[active[c]].pc = "running"
    BY <2>1 DEF ActiveIsLive
  <2> QED
    BY <1>0, <1>3, <2>1, <2>2, CleanupFrame DEF KInterrupted, CleanupRecords
<1>4. CASE KJoined(k)
  BY <1>0, <1>4, CleanupFrame DEF KJoined, CleanupRecords
<1>5. CASE ReadRecord(k)
  BY <1>0, <1>5, CleanupFrame DEF ReadRecord, CleanupRecords
<1>6. CASE CheckClean(k)
  BY <1>0, <1>6, CleanupFrame DEF CheckClean, CleanupRecords
<1>7. CASE RemoveWorktree(k)
  BY <1>0, <1>7, CleanupFrame DEF RemoveWorktree, KGoto, CleanupRecords
<1>8. CASE DeleteRow(k)
  <2>1. \A d \in Channels : row'[d].session \in {row[d].session, None}
    BY <1>8 DEF DeleteRow, Blank
  <2> QED
    BY <1>0, <1>8, <2>1, CleanupFrame DEF DeleteRow, KGoto, CleanupRecords
<1>9. CASE Unregister(k)
  BY <1>0, <1>9, CleanupFrame DEF Unregister, KGoto, CleanupRecords
<1>10. CASE Reregister(k)
  BY <1>0, <1>10, CleanupFrame DEF Reregister, KGoto, CleanupRecords
<1> QED
  BY <1>1, <1>2, <1>3, <1>4, <1>5, <1>6, <1>7, <1>8, <1>9, <1>10 DEF CleanupStep

-----------------------------------------------------------------------------
LEMMA InitInv == Init => Inv
<1> SUFFICES ASSUME Init PROVE Behaviour
  BY InitTypeOK DEF Inv
<1> QED
  BY DEF Init, Behaviour, Placed, Lifecycle, ActiveIsLive, WaitsOnStarted, SessionIsolation,
     Waiting, Blank

LEMMA NextInv == Inv /\ [Next]_vars => Inv'
<1> SUFFICES ASSUME Inv, [Next]_vars PROVE TypeOK' /\ Behaviour'
  BY DEF Inv
<1>1. CASE UserStep
  BY <1>1, UserType, UserInv DEF Inv
<1>2. ASSUME NEW t \in Turns, TurnStep(t) PROVE TypeOK' /\ Behaviour'
  BY <1>2, TurnStepType, TurnStepInv DEF Inv, Behaviour
<1>3. ASSUME NEW t \in Turns, ClaudeStep(t) PROVE TypeOK' /\ Behaviour'
  BY <1>3, ClaudeStepType, ClaudeStepInv DEF Inv, Behaviour
<1>4. ASSUME NEW k \in Cleanups, CleanupStep(k) PROVE TypeOK' /\ Behaviour'
  BY <1>4, CleanupStepType, CleanupStepInv DEF Inv, Behaviour
<1>5. CASE UNCHANGED vars
  BY <1>5 DEF vars, Inv, TypeOK, Behaviour, Placed, Lifecycle, ActiveIsLive, WaitsOnStarted,
     SessionIsolation, CreatedIn
<1> QED
  BY <1>1, <1>2, <1>3, <1>4, <1>5 DEF Next

\* The inductive invariant of ChannelSession holds of every behaviour.
THEOREM InvHolds == Spec => []Inv
<1> QED
  BY InitInv, NextInv, PTL DEF Spec

\* Every reachable state of the service, the table, the worktrees and the
\* handlers is well-typed: counters stay counters, captured names are names.
THEOREM TypeCorrect == Spec => []TypeOK
BY InvHolds, PTL DEF Inv

\* Nobody is ever left waiting for a task that is not in flight: the entry of
\* _active is a running turn of its channel, however turns overlap.
THEOREM ActiveIsLiveAlways == Spec => []ActiveIsLive
BY InvHolds, PTL DEF Inv, Behaviour

\* Handlers wait only for turns that have themselves stopped waiting, for any
\* number of messages and teardowns: there is no circular wait.
THEOREM NoCircularWait == Spec => []WaitsOnStarted
BY InvHolds, PTL DEF Inv, Behaviour

\* No channel ever stores or resumes a session that another channel created.
THEOREM SessionsStayApart == Spec => []SessionIsolation
BY InvHolds, PTL DEF Inv, Behaviour

LEMMA StepKeepsDirty ==
  ASSUME TypeOK, [Next]_vars, NEW s \in Slugs, worktree[s] = "dirty"
  PROVE  worktree'[s] # "absent"
<1>1. CASE UNCHANGED worktree
  BY <1>1
<1>2. ASSUME NEW t \in Turns, PrepareCwd(t) \/ EditFiles(t) PROVE worktree'[s] # "absent"
  BY <1>2 DEF PrepareCwd, EditFiles, TypeOK
<1>3. ASSUME NEW k \in Cleanups, RemoveWorktree(k) PROVE worktree'[s] # "absent"
  BY <1>3 DEF RemoveWorktree, TypeOK
<1>4. UNCHANGED worktree \/ (\E t \in Turns : PrepareCwd(t) \/ EditFiles(t))
        \/ (\E k \in Cleanups : RemoveWorktree(k))
  BY DEF Next, UserStep, TurnStep, ClaudeStep, CleanupStep, vars, Register, DropCategory, Arrive,
     BeginDelete, BeginReset, BeginUpdate, Teardown, CheckActive, Interrupt, Interrupted,
     Joined, EnsureRow, CountTurn, Launch, Start, Spawn, SpawnFails, TurnEnd, PostTurn, Report,
     ProcExit, Confirm, Cancel, KInterrupted, KJoined, ReadRecord, CheckClean, DeleteRow,
     Unregister, Reregister
<1> QED
  BY <1>1, <1>2, <1>3, <1>4

\* No step of the bot or of Claude removes a worktree with uncommitted changes.
THEOREM DirtyNeverRemoved == Spec => DirtyPreserved
<1>1. TypeOK /\ [Next]_vars => [\A s \in Slugs : worktree[s] = "dirty" => worktree'[s] # "absent"]_vars
  BY StepKeepsDirty
<1> QED
  BY <1>1, TypeCorrect, PTL DEF Spec, DirtyPreserved
=============================================================================
