--------------------- MODULE ChannelSessionSerialProofs -----------------------
(***************************************************************************)
(* In the quieter world of ChannelSessionSerial, Channel-as-Session mode   *)
(* implements Conversation, for any number of channels, turns and          *)
(* cleanups.                                                               *)
(***************************************************************************)
EXTENDS ChannelSessionSerial, ChannelSessionProofs, FiniteSetTheorems

BusyTurn(t) == turn[t].pc \in {"prompt"} \cup Waiting \cup SettingUp
BusyCleanup(k) == cleanup[k].pc \notin {"idle", "confirm", "done", "cancelled"}

\* What the quiet world gives: a channel has one handler under way at a time.
OneHandler ==
  /\ \A t, u \in Turns : BusyTurn(t) /\ BusyTurn(u) /\ turn[t].chan = turn[u].chan => t = u
  /\ \A k, j \in Cleanups :
       BusyCleanup(k) /\ BusyCleanup(j) /\ cleanup[k].chan = cleanup[j].chan => k = j
  /\ \A t \in Turns, k \in Cleanups :
       BusyTurn(t) /\ BusyCleanup(k) => turn[t].chan # cleanup[k].chan

\* Hence _active says which turn runs, and a handler that is past its waiting
\* has its channel to itself.
Tracked ==
  /\ \A t \in Turns : turn[t].pc = "running" => active[turn[t].chan] = t
  /\ \A t \in Turns : turn[t].pc \in SettingUp => active[turn[t].chan] = None
  /\ \A t \in Turns : turn[t].pc \in Waiting => active[turn[t].chan] \in {None, turn[t].wait}
  /\ \A k \in Cleanups : cleanup[k].pc \in {"exitwait", "join"} =>
       active[cleanup[k].chan] \in {None, cleanup[k].wait}
  /\ \A k \in Cleanups : BusyCleanup(k) /\ cleanup[k].pc \notin {"exitwait", "join"} =>
       active[cleanup[k].chan] = None

\* A turn that has read its row goes on with the session that is in it.
Carried(t) ==
  LET r == row[turn[t].chan] IN
  /\ turn[t].pc \in {"count", "launch", "start", "running"} =>
       r.name # None /\ turn[t].born = epoch[turn[t].chan]
  /\ turn[t].pc \in {"count", "launch", "start"} => turn[t].session = r.session
  /\ turn[t].pc = "running" =>
       IF turn[t].session = None THEN r.session \in {None, t} ELSE r.session = turn[t].session

Carries ==
  /\ \A t \in Turns : Carried(t)
  /\ \A c \in Channels : row[c].session # None => HasRow(c)

SerialInv == Inv /\ OneHandler /\ Tracked /\ Carries /\ ResetForgets

\* The quiet world is one of the behaviours of ChannelSession.
LEMMA SerialStep == [SerialNext]_vars => [Next]_vars
BY DEF SerialNext, SerialUserStep, SerialCleanupStep, Next, UserStep, TurnStep, CleanupStep

LEMMA SerialInit == Init => SerialInv
<1> SUFFICES ASSUME Init PROVE OneHandler /\ Tracked /\ Carries /\ ResetForgets
  BY InitInv DEF SerialInv
<1> QED
  BY DEF Init, OneHandler, Tracked, Carries, Carried, ResetForgets, BusyTurn, BusyCleanup, Waiting,
     SettingUp, Blank

\* What the serial invariants look at.
SameTurn(t) ==
  /\ turn'[t].pc = turn[t].pc /\ turn'[t].chan = turn[t].chan /\ turn'[t].wait = turn[t].wait
  /\ turn'[t].session = turn[t].session /\ turn'[t].born = turn[t].born

SameCleanup(k) ==
  /\ cleanup'[k].pc = cleanup[k].pc /\ cleanup'[k].chan = cleanup[k].chan
  /\ cleanup'[k].wait = cleanup[k].wait

SerialParts == OneHandler /\ Tracked /\ Carries /\ ResetForgets

\* A step that starts no handler.
LEMMA KeepsOneHandler ==
  ASSUME OneHandler,
         \A u \in Turns : turn'[u].chan = turn[u].chan /\ (BusyTurn(u)' => BusyTurn(u)),
         \A k \in Cleanups : cleanup'[k].chan = cleanup[k].chan /\ (BusyCleanup(k)' => BusyCleanup(k))
  PROVE  OneHandler'
BY DEF OneHandler

\* A step that leaves every turn's session, and every row's, as it was.
LEMMA KeepsSessions ==
  ASSUME Inv, Carries, ResetForgets, UNCHANGED epoch,
         \A c \in Channels : row'[c].session = row[c].session /\ (HasRow(c) => HasRow(c)'),
         \A u \in Turns : /\ turn'[u].chan = turn[u].chan /\ turn'[u].born = turn[u].born
                          /\ turn'[u].session = turn[u].session
                          /\ Carried(u)'
  PROVE  Carries' /\ ResetForgets'
<1>1. \A c \in Channels : row[c].session \in Turns \cup {None}
  BY DEF Inv, TypeOK, Rows
<1> QED
  BY <1>1 DEF Carries, ResetForgets, HasRow

LEMMA SerialTeardown ==
  ASSUME SerialInv, NEW k \in Cleanups, NEW c \in Channels, NEW kd \in Kinds,
         NEW n \in Names \cup {None}, Quiet(c), Teardown(k, c, kd, n)
  PROVE  SerialParts'
<1> USE DEF SerialInv
<1>1. \A t \in Turns : SameTurn(t)
  BY DEF Teardown, SameTurn, Inv, TypeOK
<1>2. /\ \A j \in Cleanups \ {k} : cleanup'[j] = cleanup[j]
      /\ cleanup'[k].chan = c /\ cleanup'[k].wait = active[c]
      /\ cleanup'[k].pc \in {"record", "exitwait", "join"}
      /\ cleanup'[k].pc = "record" => active[c] = None
      /\ UNCHANGED <<active, row, epoch>>
  BY DEF Teardown, Inv, TypeOK
<1>3. OneHandler'
  <2>1. \A t \in Turns : BusyTurn(t)' => BusyTurn(t) /\ turn[t].chan # c
    BY <1>1 DEF SameTurn, BusyTurn, Quiet, Waiting, SettingUp
  <2>2. \A j \in Cleanups \ {k} : BusyCleanup(j)' => BusyCleanup(j) /\ cleanup[j].chan # c
    BY <1>2 DEF BusyCleanup, Quiet
  <2> QED
    BY <1>1, <1>2, <2>1, <2>2 DEF OneHandler, SameTurn
<1>4. Tracked'
  BY <1>1, <1>2 DEF Tracked, BusyCleanup, SameTurn
<1>5. Carries' /\ ResetForgets'
  <2>1. \A t \in Turns : Carried(t)'
    BY <1>1, <1>2 DEF SameTurn, Carries, Carried
  <2> QED
    BY <1>1, <1>2, <2>1, KeepsSessions DEF SameTurn, HasRow
<1> QED
  BY <1>3, <1>4, <1>5 DEF SerialParts

LEMMA SerialUser ==
  ASSUME SerialInv, SerialUserStep
  PROVE  SerialParts'
<1> USE DEF SerialInv
<1>1. ASSUME NEW c \in Channels, DropCategory(c) \/ \E n \in Names : Register(c, n)
      PROVE  SerialParts'
  <2>1. UNCHANGED <<turn, cleanup, active, row, epoch>>
    BY <1>1 DEF DropCategory, Register
  <2> QED
    BY <2>1 DEF SerialParts, OneHandler, Tracked, Carries, Carried, ResetForgets, BusyTurn,
      BusyCleanup, HasRow
<1>2. ASSUME NEW c \in Channels, Quiet(c), NEW t \in Turns, Arrive(t, c)
      PROVE  SerialParts'
  <2>1. /\ \A u \in Turns \ {t} : turn'[u] = turn[u]
        /\ turn'[t].pc = "prompt" /\ turn'[t].chan = c /\ turn'[t].born = turn[t].born
        /\ turn'[t].session = turn[t].session /\ turn'[t].proc = turn[t].proc
        /\ turn[t].pc = "idle"
        /\ UNCHANGED <<active, row, epoch, cleanup>>
    <3>1. turn[t] \in TurnRecords
      BY DEF Inv, TypeOK
    <3> QED
      BY <1>2, <3>1 DEF Arrive, TurnRecords, Inv, TypeOK
  <2>2. OneHandler'
    <3>1. \A u \in Turns \ {t} : BusyTurn(u)' => BusyTurn(u) /\ turn[u].chan # c
      BY <1>2, <2>1 DEF BusyTurn, Quiet, Waiting, SettingUp
    <3>2. \A k \in Cleanups : BusyCleanup(k)' => BusyCleanup(k) /\ cleanup[k].chan # c
      BY <1>2, <2>1 DEF BusyCleanup, Quiet
    <3> QED
      BY <2>1, <3>1, <3>2 DEF OneHandler
  <2>3. Tracked'
    BY <2>1 DEF Tracked, BusyCleanup, Waiting, SettingUp
  <2>4. Carries'
    BY <2>1 DEF Carries, Carried, HasRow
  <2>5. ResetForgets'
    <3>1. \A d \in Channels : row[d].session \in Turns \cup {None}
      BY DEF Inv, TypeOK, Rows
    <3> QED
      BY <2>1, <3>1 DEF ResetForgets
  <2> QED
    BY <2>2, <2>3, <2>4, <2>5 DEF SerialParts
<1>3. ASSUME NEW c \in Channels, NEW k \in Cleanups, BeginReset(k, c)
      PROVE  SerialParts'
  <2>1. /\ \A j \in Cleanups \ {k} : cleanup'[j] = cleanup[j]
        /\ cleanup'[k].pc = "confirm"
        /\ UNCHANGED <<active, row, epoch, turn>>
    BY <1>3 DEF BeginReset, Inv, TypeOK, CleanupRecords
  <2>2. \A j \in Cleanups : BusyCleanup(j)' => BusyCleanup(j) /\ j # k
    BY <2>1 DEF BusyCleanup
  <2>3. OneHandler'
    BY <2>1, <2>2 DEF OneHandler, BusyTurn
  <2>4. Tracked'
    BY <2>1, <2>2 DEF Tracked
  <2> QED
    BY <2>1, <2>3, <2>4 DEF SerialParts, Carries, Carried, ResetForgets, HasRow
<1>4. ASSUME NEW c \in Channels, Quiet(c), NEW k \in Cleanups,
             \/ BeginDelete(k, c)
             \/ cleanup[k].chan = c /\ Confirm(k)
             \/ \E n \in Names \cup {None} : BeginUpdate(k, c, n)
      PROVE  SerialParts'
  BY <1>4, SerialTeardown DEF BeginDelete, BeginUpdate, Confirm, Kinds
<1> QED
  BY <1>1, <1>2, <1>3, <1>4 DEF SerialUserStep

\* A step of turn t that keeps its channel, the cleanups, the map and the table.
LEMMA TurnMoves ==
  ASSUME SerialInv, NEW t \in Turns,
         \A u \in Turns \ {t} : SameTurn(u),
         turn'[t].chan = turn[t].chan, turn'[t].born = turn[t].born,
         turn'[t].session = turn[t].session,
         UNCHANGED <<cleanup, active, epoch>>,
         \A c \in Channels : row'[c].session = row[c].session /\ row'[c].name = row[c].name,
         turn[t].chan \in Channels,
         BusyTurn(t)' => BusyTurn(t),
         turn'[t].pc = "running" => turn[t].pc = "running",
         turn'[t].pc \in SettingUp => active[turn[t].chan] = None,
         turn'[t].pc \in Waiting => active[turn[t].chan] \in {None, turn'[t].wait},
         turn'[t].pc \in {"count", "launch", "start"} => turn[t].pc \in {"count", "launch", "start"}
  PROVE  SerialParts'
<1> USE DEF SerialInv
<1>1. OneHandler'
  <2>1. \A u \in Turns : turn'[u].chan = turn[u].chan /\ (BusyTurn(u)' => BusyTurn(u))
    BY DEF SameTurn, BusyTurn
  <2>2. \A k \in Cleanups : cleanup'[k].chan = cleanup[k].chan /\ (BusyCleanup(k)' => BusyCleanup(k))
    BY DEF BusyCleanup
  <2> QED
    BY <2>1, <2>2, KeepsOneHandler
<1>2. Tracked'
  BY DEF Tracked, SameTurn, BusyCleanup
<1>3. Carries' /\ ResetForgets'
  <2>1. \A u \in Turns \ {t} : Carried(u)'
    <3> SUFFICES ASSUME NEW u \in Turns \ {t} PROVE Carried(u)'
      OBVIOUS
    <3>1. turn[u].chan \in Channels \/ turn[u].pc = "idle"
      BY DEF Inv, Behaviour, Placed
    <3> QED
      BY <3>1 DEF SameTurn, Carries, Carried
  <2>2. Carried(t)'
    BY DEF Carries, Carried
  <2> QED
    BY <2>1, <2>2, KeepsSessions DEF SameTurn, HasRow
<1> QED
  BY <1>1, <1>2, <1>3 DEF SerialParts

\* A row that was read is the row of a turn that has its channel to itself.
LEMMA Alone ==
  ASSUME SerialInv, NEW t \in Turns, turn[t].pc \in SettingUp \cup {"running"},
         NEW u \in Turns \ {t}, turn[u].chan = turn[t].chan
  PROVE  turn[u].pc \notin SettingUp \cup {"running"}
<1>1. turn[t] \in TurnRecords /\ turn[u] \in TurnRecords /\ t # None /\ u # None
  BY NoneAssumption DEF SerialInv, Inv, TypeOK
<1> QED
  BY <1>1 DEF SerialInv, OneHandler, Tracked, BusyTurn, SettingUp

LEMMA SerialTurn ==
  ASSUME SerialInv, NEW t \in Turns, TurnStep(t)
  PROVE  SerialParts'
<1> USE DEF SerialInv
<1> DEFINE c == turn[t].chan
<1>0. /\ turn[t] \in TurnRecords /\ turn \in [Turns -> TurnRecords]
      /\ turn[t].pc # "idle" /\ c \in Channels
      /\ active \in [Channels -> Turns \cup {None}]
      /\ row \in [Channels -> Rows]
      /\ None \notin Turns
  <2>1. turn[t].pc # "idle"
    BY DEF TurnStep, CheckActive, Interrupt, Interrupted, Joined, PrepareCwd, EnsureRow, CountTurn,
      Launch, Start, Spawn, SpawnFails, TurnEnd, PostTurn
  <2> QED
    BY <2>1, NoneAssumption DEF Inv, TypeOK, Behaviour, Placed
<1>a. ASSUME NEW p, Goto(t, p) \/ Leave(t, p)
      PROVE  /\ \A u \in Turns \ {t} : SameTurn(u)
             /\ turn'[t].pc = p /\ turn'[t].chan = c /\ turn'[t].born = turn[t].born
             /\ turn'[t].session = turn[t].session
  <2>1. CASE Goto(t, p)
    BY <1>0, <2>1 DEF Goto, SameTurn, TurnRecords
  <2>2. CASE Leave(t, p)
    <3> DEFINE r == [turn[t] EXCEPT !.pc = p, !.name = None, !.out = "ok"]
    <3>1. r.pc = p /\ r.chan = c /\ r.born = turn[t].born /\ r.session = turn[t].session
      BY <1>0 DEF TurnRecords
    <3>2. turn' = [turn EXCEPT ![t] = r]
      BY <2>2 DEF Leave
    <3> QED
      BY <1>0, <3>1, <3>2 DEF SameTurn
  <2> QED
    BY <1>a, <2>1, <2>2
<1>b. ASSUME TurnAwaits(t)
      PROVE  /\ \A u \in Turns \ {t} : SameTurn(u)
             /\ turn'[t].pc \in {"prepare", "join"} /\ turn'[t].chan = c
             /\ turn'[t].born = turn[t].born /\ turn'[t].session = turn[t].session
             /\ turn'[t].wait = active[c] /\ (turn'[t].pc = "prepare" => active[c] = None)
  BY <1>0, <1>b DEF TurnAwaits, SameTurn, TurnRecords
<1>1. CASE CheckActive(t)
  <2>1. CASE Leave(t, "aborted")
    BY <1>0, <1>1, <2>1, <1>a, TurnMoves DEF CheckActive, BusyTurn, Waiting, SettingUp
  <2>2. CASE ~Leave(t, "aborted")
    <3>1. /\ \A u \in Turns \ {t} : SameTurn(u)
          /\ turn'[t].pc \in {"prepare", "react"} /\ turn'[t].chan = c
          /\ turn'[t].born = turn[t].born /\ turn'[t].session = turn[t].session
          /\ turn'[t].wait = active[c] /\ (turn'[t].pc = "prepare" => active[c] = None)
      <4> DEFINE p == IF active[c] = None THEN "prepare" ELSE "react"
                 r == [turn[t] EXCEPT !.pc = p, !.wait = active[c]]
      <4>1. turn' = [turn EXCEPT ![t] = r]
        BY <1>1, <2>2 DEF CheckActive
      <4>2. r.pc = p /\ r.chan = c /\ r.born = turn[t].born /\ r.session = turn[t].session
            /\ r.wait = active[c]
        BY <1>0 DEF TurnRecords
      <4>3. p \in {"prepare", "react"} /\ (p = "prepare" => active[c] = None)
        OBVIOUS
      <4> HIDE DEF p, r
      <4> QED
        BY <1>0, <4>1, <4>2, <4>3 DEF SameTurn
    <3> QED
      BY <1>0, <1>1, <3>1, TurnMoves DEF CheckActive, BusyTurn, Waiting, SettingUp
  <2> QED
    BY <2>1, <2>2
<1>2. CASE Interrupt(t)
  <2>1. CASE Reaches(turn[t].wait)
    <3>0. turn[t].wait \in Turns /\ turn[turn[t].wait].pc # "react"
      BY <1>0, <1>2 DEF Inv, Behaviour, Placed, WaitsOnStarted, Interrupt, Waiting
    <3>1. /\ \A u \in Turns \ {t} : SameTurn(u)
          /\ turn'[t].pc = "exitwait" /\ turn'[t].chan = c
          /\ turn'[t].born = turn[t].born /\ turn'[t].session = turn[t].session
          /\ turn'[t].wait = turn[t].wait
      BY <1>0, <1>2, <2>1, <3>0 DEF Interrupt, SameTurn, TurnRecords
    <3>2. active[c] \in {None, turn[t].wait}
      BY <1>2 DEF Tracked, Interrupt, Waiting
    <3> QED
      BY <1>0, <1>2, <3>1, <3>2, TurnMoves DEF Interrupt, BusyTurn, Waiting, SettingUp
  <2>2. CASE ~Reaches(turn[t].wait)
    BY <1>0, <1>2, <2>2, <1>b, TurnMoves DEF Interrupt, BusyTurn, Waiting, SettingUp
  <2> QED
    BY <2>1, <2>2
<1>3. CASE Interrupted(t)
  BY <1>0, <1>3, <1>b, TurnMoves DEF Interrupted, BusyTurn, Waiting, SettingUp
<1>4. CASE Joined(t)
  <2>1. /\ \A u \in Turns \ {t} : SameTurn(u)
        /\ turn'[t].pc = "prepare" /\ turn'[t].chan = c
        /\ turn'[t].born = turn[t].born /\ turn'[t].session = turn[t].session
    BY <1>0, <1>4 DEF Joined, SameTurn, TurnRecords
  <2>2. active[c] = None
    BY <1>0, <1>4 DEF Joined, Tracked, Waiting, Inv, Behaviour, ActiveIsLive
  <2> QED
    BY <1>0, <1>4, <2>1, <2>2, TurnMoves DEF Joined, BusyTurn, Waiting, SettingUp
<1>5. CASE PrepareCwd(t)
  <2>1. active[c] = None
    BY <1>5 DEF PrepareCwd, Tracked, SettingUp
  <2>2. Goto(t, "ensure") \/ Leave(t, "aborted")
    BY <1>5 DEF PrepareCwd
  <2> QED
    BY <1>0, <1>5, <2>1, <2>2, <1>a, TurnMoves DEF PrepareCwd, BusyTurn, Waiting, SettingUp
<1>6. CASE EnsureRow(t)
  <2>1. /\ \A u \in Turns \ {t} : SameTurn(u)
        /\ turn'[t].pc = "count" /\ turn'[t].chan = c /\ turn'[t].born = epoch[c]
        /\ turn'[t].session = row[c].session /\ turn'[t].wait = turn[t].wait
        /\ UNCHANGED <<active, cleanup, epoch>>
    BY <1>0, <1>6 DEF EnsureRow, SameTurn, TurnRecords
  <2>2. /\ \A d \in Channels : row'[d].session = row[d].session
        /\ \A d \in Channels \ {c} : row'[d] = row[d]
        /\ row'[c].name = turn[t].name /\ turn[t].name # None
    <3>1. turn[t].name \in Names /\ None \notin Names
      BY <1>6, NoneAssumption DEF EnsureRow, Inv, Behaviour, Placed, Names
    <3> QED
      BY <1>0, <1>6, <3>1 DEF EnsureRow, Rows
  <2>3. turn[t].pc = "ensure" /\ active[c] = None
    BY <1>6 DEF EnsureRow, Tracked, SettingUp
  <2>4. OneHandler'
    <3>1. \A u \in Turns : turn'[u].chan = turn[u].chan /\ (BusyTurn(u)' => BusyTurn(u))
      BY <2>1, <2>3 DEF SameTurn, BusyTurn, SettingUp
    <3> QED
      BY <2>1, <3>1, KeepsOneHandler DEF BusyCleanup
  <2>5. Tracked'
    BY <2>1, <2>3 DEF Tracked, SameTurn, BusyCleanup, SettingUp, Waiting
  <2>6. Carries'
    <3>1. \A u \in Turns : Carried(u)'
      <4>1. ASSUME NEW u \in Turns \ {t} PROVE Carried(u)'
        <5>1. turn[u].chan \in Channels \/ turn[u].pc = "idle"
          BY DEF Inv, Behaviour, Placed
        <5> QED
          BY <2>1, <2>2, <5>1 DEF SameTurn, Carries, Carried
      <4>2. Carried(t)'
        BY <1>0, <2>1, <2>2 DEF Carried
      <4> QED
        BY <4>1, <4>2
    <3> QED
      BY <2>2, <3>1 DEF Carries, HasRow
  <2>7. ResetForgets'
    <3>1. ASSUME NEW d \in Channels, row[d].session # None
          PROVE  turn'[row[d].session].born = epoch[d]
      <4>1. row[d].session \in Turns /\ turn[row[d].session].born = epoch[d]
            /\ turn[row[d].session].chan = d /\ turn[row[d].session].proc # "none"
        BY <3>1, <1>0 DEF ResetForgets, Rows, Inv, Behaviour, SessionIsolation, CreatedIn
      <4>2. row[d].session # t
        BY <4>1, <2>3 DEF Inv, Behaviour, Lifecycle
      <4> QED
        BY <2>1, <4>1, <4>2 DEF SameTurn
    <3> QED
      BY <2>1, <2>2, <3>1 DEF ResetForgets
  <2> QED
    BY <2>4, <2>5, <2>6, <2>7 DEF SerialParts
<1>7. CASE CountTurn(t)
  <2>1. \A d \in Channels : row'[d].session = row[d].session /\ row'[d].name = row[d].name
    BY <1>0, <1>7 DEF CountTurn, Rows
  <2>2. active[c] = None
    BY <1>7 DEF CountTurn, Tracked, SettingUp
  <2> QED
    BY <1>0, <1>7, <2>1, <2>2, <1>a, TurnMoves DEF CountTurn, BusyTurn, Waiting, SettingUp
<1>8. CASE Launch(t)
  <2>1. active[c] = None
    BY <1>8 DEF Launch, Tracked, SettingUp
  <2>2. Goto(t, "start") \/ Leave(t, "cachemiss")
    BY <1>8 DEF Launch
  <2> QED
    BY <1>0, <1>8, <2>1, <2>2, <1>a, TurnMoves DEF Launch, BusyTurn, Waiting, SettingUp
<1>9. CASE Start(t)
  <2>1. /\ \A u \in Turns \ {t} : SameTurn(u)
        /\ turn'[t].pc = "running" /\ turn'[t].chan = c /\ turn'[t].born = turn[t].born
        /\ turn'[t].session = turn[t].session
        /\ UNCHANGED <<cleanup, row, epoch>> /\ turn[t].pc = "start"
        /\ active'[c] = t /\ \A d \in Channels \ {c} : active'[d] = active[d]
    BY <1>0, <1>9, <1>a DEF Start
  <2>2. \A u \in Turns \ {t} : turn[u].chan = c => ~BusyTurn(u) /\ turn[u].pc # "running"
    BY <2>1, <1>0, Alone DEF OneHandler, BusyTurn, SettingUp
  <2>3. \A k \in Cleanups : cleanup[k].chan = c => ~BusyCleanup(k)
    BY <2>1 DEF OneHandler, BusyTurn, SettingUp
  <2>4. OneHandler'
    <3>1. \A u \in Turns : turn'[u].chan = turn[u].chan /\ (BusyTurn(u)' => BusyTurn(u))
      BY <2>1 DEF SameTurn, BusyTurn, SettingUp, Waiting
    <3> QED
      BY <2>1, <3>1, KeepsOneHandler DEF BusyCleanup
  <2>5. Tracked'
    <3>1. ASSUME NEW u \in Turns \ {t}, BusyTurn(u) \/ turn[u].pc = "running"
          PROVE  turn[u].chan \in Channels \ {c}
      BY <2>2, <3>1 DEF Inv, Behaviour, Placed, BusyTurn, SettingUp, Waiting
    <3>2. ASSUME NEW k \in Cleanups, BusyCleanup(k)
          PROVE  cleanup[k].chan \in Channels \ {c}
      BY <2>3, <3>2 DEF Inv, Behaviour, Placed, BusyCleanup
    <3> QED
      BY <2>1, <3>1, <3>2 DEF Tracked, SameTurn, BusyTurn, BusyCleanup, SettingUp, Waiting
  <2>6. \A u \in Turns : Carried(u)'
    BY <2>1 DEF SameTurn, Carries, Carried
  <2> QED
    BY <2>1, <2>4, <2>5, <2>6, KeepsSessions DEF SerialParts, SameTurn, HasRow
<1>10. CASE Spawn(t) \/ SpawnFails(t)
  <2>1. \A u \in Turns : SameTurn(u)
    <3>1. CASE Spawn(t)
      BY <1>0, <3>1 DEF Spawn, SameTurn, TurnRecords
    <3>2. CASE SpawnFails(t)
      <4> DEFINE r == [turn[t] EXCEPT !.proc = "exited", !.out = "failed"]
      <4>1. r.pc = turn[t].pc /\ r.chan = c /\ r.wait = turn[t].wait /\ r.born = turn[t].born
            /\ r.session = turn[t].session
        BY <1>0 DEF TurnRecords
      <4>2. turn' = [turn EXCEPT ![t] = r]
        BY <3>2 DEF SpawnFails
      <4> QED
        BY <1>0, <4>1, <4>2 DEF SameTurn
    <3> QED
      BY <1>10, <3>1, <3>2
  <2>2. UNCHANGED <<cleanup, row, active, epoch>> /\ turn[t].pc = "running"
    BY <1>10 DEF Spawn, SpawnFails
  <2> QED
    BY <1>0, <2>1, <2>2, TurnMoves DEF SameTurn, BusyTurn, Waiting, SettingUp
<1>11. CASE TurnEnd(t)
  <2>1. /\ \A u \in Turns \ {t} : SameTurn(u)
        /\ turn'[t].pc = "post" /\ turn'[t].chan = c /\ turn'[t].born = turn[t].born
        /\ turn'[t].session = turn[t].session
        /\ UNCHANGED <<cleanup, row, epoch>> /\ turn[t].pc = "running"
        /\ active'[c] = None /\ \A d \in Channels \ {c} : active'[d] = active[d]
    BY <1>0, <1>11 DEF TurnEnd, SameTurn, TurnRecords
  <2>2. \A u \in Turns \ {t} : turn[u].chan = c => turn[u].pc # "running"
    BY <2>1, Alone
  <2>4. OneHandler'
    <3>1. \A u \in Turns : turn'[u].chan = turn[u].chan /\ (BusyTurn(u)' => BusyTurn(u))
      BY <2>1 DEF SameTurn, BusyTurn, SettingUp, Waiting
    <3> QED
      BY <2>1, <3>1, KeepsOneHandler DEF BusyCleanup
  <2>5. Tracked'
    <3>1. ASSUME NEW u \in Turns \ {t}, turn[u].pc # "idle" PROVE turn[u].chan \in Channels
      BY <3>1 DEF Inv, Behaviour, Placed
    <3>2. ASSUME NEW k \in Cleanups, cleanup[k].pc # "idle" PROVE cleanup[k].chan \in Channels
      BY <3>2 DEF Inv, Behaviour, Placed
    <3> QED
      BY <2>1, <2>2, <3>1, <3>2 DEF Tracked, SameTurn, BusyCleanup, SettingUp, Waiting
  <2>6. \A u \in Turns : Carried(u)'
    BY <2>1 DEF SameTurn, Carries, Carried
  <2> QED
    BY <2>1, <2>4, <2>5, <2>6, KeepsSessions DEF SerialParts, SameTurn, HasRow
<1>12. CASE PostTurn(t)
  <2>1. \A d \in Channels : row'[d].session = row[d].session /\ row'[d].name = row[d].name
    BY <1>0, <1>12 DEF PostTurn, Rows
  <2> QED
    BY <1>0, <1>12, <2>1, <1>a, TurnMoves DEF PostTurn, BusyTurn, Waiting, SettingUp
<1> QED
  BY <1>1, <1>2, <1>3, <1>4, <1>5, <1>6, <1>7, <1>8, <1>9, <1>10, <1>11, <1>12 DEF TurnStep

\* What a report does under these invariants: the first turn of a session names
\* it, every other turn finds its own session in the row.
LEMMA ReportSession ==
  ASSUME SerialInv, NEW t \in Turns, Report(t)
  PROVE  /\ turn[t].chan \in Channels /\ row[turn[t].chan].name # None
         /\ \A d \in Channels : row'[d].name = row[d].name
         /\ \A d \in Channels \ {turn[t].chan} : row'[d] = row[d]
         /\ row'[turn[t].chan].session =
              IF row[turn[t].chan].session = None THEN t ELSE row[turn[t].chan].session
         /\ turn[t].session = None => row'[turn[t].chan].session = t
         /\ turn[t].session # None => row'[turn[t].chan].session = turn[t].session
<1> USE DEF SerialInv
<1> DEFINE c == turn[t].chan
<1>0. turn[t].pc = "running" /\ c \in Channels /\ row \in [Channels -> Rows] /\ t # None
  BY NoneAssumption DEF Report, Inv, TypeOK, Behaviour, Placed
<1>1. Carried(t)
  BY DEF Carries
<1>2. row[c].name # None
  BY <1>0, <1>1 DEF Carried
<1>3. CASE turn[t].session = None
  <2>1. row' = [row EXCEPT ![c].session = t]
    BY <1>2, <1>3 DEF Report, HasRow
  <2>2. row[c].session \in {None, t}
    BY <1>0, <1>1, <1>3 DEF Carried
  <2> QED
    BY <1>0, <1>2, <1>3, <2>1, <2>2 DEF Rows
<1>4. CASE turn[t].session # None
  <2>1. row' = [row EXCEPT ![c].session = turn[t].session]
    BY <1>2, <1>4 DEF Report, HasRow
  <2>2. row[c].session = turn[t].session
    BY <1>0, <1>1, <1>4 DEF Carried
  <2> QED
    BY <1>0, <1>2, <1>4, <2>1, <2>2 DEF Rows
<1> QED
  BY <1>3, <1>4

LEMMA SerialClaude ==
  ASSUME SerialInv, NEW t \in Turns, ClaudeStep(t)
  PROVE  SerialParts'
<1> USE DEF SerialInv
<1> DEFINE c == turn[t].chan
<1>0. turn[t] \in TurnRecords /\ turn \in [Turns -> TurnRecords] /\ row \in [Channels -> Rows]
  BY DEF Inv, TypeOK
<1>1. CASE Report(t)
  <2>1. turn[t].pc = "running" /\ turn[t].proc # "none" /\ UNCHANGED <<turn, cleanup, active, epoch>>
    BY <1>1 DEF Report
  <2>2. OneHandler' /\ Tracked'
    BY <2>1 DEF OneHandler, Tracked, BusyTurn, BusyCleanup
  <2>3. ASSUME NEW u \in Turns PROVE Carried(u)'
    <3>1. CASE u = t
      BY <1>1, <2>1, <3>1, ReportSession DEF Carries, Carried
    <3>2. CASE u # t /\ turn[u].chan = c
      <4>1. turn[u].pc \notin SettingUp \cup {"running"}
        BY <2>1, <3>2, Alone
      <4> QED
        BY <2>1, <4>1 DEF Carried, SettingUp
    <3>3. CASE turn[u].chan # c
      <4>1. turn[u].chan \in Channels \/ turn[u].pc = "idle"
        BY DEF Inv, Behaviour, Placed
      <4> QED
        BY <1>1, <2>1, <3>3, <4>1, ReportSession DEF Carries, Carried
    <3> QED
      BY <3>1, <3>2, <3>3
  <2>4. \A d \in Channels : row'[d].session # None => row'[d].name # None
    BY <1>1, ReportSession DEF Carries, HasRow
  <2>5. ResetForgets'
    <3>1. turn[t].session = None => turn[t].born = epoch[c]
      BY <2>1 DEF Carries, Carried
    <3>2. row'[c].session = t \/ row'[c].session = row[c].session
      BY <1>1, ReportSession
    <3>3. row'[c].session = t => turn[t].born = epoch[c]
      BY <2>1 DEF Carries, Carried
    <3> QED
      BY <1>1, <2>1, <3>2, <3>3, ReportSession DEF ResetForgets
  <2> QED
    BY <2>2, <2>3, <2>4, <2>5 DEF SerialParts, Carries, HasRow
<1>2. CASE EditFiles(t)
  BY <1>2 DEF EditFiles, SerialParts, OneHandler, Tracked, Carries, Carried, ResetForgets, BusyTurn,
    BusyCleanup, HasRow
<1>3. CASE ProcExit(t)
  <2>0. PICK o \in {"ok", "failed"} : turn' = [turn EXCEPT ![t] = [@ EXCEPT !.proc = "exited", !.out = o]]
    BY <1>3 DEF ProcExit
  <2> DEFINE r == [turn[t] EXCEPT !.proc = "exited", !.out = o]
  <2>1. r.pc = turn[t].pc /\ r.chan = c /\ r.wait = turn[t].wait /\ r.born = turn[t].born
        /\ r.session = turn[t].session
    BY <1>0 DEF TurnRecords
  <2>2. \A u \in Turns : SameTurn(u)
    BY <1>0, <2>0, <2>1 DEF SameTurn
  <2>3. turn[t].pc = "running" /\ c \in Channels /\ UNCHANGED <<cleanup, row, active, epoch>>
    BY <1>3 DEF ProcExit, Inv, Behaviour, Lifecycle, Placed
  <2> QED
    BY <1>0, <2>2, <2>3, TurnMoves DEF SameTurn, BusyTurn, Waiting, SettingUp
<1> QED
  BY <1>1, <1>2, <1>3 DEF ClaudeStep

\* A step of cleanup k that keeps the turns, the map and the table.
LEMMA CleanupMoves ==
  ASSUME SerialInv, NEW k \in Cleanups,
         \A j \in Cleanups \ {k} : SameCleanup(j),
         cleanup'[k].chan = cleanup[k].chan, cleanup[k].chan \in Channels,
         UNCHANGED <<turn, active, row, epoch>>,
         BusyCleanup(k)' => BusyCleanup(k),
         cleanup'[k].pc \in {"exitwait", "join"} =>
           active[cleanup[k].chan] \in {None, cleanup'[k].wait},
         BusyCleanup(k)' /\ cleanup'[k].pc \notin {"exitwait", "join"} =>
           active[cleanup[k].chan] = None
  PROVE  SerialParts'
<1> USE DEF SerialInv
<1>1. OneHandler'
  <2>1. \A j \in Cleanups : cleanup'[j].chan = cleanup[j].chan /\ (BusyCleanup(j)' => BusyCleanup(j))
    BY DEF SameCleanup, BusyCleanup
  <2> QED
    BY <2>1, KeepsOneHandler DEF BusyTurn
<1>2. Tracked'
  BY DEF Tracked, SameCleanup, BusyCleanup
<1> QED
  BY <1>1, <1>2 DEF SerialParts, Carries, Carried, ResetForgets, HasRow

LEMMA SerialCleanup ==
  ASSUME SerialInv, NEW k \in Cleanups, SerialCleanupStep(k)
  PROVE  SerialParts'
<1> USE DEF SerialInv
<1> DEFINE c == cleanup[k].chan
<1>0. /\ cleanup[k] \in CleanupRecords /\ cleanup \in [Cleanups -> CleanupRecords]
      /\ cleanup[k].pc # "idle" /\ c \in Channels
      /\ row \in [Channels -> Rows] /\ epoch \in [Channels -> Nat]
  <2>1. cleanup[k].pc # "idle"
    BY DEF SerialCleanupStep, Cancel, KInterrupted, KJoined, ReadRecord, CheckClean, RemoveWorktree,
      DeleteRow, Unregister, Reregister
  <2> QED
    BY <2>1 DEF Inv, TypeOK, Behaviour, Placed
<1>a. ASSUME NEW p, KGoto(k, p)
      PROVE  /\ \A j \in Cleanups \ {k} : SameCleanup(j)
             /\ cleanup'[k].pc = p /\ cleanup'[k].chan = c
  BY <1>0, <1>a DEF KGoto, SameCleanup, CleanupRecords
<1>b. cleanup[k].pc \in {"record", "status", "remove", "delete", "final", "dm"} => active[c] = None
  BY DEF Tracked, BusyCleanup
<1>1. CASE Cancel(k)
  BY <1>0, <1>1, <1>a, CleanupMoves DEF Cancel, BusyCleanup
<1>2. CASE KInterrupted(k)
  <2> DEFINE p == IF active[c] = None THEN "record" ELSE "join"
             r == [cleanup[k] EXCEPT !.pc = p, !.wait = active[c]]
  <2>1. cleanup' = [cleanup EXCEPT ![k] = r]
    BY <1>2 DEF KInterrupted
  <2>2. r.pc = p /\ r.chan = c /\ r.wait = active[c]
    BY <1>0 DEF CleanupRecords
  <2>3. p \in {"record", "join"} /\ (p = "record" => active[c] = None)
    OBVIOUS
  <2> HIDE DEF p, r
  <2>4. /\ \A j \in Cleanups \ {k} : SameCleanup(j)
        /\ cleanup'[k].pc = p /\ cleanup'[k].chan = c /\ cleanup'[k].wait = active[c]
    BY <1>0, <2>1, <2>2 DEF SameCleanup
  <2> QED
    BY <1>0, <1>2, <2>3, <2>4, CleanupMoves DEF KInterrupted, BusyCleanup
<1>3. CASE KJoined(k)
  <2>1. active[c] = None
    BY <1>0, <1>3, NoneAssumption DEF KJoined, Tracked, Inv, Behaviour, ActiveIsLive
  <2>2. /\ \A j \in Cleanups \ {k} : SameCleanup(j)
        /\ cleanup'[k].pc = "record" /\ cleanup'[k].chan = c
    BY <1>0, <1>3 DEF KJoined, SameCleanup, CleanupRecords
  <2> QED
    BY <1>0, <1>3, <2>1, <2>2, CleanupMoves DEF KJoined, BusyCleanup
<1>4. CASE ReadRecord(k)
  <2> DEFINE n == row[c].name
             p == IF n \in Slugs THEN "status" ELSE "delete"
             r == [cleanup[k] EXCEPT !.name = n, !.pc = p]
  <2>1. cleanup' = [cleanup EXCEPT ![k] = r]
    BY <1>4 DEF ReadRecord
  <2>2. r.pc = p /\ r.chan = c /\ p \in {"status", "delete"}
    BY <1>0 DEF CleanupRecords
  <2> HIDE DEF p, r
  <2>3. \A j \in Cleanups \ {k} : SameCleanup(j)
    BY <1>0, <2>1 DEF SameCleanup
  <2> QED
    BY <1>0, <1>4, <1>b, <2>1, <2>2, <2>3, CleanupMoves DEF ReadRecord, BusyCleanup
<1>5. CASE CheckClean(k)
  <2> DEFINE w == worktree[cleanup[k].name]
  <2>0. PICK d \in {w = "dirty", w # "absent"} :
          cleanup' = [cleanup EXCEPT ![k] = [@ EXCEPT !.kept = d,
                        !.pc = IF w = "clean" /\ ~d THEN "remove" ELSE "delete"]]
    BY <1>5 DEF CheckClean
  <2> DEFINE p == IF w = "clean" /\ ~d THEN "remove" ELSE "delete"
             r == [cleanup[k] EXCEPT !.kept = d, !.pc = p]
  <2>1. cleanup' = [cleanup EXCEPT ![k] = r]
    BY <2>0
  <2>2. r.pc = p /\ r.chan = c /\ p \in {"remove", "delete"}
    BY <1>0 DEF CleanupRecords
  <2> HIDE DEF p, r
  <2>3. \A j \in Cleanups \ {k} : SameCleanup(j)
    BY <1>0, <2>1 DEF SameCleanup
  <2> QED
    BY <1>0, <1>5, <1>b, <2>1, <2>2, <2>3, CleanupMoves DEF CheckClean, BusyCleanup
<1>6. CASE RemoveWorktree(k)
  BY <1>0, <1>6, <1>a, <1>b, CleanupMoves DEF RemoveWorktree, BusyCleanup
<1>7. CASE Unregister(k)
  <2>1. PICK p \in {"dm", "done"} : KGoto(k, p)
    BY <1>7 DEF Unregister
  <2> QED
    BY <1>0, <1>7, <1>a, <1>b, <2>1, CleanupMoves DEF Unregister, BusyCleanup
<1>8. CASE Reregister(k)
  BY <1>0, <1>8, <1>a, <1>b, CleanupMoves DEF Reregister, BusyCleanup
<1>9. CASE DeleteRow(k)
  <2>1. /\ cleanup[k].pc = "delete" /\ UNCHANGED <<turn, active>>
        /\ row'[c] = Blank /\ \A d \in Channels \ {c} : row'[d] = row[d] /\ epoch'[d] = epoch[d]
        /\ row' \in [Channels -> Rows]
    <3>1. Blank \in Rows
      BY DEF Blank, Rows
    <3> QED
      BY <1>0, <1>9, <3>1 DEF DeleteRow
  <2>2. PICK p \in {"done", "final"} : KGoto(k, p)
    BY <1>9 DEF DeleteRow
  <2>3. /\ \A j \in Cleanups \ {k} : SameCleanup(j)
        /\ cleanup'[k].pc = p /\ cleanup'[k].chan = c
    BY <2>2, <1>a
  <2>4. OneHandler'
    <3>1. \A j \in Cleanups : cleanup'[j].chan = cleanup[j].chan /\ (BusyCleanup(j)' => BusyCleanup(j))
      BY <2>1, <2>3 DEF SameCleanup, BusyCleanup
    <3> QED
      BY <2>1, <3>1, KeepsOneHandler DEF BusyTurn
  <2>5. Tracked'
    BY <1>b, <2>1, <2>3 DEF Tracked, SameCleanup, BusyCleanup
  <2>6. \A u \in Turns : turn[u].chan = c => turn[u].pc \notin SettingUp \cup {"running"}
    <3> SUFFICES ASSUME NEW u \in Turns, turn[u].chan = c
                 PROVE  turn[u].pc \notin SettingUp \cup {"running"}
      OBVIOUS
    <3>1. turn[u].pc # "running"
      BY <1>b, <2>1, NoneAssumption DEF Tracked
    <3>2. turn[u].pc \notin SettingUp
      BY <2>1 DEF OneHandler, BusyTurn, BusyCleanup
    <3> QED
      BY <3>1, <3>2
  <2>7. ASSUME NEW u \in Turns PROVE Carried(u)'
    <3>1. CASE turn[u].chan = c
      BY <2>1, <2>6, <3>1 DEF Carried, SettingUp
    <3>2. CASE turn[u].chan # c
      <4>1. turn[u].chan \in Channels \/ turn[u].pc = "idle"
        BY DEF Inv, Behaviour, Placed
      <4> QED
        BY <2>1, <3>2, <4>1 DEF Carries, Carried
    <3> QED
      BY <3>1, <3>2
  <2>8. Carries' /\ ResetForgets'
    BY <2>1, <2>7 DEF Carries, ResetForgets, HasRow, Blank
  <2> QED
    BY <2>4, <2>5, <2>8 DEF SerialParts
<1> QED
  BY <1>1, <1>2, <1>3, <1>4, <1>5, <1>6, <1>7, <1>8, <1>9 DEF SerialCleanupStep

LEMMA SerialNextInv == SerialInv /\ [SerialNext]_vars => SerialInv'
<1> SUFFICES ASSUME SerialInv, [SerialNext]_vars PROVE SerialInv'
  OBVIOUS
<1>1. Inv'
  BY SerialStep, NextInv DEF SerialInv
<1>2. SerialParts'
  <2>1. CASE UNCHANGED vars
    BY <2>1 DEF vars, SerialInv, SerialParts, OneHandler, Tracked, Carries, Carried, ResetForgets,
      BusyTurn, BusyCleanup, HasRow
  <2>2. CASE SerialNext
    BY <2>2, SerialUser, SerialTurn, SerialClaude, SerialCleanup DEF SerialNext
  <2> QED
    BY <2>1, <2>2
<1> QED
  BY <1>1, <1>2 DEF SerialInv, SerialParts

\* What the theorems on turns, teardowns and resets rest on.
THEOREM SerialInvHolds == SerialSpec => []SerialInv
<1> QED
  BY SerialInit, SerialNextInv, PTL DEF SerialSpec

\* In the quiet world two turns of one channel never run at the same time.
THEOREM OneTurn == SerialSpec => []OneTurnPerChannel
<1>1. SerialInv => OneTurnPerChannel
  BY DEF SerialInv, Tracked, OneTurnPerChannel
<1> QED
  BY <1>1, SerialInvHolds, PTL

\* In the quiet world a teardown that inspects or removes a worktree is alone.
THEOREM TeardownUndisturbed == SerialSpec => []TeardownAlone
<1>1. SerialInv => TeardownAlone
  BY NoneAssumption DEF SerialInv, Tracked, TeardownAlone, BusyCleanup
<1> QED
  BY <1>1, SerialInvHolds, PTL

\* In the quiet world a reset is never undone by a turn that outlives it.
THEOREM ResetIsFinal == SerialSpec => []ResetForgets
BY SerialInvHolds, PTL DEF SerialInv

-----------------------------------------------------------------------------
(***************************************************************************)
(* The counter of a row, and the working directory of a turn.              *)
(***************************************************************************)
CountedPCs == {"launch", "start", "running", "post", "done", "cachemiss"}

\* Once its working directory is prepared, a turn relies on it.
HousedPCs == {"ensure", "count", "launch", "start", "running"}

\* turn_count is the number of messages counted, and no turn read its row in an
\* epoch that has not begun: a row that is new has nobody to be counted.
Counts ==
  \A c \in Channels :
    /\ IsFiniteSet(Counted(c)) /\ row[c].turns = Cardinality(Counted(c))
    /\ \A t \in Turns : turn[t].chan = c => turn[t].born \in 0 .. epoch[c]
    /\ \A t \in Turns : turn[t].pc = "idle" => turn[t].born = 0

\* No two channels share a worktree, and a turn's is there.
Apart ==
  /\ \A c, d \in Channels : c # d => Uses(c) \cap Uses(d) \cap Slugs = {}
  /\ \A k \in Cleanups : cleanup[k].pc = "idle" => cleanup[k].name = None /\ cleanup[k].to = None

Housed == \A t \in Turns : turn[t].pc \in HousedPCs => HasCwd(t)

HouseInv == SerialInv /\ Counts /\ Apart /\ Housed

\* What a step does to a turn that it neither starts, houses, ties to its row
\* nor counts: r is the turn's record before, s after it.
Steady(r, s) ==
  /\ s.chan = r.chan /\ s.born = r.born /\ s.name \in {r.name, None}
  /\ s.pc \in CountedPCs <=> r.pc \in CountedPCs
  /\ s.pc \in HousedPCs => r.pc \in HousedPCs /\ s.name = r.name
  /\ s.pc = "idle" => r.pc = "idle"

LEMMA SteadyTurn ==
  ASSUME Inv, NEW t \in Turns,
         \/ CheckActive(t) \/ Interrupt(t) \/ Interrupted(t) \/ Joined(t) \/ Launch(t)
         \/ Start(t) \/ Spawn(t) \/ SpawnFails(t) \/ TurnEnd(t) \/ PostTurn(t) \/ ProcExit(t)
  PROVE  \A u \in Turns : Steady(turn[u], turn'[u])
<1> DEFINE R == turn[t]
<1>0. /\ turn \in [Turns -> TurnRecords] /\ R \in TurnRecords
      /\ \A u \in Turns : Steady(turn[u], turn[u])
  BY DEF Inv, TypeOK, Steady
<1>a. ASSUME NEW s, turn' = [turn EXCEPT ![t] = s], Steady(R, s)
      PROVE  \A u \in Turns : Steady(turn[u], turn'[u])
  BY <1>0, <1>a
<1>b. ASSUME NEW p, Goto(t, p), p # "idle", p \in CountedPCs <=> R.pc \in CountedPCs,
             p \in HousedPCs => R.pc \in HousedPCs
      PROVE  \A u \in Turns : Steady(turn[u], turn'[u])
  <2>1. Steady(R, [R EXCEPT !.pc = p])
    BY <1>0, <1>b DEF Steady, TurnRecords
  <2> QED
    BY <1>a, <1>b, <2>1 DEF Goto
<1>c. ASSUME NEW p, Leave(t, p), p # "idle", p \in CountedPCs <=> R.pc \in CountedPCs,
             p \notin HousedPCs
      PROVE  \A u \in Turns : Steady(turn[u], turn'[u])
  <2>1. Steady(R, [R EXCEPT !.pc = p, !.name = None, !.out = "ok"])
    BY <1>0, <1>c DEF Steady, TurnRecords
  <2> QED
    BY <1>a, <1>c, <2>1 DEF Leave
<1>d. ASSUME NEW p \in {"prepare", "react", "join"}, NEW w, R.pc \notin CountedPCs,
             turn' = [turn EXCEPT ![t] = [@ EXCEPT !.pc = p, !.wait = w]]
      PROVE  \A u \in Turns : Steady(turn[u], turn'[u])
  <2>1. Steady(R, [R EXCEPT !.pc = p, !.wait = w])
    BY <1>0, <1>d DEF Steady, TurnRecords, CountedPCs, HousedPCs
  <2> QED
    BY <1>a, <1>d, <2>1
<1>e. ASSUME TurnAwaits(t), R.pc \notin CountedPCs
      PROVE  \A u \in Turns : Steady(turn[u], turn'[u])
  BY <1>d, <1>e DEF TurnAwaits
<1>1. CASE CheckActive(t)
  <2>1. R.pc = "prompt" /\ R.pc \notin CountedPCs
    BY <1>1 DEF CheckActive, CountedPCs
  <2>2. CASE Leave(t, "aborted")
    BY <1>c, <2>1, <2>2 DEF CountedPCs, HousedPCs
  <2>3. CASE ~Leave(t, "aborted")
    BY <1>1, <1>d, <2>1, <2>3 DEF CheckActive
  <2> QED
    BY <2>2, <2>3
<1>2. CASE Interrupt(t)
  <2>1. R.pc = "react" /\ R.pc \notin CountedPCs
    BY <1>2 DEF Interrupt, CountedPCs
  <2>2. CASE ~Reaches(R.wait)
    BY <1>2, <1>e, <2>1, <2>2 DEF Interrupt
  <2>3. CASE Reaches(R.wait)
    <3>0. R.wait \in Turns /\ R.wait # t
      BY <1>0, <2>1 DEF Inv, Behaviour, WaitsOnStarted, Waiting, TurnRecords
    <3>1. /\ turn'[t] = [R EXCEPT !.pc = "exitwait"]
          /\ turn'[R.wait] = [turn[R.wait] EXCEPT !.proc = "signalled"]
          /\ \A u \in Turns \ {t, R.wait} : turn'[u] = turn[u]
      BY <1>0, <1>2, <2>3, <3>0 DEF Interrupt
    <3>2. Steady(R, turn'[t])
      BY <1>0, <2>1, <3>1 DEF Steady, TurnRecords, CountedPCs, HousedPCs
    <3>3. Steady(turn[R.wait], turn'[R.wait])
      BY <1>0, <3>0, <3>1 DEF Steady, TurnRecords
    <3> QED
      BY <1>0, <3>1, <3>2, <3>3
  <2> QED
    BY <2>2, <2>3
<1>3. CASE Interrupted(t)
  BY <1>3, <1>e DEF Interrupted, CountedPCs
<1>4. CASE Joined(t)
  BY <1>4, <1>d DEF Joined, CountedPCs
<1>5. CASE Launch(t)
  BY <1>5, <1>b, <1>c DEF Launch, CountedPCs, HousedPCs
<1>6. CASE Start(t)
  BY <1>6, <1>b DEF Start, CountedPCs, HousedPCs
<1>7. CASE Spawn(t)
  <2>1. Steady(R, [R EXCEPT !.proc = "running"])
    BY <1>0 DEF Steady, TurnRecords
  <2> QED
    BY <1>7, <1>a, <2>1 DEF Spawn
<1>8. CASE SpawnFails(t) \/ ProcExit(t)
  <2>1. PICK o : turn' = [turn EXCEPT ![t] = [@ EXCEPT !.proc = "exited", !.out = o]]
    BY <1>8 DEF SpawnFails, ProcExit
  <2>2. Steady(R, [R EXCEPT !.proc = "exited", !.out = o])
    BY <1>0 DEF Steady, TurnRecords
  <2> QED
    BY <1>a, <2>1, <2>2
<1>9. CASE TurnEnd(t)
  <2>1. PICK o : turn' = [turn EXCEPT ![t] = [@ EXCEPT !.pc = "post", !.out = o]]
    BY <1>9 DEF TurnEnd
  <2>2. Steady(R, [R EXCEPT !.pc = "post", !.out = o])
    BY <1>0, <1>9 DEF TurnEnd, Steady, TurnRecords, CountedPCs, HousedPCs
  <2> QED
    BY <1>a, <2>1, <2>2
<1>10. CASE PostTurn(t)
  BY <1>10, <1>c DEF PostTurn, CountedPCs, HousedPCs
<1> QED
  BY <1>1, <1>2, <1>3, <1>4, <1>5, <1>6, <1>7, <1>8, <1>9, <1>10

\* A step that counts nobody and begins no epoch.
LEMMA KeepsCounts ==
  ASSUME Counts, UNCHANGED epoch,
         \A c \in Channels : row'[c].turns = row[c].turns,
         \A u \in Turns :
           /\ turn'[u].pc \in CountedPCs <=> turn[u].pc \in CountedPCs
           /\ turn[u].pc \in CountedPCs => turn'[u].chan = turn[u].chan /\ turn'[u].born = turn[u].born
           /\ \A c \in Channels : turn'[u].chan = c => turn'[u].born \in 0 .. epoch[c]
           /\ turn'[u].pc = "idle" => turn'[u].born = 0
  PROVE  Counts'
<1>1. \A c \in Channels : Counted(c)' = Counted(c)
  BY DEF Counted, CountedPCs
<1> QED
  BY <1>1 DEF Counts

\* A step that is steady for every turn.
LEMMA SteadyCounts ==
  ASSUME Counts, UNCHANGED epoch,
         \A c \in Channels : row'[c].turns = row[c].turns,
         \A u \in Turns : Steady(turn[u], turn'[u])
  PROVE  Counts'
<1>1. CASE Channels = {}
  BY <1>1 DEF Counts
<1>2. CASE Channels # {}
  <2>1. \A u \in Turns :
           /\ \A c \in Channels : turn'[u].chan = c => turn'[u].born \in 0 .. epoch[c]
           /\ turn'[u].pc = "idle" => turn'[u].born = 0
    BY <1>2 DEF Counts, Steady
  <2> QED
    BY <2>1, KeepsCounts DEF Steady
<1> QED
  BY <1>1, <1>2

LEMMA TurnCounts ==
  ASSUME SerialInv, Counts, NEW t \in Turns, TurnStep(t) \/ ClaudeStep(t)
  PROVE  Counts'
<1> DEFINE c == turn[t].chan
<1>0. /\ turn \in [Turns -> TurnRecords] /\ turn[t] \in TurnRecords
      /\ row \in [Channels -> Rows] /\ epoch \in [Channels -> Nat]
      /\ turn[t].pc # "idle" => c \in Channels
      /\ \A u \in Turns : Steady(turn[u], turn[u])
  BY DEF SerialInv, Inv, TypeOK, Behaviour, Placed, Steady
<1>1. CASE \/ CheckActive(t) \/ Interrupt(t) \/ Interrupted(t) \/ Joined(t) \/ Launch(t)
           \/ Start(t) \/ Spawn(t) \/ SpawnFails(t) \/ TurnEnd(t) \/ ProcExit(t)
  BY <1>1, SteadyTurn, SteadyCounts
  DEF SerialInv, CheckActive, Interrupt, Interrupted, Joined, Launch, Start, Spawn, SpawnFails,
      TurnEnd, ProcExit
<1>2. CASE PostTurn(t)
  <2>1. UNCHANGED epoch /\ \A d \in Channels : row'[d].turns = row[d].turns
    BY <1>0, <1>2 DEF PostTurn, Rows
  <2> QED
    BY <1>2, <2>1, SteadyTurn, SteadyCounts DEF SerialInv
<1>3. CASE Report(t) \/ EditFiles(t)
  <2>1. /\ UNCHANGED <<turn, epoch>>
        /\ \A d \in Channels : row'[d].turns = row[d].turns
    BY <1>0, <1>3 DEF Report, EditFiles, Rows
  <2> QED
    BY <1>0, <2>1, SteadyCounts
<1>4. CASE PrepareCwd(t)
  <2>1. turn[t].pc = "prepare" /\ UNCHANGED <<row, epoch>>
        /\ (Goto(t, "ensure") \/ Leave(t, "aborted"))
    BY <1>4 DEF PrepareCwd
  <2>2. /\ \A u \in Turns \ {t} : turn'[u] = turn[u]
        /\ turn'[t].pc \in {"ensure", "aborted"} /\ turn'[t].chan = c /\ turn'[t].born = turn[t].born
    <3>1. CASE Goto(t, "ensure")
      BY <1>0, <3>1 DEF Goto, TurnRecords
    <3>2. CASE Leave(t, "aborted")
      <4> DEFINE r == [turn[t] EXCEPT !.pc = "aborted", !.name = None, !.out = "ok"]
      <4>1. turn' = [turn EXCEPT ![t] = r] /\ r.pc = "aborted" /\ r.chan = c /\ r.born = turn[t].born
        BY <1>0, <3>2 DEF Leave, TurnRecords
      <4> HIDE DEF r
      <4> QED
        BY <1>0, <4>1
    <3> QED
      BY <2>1, <3>1, <3>2
  <2> QED
    BY <2>1, <2>2, KeepsCounts DEF Counts, CountedPCs
<1>5. CASE EnsureRow(t)
  <2>1. /\ turn[t].pc = "ensure" /\ UNCHANGED epoch
        /\ \A u \in Turns \ {t} : turn'[u] = turn[u]
        /\ turn'[t].pc = "count" /\ turn'[t].chan = c /\ turn'[t].born = epoch[c]
    <3> DEFINE r == [turn[t] EXCEPT !.pc = "count", !.session = row[c].session, !.born = epoch[c]]
    <3>1. /\ turn[t].pc = "ensure" /\ UNCHANGED epoch /\ turn' = [turn EXCEPT ![t] = r]
          /\ r.pc = "count" /\ r.chan = c /\ r.born = epoch[c]
      BY <1>0, <1>5 DEF EnsureRow, TurnRecords
    <3> HIDE DEF r
    <3> QED
      BY <1>0, <3>1
  <2>2. \A d \in Channels : row'[d].turns = row[d].turns
    BY <1>0, <1>5 DEF EnsureRow, Rows
  <2>3. c \in Channels /\ epoch[c] \in 0 .. epoch[c]
    BY <1>0, <2>1
  <2> QED
    BY <2>1, <2>2, <2>3, KeepsCounts DEF Counts, CountedPCs
<1>6. CASE CountTurn(t)
  <2>1. /\ turn[t].pc = "count" /\ c \in Channels /\ row[c].name # None /\ turn[t].born = epoch[c]
    BY <1>0, <1>6 DEF CountTurn, SerialInv, Carries, Carried
  <2>2. /\ UNCHANGED epoch
        /\ row'[c].turns = row[c].turns + 1
        /\ \A d \in Channels \ {c} : row'[d] = row[d]
    BY <1>0, <1>6, <2>1 DEF CountTurn, HasRow, Rows
  <2>3. /\ \A u \in Turns \ {t} : turn'[u] = turn[u]
        /\ turn'[t].pc = "launch" /\ turn'[t].chan = c /\ turn'[t].born = turn[t].born
    BY <1>0, <1>6 DEF CountTurn, Goto, TurnRecords
  <2>4. Counted(c)' = Counted(c) \cup {t} /\ t \notin Counted(c)
    BY <2>1, <2>2, <2>3 DEF Counted
  <2>5. \A d \in Channels \ {c} : Counted(d)' = Counted(d)
    BY <2>2, <2>3 DEF Counted
  <2>6. IsFiniteSet(Counted(c)') /\ row'[c].turns = Cardinality(Counted(c)')
    BY <2>1, <2>2, <2>4, FS_AddElement DEF Counts
  <2> QED
    BY <2>1, <2>2, <2>3, <2>5, <2>6 DEF Counts
<1> QED
  BY <1>1, <1>2, <1>3, <1>4, <1>5, <1>6 DEF TurnStep, ClaudeStep

\* An epoch begins: no turn was counted in it.
LEMMA CleanupCounts ==
  ASSUME SerialInv, Counts, NEW k \in Cleanups, SerialCleanupStep(k)
  PROVE  Counts'
<1>0. row \in [Channels -> Rows] /\ epoch \in [Channels -> Nat] /\ Blank \in Rows
  BY DEF SerialInv, Inv, TypeOK, Blank, Rows
<1>1. CASE DeleteRow(k)
  <2>0. PICK c \in Channels : c = cleanup[k].chan
    BY <1>1 DEF DeleteRow, SerialInv, Inv, Behaviour, Placed
  <2>1. /\ UNCHANGED turn
        /\ epoch'[c] = epoch[c] + 1 /\ row'[c].turns = 0
        /\ \A d \in Channels \ {c} : row'[d] = row[d] /\ epoch'[d] = epoch[d]
    BY <1>0, <1>1, <2>0 DEF DeleteRow, Blank
  <2>2. Counted(c)' = {}
    <3>1. \A t \in Turns : turn[t].chan = c => turn[t].born # epoch[c] + 1
      BY <1>0 DEF Counts
    <3> QED
      BY <2>1, <3>1 DEF Counted
  <2>3. \A d \in Channels \ {c} : Counted(d)' = Counted(d)
    BY <2>1 DEF Counted
  <2>4. \A t \in Turns : turn[t].chan = c => turn[t].born \in 0 .. epoch'[c]
    BY <1>0, <2>1 DEF Counts
  <2> QED
    BY <2>1, <2>2, <2>3, <2>4, FS_EmptySet DEF Counts
<1>2. CASE ~DeleteRow(k)
  <2>1. UNCHANGED <<turn, row, epoch>>
    BY <1>2 DEF SerialCleanupStep, Cancel, KInterrupted, KJoined, ReadRecord, CheckClean,
      RemoveWorktree, Unregister, Reregister
  <2>2. \A d \in Channels : Counted(d)' = Counted(d)
    BY <2>1 DEF Counted
  <2> QED
    BY <2>1, <2>2 DEF Counts
<1> QED
  BY <1>1, <1>2

\* A teardown signals a subprocess, if anything.
LEMMA SteadyTeardown ==
  ASSUME Inv, NEW k \in Cleanups, NEW c \in Channels, NEW kd, NEW n, Teardown(k, c, kd, n)
  PROVE  /\ \A u \in Turns : Steady(turn[u], turn'[u])
         /\ UNCHANGED <<index, row, worktree, epoch>>
         /\ \A j \in Cleanups \ {k} : cleanup'[j] = cleanup[j]
         /\ cleanup'[k].chan = c /\ cleanup'[k].name = None /\ cleanup'[k].to = n
<1>1. turn \in [Turns -> TurnRecords] /\ cleanup \in [Cleanups -> CleanupRecords]
  BY DEF Inv, TypeOK
<1>2. \A u \in Turns : Steady(turn[u], turn[u]) /\ Steady(turn[u], [turn[u] EXCEPT !.proc = "signalled"])
  BY <1>1 DEF Steady, TurnRecords
<1> QED
  BY <1>1, <1>2 DEF Teardown

LEMMA UserCounts ==
  ASSUME SerialInv, Counts, SerialUserStep
  PROVE  Counts'
<1>0. /\ turn \in [Turns -> TurnRecords] /\ \A u \in Turns : Steady(turn[u], turn[u])
      /\ epoch \in [Channels -> Nat]
  BY DEF SerialInv, Inv, TypeOK, Steady
<1>1. CASE UNCHANGED <<turn, row, epoch>>
  BY <1>0, <1>1, SteadyCounts
<1>2. ASSUME NEW t \in Turns, NEW c \in Channels, Arrive(t, c)
      PROVE  Counts'
  <2>1. /\ \A u \in Turns \ {t} : turn'[u] = turn[u]
        /\ turn'[t].pc = "prompt" /\ turn[t].pc = "idle" /\ turn'[t].born = turn[t].born
        /\ UNCHANGED <<row, epoch>>
    <3> DEFINE r == [turn[t] EXCEPT !.pc = "prompt", !.chan = c, !.name = index[c]]
    <3>1. /\ turn' = [turn EXCEPT ![t] = r] /\ r.pc = "prompt" /\ r.born = turn[t].born
          /\ turn[t].pc = "idle" /\ UNCHANGED <<row, epoch>>
      BY <1>0, <1>2 DEF Arrive, TurnRecords
    <3> HIDE DEF r
    <3> QED
      BY <1>0, <3>1
  <2>2. \A d \in Channels : turn'[t].born \in 0 .. epoch[d]
    BY <1>0, <2>1 DEF Counts
  <2> QED
    BY <2>1, <2>2, KeepsCounts DEF Counts, CountedPCs
<1>3. ASSUME NEW k \in Cleanups, NEW c \in Channels, NEW kd, NEW n, Teardown(k, c, kd, n)
      PROVE  Counts'
  BY <1>3, SteadyTeardown, SteadyCounts DEF SerialInv
<1>4. \/ UNCHANGED <<turn, row, epoch>>
      \/ \E t \in Turns, c \in Channels : Arrive(t, c)
      \/ \E k \in Cleanups, c \in Channels : \E kd, n : Teardown(k, c, kd, n)
  BY DEF SerialUserStep, Register, DropCategory, BeginDelete, BeginUpdate, BeginReset, Confirm
<1> QED
  BY <1>1, <1>2, <1>3, <1>4

\* What the index, the table, the turns and the cleanups of a channel name.
LEMMA Used ==
  ASSUME NEW d \in Channels
  PROVE  /\ index[d] \in Uses(d) /\ row[d].name \in Uses(d)
         /\ \A u \in Turns : turn[u].chan = d => turn[u].name \in Uses(d)
         /\ \A k \in Cleanups : cleanup[k].chan = d /\ cleanup[k].pc # "done" =>
              cleanup[k].name \in Uses(d) /\ cleanup[k].to \in Uses(d)
  BY DEF Uses

LEMMA UsesWithin ==
  ASSUME NEW d \in Channels, NEW S,
         index'[d] \in S \cup {None}, row'[d].name \in S \cup {None},
         \A u \in Turns : turn'[u].chan = d => turn'[u].name \in S \cup {None},
         \A k \in Cleanups : cleanup'[k].chan = d /\ cleanup'[k].pc # "done" =>
           cleanup'[k].name \in S \cup {None} /\ cleanup'[k].to \in S \cup {None}
  PROVE  Uses(d)' \cap Slugs \subseteq S
<1>1. Uses(d)' \subseteq S \cup {None}
  BY DEF Uses
<1> QED
  BY <1>1, NoneAssumption

\* A step by which at most one channel gets a name, a free one.
LEMMA KeepsApart ==
  ASSUME Apart, NEW c \in Channels, NEW n, Free(c, n),
         \A d \in Channels : Uses(d)' \cap Slugs \subseteq Uses(d) \cup (IF d = c THEN {n} ELSE {})
  PROVE  \A d, e \in Channels : d # e => Uses(d)' \cap Uses(e)' \cap Slugs = {}
<1> SUFFICES ASSUME NEW d \in Channels, NEW e \in Channels, d # e,
                    NEW s \in Uses(d)' \cap Uses(e)' \cap Slugs
             PROVE  FALSE
  OBVIOUS
<1>1. s \in Uses(d) \/ (d = c /\ s = n)
  OBVIOUS
<1>2. s \in Uses(e) \/ (e = c /\ s = n)
  OBVIOUS
<1>3. ~(s \in Uses(d) /\ s \in Uses(e))
  BY DEF Apart
<1> QED
  BY <1>1, <1>2, <1>3 DEF Free

LEMMA NoneIsFree == \A c \in Channels : Free(c, None)
  BY NoneAssumption DEF Free

\* A turn writes its own name into the row, and prepares its own worktree.
LEMMA TurnHoused ==
  ASSUME HouseInv, NEW t \in Turns, TurnStep(t) \/ ClaudeStep(t)
  PROVE  Apart' /\ Housed'
<1> DEFINE c == turn[t].chan
<1>0. /\ turn \in [Turns -> TurnRecords] /\ turn[t] \in TurnRecords
      /\ row \in [Channels -> Rows] /\ worktree \in [Slugs -> {"absent", "clean", "dirty"}]
      /\ \A u \in Turns : Steady(turn[u], turn[u])
  BY DEF HouseInv, SerialInv, Inv, TypeOK, Steady
<1>1. UNCHANGED <<index, cleanup>>
  BY DEF TurnStep, ClaudeStep, CheckActive, Interrupt, Interrupted, Joined, PrepareCwd, EnsureRow,
     CountTurn, Launch, Start, Spawn, SpawnFails, TurnEnd, PostTurn, Report, EditFiles, ProcExit
<1>2. \A u \in Turns :
        /\ turn'[u].chan = turn[u].chan /\ turn'[u].name \in {turn[u].name, None}
        /\ turn'[u].pc \in HousedPCs =>
             /\ turn'[u].name = turn[u].name
             /\ turn[u].pc \in HousedPCs \/ (u = t /\ PrepareCwd(t))
  <2>1. CASE \/ CheckActive(t) \/ Interrupt(t) \/ Interrupted(t) \/ Joined(t) \/ Launch(t)
             \/ Start(t) \/ Spawn(t) \/ SpawnFails(t) \/ TurnEnd(t) \/ PostTurn(t) \/ ProcExit(t)
    BY <2>1, SteadyTurn DEF HouseInv, SerialInv, Steady
  <2>2. CASE Report(t) \/ EditFiles(t)
    BY <1>0, <2>2 DEF Report, EditFiles, Steady
  <2>3. ASSUME NEW r, turn' = [turn EXCEPT ![t] = r], r.chan = c, r.name = turn[t].name,
               turn[t].pc \in HousedPCs \/ PrepareCwd(t)
        PROVE  \A u \in Turns :
                 /\ turn'[u].chan = turn[u].chan /\ turn'[u].name \in {turn[u].name, None}
                 /\ turn'[u].pc \in HousedPCs =>
                      /\ turn'[u].name = turn[u].name
                      /\ turn[u].pc \in HousedPCs \/ (u = t /\ PrepareCwd(t))
    BY <1>0, <2>3
  <2>4. CASE EnsureRow(t)
    <3> DEFINE r == [turn[t] EXCEPT !.pc = "count", !.session = row[c].session, !.born = epoch[c]]
    <3>1. /\ turn' = [turn EXCEPT ![t] = r] /\ turn[t].pc \in HousedPCs
          /\ r.chan = c /\ r.name = turn[t].name
      BY <1>0, <2>4 DEF EnsureRow, TurnRecords, HousedPCs
    <3> HIDE DEF r
    <3> QED
      BY <2>3, <3>1
  <2>5. CASE CountTurn(t)
    <3>1. [turn[t] EXCEPT !.pc = "launch"].chan = c /\ [turn[t] EXCEPT !.pc = "launch"].name = turn[t].name
      BY <1>0 DEF TurnRecords
    <3> QED
      BY <2>3, <2>5, <3>1 DEF CountTurn, Goto, HousedPCs
  <2>6. CASE PrepareCwd(t)
    <3>1. CASE Goto(t, "ensure")
      <4>1. [turn[t] EXCEPT !.pc = "ensure"].chan = c /\ [turn[t] EXCEPT !.pc = "ensure"].name = turn[t].name
        BY <1>0 DEF TurnRecords
      <4> QED
        BY <2>3, <2>6, <3>1, <4>1 DEF Goto
    <3>2. CASE Leave(t, "aborted")
      <4> DEFINE r == [turn[t] EXCEPT !.pc = "aborted", !.name = None, !.out = "ok"]
      <4>1. turn' = [turn EXCEPT ![t] = r] /\ r.pc = "aborted" /\ r.chan = c /\ r.name = None
        BY <1>0, <3>2 DEF Leave, TurnRecords
      <4> HIDE DEF r
      <4> QED
        BY <1>0, <4>1 DEF HousedPCs
    <3> QED
      BY <2>6, <3>1, <3>2 DEF PrepareCwd
  <2> QED
    BY <2>1, <2>2, <2>4, <2>5, <2>6 DEF TurnStep, ClaudeStep
<1>3. \A d \in Channels : row'[d].name = row[d].name \/ (d = c /\ row'[d].name = turn[t].name)
  BY <1>0 DEF TurnStep, ClaudeStep, CheckActive, Interrupt, Interrupted, Joined, PrepareCwd, EnsureRow,
     CountTurn, Launch, Start, Spawn, SpawnFails, TurnEnd, PostTurn, Report, EditFiles, ProcExit, Rows
<1>4. Apart'
  <2>1. ASSUME NEW d \in Channels PROVE Uses(d)' \cap Slugs \subseteq Uses(d)
    <3>1. index'[d] \in Uses(d) /\ row'[d].name \in Uses(d)
      BY <1>1, <1>3, Used
    <3>2. \A u \in Turns : turn'[u].chan = d => turn'[u].name \in Uses(d) \cup {None}
      BY <1>2, Used
    <3>3. \A k \in Cleanups : cleanup'[k].chan = d /\ cleanup'[k].pc # "done" =>
            cleanup'[k].name \in Uses(d) /\ cleanup'[k].to \in Uses(d)
      BY <1>1, Used
    <3> DEFINE S == Uses(d)
    <3> HIDE DEF S
    <3>4. Uses(d)' \cap Slugs \subseteq S
      BY <3>1, <3>2, <3>3, UsesWithin DEF S
    <3> QED
      BY <3>4 DEF S
  <2>2. CASE Channels = {}
    BY <1>1, <2>2 DEF HouseInv, Apart
  <2>3. CASE Channels # {}
    BY <1>1, <2>1, <2>3, KeepsApart, NoneIsFree DEF HouseInv, Apart
  <2> QED
    BY <2>2, <2>3
<1>5. /\ \A s \in Slugs : worktree[s] # "absent" => worktree'[s] # "absent"
      /\ PrepareCwd(t) /\ turn'[t].pc \in HousedPCs /\ turn[t].name \in Slugs =>
           worktree'[turn[t].name] # "absent"
  <2>1. CASE PrepareCwd(t)
    <3>1. Leave(t, "aborted") => turn'[t].pc \notin HousedPCs
      BY <1>0 DEF Leave, TurnRecords, HousedPCs
    <3> QED
      BY <1>0, <2>1, <3>1, NamesAssumption DEF PrepareCwd
  <2>2. CASE ~PrepareCwd(t)
    BY <1>0, <2>2 DEF TurnStep, ClaudeStep, CheckActive, Interrupt, Interrupted, Joined, EnsureRow,
     CountTurn, Launch, Start, Spawn, SpawnFails, TurnEnd, PostTurn, Report, EditFiles, ProcExit
  <2> QED
    BY <2>1, <2>2
<1>6. ASSUME NEW u \in Turns, turn'[u].pc \in HousedPCs, turn[u].name \in Slugs
      PROVE  worktree'[turn[u].name] # "absent"
  <2>1. CASE turn[u].pc \in HousedPCs
    BY <1>5, <1>6, <2>1 DEF HouseInv, Housed, HasCwd
  <2>2. CASE turn[u].pc \notin HousedPCs
    BY <1>2, <1>5, <1>6, <2>2
  <2> QED
    BY <2>1, <2>2
<1>7. Housed'
  BY <1>2, <1>6 DEF Housed, HasCwd
<1> QED
  BY <1>4, <1>7

\* A teardown names what the row of its channel is called, and what the channel
\* will be called; it finds no turn in the worktree it removes.
LEMMA CleanupHoused ==
  ASSUME HouseInv, NEW k \in Cleanups, SerialCleanupStep(k)
  PROVE  Apart' /\ Housed'
<1>0. /\ cleanup \in [Cleanups -> CleanupRecords] /\ row \in [Channels -> Rows]
      /\ index \in [Channels -> Names \cup {None}]
      /\ worktree \in [Slugs -> {"absent", "clean", "dirty"}]
  BY DEF HouseInv, SerialInv, Inv, TypeOK
<1>1. /\ UNCHANGED turn /\ cleanup[k].pc \notin {"idle", "done"}
      /\ \A j \in Cleanups \ {k} : cleanup'[j] = cleanup[j]
      /\ \A d \in Channels : row'[d] = row[d] \/ row'[d] = Blank
  BY <1>0 DEF SerialCleanupStep, Cancel, KInterrupted, KJoined, ReadRecord, CheckClean, RemoveWorktree,
     DeleteRow, Unregister, Reregister, KGoto
<1>2. PICK c \in Channels : c = cleanup[k].chan
  BY <1>1 DEF HouseInv, SerialInv, Inv, Behaviour, Placed
<1>3. \A d \in Channels :
        index'[d] \in {index[d], None} \/ (d = c /\ index'[d] = cleanup[k].to)
  BY <1>0, <1>2 DEF SerialCleanupStep, Cancel, KInterrupted, KJoined, ReadRecord, CheckClean,
     RemoveWorktree, DeleteRow, Unregister, Reregister
<1>4. /\ cleanup'[k].chan = c /\ cleanup'[k].to = cleanup[k].to /\ cleanup'[k].pc # "idle"
      /\ cleanup'[k].name \in {cleanup[k].name, row[c].name}
  <2>1. ASSUME NEW p, KGoto(k, p), p # "idle" PROVE <1>4
    BY <1>0, <1>2, <2>1 DEF KGoto, CleanupRecords
  <2>2. CASE KInterrupted(k) \/ KJoined(k)
    <3> DEFINE u == active[cleanup[k].chan]
    <3>1. PICK p \in {"record", "join"} : \E w \in {u, None} :
            cleanup' = [cleanup EXCEPT ![k] = [@ EXCEPT !.pc = p, !.wait = w]]
      BY <2>2 DEF KInterrupted, KJoined
    <3>2. PICK w \in {u, None} : cleanup' = [cleanup EXCEPT ![k] = [@ EXCEPT !.pc = p, !.wait = w]]
      BY <3>1
    <3> QED
      BY <1>0, <1>2, <3>2 DEF CleanupRecords
  <2>3. CASE ReadRecord(k)
    <3>1. PICK p \in {"status", "delete"} :
            cleanup' = [cleanup EXCEPT ![k] = [@ EXCEPT !.name = row[c].name, !.pc = p]]
      BY <1>2, <2>3 DEF ReadRecord
    <3> QED
      BY <1>0, <1>2, <3>1 DEF CleanupRecords
  <2>4. CASE CheckClean(k)
    <3> DEFINE n == worktree[cleanup[k].name]
    <3>1. PICK p \in {"remove", "delete"} : \E keep \in {n = "dirty", n # "absent"} :
            cleanup' = [cleanup EXCEPT ![k] = [@ EXCEPT !.kept = keep, !.pc = p]]
      BY <2>4 DEF CheckClean
    <3>2. PICK keep \in {n = "dirty", n # "absent"} :
            cleanup' = [cleanup EXCEPT ![k] = [@ EXCEPT !.kept = keep, !.pc = p]]
      BY <3>1
    <3> QED
      BY <1>0, <1>2, <3>2 DEF CleanupRecords
  <2>5. CASE Cancel(k) \/ RemoveWorktree(k) \/ DeleteRow(k) \/ Unregister(k) \/ Reregister(k)
    BY <2>1, <2>5 DEF Cancel, RemoveWorktree, DeleteRow, Unregister, Reregister
  <2> QED
    BY <2>2, <2>3, <2>4, <2>5 DEF SerialCleanupStep
<1>5. Apart'
  <2>1. ASSUME NEW d \in Channels PROVE Uses(d)' \cap Slugs \subseteq Uses(d)
    <3>1. index'[d] \in Uses(d) \cup {None}
      BY <1>1, <1>2, <1>3, Used
    <3>2. row'[d].name \in Uses(d) \cup {None}
      BY <1>1, Used DEF Blank
    <3>3. \A u \in Turns : turn'[u].chan = d => turn'[u].name \in Uses(d)
      BY <1>1, Used
    <3>4. \A j \in Cleanups : cleanup'[j].chan = d /\ cleanup'[j].pc # "done" =>
            cleanup'[j].name \in Uses(d) /\ cleanup'[j].to \in Uses(d)
      BY <1>1, <1>2, <1>4, Used
    <3> DEFINE S == Uses(d)
    <3> HIDE DEF S
    <3>5. Uses(d)' \cap Slugs \subseteq S
      BY <3>1, <3>2, <3>3, <3>4, UsesWithin DEF S
    <3> QED
      BY <3>5 DEF S
  <2> QED
    BY <1>1, <1>4, <2>1, KeepsApart, NoneIsFree DEF HouseInv, Apart
<1>6. ASSUME NEW t \in Turns, turn[t].pc \in HousedPCs, turn[t].name \in Slugs
      PROVE  worktree'[turn[t].name] # "absent"
  <2>1. worktree[turn[t].name] # "absent"
    BY <1>6 DEF HouseInv, Housed, HasCwd
  <2>2. CASE RemoveWorktree(k)
    <3>1. cleanup[k].pc = "remove" /\ BusyCleanup(k)
      BY <2>2 DEF RemoveWorktree, BusyCleanup
    <3>2. turn[t].chan # c
      <4>1. turn[t].pc \in SettingUp => turn[t].chan # c
        BY <1>2, <3>1 DEF HouseInv, SerialInv, OneHandler, BusyTurn
      <4>2. turn[t].pc = "running" => turn[t].chan # c
        BY <1>2, <3>1, NoneAssumption DEF HouseInv, SerialInv, Tracked
      <4> QED
        BY <1>6, <4>1, <4>2 DEF HousedPCs, SettingUp
    <3>3. turn[t].chan \in Channels /\ turn[t].name \in Uses(turn[t].chan)
      BY <1>6, Used DEF HousedPCs, HouseInv, SerialInv, Inv, Behaviour, Placed
    <3>4. cleanup[k].name \in Uses(c)
      BY <1>2, <3>1, Used
    <3>5. cleanup[k].name # turn[t].name
      BY <1>6, <3>2, <3>3, <3>4 DEF HouseInv, Apart
    <3> QED
      BY <1>0, <1>6, <2>1, <2>2, <3>5 DEF RemoveWorktree
  <2>3. CASE ~RemoveWorktree(k)
    BY <2>1, <2>3 DEF SerialCleanupStep, Cancel, KInterrupted, KJoined, ReadRecord, CheckClean,
       DeleteRow, Unregister, Reregister
  <2> QED
    BY <2>2, <2>3
<1>7. Housed'
  BY <1>1, <1>6 DEF Housed, HasCwd
<1> QED
  BY <1>5, <1>7

\* Only a registration and a rename bring names, and those are free.
LEMMA UserHoused ==
  ASSUME HouseInv, SerialUserStep
  PROVE  Apart' /\ Housed'
<1>0. /\ turn \in [Turns -> TurnRecords] /\ cleanup \in [Cleanups -> CleanupRecords]
      /\ index \in [Channels -> Names \cup {None}]
      /\ \A u \in Turns : Steady(turn[u], turn[u])
  BY DEF HouseInv, SerialInv, Inv, TypeOK, Steady
<1>a. ASSUME UNCHANGED <<row, worktree>>, NEW c \in Channels, NEW n, Free(c, n),
             \A d \in Channels : index'[d] \in {index[d], None} \/ (d = c /\ index'[d] = n),
             \A u \in Turns :
               \/ Steady(turn[u], turn'[u])
               \/ turn'[u].pc = "prompt" /\ turn'[u].chan = c /\ turn'[u].name = index[c],
             \A j \in Cleanups :
               \/ cleanup'[j] = cleanup[j]
               \/ /\ cleanup'[j].chan = c /\ cleanup'[j].name = None
                  /\ cleanup'[j].to \in {n, None} /\ cleanup'[j].pc # "idle"
      PROVE  Apart' /\ Housed'
  <2>1. ASSUME NEW d \in Channels
        PROVE  Uses(d)' \cap Slugs \subseteq Uses(d) \cup (IF d = c THEN {n} ELSE {})
    <3> DEFINE S == Uses(d) \cup (IF d = c THEN {n} ELSE {})
    <3>1. index'[d] \in S \cup {None} /\ row'[d].name \in S
      BY <1>a, Used
    <3>2. \A u \in Turns : turn'[u].chan = d => turn'[u].name \in S \cup {None}
      BY <1>a, Used DEF Steady
    <3>3. \A j \in Cleanups : cleanup'[j].chan = d /\ cleanup'[j].pc # "done" =>
            cleanup'[j].name \in S \cup {None} /\ cleanup'[j].to \in S \cup {None}
      BY <1>a, Used
    <3> HIDE DEF S
    <3>4. Uses(d)' \cap Slugs \subseteq S
      BY <3>1, <3>2, <3>3, UsesWithin
    <3> QED
      BY <3>4 DEF S
  <2>2. Apart'
    BY <1>a, <2>1, KeepsApart DEF HouseInv, Apart
  <2>3. Housed'
    BY <1>a DEF HouseInv, Housed, HasCwd, Steady, HousedPCs
  <2> QED
    BY <2>2, <2>3
<1>1. ASSUME NEW c \in Channels, NEW n \in Names, Free(c, n), Register(c, n) PROVE Apart' /\ Housed'
  BY <1>0, <1>1, <1>a DEF Register
<1>2. ASSUME NEW c \in Channels, DropCategory(c) PROVE Apart' /\ Housed'
  BY <1>0, <1>2, <1>a, NoneIsFree DEF DropCategory
<1>3. ASSUME NEW c \in Channels, NEW t \in Turns, Arrive(t, c) PROVE Apart' /\ Housed'
  <2> DEFINE r == [turn[t] EXCEPT !.pc = "prompt", !.chan = c, !.name = index[c]]
  <2>1. /\ turn' = [turn EXCEPT ![t] = r]
        /\ r.pc = "prompt" /\ r.chan = c /\ r.name = index[c]
        /\ UNCHANGED <<index, row, worktree, cleanup>>
    BY <1>0, <1>3 DEF Arrive, TurnRecords
  <2> HIDE DEF r
  <2> QED
    BY <1>0, <1>a, <2>1, NoneIsFree
<1>4. ASSUME NEW c \in Channels, NEW k \in Cleanups, BeginReset(k, c) PROVE Apart' /\ Housed'
  <2> DEFINE r == [cleanup[k] EXCEPT !.pc = "confirm", !.chan = c, !.kind = "reset"]
  <2>1. /\ cleanup' = [cleanup EXCEPT ![k] = r]
        /\ r.pc = "confirm" /\ r.chan = c /\ r.name = cleanup[k].name /\ r.to = cleanup[k].to
        /\ cleanup[k].pc = "idle" /\ UNCHANGED <<index, row, worktree, turn>>
    BY <1>0, <1>4 DEF BeginReset, CleanupRecords
  <2>2. r.name = None /\ r.to = None
    BY <2>1 DEF HouseInv, Apart
  <2> HIDE DEF r
  <2> QED
    BY <1>0, <1>a, <2>1, <2>2, NoneIsFree
<1>5. ASSUME NEW c \in Channels, NEW k \in Cleanups, NEW kd, NEW n, Free(c, n), Teardown(k, c, kd, n)
      PROVE  Apart' /\ Housed'
  <2>1. cleanup'[k].pc # "idle"
    BY <1>0, <1>5 DEF Teardown
  <2> QED
    BY <1>5, <1>a, <2>1, SteadyTeardown DEF HouseInv, SerialInv
<1> QED
  BY <1>1, <1>2, <1>3, <1>4, <1>5, NoneIsFree
  DEF SerialUserStep, BeginDelete, BeginUpdate, Confirm

LEMMA HouseInit == Init => HouseInv
<1> SUFFICES ASSUME Init PROVE HouseInv
  OBVIOUS
<1>1. \A c \in Channels : Counted(c) = {}
  BY DEF Init, Counted
<1>2. Counts
  <2>1. /\ \A c \in Channels : row[c].turns = 0 /\ epoch[c] = 0
        /\ \A t \in Turns : turn[t].born = 0
    BY DEF Init, Blank
  <2> QED
    BY <1>1, <2>1, FS_EmptySet DEF Counts
<1>3. \A c \in Channels : Uses(c) \subseteq {None}
  BY DEF Init, Uses, Blank
<1>4. Apart /\ Housed
  BY <1>3, NoneAssumption DEF Init, Apart, Housed, HousedPCs
<1> QED
  BY <1>2, <1>4, SerialInit DEF HouseInv

LEMMA HouseNext == HouseInv /\ [SerialNext]_vars => HouseInv'
<1> SUFFICES ASSUME HouseInv, [SerialNext]_vars PROVE HouseInv'
  OBVIOUS
<1>1. SerialInv'
  BY SerialNextInv DEF HouseInv
<1>2. CASE SerialNext
  BY <1>1, <1>2, UserCounts, TurnCounts, CleanupCounts, UserHoused, TurnHoused, CleanupHoused
  DEF SerialNext, HouseInv
<1>3. CASE UNCHANGED vars
  BY <1>1, <1>3 DEF vars, HouseInv, Counts, Counted, Apart, Uses, Housed, HasCwd
<1> QED
  BY <1>2, <1>3

\* What the two theorems on counters and worktrees rest on.
THEOREM HouseInvariant == SerialSpec => []HouseInv
<1> QED
  BY HouseInit, HouseNext, PTL DEF SerialSpec

\* In the quiet world the counter of a row is the number of messages counted since
\* the row was created, across renames, resets and dropped messages.
THEOREM CountsAreExact == SerialSpec => []TurnCountExact
<1>1. HouseInv => TurnCountExact
  BY DEF HouseInv, Counts, TurnCountExact
<1> QED
  BY <1>1, HouseInvariant, PTL

\* In the quiet world no teardown, of this or another channel, takes the worktree
\* from under a live subprocess.
THEOREM WorktreeStays == SerialSpec => []WorktreeUnderTurn
<1>1. HouseInv => WorktreeUnderTurn
  BY DEF HouseInv, Housed, HousedPCs, SerialInv, Inv, Behaviour, Lifecycle, WorktreeUnderTurn
<1> QED
  BY <1>1, HouseInvariant, PTL

-----------------------------------------------------------------------------
(***************************************************************************)
(* ChannelSessionSerial implements Conversation: Start acquires the        *)
(* channel, Report continues its session, TurnEnd releases the channel,    *)
(* DeleteRow makes it forget, and every other step stutters.               *)
(***************************************************************************)
Sessions == [c \in Channels |-> row[c].session]

LEMMA Stutters ==
  ASSUME UNCHANGED active,
         \A c \in Channels : row'[c].session = row[c].session,
         \A t \in Turns : turn'[t].pc \in {"running", "post", "done"}
                            <=> turn[t].pc \in {"running", "post", "done"}
  PROVE  UNCHANGED Slot!vars
BY DEF Slot!vars, Served

LEMMA SlotInit == Init => Slot!Init
BY DEF Init, Slot!Init, Served, Blank

LEMMA SlotTurn ==
  ASSUME SerialInv, NEW t \in Turns, TurnStep(t)
  PROVE  [Slot!Next]_(Slot!vars)
<1> USE DEF SerialInv
<1> DEFINE c == turn[t].chan
           On == {"running", "post", "done"}
<1>0. /\ turn[t] \in TurnRecords /\ turn \in [Turns -> TurnRecords]
      /\ active \in [Channels -> Turns \cup {None}] /\ row \in [Channels -> Rows]
      /\ None \notin Turns
  BY NoneAssumption DEF Inv, TypeOK
<1>1. CASE Start(t)
  <2>1. turn[t].pc = "start" /\ c \in Channels /\ active[c] = None
    BY <1>1 DEF Start, Tracked, SettingUp, Inv, Behaviour, Placed
  <2>2. Served' = Served \cup {t} /\ t \notin Served
    BY <1>0, <1>1, <2>1 DEF Served, Start, Goto, TurnRecords
  <2>3. Slot!Acquire(c, t)
    BY <1>1, <2>1, <2>2 DEF Slot!Acquire, Start
  <2> QED
    BY <2>1, <2>3 DEF Slot!Next
<1>2. CASE TurnEnd(t)
  <2>1. turn[t].pc = "running" /\ c \in Channels /\ active[c] = t
    BY <1>2 DEF TurnEnd, Tracked, Inv, Behaviour, Placed
  <2>2. Served' = Served
    BY <1>0, <1>2, <2>1 DEF Served, TurnEnd, TurnRecords
  <2>3. Slot!Release(c)
    BY <1>0, <1>2, <2>1, <2>2 DEF Slot!Release, TurnEnd
  <2> QED
    BY <2>1, <2>3 DEF Slot!Next
<1>3. ASSUME NEW p, Goto(t, p) \/ Leave(t, p), p \in On <=> turn[t].pc \in On
      PROVE  \A u \in Turns : turn'[u].pc \in On <=> turn[u].pc \in On
  <2>1. CASE Goto(t, p)
    BY <1>0, <1>3, <2>1 DEF Goto, TurnRecords
  <2>2. CASE Leave(t, p)
    <3> DEFINE r == [turn[t] EXCEPT !.pc = p, !.name = None, !.out = "ok"]
    <3>1. r.pc = p
      BY <1>0 DEF TurnRecords
    <3>2. turn' = [turn EXCEPT ![t] = r]
      BY <2>2 DEF Leave
    <3> HIDE DEF r
    <3> QED
      BY <1>0, <1>3, <3>1, <3>2
  <2> QED
    BY <1>3, <2>1, <2>2
<1>4. ASSUME TurnAwaits(t), turn[t].pc \notin On
      PROVE  \A u \in Turns : turn'[u].pc \in On <=> turn[u].pc \in On
  BY <1>0, <1>4 DEF TurnAwaits, TurnRecords
<1>5. CASE CheckActive(t)
  <2>1. turn[t].pc = "prompt" /\ UNCHANGED <<active, row>>
    BY <1>5 DEF CheckActive
  <2>2. CASE Leave(t, "aborted")
    BY <2>1, <2>2, <1>3, Stutters
  <2>3. CASE ~Leave(t, "aborted")
    <3>1. \A u \in Turns : turn'[u].pc \in On <=> turn[u].pc \in On
      <4> DEFINE p == IF active[c] = None THEN "prepare" ELSE "react"
                 r == [turn[t] EXCEPT !.pc = p, !.wait = active[c]]
      <4>1. turn' = [turn EXCEPT ![t] = r]
        BY <1>5, <2>3 DEF CheckActive
      <4>2. r.pc = p /\ p \in {"prepare", "react"}
        BY <1>0 DEF TurnRecords
      <4> HIDE DEF p, r
      <4> QED
        BY <1>0, <2>1, <4>1, <4>2
    <3> QED
      BY <2>1, <3>1, Stutters
  <2> QED
    BY <2>2, <2>3
<1>6. CASE Interrupt(t)
  <2>1. turn[t].pc = "react" /\ UNCHANGED <<active, row>>
    BY <1>6 DEF Interrupt
  <2>2. \A u \in Turns : turn'[u].pc \in On <=> turn[u].pc \in On
    <3>1. CASE Reaches(turn[t].wait)
      BY <1>0, <1>6, <2>1, <3>1 DEF Interrupt, TurnRecords
    <3>2. CASE ~Reaches(turn[t].wait)
      BY <1>4, <1>6, <2>1, <3>2 DEF Interrupt
    <3> QED
      BY <3>1, <3>2
  <2> QED
    BY <2>1, <2>2, Stutters
<1>7. CASE Interrupted(t)
  BY <1>4, <1>7, Stutters DEF Interrupted
<1>8. CASE Joined(t)
  <2>1. \A u \in Turns : turn'[u].pc \in On <=> turn[u].pc \in On
    BY <1>0, <1>8 DEF Joined, TurnRecords
  <2> QED
    BY <1>8, <2>1, Stutters DEF Joined
<1>9. CASE PrepareCwd(t)
  <2>1. Goto(t, "ensure") \/ Leave(t, "aborted")
    BY <1>9 DEF PrepareCwd
  <2> QED
    BY <1>3, <1>9, <2>1, Stutters DEF PrepareCwd
<1>10. CASE EnsureRow(t)
  <2>1. \A u \in Turns : turn'[u].pc \in On <=> turn[u].pc \in On
    BY <1>0, <1>10 DEF EnsureRow, TurnRecords
  <2>2. \A d \in Channels : row'[d].session = row[d].session
    BY <1>0, <1>10 DEF EnsureRow, Rows
  <2> QED
    BY <1>10, <2>1, <2>2, Stutters DEF EnsureRow
<1>11. CASE CountTurn(t)
  <2>1. \A d \in Channels : row'[d].session = row[d].session
    BY <1>0, <1>11 DEF CountTurn, Rows
  <2> QED
    BY <1>3, <1>11, <2>1, Stutters DEF CountTurn
<1>12. CASE Launch(t)
  <2>1. Goto(t, "start") \/ Leave(t, "cachemiss")
    BY <1>12 DEF Launch
  <2> QED
    BY <1>3, <1>12, <2>1, Stutters DEF Launch
<1>13. CASE Spawn(t) \/ SpawnFails(t)
  <2>1. \A u \in Turns : turn'[u].pc \in On <=> turn[u].pc \in On
    <3>1. CASE Spawn(t)
      BY <1>0, <3>1 DEF Spawn, TurnRecords
    <3>2. CASE SpawnFails(t)
      <4> DEFINE r == [turn[t] EXCEPT !.proc = "exited", !.out = "failed"]
      <4>1. r.pc = turn[t].pc /\ turn' = [turn EXCEPT ![t] = r]
        BY <1>0, <3>2 DEF SpawnFails, TurnRecords
      <4> HIDE DEF r
      <4> QED
        BY <1>0, <4>1
    <3> QED
      BY <1>13, <3>1, <3>2
  <2> QED
    BY <1>13, <2>1, Stutters DEF Spawn, SpawnFails
<1>14. CASE PostTurn(t)
  <2>1. \A d \in Channels : row'[d].session = row[d].session
    BY <1>0, <1>14 DEF PostTurn, Rows
  <2> QED
    BY <1>3, <1>14, <2>1, Stutters DEF PostTurn
<1> QED
  BY <1>1, <1>2, <1>5, <1>6, <1>7, <1>8, <1>9, <1>10, <1>11, <1>12, <1>13, <1>14 DEF TurnStep

LEMMA SlotClaude ==
  ASSUME SerialInv, NEW t \in Turns, ClaudeStep(t)
  PROVE  [Slot!Next]_(Slot!vars)
<1> USE DEF SerialInv
<1>1. CASE Report(t)
  <2>0. PICK c \in Channels : c = turn[t].chan
    BY <1>1, ReportSession
  <2>1. active[c] = t /\ t # None
    BY <1>1, <2>0, NoneAssumption DEF Report, Tracked
  <2>2. Slot!Continue(c)
    <3>1. UNCHANGED <<active, turn>>
      BY <1>1 DEF Report
    <3>2. [d \in Channels |-> row'[d].session] =
            [Sessions EXCEPT ![c] = IF @ = None THEN t ELSE @]
      BY <1>1, <2>0, <2>1, ReportSession DEF Sessions
    <3> QED
      BY <2>1, <3>1, <3>2 DEF Slot!Continue, Served, Sessions
  <2>3. Slot!Next
    BY <2>1, <2>2 DEF Slot!Next
  <2> QED
    BY <2>3
<1>2. CASE EditFiles(t)
  BY <1>2, Stutters DEF EditFiles
<1>3. CASE ProcExit(t)
  <2>1. \A u \in Turns : turn'[u].pc = turn[u].pc
    BY <1>3 DEF ProcExit, Inv, TypeOK, TurnRecords
  <2> QED
    BY <1>3, <2>1, Stutters DEF ProcExit
<1> QED
  BY <1>1, <1>2, <1>3 DEF ClaudeStep

LEMMA SlotCleanup ==
  ASSUME SerialInv, NEW k \in Cleanups, SerialCleanupStep(k)
  PROVE  [Slot!Next]_(Slot!vars)
<1>1. CASE DeleteRow(k)
  <2>0. PICK c \in Channels : c = cleanup[k].chan
    BY <1>1 DEF DeleteRow, SerialInv, Inv, Behaviour, Placed
  <2>1. active[c] = None
    BY <1>1, <2>0 DEF DeleteRow, SerialInv, Tracked, BusyCleanup
  <2>2. Slot!Forget(c)
    <3>1. UNCHANGED <<active, turn>>
      BY <1>1 DEF DeleteRow
    <3>2. [d \in Channels |-> row'[d].session] = [Sessions EXCEPT ![c] = None]
      BY <1>1, <2>0 DEF DeleteRow, Blank, Sessions, SerialInv, Inv, TypeOK
    <3> QED
      BY <2>1, <3>1, <3>2 DEF Slot!Forget, Served, Sessions
  <2>3. Slot!Next
    BY <2>1, <2>2 DEF Slot!Next
  <2> QED
    BY <2>3
<1>2. CASE ~DeleteRow(k)
  <2>1. UNCHANGED <<turn, active, row>>
    BY <1>2 DEF SerialCleanupStep, Cancel, KInterrupted, KJoined, ReadRecord, CheckClean,
      RemoveWorktree, Unregister, Reregister
  <2> QED
    BY <2>1, Stutters
<1> QED
  BY <1>1, <1>2

\* A tear-down signals one subprocess at most.
LEMMA TeardownSlot ==
  ASSUME SerialInv, NEW k \in Cleanups, NEW c, NEW kd, NEW n, Teardown(k, c, kd, n)
  PROVE  UNCHANGED <<active, row>> /\ \A u \in Turns : turn'[u].pc = turn[u].pc
<1>1. turn \in [Turns -> TurnRecords]
  BY DEF SerialInv, Inv, TypeOK
<1> DEFINE v == active[c]
<1>2. turn' = turn \/ turn' = [turn EXCEPT ![v].proc = "signalled"]
  BY DEF Teardown
<1> HIDE DEF v
<1>3. \A u \in Turns : turn'[u].pc = turn[u].pc
  BY <1>1, <1>2 DEF TurnRecords
<1> QED
  BY <1>3 DEF Teardown

LEMMA SlotUser ==
  ASSUME SerialInv, SerialUserStep
  PROVE  UNCHANGED Slot!vars
<1> DEFINE Same == /\ UNCHANGED <<active, row>>
                   /\ \A u \in Turns : turn'[u].pc \in {"running", "post", "done"}
                                         <=> turn[u].pc \in {"running", "post", "done"}
<1>1. ASSUME NEW c \in Channels, NEW n \in Names, Register(c, n) PROVE Same
  BY <1>1 DEF Register
<1>2. ASSUME NEW c \in Channels, DropCategory(c) PROVE Same
  BY <1>2 DEF DropCategory
<1>3. ASSUME NEW t \in Turns, NEW c \in Channels, Arrive(t, c) PROVE Same
  <2>1. turn \in [Turns -> TurnRecords]
    BY DEF SerialInv, Inv, TypeOK
  <2>2. /\ turn[t].pc = "idle" /\ turn'[t].pc = "prompt"
        /\ \A u \in Turns \ {t} : turn'[u] = turn[u]
    BY <1>3, <2>1 DEF Arrive, TurnRecords
  <2> QED
    BY <1>3, <2>2 DEF Arrive
<1>4. ASSUME NEW k \in Cleanups, NEW c \in Channels, BeginDelete(k, c) PROVE Same
  BY <1>4, TeardownSlot DEF BeginDelete
<1>5. ASSUME NEW k \in Cleanups, NEW c \in Channels, BeginReset(k, c) PROVE Same
  BY <1>5 DEF BeginReset
<1>6. ASSUME NEW k \in Cleanups, Confirm(k) PROVE Same
  BY <1>6, TeardownSlot DEF Confirm
<1>7. ASSUME NEW k \in Cleanups, NEW c \in Channels, NEW n, BeginUpdate(k, c, n) PROVE Same
  BY <1>7, TeardownSlot DEF BeginUpdate
<1>8. Same
  <2> HIDE DEF Same
  <2> QED
    BY <1>1, <1>2, <1>3, <1>4, <1>5, <1>6, <1>7 DEF SerialUserStep
<1> QED
  BY <1>8, Stutters

\* In the quiet world the code's map, table and handlers behave as Conversation
\* says, whatever the number of channels, messages, resets and renames: a turn
\* runs alone in its channel and goes on with the session left there.
THEOREM ImplementsConversation == SerialSpec => OneChannelOneSession
<1>1. Init => Slot!Init
  BY SlotInit
<1>2. SerialInv /\ [SerialNext]_vars => [Slot!Next]_(Slot!vars)
  <2>1. ASSUME SerialInv, SerialNext PROVE [Slot!Next]_(Slot!vars)
    BY <2>1, SlotUser, SlotTurn, SlotClaude, SlotCleanup DEF SerialNext
  <2>2. ASSUME UNCHANGED vars PROVE UNCHANGED Slot!vars
    BY <2>2 DEF vars, Slot!vars, Served
  <2> QED
    BY <2>1, <2>2
<1> QED
  BY <1>1, <1>2, SerialInvHolds, PTL DEF SerialSpec, OneChannelOneSession, Slot!Spec
=============================================================================
