----------------------------- MODULE Conversation -----------------------------
(***************************************************************************)
(* What Channel-as-Session mode promises: one channel, one session.  A     *)
(* channel runs one turn at a time and every turn continues the session    *)
(* the turns before it left, until a reset makes the channel forget it.    *)
(***************************************************************************)
CONSTANTS Channels, Turns, None

VARIABLES
  holder,   \* channel -> the turn that is running in it, or None
  session,  \* channel -> its session, named by the turn that created it
  served    \* the turns that have been given their channel

vars == <<holder, session, served>>

Init ==
  /\ holder = [c \in Channels |-> None]
  /\ session = [c \in Channels |-> None]
  /\ served = {}

Acquire(c, t) ==
  /\ holder[c] = None
  /\ t \notin served
  /\ holder' = [holder EXCEPT ![c] = t]
  /\ served' = served \cup {t}
  /\ UNCHANGED session

\* The running turn reports its session: the channel's own, a new one if none.
Continue(c) ==
  /\ holder[c] # None
  /\ session' = [session EXCEPT ![c] = IF @ = None THEN holder[c] ELSE @]
  /\ UNCHANGED <<holder, served>>

Release(c) ==
  /\ holder[c] # None
  /\ holder' = [holder EXCEPT ![c] = None]
  /\ UNCHANGED <<session, served>>

\* A reset never happens under a running turn.
Forget(c) ==
  /\ holder[c] = None
  /\ session' = [session EXCEPT ![c] = None]
  /\ UNCHANGED <<holder, served>>

Next ==
  \E c \in Channels :
    \/ \E t \in Turns : Acquire(c, t)
    \/ Continue(c)
    \/ Release(c)
    \/ Forget(c)

Spec == Init /\ [][Next]_vars
=============================================================================
