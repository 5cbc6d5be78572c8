------------------------- MODULE ChannelSessionSerial -------------------------
(***************************************************************************)
(* ChannelSession in a quieter world: a message, a channel event or a      *)
(* confirmed reset arrives only while no handler of that channel is        *)
(* between its check for an active turn and the end of its set-up.  It may *)
(* arrive while a turn runs, which is what the check is for.  And no two   *)
(* channels share a wt-<slug> name, which stands for a worktree.  Under    *)
(* this assumption the code keeps the promise of Conversation and the rest *)
(* of what its documentation says; ChannelSession shows what happens       *)
(* without.                                                                *)
(***************************************************************************)
EXTENDS ChannelSession

\* No handler of channel c is under way, other than one that has handed over
\* to its run, waits for a confirmation, or only has its counters to update.
Quiet(c) ==
  /\ \A t \in Turns : turn[t].chan = c =>
       turn[t].pc \in {"running", "post", "done", "aborted", "cachemiss"}
  /\ \A k \in Cleanups : cleanup[k].chan = c =>
       cleanup[k].pc \in {"confirm", "done", "cancelled"}

\* The names a channel has, in the index, the table and the handlers under way,
\* or is about to get.  Nothing in the code keeps two channels from sharing one.
Uses(c) ==
  {index[c], row[c].name} \cup {turn[t].name : t \in {u \in Turns : turn[u].chan = c}}
    \cup UNION {{cleanup[k].name, cleanup[k].to} :
                 k \in {j \in Cleanups : cleanup[j].chan = c /\ cleanup[j].pc # "done"}}

Free(c, n) == \A d \in Channels \ {c} : n \notin Uses(d) \cap Slugs

SerialUserStep ==
  \/ \E c \in Channels, n \in Names : Free(c, n) /\ Register(c, n)
  \/ \E c \in Channels : DropCategory(c)
  \/ \E c \in Channels :
       /\ Quiet(c)
       /\ \/ \E t \in Turns : Arrive(t, c)
          \/ \E k \in Cleanups :
               \/ BeginDelete(k, c)
               \/ BeginReset(k, c)
               \/ cleanup[k].chan = c /\ Confirm(k)
               \/ \E n \in Names \cup {None} : Free(c, n) /\ BeginUpdate(k, c, n)

SerialCleanupStep(k) ==
  \/ Cancel(k) \/ KInterrupted(k) \/ KJoined(k) \/ ReadRecord(k) \/ CheckClean(k)
  \/ RemoveWorktree(k) \/ DeleteRow(k) \/ Unregister(k) \/ Reregister(k)

SerialNext ==
  \/ SerialUserStep
  \/ \E t \in Turns : TurnStep(t) \/ ClaudeStep(t)
  \/ \E k \in Cleanups : SerialCleanupStep(k)

SerialSpec == Init /\ [][SerialNext]_vars

-----------------------------------------------------------------------------
\* The turns that have been given their channel.
Served == {t \in Turns : turn[t].pc \in {"running", "post", "done"}}

\* The service's _active map is the holder, the session column the session.
Slot == INSTANCE Conversation WITH
          holder <- active,
          session <- [c \in Channels |-> row[c].session],
          served <- Served

\* One channel is one session: each turn runs alone in its channel and goes on
\* with the session the turns before it left, until a reset forgets it.
OneChannelOneSession == Slot!Spec

\* turn_count is the number of messages counted since the row was created:
\* one for each message, none for the many saves of a turn.
Counted(c) == {t \in Turns : turn[t].chan = c /\ turn[t].born = epoch[c] /\
                 turn[t].pc \in {"launch", "start", "running", "post", "done", "cachemiss"}}

TurnCountExact == \A c \in Channels : HasRow(c) => row[c].turns = Cardinality(Counted(c))

\* No teardown takes the working directory from under a live subprocess.
WorktreeUnderTurn ==
  \A t \in Turns : turn[t].proc \in {"running", "signalled"} => HasCwd(t)
=============================================================================
