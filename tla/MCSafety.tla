------------------------------- MODULE MCSafety -------------------------------
(***************************************************************************)
(* What must never happen, in the parts that run at the same time: the     *)
(* turns and tear-downs of channels, the sweeps of worktrees, questions,   *)
(* streamed text, and what a run shows besides.  As modelled the five      *)
(* share no state, so a behaviour of the bot is an interleaving of theirs  *)
(* and satisfies a property of one of them iff that one does: TLC lets one *)
(* of them move in each behaviour.  Of the turns there are two instances:  *)
(* one channel at a time with every name, whose tasks do not raise, and    *)
(* several without worktrees.  While calls that ask overlap there is one   *)
(* press at a time, and a run whose status was severed is not followed.    *)
(***************************************************************************)
EXTENDS MCChannelSession, Worktrees, AskAnswers, StreamingText, RunDisplay

VARIABLE moving

allVars == <<vars, wtVars, askVars, textVars, dispVars, moving>>

\* A component that does not move has one initial state.
SafetyInit ==
  /\ Init /\ WtInit /\ AskInit /\ TextInit /\ DispInit
  /\ moving \in {"one channel", "channels", "worktrees", "questions", "text", "display"}
  /\ moving # "worktrees" => disk = [w \in Trees |-> "none"]

\* The channels that anything is known of.
Known == {c \in Channels : index[c] # None \/ HasRow(c)}
           \cup {turn[t].chan : t \in Turns} \cup {cleanup[k].chan : k \in Cleanups}

SafetyNext ==
  \/ /\ Next
     /\ \/ /\ moving = "one channel" /\ Cardinality(Known' \ {None}) <= 1
           /\ \A t \in Turns : turn'[t].out # "raised"
        \/ moving = "channels" /\ \A c \in Channels : index'[c] \notin Slugs
     /\ UNCHANGED <<wtVars, askVars, textVars, dispVars, moving>>
  \/ moving = "worktrees" /\ WtNext /\ UNCHANGED <<vars, askVars, textVars, dispVars, moving>>
  \/ /\ moving = "questions" /\ AskNext
     /\ apart' \/ Open' <= 1
     /\ UNCHANGED <<vars, wtVars, textVars, dispVars, moving>>
  \/ moving = "text" /\ TextNext /\ UNCHANGED <<vars, wtVars, askVars, dispVars, moving>>
  \/ moving = "display" /\ ~severed /\ DispNext /\ UNCHANGED <<vars, wtVars, askVars, textVars, moving>>

SafetySpec == SafetyInit /\ [][SafetyNext]_allVars

\* Every variable has its type.
SafetyTypeOK == TypeOK /\ WtTypeOK /\ AskTypeOK /\ TextTypeOK /\ DispTypeOK

\* What is shown of a run beside its text comes to its final state.
DisplaySettles == ResultsStay /\ StatusSettles
=============================================================================
