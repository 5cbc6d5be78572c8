------------------------------ MODULE MCDialogs -------------------------------
(***************************************************************************)
(* What Claude asks the users and waits for: approvals of tools, and       *)
(* requests answered through its standard input.  The two share no state,  *)
(* so a behaviour of the bot is an interleaving of theirs and satisfies a  *)
(* property of one of them iff that one does: TLC lets one of them move in *)
(* each behaviour.                                                         *)
(***************************************************************************)
EXTENDS ApprovalBroker, RequestDialogs

VARIABLE moving

allVars == <<vars, dlgVars, moving>>

DialogsInit ==
  /\ Init /\ DlgInit
  /\ moving \in {"approvals", "requests"}

DialogsNext ==
  \/ moving = "approvals" /\ Next /\ UNCHANGED <<dlgVars, moving>>
  \/ moving = "requests" /\ DlgNext /\ UNCHANGED <<vars, moving>>

\* The fairness of each component, for the one that moves.
DialogsSpec ==
  /\ DialogsInit /\ [][DialogsNext]_allVars
  /\ \A r \in Requests : WF_vars(moving = "approvals" /\ RequestStep(r))
  /\ \A d \in Dialogs :
       /\ WF_dlgVars(moving = "requests" /\ CallbackStep(d))
       /\ WF_dlgVars(moving = "requests" /\ DialogTimesOut(d))
       /\ WF_dlgVars(moving = "requests" /\ (FormSubmitted(d) \/ FormLapses(d)))

\* Every variable has its type.
DialogsTypeOK == TypeOK /\ DlgTypeOK
=============================================================================
