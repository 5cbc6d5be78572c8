---------------------------- MODULE RequestDialogs ----------------------------
(***************************************************************************)
(* Requests that Claude makes in the middle of a turn and that are         *)
(* answered through its standard input: permissions, plans, links and      *)
(* forms.  EventProcessor posts a view for each; every callback first      *)
(* defers its interaction, then injects the answer and only then stops the *)
(* view, so that several users may answer, and the deadline may pass.      *)
(***************************************************************************)
EXTENDS Naturals

CONSTANTS
  Dialogs,  \* requests of one turn
  Forms,    \* the elicitations in form mode
  Skippable, \* the permission requests, which a skip-permissions run approves
  MaxRefusals \* bound on the interactions that Discord refuses to defer

ASSUME DialogsAssumption == Forms \subseteq Dialogs /\ Skippable \subseteq Dialogs \ Forms
ASSUME RefusalsAssumption == MaxRefusals \in Nat

VARIABLES
  stdin,    \* whether the process of the turn takes input
  dialog,   \* request -> its view: buttons, its form alone, or neither
  chosen,   \* request -> answers whose callback awaits defer
  injected, \* history: request -> the answers written, in order of arrival
  lapsed,   \* history: forms that were opened and brought no answer
  refusals  \* number of refusals

dlgVars == <<stdin, dialog, chosen, injected, lapsed, refusals>>

Answers == {"yes", "no"}

DlgTypeOK ==
  /\ stdin \in BOOLEAN
  /\ dialog \in [Dialogs -> {"none", "buttons", "form", "closed"}]
  /\ chosen \in [Dialogs -> SUBSET Answers]
  /\ injected \in [Dialogs -> {"nothing", "yes", "no", "both"}]
  /\ lapsed \subseteq Forms
  /\ refusals \in 0 .. MaxRefusals

DlgInit ==
  /\ stdin = TRUE
  /\ dialog = [d \in Dialogs |-> "none"]
  /\ chosen = [d \in Dialogs |-> {}]
  /\ injected = [d \in Dialogs |-> "nothing"]
  /\ lapsed = {}
  /\ refusals = 0

\* A line for the process, if it still reads; an error of the pipe is logged.
InjectToolResult(d, answer) ==
  \/ /\ stdin
     /\ injected' = [injected EXCEPT ![d] =
          IF @ \in {"nothing", answer} THEN answer ELSE "both"]
  \/ ~stdin /\ UNCHANGED injected

Shows(d, view) == dialog' = [dialog EXCEPT ![d] = view]

\* The event arrives: a skip-permissions run approves, any other asks.
RequestArrives(d) ==
  /\ stdin /\ dialog[d] = "none"
  /\ \/ /\ d \in Skippable
        /\ InjectToolResult(d, "yes")
        /\ Shows(d, "closed")
     \/ /\ Shows(d, "buttons")
        /\ UNCHANGED injected
  /\ UNCHANGED <<stdin, chosen, lapsed, refusals>>

\* A press starts its callback; until it has stopped the view, others may follow.
Choose(d, answer) ==
  /\ dialog[d] = "buttons"
  /\ ~(d \in Forms /\ answer = "yes")
  /\ chosen' = [chosen EXCEPT ![d] = @ \cup {answer}]
  /\ UNCHANGED <<stdin, dialog, injected, lapsed, refusals>>

DeferRaises(d, answer) ==
  /\ answer \in chosen[d]
  /\ chosen' = [chosen EXCEPT ![d] = @ \ {answer}]
  /\ refusals < MaxRefusals /\ refusals' = refusals + 1
  /\ UNCHANGED <<stdin, dialog, injected, lapsed>>

\* inject_tool_result, stop, and the disabled buttons.
\* Mutant: the view is stopped and nothing is injected.
ChoiceMadeUnsent(d, answer) ==
  /\ answer \in chosen[d]
  /\ chosen' = [chosen EXCEPT ![d] = @ \ {answer}]
  /\ Shows(d, "closed")
  /\ UNCHANGED <<stdin, injected, lapsed, refusals>>

ChoiceMade(d, answer) ==
  /\ answer \in chosen[d]
  /\ chosen' = [chosen EXCEPT ![d] = @ \ {answer}]
  /\ InjectToolResult(d, answer)
  /\ Shows(d, "closed")
  /\ UNCHANGED <<stdin, lapsed, refusals>>

\* The form opens, and the view with its deadline stops.
FormOpens(d) ==
  /\ d \in Forms /\ dialog[d] = "buttons"
  /\ Shows(d, "form")
  /\ UNCHANGED <<stdin, chosen, injected, lapsed, refusals>>

FormSubmitted(d) ==
  /\ dialog[d] = "form"
  /\ InjectToolResult(d, "yes")
  /\ Shows(d, "closed")
  /\ UNCHANGED <<stdin, chosen, lapsed, refusals>>

\* on_submit raises at its own defer, and nothing is injected: discord.py forgets
\* a form only after its on_submit or its deadline, so the user may submit it again.
SubmitRaises(d) ==
  /\ dialog[d] = "form"
  /\ refusals < MaxRefusals /\ refusals' = refusals + 1
  /\ UNCHANGED <<stdin, dialog, chosen, injected, lapsed>>

\* The form has a deadline and no on_timeout.
FormLapses(d) ==
  /\ dialog[d] = "form"
  /\ Shows(d, "closed")
  /\ lapsed' = lapsed \cup {d}
  /\ UNCHANGED <<stdin, chosen, injected, refusals>>

\* A press puts the deadline off, so no callback is on its way.
DialogTimesOut(d) ==
  /\ dialog[d] = "buttons" /\ chosen[d] = {}
  /\ InjectToolResult(d, "no")
  /\ Shows(d, "closed")
  /\ UNCHANGED <<stdin, chosen, lapsed, refusals>>

TurnEnds ==
  /\ stdin
  /\ stdin' = FALSE
  /\ UNCHANGED <<dialog, chosen, injected, lapsed, refusals>>

CallbackStep(d) == \E answer \in Answers : ChoiceMade(d, answer)

DlgNext ==
  \/ \E d \in Dialogs :
       \/ RequestArrives(d) \/ FormOpens(d) \/ FormSubmitted(d) \/ SubmitRaises(d)
       \/ FormLapses(d) \/ DialogTimesOut(d) \/ CallbackStep(d)
       \/ \E answer \in Answers : Choose(d, answer) \/ DeferRaises(d, answer)
  \/ TurnEnds

DlgSpec == DlgInit /\ [][DlgNext]_dlgVars

\* Deadlines pass and callbacks go on, when Discord has done with refusing.
DlgFairness ==
  \A d \in Dialogs :
    /\ WF_dlgVars(CallbackStep(d))
    /\ WF_dlgVars(DialogTimesOut(d))
    /\ WF_dlgVars(FormSubmitted(d) \/ FormLapses(d))

DlgFairSpec == DlgSpec /\ DlgFairness

\* A request that is shown gets an answer, or its turn is over, whatever the users
\* press together and Discord refuses; but a form that is opened and left, or that
\* Discord refuses to take and nobody submits again, stays unanswered, and Claude
\* waits for as long as the turn lasts.
RequestSettled ==
  \A d \in Dialogs :
    dialog[d] = "buttons" ~> injected[d] # "nothing" \/ ~stdin \/ d \in lapsed

=============================================================================
