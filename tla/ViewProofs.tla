------------------------------ MODULE ViewProofs ------------------------------
(***************************************************************************)
(* Theorems about what the users of a thread see and press: AskAnswers     *)
(* gives an answer to the question it was given to, StreamingText shows    *)
(* every part of a finished text, and RunDisplay brings the results, the   *)
(* timers and the reactions of a run to an end, for any calls, questions,  *)
(* restarts, lengths of texts and messages, tools and reruns.              *)
(***************************************************************************)
EXTENDS AskAnswers, StreamingText, RunDisplay, SequenceTheorems, TLAPS

-----------------------------------------------------------------------------
(***************************************************************************)
(* AskAnswers                                                              *)
(***************************************************************************)
\* Only a call that may ask more than one question comes to its second.
Numbered == \A r \in Askers : r \notin Longer => asker[r].q = 1

AskInv == AskTypeOK /\ Numbered /\ WaiterListens

LEMMA AskInitInv == AskInit => AskInv
  BY AskBoundsAssumption, NoViewAssumption
  DEF AskInit, AskInv, AskTypeOK, AskSteps, Numbered, WaiterListens, Views

\* The question a call is at.
LEMMA ViewType ==
  ASSUME AskInv, NEW r \in Askers
  PROVE  View(r) \in Views /\ View(r) # NoView /\ View(r)[1] = r /\ View(r)[2] = asker[r].q
  BY AskBoundsAssumption, NoViewAssumption DEF AskInv, AskTypeOK, Numbered, View, Views

\* A question has a call and a number.
LEMMA ViewParts ==
  ASSUME NEW v \in Views
  PROVE  v[1] \in Askers /\ v[2] \in 1 .. MaxQuestions
  BY AskBoundsAssumption DEF Views

\* A call that goes on to its next question or ends keeps its number in bounds,
\* and nobody is handed over to it any more.
LEMMA NextQuestionInv ==
  ASSUME AskInv, NEW r \in Askers, NextQuestion(r)
  PROVE  /\ asker' \in [Askers -> [q : 1 .. MaxQuestions, at : AskSteps]]
         /\ Numbered'
         /\ \A s \in Askers \ {r} : asker'[s] = asker[s]
<1>1. CASE AskerGoes(r, "over")
  BY <1>1 DEF AskerGoes, AskInv, AskTypeOK, AskSteps, Numbered
<1>2. CASE /\ r \in Longer /\ asker[r].q < MaxQuestions
           /\ asker' = [asker EXCEPT ![r] = [q |-> @.q + 1, at |-> "save"]]
  BY <1>2, AskBoundsAssumption DEF AskInv, AskTypeOK, AskSteps, Numbered
<1> QED
  BY <1>1, <1>2 DEF NextQuestion

LEMMA AskerGoesInv ==
  ASSUME AskInv, NEW r \in Askers, NEW at \in AskSteps, AskerGoes(r, at)
  PROVE  /\ asker' \in [Askers -> [q : 1 .. MaxQuestions, at : AskSteps]]
         /\ Numbered'
         /\ \A s \in Askers \ {r} : asker'[s] = asker[s]
         /\ asker'[r].q = asker[r].q /\ asker'[r].at = at
  BY DEF AskerGoes, AskInv, AskTypeOK, Numbered

LEMMA AskerInv ==
  ASSUME AskInv, NEW r \in Askers, AskStart(r) \/ AskerStep(r) \/ SendFails(r)
  PROVE  AskInv'
<1> USE DEF AskSteps
<1>0. View(r) \in Views /\ View(r) # NoView /\ View(r)[1] = r /\ View(r)[2] = asker[r].q
  BY ViewType
<1>1. \A v \in Views : v[1] \in Askers
  BY ViewParts
<1>2. CASE AskStart(r)
  <2>1. AskerGoes(r, "save") BY <1>2 DEF AskStart
  <2> QED
    BY <1>1, <1>2, <2>1, AskerGoesInv
    DEF AskStart, AskInv, AskTypeOK, WaiterListens, busVars, viewVars, Asking
<1>3. CASE SaveQuestion(r)
  <2>1. AskerGoes(r, "send") BY <1>3 DEF SaveQuestion
  <2> QED
    BY <1>0, <1>3, <2>1, AskerGoesInv
    DEF SaveQuestion, AskInv, AskTypeOK, WaiterListens, viewVars
<1>4. CASE ShowView(r)
  <2>1. AskerGoes(r, "wait") BY <1>4 DEF ShowView
  <2>2. AskTypeOK'
    BY <1>0, <1>4, <2>1, AskerGoesInv DEF ShowView, AskInv, AskTypeOK, busVars
  <2> QED
    BY <1>0, <1>1, <1>4, <2>1, <2>2, AskerGoesInv
    DEF ShowView, AskInv, AskTypeOK, WaiterListens, busVars
<1>5. CASE SendFails(r)
  <2>1. AskerGoes(r, "failed") BY <1>5 DEF SendFails
  <2> QED
    BY <1>0, <1>1, <1>5, <2>1, AskerGoesInv
    DEF SendFails, AskInv, AskTypeOK, WaiterListens, busVars, viewVars
<1>6. CASE TakeAnswer(r)
  <2>1. AskerGoes(r, "forget") BY <1>6 DEF TakeAnswer
  <2> QED
    BY <1>0, <1>6, <2>1, AskerGoesInv
    DEF TakeAnswer, FirstAnswer, AskInv, AskTypeOK, WaiterListens, viewVars
<1>7. CASE QuestionExpires(r)
  <2>1. AskerGoes(r, "expire") BY <1>7 DEF QuestionExpires
  <2> QED
    BY <1>7, <2>1, AskerGoesInv
    DEF QuestionExpires, AskInv, AskTypeOK, WaiterListens, viewVars
<1>8. CASE RowDropped(r)
  <2>1. AskerGoes(r, "inert") BY <1>8 DEF RowDropped
  <2> QED
    BY <1>1, <1>8, <2>1, AskerGoesInv
    DEF RowDropped, AskInv, AskTypeOK, WaiterListens, viewVars
<1>9. CASE MadeInert(r)
  <2>1. NextQuestion(r) BY <1>9 DEF MadeInert
  <2> QED
    BY <1>9, <2>1, NextQuestionInv
    DEF MadeInert, CloseMessage, AskInv, AskTypeOK, WaiterListens
<1>10. CASE Forget(r)
  <2>1. NextQuestion(r) BY <1>10 DEF Forget
  <2> QED
    BY <1>1, <1>10, <2>1, NextQuestionInv
    DEF Forget, AskInv, AskTypeOK, WaiterListens, viewVars
<1> QED
  BY <1>2, <1>3, <1>4, <1>5, <1>6, <1>7, <1>8, <1>9, <1>10 DEF AskerStep

\* An answer enters the queue of the question that waits, or of none.
LEMMA DeliverInv ==
  ASSUME AskInv, NEW v \in Views, NEW by \in {"press", "form"}, Deliver(v, by)
  PROVE  /\ callbacks' \subseteq Callbacks
         /\ inbox' \in [Views -> Views \cup {NoView}]
         /\ late' \subseteq Views /\ misfits' \subseteq Views
         /\ UNCHANGED <<asker, waiter, asked, buttons, alive, reboots, apart>>
<1>1. [view |-> v, by |-> by, taken |-> waiter # NoView] \in Callbacks
  BY DEF Callbacks
<1>2. callbacks' \subseteq Callbacks
  BY <1>1 DEF Deliver, AskInv, AskTypeOK
<1>3. inbox' \in [Views -> Views \cup {NoView}]
  BY DEF Deliver, PostAnswer, AskInv, AskTypeOK
<1>4. late' \subseteq Views /\ misfits' \subseteq Views
  BY DEF Deliver, PostAnswer, AskInv, AskTypeOK
<1> QED
  BY <1>2, <1>3, <1>4 DEF Deliver

\* A callback that Discord has answered closes its view, stops it or leaves it.
LEMMA ViewStepInv ==
  ASSUME AskInv, NEW k \in callbacks, ViewStep(k)
  PROVE  /\ callbacks' \subseteq Callbacks /\ asked' \in Views \cup {NoView}
         /\ buttons' \subseteq Views /\ alive' \subseteq buttons'
         /\ UNCHANGED <<asker, waiter, inbox, late, forms, reboots, misfits, apart>>
<1>1. CASE Acknowledge(k)
  BY <1>1 DEF Acknowledge, CloseMessage, busVars, AskInv, AskTypeOK
<1>2. CASE DropStale(k)
  BY <1>2 DEF DropStale, CloseMessage, AskInv, AskTypeOK
<1> QED
  BY <1>1, <1>2 DEF ViewStep

LEMMA CallbackInv ==
  ASSUME AskInv,
         \/ \E v \in Views : PressView(v) \/ OpenForm(v) \/ SubmitForm(v)
         \/ \E k \in callbacks : ViewStep(k)
  PROVE  AskInv'
<1>1. ASSUME NEW v \in Views, PressView(v) \/ SubmitForm(v) PROVE AskInv'
  <2>1. PICK by \in {"press", "form"} : Deliver(v, by) /\ forms' \subseteq forms
    BY <1>1 DEF PressView, SubmitForm
  <2> QED
    BY <2>1, DeliverInv DEF AskInv, AskTypeOK, Numbered, WaiterListens
<1>2. ASSUME NEW v \in Views, OpenForm(v) PROVE AskInv'
  BY <1>2 DEF OpenForm, busVars, AskInv, AskTypeOK, Numbered, WaiterListens
<1>3. ASSUME NEW k \in callbacks, ViewStep(k) PROVE AskInv'
  BY <1>3, ViewStepInv DEF AskInv, AskTypeOK, Numbered, WaiterListens
<1> QED
  BY <1>1, <1>2, <1>3

LEMMA RestartInv ==
  ASSUME AskInv, Reboot \/ RestoreViews
  PROVE  AskInv'
<1>1. CASE Reboot
  BY <1>1, AskBoundsAssumption
  DEF Reboot, Asking, AskInv, AskTypeOK, AskSteps, Numbered, WaiterListens
<1>2. CASE RestoreViews
  BY <1>2 DEF RestoreViews, busVars, AskInv, AskTypeOK, Numbered, WaiterListens
<1> QED
  BY <1>1, <1>2

\* The inductive invariant of the questions holds in every reachable state.
THEOREM AskInvariant == AskSpec => []AskInv
<1>1. AskInv /\ UNCHANGED askVars => AskInv'
  BY DEF askVars, AskInv, AskTypeOK, Numbered, WaiterListens
<1>2. AskInv /\ [AskNext]_askVars => AskInv'
  BY <1>1, AskerInv, CallbackInv, RestartInv DEF AskNext
<1> QED
  BY <1>2, AskInitInv, PTL DEF AskSpec

\* Whoever the bus would hand an answer to waits for the answer to that question
\* (ask_bus.py, register and unregister), for any number of calls, questions,
\* presses and restarts, although calls overwrite and remove each other's waiters.
THEOREM WaitersListen == AskSpec => []WaiterListens
<1>1. AskInv => WaiterListens
  BY DEF AskInv
<1> QED
  BY <1>1, AskInvariant, PTL

\* Every variable of AskAnswers keeps its type.
THEOREM AskTypeCorrect == AskSpec => []AskTypeOK
<1>1. AskInv => AskTypeOK
  BY DEF AskInv
<1> QED
  BY <1>1, AskInvariant, PTL

\* One call at a time asks in the thread, the bus knows it by its question, and
\* what is in a queue is an answer to it or came late.
InTurn ==
  /\ \A r, s \in Askers : Asking(r) /\ Asking(s) => r = s
  /\ \A r \in Askers : asker[r].at \in {"send", "wait"} => waiter = View(r)

OwnAnswers == \A v \in Views : inbox[v] = NoView \/ inbox[v] = v \/ v \in late

ApartInv == InTurn /\ OwnAnswers /\ misfits = {}

FitInv == AskInv /\ (apart => ApartInv)

LEMMA FitInit == AskInit => FitInv
<1> SUFFICES ASSUME AskInit PROVE FitInv
  OBVIOUS
<1>1. \A r \in Askers : ~Asking(r) /\ asker[r].at = "idle"
  BY DEF AskInit, Asking
<1>2. InTurn /\ OwnAnswers /\ misfits = {}
  BY <1>1 DEF AskInit, InTurn, OwnAnswers
<1> QED
  BY <1>2, AskInitInv DEF FitInv, ApartInv

\* In a thread whose calls do not overlap no other call is under way.
LEMMA Alone ==
  ASSUME FitInv, NEW r \in Askers, AskStart(r) \/ AskerStep(r) \/ SendFails(r), apart'
  PROVE  apart /\ \A s \in Askers \ {r} : ~Asking(s) /\ asker'[s] = asker[s]
<1>1. apart
  BY DEF AskStart, AskerStep, SendFails, SaveQuestion, ShowView, TakeAnswer, QuestionExpires,
     RowDropped, MadeInert, Forget
<1>2. ASSUME NEW s \in Askers \ {r} PROVE ~Asking(s)
  <2>1. CASE AskStart(r)
    BY <2>1 DEF AskStart
  <2>2. CASE ~AskStart(r)
    <3>1. Asking(r)
      BY <2>2 DEF AskerStep, SendFails, SaveQuestion, ShowView, TakeAnswer, FirstAnswer,
         QuestionExpires, RowDropped, MadeInert, Forget, Asking
    <3> QED
      BY <1>1, <3>1 DEF FitInv, ApartInv, InTurn
  <2> QED
    BY <2>1, <2>2
<1>3. ASSUME NEW at \in AskSteps, AskerGoes(r, at) PROVE \A s \in Askers \ {r} : asker'[s] = asker[s]
  BY <1>3, AskerGoesInv DEF FitInv
<1>4. ASSUME NextQuestion(r) PROVE \A s \in Askers \ {r} : asker'[s] = asker[s]
  BY <1>4, NextQuestionInv DEF FitInv
<1>5. \A s \in Askers \ {r} : asker'[s] = asker[s]
  BY <1>3, <1>4 DEF AskSteps, AskStart, AskerStep, SendFails, SaveQuestion, ShowView, TakeAnswer,
     QuestionExpires, RowDropped, MadeInert, Forget
<1> QED
  BY <1>1, <1>2, <1>5

\* The call that comes to wait is the one that the bus has registered.
LEMMA AskerInTurn ==
  ASSUME FitInv, NEW r \in Askers, AskStart(r) \/ AskerStep(r) \/ SendFails(r), apart'
  PROVE  InTurn'
<1>1. InTurn /\ AskInv
  BY Alone DEF FitInv, ApartInv
<1>2. ASSUME NEW s \in Askers \ {r} PROVE ~Asking(s)' /\ asker'[s].at \notin {"send", "wait"}
  BY <1>2, Alone DEF Asking
<1>3. ASSUME NEW at \in AskSteps, AskerGoes(r, at)
      PROVE  asker'[r].at = at /\ View(r)' = View(r)
  BY <1>1, <1>3, AskerGoesInv DEF View
<1>4. asker'[r].at \in {"send", "wait"} => waiter' = View(r)'
  <2>1. CASE AskStart(r) \/ SendFails(r) \/ TakeAnswer(r) \/ QuestionExpires(r) \/ RowDropped(r)
    BY <1>3, <2>1 DEF AskStart, SendFails, TakeAnswer, QuestionExpires, RowDropped, AskSteps
  <2>2. CASE SaveQuestion(r)
    BY <1>3, <2>2 DEF SaveQuestion, AskSteps
  <2>3. CASE ShowView(r)
    BY <1>1, <1>3, <2>3 DEF ShowView, InTurn, AskSteps, busVars
  <2>4. CASE MadeInert(r) \/ Forget(r)
    <3>1. NextQuestion(r)
      BY <2>4 DEF MadeInert, Forget
    <3>2. asker \in [Askers -> [q : 1 .. MaxQuestions, at : AskSteps]]
      BY <1>1 DEF AskInv, AskTypeOK
    <3>3. CASE AskerGoes(r, "over")
      BY <1>3, <3>3 DEF AskSteps
    <3>4. CASE asker' = [asker EXCEPT ![r] = [q |-> @.q + 1, at |-> "save"]]
      BY <3>2, <3>4
    <3> QED
      BY <3>1, <3>3, <3>4 DEF NextQuestion
  <2> QED
    BY <2>1, <2>2, <2>3, <2>4 DEF AskerStep
<1> QED
  BY <1>2, <1>4 DEF InTurn

\* A queue loses its answer, which is its own or came late.
LEMMA AskerOwn ==
  ASSUME FitInv, NEW r \in Askers, AskStart(r) \/ AskerStep(r) \/ SendFails(r), apart'
  PROVE  OwnAnswers' /\ misfits' = {}
<1>1. apart /\ OwnAnswers /\ misfits = {} /\ AskInv
  BY Alone DEF FitInv, ApartInv
<1>2. View(r) \in Views /\ inbox \in [Views -> Views \cup {NoView}]
  BY <1>1, ViewType DEF AskInv, AskTypeOK
<1>3. CASE TakeAnswer(r)
  BY <1>1, <1>2, <1>3 DEF TakeAnswer, FirstAnswer, OwnAnswers
<1>4. CASE ~TakeAnswer(r)
  <2>1. UNCHANGED <<inbox, late, misfits>>
    BY <1>4 DEF AskStart, AskerStep, SendFails, SaveQuestion, ShowView, QuestionExpires,
       RowDropped, MadeInert, Forget, busVars
  <2> QED
    BY <1>1, <2>1 DEF OwnAnswers
<1> QED
  BY <1>3, <1>4

\* An answer in time finds the very question it belongs to.
LEMMA AnswerInTime ==
  ASSUME FitInv, apart, NEW v \in Views, Waits(v)
  PROVE  waiter = v /\ v # NoView
<1>1. v[1] \in Askers /\ v = <<v[1], v[2]>>
  BY ViewParts DEF Views
<1>2. waiter = View(v[1])
  BY <1>1 DEF FitInv, ApartInv, InTurn, Waits
<1> QED
  BY <1>1, <1>2, NoViewAssumption DEF View, Waits

LEMMA CallbackFit ==
  ASSUME FitInv, apart',
         \/ \E v \in Views : PressView(v) \/ OpenForm(v) \/ SubmitForm(v)
         \/ \E k \in callbacks : ViewStep(k)
  PROVE  ApartInv'
<1>1. ASSUME NEW v \in Views, NEW by \in {"press", "form"}, Deliver(v, by) PROVE ApartInv'
  <2>1. /\ UNCHANGED <<asker, waiter, apart>> /\ ApartInv
        /\ inbox \in [Views -> Views \cup {NoView}]
    BY <1>1, DeliverInv DEF FitInv, AskInv, AskTypeOK
  <2>2. InTurn'
    BY <2>1 DEF ApartInv, InTurn, Asking, View
  <2>3. CASE waiter # NoView /\ PostAnswer(v) /\ UNCHANGED misfits
    <3>1. inbox' = [inbox EXCEPT ![waiter] = IF inbox[waiter] = NoView THEN v ELSE inbox[waiter]]
      BY <2>3 DEF PostAnswer
    <3>2. late \subseteq late'
      BY <2>3 DEF PostAnswer
    <3>3. inbox[waiter] = NoView => waiter = v \/ waiter \in late'
      BY <2>1, <2>3, AnswerInTime DEF PostAnswer
    <3>4. OwnAnswers'
      BY <2>1, <3>1, <3>2, <3>3 DEF ApartInv, OwnAnswers
    <3> QED
      BY <2>1, <2>2, <2>3, <3>4 DEF ApartInv
  <2>4. CASE waiter = NoView /\ UNCHANGED <<inbox, late>>
    <3>1. ~Waits(v)
      BY <2>1, <2>4, AnswerInTime
    <3>2. misfits' = misfits
      BY <1>1, <2>4, <3>1 DEF Deliver
    <3> QED
      BY <2>1, <2>2, <2>4, <3>2 DEF ApartInv, OwnAnswers
  <2> QED
    BY <1>1, <2>3, <2>4 DEF Deliver
<1>2. ASSUME NEW v \in Views, OpenForm(v) PROVE ApartInv'
  BY <1>2 DEF OpenForm, busVars, FitInv, ApartInv, InTurn, OwnAnswers, Asking, View
<1>3. ASSUME NEW k \in callbacks, ViewStep(k) PROVE ApartInv'
  BY <1>3, ViewStepInv DEF FitInv, ApartInv, InTurn, OwnAnswers, Asking, View
<1> QED
  BY <1>1, <1>2, <1>3 DEF PressView, SubmitForm

LEMMA RestartFit ==
  ASSUME FitInv, Reboot \/ RestoreViews, apart'
  PROVE  ApartInv'
<1>1. CASE Reboot
  <2>1. /\ UNCHANGED <<misfits, apart>> /\ \A v \in Views : inbox'[v] = NoView
    BY <1>1 DEF Reboot
  <2>2. \A r \in Askers : asker'[r].at = IF Asking(r) THEN "over" ELSE asker[r].at
    BY <1>1 DEF Reboot, FitInv, AskInv, AskTypeOK
  <2>3. \A r \in Askers : ~Asking(r)'
    BY <2>2 DEF Asking
  <2>4. InTurn'
    BY <2>3 DEF InTurn, Asking
  <2> QED
    BY <2>1, <2>4 DEF FitInv, ApartInv, OwnAnswers
<1>2. CASE RestoreViews
  BY <1>2 DEF RestoreViews, busVars, FitInv, ApartInv, InTurn, OwnAnswers, Asking, View
<1> QED
  BY <1>1, <1>2

\* The inductive invariant of the answers holds in every reachable state.
THEOREM FitInvHolds == AskSpec => []FitInv
<1>1. FitInv /\ AskNext => AskInv'
  BY AskerInv, CallbackInv, RestartInv DEF AskNext, FitInv
<1>2. FitInv /\ AskNext /\ apart' => ApartInv'
  BY AskerInTurn, AskerOwn, CallbackFit, RestartFit DEF AskNext, ApartInv
<1>3. FitInv /\ UNCHANGED askVars => FitInv'
  BY DEF askVars, FitInv, AskInv, AskTypeOK, Numbered, WaiterListens, ApartInv, InTurn, OwnAnswers,
     Asking, View
<1>4. FitInv /\ [AskNext]_askVars => FitInv'
  BY <1>1, <1>2, <1>3 DEF FitInv
<1> QED
  BY <1>4, FitInit, PTL DEF AskSpec

\* An answer given while its question waits goes to that question (ask_view.py and
\* ask_bus.py, post_answer, register and unregister), for any number of calls,
\* questions, presses, forms, refused edits and restarts, in a thread whose calls
\* do not overlap.
THEOREM AnswersFit == AskSpec => []AnswerFits
<1>1. FitInv => AnswerFits
  BY DEF FitInv, ApartInv, AnswerFits
<1> QED
  BY <1>1, FitInvHolds, PTL

-----------------------------------------------------------------------------
(***************************************************************************)
(* StreamingText                                                           *)
(***************************************************************************)
Part == [lo : 0 .. MaxText, hi : 0 .. MaxText]

\* The first n characters are in messages other than those in X.
Covers(ps, n, X) ==
  \A u \in 1 .. n :
    \E i \in 1 .. Len(ps) : i \notin X /\ ps[i].lo < u /\ u <= ps[i].hi

\* A message whose handle is on its way is nobody else's yet.
Handles ==
  /\ writer.made # 0 => writer.at \in {"cut", "flush", "rest"} /\ writer.made # current
  /\ delayed.made # 0 => delayed.at = "flush" /\ delayed.made \notin {current, writer.made}

\* How far the buffer and the phases of the block are.
Phases ==
  /\ from <= to
  /\ block = "open" \/ writer.at # "ready" => to = said
  /\ writer.closing <=> block = "closed" /\ writer.at # "ready"
  /\ writer.at \in {"tail", "rest"} => writer.closing
  /\ writer.at = "drain" => HasContent
  /\ writer.at = "cut" => from + Limit < to
  /\ block = "open" /\ ~HasContent => delayed.at = "none"
  /\ writer.at = "rest" \/ (block = "closed" /\ writer.at = "ready") => delayed.at = "none"

\* What is behind the buffer is in messages that nothing will edit again.
Kept ==
  IF writer.at = "rest" THEN Covers(posts, from, {})
  ELSE IF block = "closed" /\ writer.at = "ready" THEN Covers(posts, said, {})
  ELSE Covers(posts, from, {current, writer.made, delayed.made})

\* What the writer is about to leave behind is in a message.
CutShown ==
  writer.at = "cut" =>
    \E i \in 1 .. Len(posts) :
      i # delayed.made /\ posts[i] = [lo |-> from, hi |-> from + Limit]

TextInv ==
  /\ TextTypeOK /\ posts \in Seq(Part)
  /\ Handles /\ Phases
  /\ ~refused => Kept /\ CutShown

LEMMA TextInitInv == TextInit => TextInv
<1> SUFFICES ASSUME TextInit PROVE TextInv
  OBVIOUS
<1>1. posts \in Seq(Part) /\ Len(posts) = 0
  BY DEF TextInit
<1>2. TextTypeOK
  <2>1. writer \in [at : WriterSteps, made : 0 .. Len(posts), closing : BOOLEAN]
    BY <1>1 DEF TextInit, NoRequest, WriterSteps
  <2>2. delayed \in [at : {"none", "sleep", "flush"}, made : 0 .. Len(posts)]
    BY <1>1 DEF TextInit
  <2>3. said = 0 /\ block = "open" /\ from = 0 /\ to = 0 /\ current = 0
    BY DEF TextInit
  <2>4. refused \in BOOLEAN
    BY Zenon DEF TextInit
  <2> QED
    BY <1>1, <2>1, <2>2, <2>3, <2>4, TextAssumption DEF TextTypeOK
<1>3. Handles /\ Phases
  BY DEF TextInit, Handles, Phases, NoRequest, HasContent
<1>4. Kept /\ CutShown
  BY DEF TextInit, NoRequest, Kept, CutShown, Covers
<1> QED
  BY <1>1, <1>2, <1>3, <1>4 DEF TextInv

\* Text stays shown when the messages that show it stay as they are and stay out
\* of reach, and more of it is shown when other messages show it.
LEMMA CoversMore ==
  ASSUME NEW ps, NEW qs, NEW n \in Nat, NEW m \in Nat, NEW X, NEW Y,
         Len(ps) \in Nat, Len(qs) \in Nat, Len(ps) <= Len(qs),
         Covers(ps, n, X),
         \A i \in 1 .. Len(ps) : i \notin X => i \notin Y /\ qs[i] = ps[i],
         \A u \in 1 .. m : n < u =>
           \E j \in 1 .. Len(qs) : j \notin Y /\ qs[j].lo < u /\ u <= qs[j].hi
  PROVE  Covers(qs, m, Y)
<1> SUFFICES ASSUME NEW u \in 1 .. m
             PROVE  \E i \in 1 .. Len(qs) : i \notin Y /\ qs[i].lo < u /\ u <= qs[i].hi
  BY DEF Covers
<1>1. CASE n < u
  BY <1>1
<1>2. CASE u <= n
  <2>1. PICK i \in 1 .. Len(ps) : i \notin X /\ ps[i].lo < u /\ u <= ps[i].hi
    BY <1>2 DEF Covers
  <2>2. i \in 1 .. Len(qs) /\ i \notin Y /\ qs[i] = ps[i]
    BY <2>1
  <2> QED
    BY <2>1, <2>2
<1> QED
  BY <1>1, <1>2

\* The ranges of the variables, and of the messages by their numbers.
LEMMA TextFacts ==
  ASSUME TextInv
  PROVE  /\ Limit \in Nat \ {0} /\ MaxText \in Nat
         /\ said \in 0 .. MaxText /\ from \in 0 .. MaxText /\ to \in 0 .. MaxText /\ from <= to
         /\ Len(posts) \in Nat /\ posts \in Seq(Part)
         /\ \A i \in 1 .. Len(posts) : posts[i] \in Part
         /\ current \in 0 .. Len(posts)
         /\ writer \in [at : WriterSteps, made : 0 .. Len(posts), closing : BOOLEAN]
         /\ delayed \in [at : {"none", "sleep", "flush"}, made : 0 .. Len(posts)]
         /\ refused \in BOOLEAN /\ block \in {"open", "closed"}
BY TextAssumption, ElementOfSeq DEF TextInv, TextTypeOK, Phases, Part

\* A request edits the current message or makes a new one, which then shows the
\* buffer up to hi, or Discord refuses it; the other messages stay.
LEMMA FlushPosts ==
  ASSUME TextInv, NEW hi \in 0 .. MaxText, NEW made \in Made, FlushMakes(hi, made)
  PROVE  /\ posts' \in Seq(Part) /\ Len(posts') \in Nat /\ Len(posts) <= Len(posts')
         /\ \A i \in 1 .. Len(posts) : i # current => posts'[i] = posts[i]
         /\ made \in 0 .. Len(posts')
         /\ made # 0 => made = Len(posts) + 1 /\ current = 0
         /\ refused' \in BOOLEAN /\ (~refused' => ~refused)
         /\ HasContent /\ ~refused' =>
              /\ Bound(made) \in 1 .. Len(posts')
              /\ posts'[Bound(made)] = [lo |-> from, hi |-> hi]
         /\ made = 0 \/ HasContent
<1> DEFINE part == [lo |-> from, hi |-> hi]
<1>0. part \in Part
  BY TextFacts DEF Part
<1>1. CASE HasContent /\ current = 0 /\ posts' = Append(posts, part)
           /\ made = Len(posts) + 1 /\ refused' = refused
  <2>1. /\ posts' \in Seq(Part) /\ Len(posts') = Len(posts) + 1
        /\ \A i \in 1 .. Len(posts) : posts'[i] = posts[i]
        /\ posts'[Len(posts) + 1] = part
    BY <1>0, <1>1, TextFacts, AppendProperties
  <2> HIDE DEF part
  <2>2. Bound(made) = Len(posts) + 1
    BY <1>1, TextFacts DEF Bound
  <2> QED
    BY <1>1, <2>1, <2>2, TextFacts DEF part
<1>2. CASE HasContent /\ current # 0 /\ posts' = [posts EXCEPT ![current] = part]
           /\ made = 0 /\ refused' = refused
  <2>1. current \in 1 .. Len(posts)
    BY <1>2, TextFacts
  <2>2. /\ posts' \in Seq(Part) /\ Len(posts') = Len(posts)
        /\ \A i \in 1 .. Len(posts) : posts'[i] = IF i = current THEN part ELSE posts[i]
    BY <1>0, <1>2, <2>1, TextFacts, ExceptSeq
  <2> HIDE DEF part
  <2> QED
    BY <1>2, <2>1, <2>2, TextFacts DEF Bound, part
<1>3. CASE made = 0 /\ posts' = posts /\ refused' = TRUE
  BY <1>3, TextFacts
<1>4. CASE made = 0 /\ posts' = posts /\ ~HasContent /\ refused' = refused
  BY <1>4, TextFacts
<1> QED
  BY <1>1, <1>2, <1>3, <1>4 DEF FlushMakes


\* What is kept stays kept when only messages within reach are edited.
LEMMA KeptStays ==
  ASSUME TextInv, ~refused, NEW n \in 0 .. MaxText, NEW X, NEW Y, Covers(posts, n, X),
         Len(posts') \in Nat, Len(posts) <= Len(posts'),
         \A i \in 1 .. Len(posts) : i \notin X => posts'[i] = posts[i] /\ i \notin Y
  PROVE  Covers(posts', n, Y)
<1> SUFFICES ASSUME NEW u \in 1 .. n
             PROVE  \E i \in 1 .. Len(posts') :
                      i \notin Y /\ posts'[i].lo < u /\ u <= posts'[i].hi
  BY DEF Covers
<1>1. Len(posts) \in Nat
  BY TextFacts
<1>2. PICK i \in 1 .. Len(posts) : i \notin X /\ posts[i].lo < u /\ u <= posts[i].hi
  BY DEF Covers
<1>3. i \in 1 .. Len(posts') /\ i \notin Y /\ posts'[i] = posts[i]
  BY <1>1, <1>2
<1> QED
  BY <1>2, <1>3

\* Types survive the arrival of a message.
LEMMA TypesGrow ==
  ASSUME TextInv, posts' \in Seq(Part), Len(posts') \in Nat, Len(posts) <= Len(posts'),
         said' \in 0 .. MaxText, from' \in 0 .. MaxText, to' \in 0 .. MaxText,
         block' \in {"open", "closed"}, refused' \in BOOLEAN,
         current' \in 0 .. Len(posts'),
         writer' \in [at : WriterSteps, made : 0 .. Len(posts'), closing : BOOLEAN],
         delayed' \in [at : {"none", "sleep", "flush"}, made : 0 .. Len(posts')]
  PROVE  TextTypeOK'
<1>1. \A i \in 1 .. Len(posts') : posts'[i] \in [lo : 0 .. MaxText, hi : 0 .. MaxText]
  BY ElementOfSeq DEF Part
<1> QED
  BY <1>1 DEF TextTypeOK

LEMMA CoroutinesGrow ==
  ASSUME TextInv, NEW n \in Nat, Len(posts) <= n
  PROVE  /\ writer \in [at : WriterSteps, made : 0 .. n, closing : BOOLEAN]
         /\ delayed \in [at : {"none", "sleep", "flush"}, made : 0 .. n]
         /\ current \in 0 .. n
<1>1. 0 .. Len(posts) \subseteq 0 .. n
  BY TextFacts
<1> QED
  BY <1>1, TextFacts

\* The events change the buffer, and close the block.
LEMMA PartialTextInv ==
  ASSUME TextInv, PartialText
  PROVE  TextInv'
<1>1. PICK n \in said + 1 .. MaxText :
        /\ said' = n /\ to' = n
        /\ UNCHANGED <<block, from, current, posts, delayed, refused>>
        /\ writer' = [writer EXCEPT !.at = "drain"] /\ block = "open" /\ writer.at = "ready"
  BY DEF PartialText
<1>2. /\ writer'.at = "drain" /\ writer'.made = writer.made /\ writer'.closing = writer.closing
      /\ writer' \in [at : WriterSteps, made : 0 .. Len(posts), closing : BOOLEAN]
  BY <1>1, TextFacts DEF WriterSteps
<1>3. TextTypeOK' /\ posts' \in Seq(Part)
  BY <1>1, <1>2, TextFacts DEF TextInv, TextTypeOK
<1>4. Handles'
  BY <1>1, <1>2 DEF TextInv, Handles
<1>5. Phases'
  BY <1>1, <1>2, TextFacts DEF TextInv, Phases, HasContent
<1>6. ~refused' => Kept' /\ CutShown'
  BY <1>1, <1>2 DEF TextInv, Kept, CutShown
<1> QED
  BY <1>3, <1>4, <1>5, <1>6 DEF TextInv

LEMMA CompleteTextInv ==
  ASSUME TextInv, CompleteText
  PROVE  TextInv'
<1>1. PICK n \in said .. MaxText :
        /\ said' = n /\ to' = n /\ block' = "closed"
        /\ UNCHANGED <<from, current, posts, delayed, refused>>
        /\ writer' = [writer EXCEPT !.at = IF n = said THEN "tail" ELSE "drain",
                                    !.closing = TRUE]
        /\ block = "open" /\ writer.at = "ready" /\ HasContent
  BY DEF CompleteText
<1>2. /\ writer'.at \in {"tail", "drain"} /\ writer'.made = writer.made /\ writer'.closing
      /\ writer' \in [at : WriterSteps, made : 0 .. Len(posts), closing : BOOLEAN]
  BY <1>1, TextFacts DEF WriterSteps
<1>3. TextTypeOK' /\ posts' \in Seq(Part)
  BY <1>1, <1>2, TextFacts DEF TextInv, TextTypeOK
<1>4. Handles'
  BY <1>1, <1>2 DEF TextInv, Handles
<1>5. Phases'
  BY <1>1, <1>2, TextFacts DEF TextInv, Phases, HasContent
<1>6. ~refused' => Kept' /\ CutShown'
  BY <1>1, <1>2 DEF TextInv, Kept, CutShown
<1> QED
  BY <1>3, <1>4, <1>5, <1>6 DEF TextInv

\* Without partial texts there is one message or more with all of it.
LEMMA WholeTextInv ==
  ASSUME TextInv, WholeText
  PROVE  TextInv'
<1> DEFINE part == [lo |-> 0, hi |-> said']
<1>1. /\ block = "open" /\ writer.at = "ready" /\ ~HasContent /\ block' = "closed"
      /\ said' \in 1 .. MaxText /\ posts' = Append(posts, part)
      /\ UNCHANGED <<from, to, current, writer, delayed, refused>>
  BY DEF WholeText
<1>2. /\ posts' \in Seq(Part) /\ Len(posts') = Len(posts) + 1
      /\ posts'[Len(posts) + 1] = part
      /\ \A i \in 1 .. Len(posts') : posts'[i] \in Part
  <2>1. part \in Part
    BY <1>1, TextFacts DEF Part
  <2>2. /\ posts' \in Seq(Part) /\ Len(posts') = Len(posts) + 1
        /\ posts'[Len(posts) + 1] = part
    BY <1>1, <2>1, TextFacts, AppendProperties
  <2> QED
    BY <2>2, ElementOfSeq
<1>3. TextTypeOK'
  <2>1. Len(posts') \in Nat /\ Len(posts) <= Len(posts')
    BY <1>2, TextFacts
  <2> HIDE DEF part
  <2>2. /\ writer' \in [at : WriterSteps, made : 0 .. Len(posts'), closing : BOOLEAN]
        /\ delayed' \in [at : {"none", "sleep", "flush"}, made : 0 .. Len(posts')]
        /\ current' \in 0 .. Len(posts')
    BY <1>1, <2>1, TextFacts, CoroutinesGrow
  <2> QED
    BY <1>1, <1>2, <2>1, <2>2, TextFacts, TypesGrow
<1>4. Handles'
  BY <1>1 DEF TextInv, Handles
<1>5. Phases'
  BY <1>1, TextFacts DEF TextInv, Phases, HasContent
<1>6. Kept' /\ CutShown'
  <2>1. \A u \in 1 .. said' : part.lo < u /\ u <= part.hi
    BY <1>1
  <2>2. /\ Len(posts) + 1 \in 1 .. Len(posts')
        /\ \A u \in 1 .. said' :
             posts'[Len(posts) + 1].lo < u /\ u <= posts'[Len(posts) + 1].hi
    BY <1>2, <2>1, TextFacts
  <2>3. Covers(posts', said', {})
    BY <2>2 DEF Covers
  <2> QED
    BY <1>1, <2>3 DEF Kept, CutShown
<1> QED
  BY <1>2, <1>3, <1>4, <1>5, <1>6 DEF TextInv

\* The writer goes on without a request.
LEMMA WriterRests ==
  ASSUME TextInv, NEW at \in WriterSteps, writer' = [writer EXCEPT !.at = at]
  PROVE  /\ writer'.at = at /\ writer'.made = writer.made /\ writer'.closing = writer.closing
         /\ writer' \in [at : WriterSteps, made : 0 .. Len(posts), closing : BOOLEAN]
BY TextFacts

\* The writer asks for a message, or has its handle.
LEMMA WriterMakes ==
  ASSUME TextInv, NEW at \in WriterSteps, NEW n \in Nat, NEW made \in 0 .. n,
         writer' = [writer EXCEPT !.at = at, !.made = made]
  PROVE  /\ writer'.at = at /\ writer'.made = made /\ writer'.closing = writer.closing
         /\ writer' \in [at : WriterSteps, made : 0 .. n, closing : BOOLEAN]
BY TextFacts

LEMMA WriterDone ==
  ASSUME TextInv, NEW at \in WriterSteps, writer' = [writer EXCEPT !.at = at, !.made = 0]
  PROVE  /\ writer'.at = at /\ writer'.made = 0 /\ writer'.closing = writer.closing
         /\ writer' \in [at : WriterSteps, made : 0 .. Len(posts), closing : BOOLEAN]
<1>1. Len(posts) \in Nat /\ 0 \in 0 .. Len(posts)
  BY TextFacts
<1> QED
  BY <1>1, WriterMakes

LEMMA AfterAppendType ==
  ASSUME TextInv
  PROVE  AfterAppend \in {"ready", "tail"} /\ (AfterAppend = "tail" <=> writer.closing)
BY TextFacts DEF AfterAppend

\* A flush of the writer, which is then in the midst of it.
LEMMA WriterFlushInv ==
  ASSUME TextInv, NEW at \in {"cut", "flush"}, NEW made \in Made,
         writer.at = "drain", Flushes(made),
         at = "cut" => from + Limit < to,
         writer' = [writer EXCEPT !.at = at, !.made = made],
         UNCHANGED <<bufferVars, current, delayed>>
  PROVE  TextInv'
<1> DEFINE hi == Upto(from + Limit, to)
<1>0. hi \in 0 .. MaxText /\ (at = "cut" => hi = from + Limit) /\ FlushMakes(hi, made)
  BY TextFacts DEF Upto, Flushes
<1> HIDE DEF hi
<1>1. /\ posts' \in Seq(Part) /\ Len(posts') \in Nat /\ Len(posts) <= Len(posts')
      /\ \A i \in 1 .. Len(posts) : i # current => posts'[i] = posts[i]
      /\ made \in 0 .. Len(posts')
      /\ made # 0 => made = Len(posts) + 1 /\ current = 0
      /\ refused' \in BOOLEAN /\ (~refused' => ~refused)
      /\ HasContent /\ ~refused' =>
           /\ Bound(made) \in 1 .. Len(posts')
           /\ posts'[Bound(made)] = [lo |-> from, hi |-> hi]
  BY <1>0, FlushPosts
<1>2. /\ writer'.at = at /\ writer'.made = made /\ writer'.closing = writer.closing
      /\ writer' \in [at : WriterSteps, made : 0 .. Len(posts'), closing : BOOLEAN]
  BY <1>1, WriterMakes DEF WriterSteps
<1>3. TextTypeOK'
  BY <1>1, <1>2, TextFacts, TypesGrow, CoroutinesGrow DEF bufferVars
<1>4. Handles'
  BY <1>1, <1>2, TextFacts DEF TextInv, Handles
<1>5. Phases'
  BY <1>2, TextFacts DEF TextInv, Phases, HasContent, bufferVars
<1>6. ASSUME ~refused' PROVE Kept'
  <2>1. ~refused /\ Covers(posts, from, {current, writer.made, delayed.made})
    BY <1>1, <1>6 DEF TextInv, Kept
  <2>2. \A i \in 1 .. Len(posts) : i \notin {current, writer.made, delayed.made} =>
          posts'[i] = posts[i] /\ i \notin {current, made, delayed.made}
    BY <1>1, TextFacts
  <2>3. Covers(posts', from, {current, made, delayed.made})
    BY <1>1, <2>1, <2>2, TextFacts, KeptStays
  <2> QED
    BY <1>2, <2>3 DEF Kept, bufferVars
<1>7. ASSUME ~refused' PROVE CutShown'
  <2> SUFFICES ASSUME at = "cut"
               PROVE  \E i \in 1 .. Len(posts') :
                        i # delayed.made /\ posts'[i] = [lo |-> from, hi |-> from + Limit]
    BY <1>2 DEF CutShown, bufferVars
  <2>1. HasContent
    BY TextFacts DEF HasContent
  <2>2. Bound(made) # delayed.made
    BY <1>1, <1>7, <2>1, TextFacts DEF Bound, TextInv, Handles
  <2> QED
    BY <1>0, <1>1, <1>7, <2>1, <2>2
<1> QED
  BY <1>1, <1>3, <1>4, <1>5, <1>6, <1>7 DEF TextInv

LEMMA OverflowInv ==
  ASSUME TextInv, Overflow
  PROVE  TextInv'
<1>1. from + Limit < to
  BY TextFacts DEF Overflow
<1> QED
  BY <1>1, WriterFlushInv DEF Overflow

LEMMA FlushNowInv ==
  ASSUME TextInv, FlushNow
  PROVE  TextInv'
BY WriterFlushInv DEF FlushNow

\* What is cut off is in a message that is no longer the current one.
LEMMA CutInv ==
  ASSUME TextInv, Cut
  PROVE  TextInv'
<1>1. /\ writer.at = "cut" /\ current' = 0 /\ from' = from + Limit
      /\ writer' = [writer EXCEPT !.at = "drain", !.made = 0]
      /\ UNCHANGED <<said, block, to, posts, delayed, refused>>
  BY DEF Cut
<1>2. /\ writer'.at = "drain" /\ writer'.made = 0 /\ writer'.closing = writer.closing
      /\ writer' \in [at : WriterSteps, made : 0 .. Len(posts), closing : BOOLEAN]
  BY <1>1, WriterDone DEF WriterSteps
<1>3. from' \in 0 .. MaxText /\ from' < to
  BY <1>1, TextFacts DEF TextInv, Phases
<1>4. TextTypeOK' /\ posts' \in Seq(Part)
  BY <1>1, <1>2, <1>3, TextFacts DEF TextInv, TextTypeOK
<1>5. Handles' /\ Phases'
  BY <1>1, <1>2, <1>3, TextFacts DEF TextInv, Handles, Phases, HasContent
<1>6. ASSUME ~refused' PROVE Kept'
  <2>1. Covers(posts, from, {current, writer.made, delayed.made})
    BY <1>1, <1>6 DEF TextInv, Kept
  <2>2. PICK i \in 1 .. Len(posts) :
          i # delayed.made /\ posts[i] = [lo |-> from, hi |-> from + Limit]
    BY <1>1, <1>6 DEF TextInv, CutShown
  <2>3. \A u \in 1 .. from + Limit : from < u => posts[i].lo < u /\ u <= posts[i].hi
    BY <2>2
  <2>4. i \notin {0, delayed.made}
    BY <2>2
  <2>5. Covers(posts, from + Limit, {0, delayed.made})
    <3> DEFINE X == {current, writer.made, delayed.made}
               Y == {0, delayed.made}
    <3>1. from \in Nat /\ from + Limit \in Nat /\ Len(posts) \in Nat /\ Len(posts) <= Len(posts)
      BY TextFacts
    <3>2. \A j \in 1 .. Len(posts) : j \notin X => j \notin Y
      OBVIOUS
    <3>3. \A u \in 1 .. from + Limit : from < u =>
             \E j \in 1 .. Len(posts) : j \notin Y /\ posts[j].lo < u /\ u <= posts[j].hi
      BY <2>3, <2>4
    <3>4. Covers(posts, from, X)
      BY <2>1
    <3> HIDE DEF X, Y
    <3>5. Covers(posts, from + Limit, Y)
      BY <3>1, <3>2, <3>3, <3>4, CoversMore
    <3> QED
      BY <3>5 DEF Y
  <2> QED
    BY <1>1, <1>2, <2>5 DEF Kept, Covers
<1>7. CutShown'
  BY <1>2 DEF CutShown
<1> QED
  BY <1>4, <1>5, <1>6, <1>7 DEF TextInv

LEMMA FlushLaterInv ==
  ASSUME TextInv, FlushLater
  PROVE  TextInv'
<1> DEFINE at == AfterAppend
<1>1. /\ writer.at = "drain" /\ writer' = [writer EXCEPT !.at = at]
      /\ delayed' = IF delayed.at = "none" THEN [delayed EXCEPT !.at = "sleep"] ELSE delayed
      /\ UNCHANGED <<said, block, from, to, current, posts, refused>>
  BY DEF FlushLater, bufferVars
<1>2. at \in WriterSteps /\ at \in {"ready", "tail"} /\ (at = "tail" <=> writer.closing)
  BY AfterAppendType DEF WriterSteps
<1> HIDE DEF at
<1>3. /\ writer'.at = at /\ writer'.made = writer.made /\ writer'.closing = writer.closing
      /\ writer' \in [at : WriterSteps, made : 0 .. Len(posts), closing : BOOLEAN]
  BY <1>1, <1>2, WriterRests
<1>4. /\ delayed' \in [at : {"none", "sleep", "flush"}, made : 0 .. Len(posts)]
      /\ delayed'.made = delayed.made
      /\ delayed'.at = IF delayed.at = "none" THEN "sleep" ELSE delayed.at
  BY <1>1, TextFacts
<1>5. TextTypeOK' /\ posts' \in Seq(Part)
  BY <1>1, <1>3, <1>4 DEF TextInv, TextTypeOK
<1>6. Handles'
  BY <1>1, <1>2, <1>3, <1>4 DEF TextInv, Handles
<1>7. Phases'
  BY <1>1, <1>2, <1>3, <1>4, TextFacts DEF TextInv, Phases, HasContent
<1>8. ~refused' => Kept' /\ CutShown'
  BY <1>1, <1>2, <1>3, <1>4 DEF TextInv, Phases, Kept, CutShown
<1> QED
  BY <1>5, <1>6, <1>7, <1>8 DEF TextInv

LEMMA FlushedInv ==
  ASSUME TextInv, Flushed
  PROVE  TextInv'
<1> DEFINE at == AfterAppend
<1>1. /\ writer.at = "flush" /\ writer' = [writer EXCEPT !.at = at, !.made = 0]
      /\ current' = IF writer.made = 0 THEN current ELSE writer.made
      /\ UNCHANGED <<said, block, from, to, posts, delayed, refused>>
  BY DEF Flushed, bufferVars, Bound
<1>2. at \in WriterSteps /\ at \in {"ready", "tail"} /\ (at = "tail" <=> writer.closing)
  BY AfterAppendType DEF WriterSteps
<1> HIDE DEF at
<1>3. /\ writer'.at = at /\ writer'.made = 0 /\ writer'.closing = writer.closing
      /\ writer' \in [at : WriterSteps, made : 0 .. Len(posts), closing : BOOLEAN]
  BY <1>1, <1>2, WriterDone
<1>4. TextTypeOK' /\ posts' \in Seq(Part)
  BY <1>1, <1>3, TextFacts DEF TextInv, TextTypeOK
<1>5. Handles'
  BY <1>1, <1>2, <1>3 DEF TextInv, Handles
<1>6. Phases'
  BY <1>1, <1>2, <1>3, TextFacts DEF TextInv, Phases, HasContent
<1>7. ASSUME ~refused' PROVE Kept' /\ CutShown'
  <2>1. Covers(posts, from, {current, writer.made, delayed.made})
    BY <1>1, <1>7 DEF TextInv, Kept
  <2>2. Covers(posts, from, {current', 0, delayed.made})
    BY <1>1, <2>1 DEF Covers
  <2> QED
    BY <1>1, <1>2, <1>3, <2>2 DEF TextInv, Phases, Kept, CutShown
<1> QED
  BY <1>4, <1>5, <1>6, <1>7 DEF TextInv

\* The last flush leaves no coroutine that edits, and shows what it leaves.
LEMMA FinalizeInv ==
  ASSUME TextInv, Finalize
  PROVE  TextInv'
<1>1. /\ writer.at = "tail" /\ delayed' = [at |-> "none", made |-> 0]
      /\ UNCHANGED <<said, block, to, current>>
  BY DEF Finalize
<1>2. PICK hi \in from + 1 .. Upto(from + Limit, to), made \in Made :
        /\ FlushMakes(hi, made) /\ from' = hi
        /\ writer' = [writer EXCEPT !.at = "rest", !.made = made]
  BY DEF Finalize
<1>3. hi \in 0 .. MaxText /\ from < hi /\ hi <= to /\ HasContent
  BY TextFacts DEF Upto, HasContent
<1>4. /\ posts' \in Seq(Part) /\ Len(posts') \in Nat /\ Len(posts) <= Len(posts')
      /\ \A i \in 1 .. Len(posts) : i # current => posts'[i] = posts[i]
      /\ made \in 0 .. Len(posts')
      /\ made # 0 => made = Len(posts) + 1 /\ current = 0
      /\ refused' \in BOOLEAN /\ (~refused' => ~refused)
      /\ HasContent /\ ~refused' =>
           /\ Bound(made) \in 1 .. Len(posts')
           /\ posts'[Bound(made)] = [lo |-> from, hi |-> hi]
  BY <1>2, <1>3, FlushPosts
<1>5. /\ writer'.at = "rest" /\ writer'.made = made /\ writer'.closing = writer.closing
      /\ writer' \in [at : WriterSteps, made : 0 .. Len(posts'), closing : BOOLEAN]
  BY <1>2, <1>4, WriterMakes DEF WriterSteps
<1>6. delayed' \in [at : {"none", "sleep", "flush"}, made : 0 .. Len(posts')]
  BY <1>1, <1>4
<1>7. TextTypeOK'
  BY <1>1, <1>2, <1>3, <1>4, <1>5, <1>6, TextFacts, TypesGrow, CoroutinesGrow
<1>8. Handles'
  BY <1>1, <1>4, <1>5, TextFacts DEF Handles
<1>9. Phases'
  BY <1>1, <1>2, <1>3, <1>5, TextFacts DEF TextInv, Phases
<1>10. ASSUME ~refused' PROVE Kept'
  <2> DEFINE X == {current, writer.made, delayed.made}
             Y == {}
  <2>1. Covers(posts, from, X)
    BY <1>1, <1>4, <1>10 DEF TextInv, Kept
  <2>2. \A i \in 1 .. Len(posts) : i \notin X => i \notin Y /\ posts'[i] = posts[i]
    BY <1>4
  <2>3. \A u \in 1 .. hi : from < u =>
          \E j \in 1 .. Len(posts') : j \notin Y /\ posts'[j].lo < u /\ u <= posts'[j].hi
    BY <1>3, <1>4, <1>10
  <2> HIDE DEF X, Y
  <2>4. from \in Nat /\ hi \in Nat /\ Len(posts) \in Nat
    BY <1>3, TextFacts
  <2>5. Len(posts') \in Nat /\ Len(posts) <= Len(posts')
    BY <1>4
  <2>6. Covers(posts', hi, Y)
    BY <2>1, <2>2, <2>3, <2>4, <2>5, CoversMore
  <2> QED
    BY <1>2, <1>5, <2>6 DEF Kept, Y
<1>11. CutShown'
  BY <1>5 DEF CutShown
<1> QED
  BY <1>4, <1>7, <1>8, <1>9, <1>10, <1>11 DEF TextInv

LEMMA RestInv ==
  ASSUME TextInv, Rest
  PROVE  TextInv'
<1> DEFINE part == [lo |-> from, hi |-> to]
<1>1. /\ writer.at = "rest" /\ writer' = NoRequest /\ current' = 0 /\ from' = to
      /\ posts' = IF HasContent THEN Append(posts, part) ELSE posts
      /\ UNCHANGED <<said, block, to, delayed, refused>>
  BY DEF Rest
<1>2. /\ posts' \in Seq(Part) /\ Len(posts') \in Nat /\ Len(posts) <= Len(posts')
      /\ \A i \in 1 .. Len(posts) : posts'[i] = posts[i]
      /\ HasContent => Len(posts') = Len(posts) + 1 /\ posts'[Len(posts) + 1] = part
  <2>1. part \in Part
    BY TextFacts DEF Part
  <2>2. CASE HasContent
    BY <1>1, <2>1, <2>2, TextFacts, AppendProperties
  <2>3. CASE ~HasContent
    BY <1>1, <2>3, TextFacts
  <2> QED
    BY <2>2, <2>3
<1>3. writer' \in [at : WriterSteps, made : 0 .. Len(posts'), closing : BOOLEAN]
  BY <1>1, <1>2 DEF NoRequest, WriterSteps
<1>4. /\ writer'.at = "ready" /\ writer'.made = 0 /\ writer'.closing = FALSE
      /\ block = "closed" /\ to = said /\ delayed.at = "none" /\ delayed.made = 0
  BY <1>1 DEF NoRequest, TextInv, Phases, Handles
<1>5. TextTypeOK'
  <2>1. current' \in 0 .. Len(posts')
    BY <1>1, <1>2
  <2> HIDE DEF part
  <2> QED
    BY <1>1, <1>2, <1>3, <2>1, TextFacts, TypesGrow, CoroutinesGrow
<1>6. Handles'
  BY <1>1, <1>4 DEF Handles
<1>7. Phases'
  BY <1>1, <1>4, TextFacts DEF Phases
<1>8. ASSUME ~refused' PROVE Kept'
  <2> DEFINE Y == {}
  <2>1. Covers(posts, from, Y)
    BY <1>1, <1>8 DEF TextInv, Kept
  <2>2. \A i \in 1 .. Len(posts) : i \notin Y => i \notin Y /\ posts'[i] = posts[i]
    BY <1>2
  <2>3. \A u \in 1 .. said : from < u =>
          \E j \in 1 .. Len(posts') : j \notin Y /\ posts'[j].lo < u /\ u <= posts'[j].hi
    <3> SUFFICES ASSUME NEW u \in 1 .. said, from < u
                 PROVE  \E j \in 1 .. Len(posts') : posts'[j].lo < u /\ u <= posts'[j].hi
      OBVIOUS
    <3>1. HasContent /\ u <= to
      BY <1>4, TextFacts DEF HasContent
    <3>2. part.lo < u /\ u <= part.hi /\ Len(posts) + 1 \in 1 .. Len(posts')
      BY <1>2, <3>1, TextFacts
    <3> QED
      BY <1>2, <3>1, <3>2
  <2>4. from \in Nat /\ said \in Nat
    BY TextFacts
  <2> HIDE DEF Y, part
  <2>5. Len(posts) \in Nat /\ Len(posts') \in Nat /\ Len(posts) <= Len(posts')
    BY <1>2, TextFacts
  <2>6. Covers(posts', said, Y)
    BY <2>1, <2>2, <2>3, <2>4, <2>5, CoversMore
  <2> QED
    BY <1>1, <1>4, <2>6 DEF Kept, Y
<1>9. CutShown'
  BY <1>4 DEF CutShown
<1> QED
  BY <1>2, <1>5, <1>6, <1>7, <1>8, <1>9 DEF TextInv

\* The delayed flush shows the buffer in a message within its own reach.
LEMMA DelayedFlushInv ==
  ASSUME TextInv, DelayedFlush
  PROVE  TextInv'
<1> DEFINE hi == Upto(from + Limit, to)
<1>1. PICK made \in Made : Flushes(made) /\ delayed' = [at |-> "flush", made |-> made]
  BY DEF DelayedFlush
<1>2. delayed.at = "sleep" /\ delayed.made = 0 /\ UNCHANGED <<said, block, from, to, current, writer>>
  BY DEF DelayedFlush, bufferVars, TextInv, Handles
<1>3. hi \in 0 .. MaxText /\ (writer.at = "cut" => hi = from + Limit) /\ FlushMakes(hi, made)
  BY <1>1, TextFacts DEF Upto, Flushes, TextInv, Phases
<1> HIDE DEF hi
<1>4. /\ posts' \in Seq(Part) /\ Len(posts') \in Nat /\ Len(posts) <= Len(posts')
      /\ \A i \in 1 .. Len(posts) : i # current => posts'[i] = posts[i]
      /\ made \in 0 .. Len(posts')
      /\ made # 0 => made = Len(posts) + 1 /\ current = 0
      /\ refused' \in BOOLEAN /\ (~refused' => ~refused)
      /\ HasContent /\ ~refused' =>
           /\ Bound(made) \in 1 .. Len(posts')
           /\ posts'[Bound(made)] = [lo |-> from, hi |-> hi]
  BY <1>3, FlushPosts
<1>5. /\ delayed' \in [at : {"none", "sleep", "flush"}, made : 0 .. Len(posts')]
      /\ delayed'.at = "flush" /\ delayed'.made = made
  BY <1>1, <1>4
<1>6. TextTypeOK'
  BY <1>2, <1>4, <1>5, TextFacts, TypesGrow, CoroutinesGrow
<1>7. Handles'
  BY <1>2, <1>4, <1>5, TextFacts DEF TextInv, Handles
<1>8. Phases'
  BY <1>2, <1>5, TextFacts DEF TextInv, Phases, HasContent
<1>9. ASSUME ~refused' PROVE Kept'
  <2>0. writer.at # "rest" /\ ~(block = "closed" /\ writer.at = "ready")
    BY <1>2 DEF TextInv, Phases
  <2>1. ~refused /\ Covers(posts, from, {current, writer.made, delayed.made})
    BY <1>4, <1>9, <2>0 DEF TextInv, Kept
  <2>2. \A i \in 1 .. Len(posts) : i \notin {current, writer.made, delayed.made} =>
          posts'[i] = posts[i] /\ i \notin {current, writer.made, made}
    BY <1>4, TextFacts
  <2>3. Covers(posts', from, {current, writer.made, made})
    BY <1>4, <2>1, <2>2, TextFacts, KeptStays
  <2> QED
    BY <1>2, <1>5, <2>0, <2>3 DEF Kept
<1>10. ASSUME ~refused', writer.at = "cut" PROVE CutShown'
  <2>1. PICK i \in 1 .. Len(posts) : posts[i] = [lo |-> from, hi |-> from + Limit]
    BY <1>4, <1>10 DEF TextInv, CutShown
  <2>2. HasContent
    BY <1>10, TextFacts DEF TextInv, Phases, HasContent
  <2>3. i \in 1 .. Len(posts') /\ i # made
    BY <1>4, TextFacts
  <2>4. posts'[i] = [lo |-> from, hi |-> from + Limit]
    <3>1. CASE i # current
      BY <1>4, <2>1, <3>1
    <3>2. CASE i = current
      BY <1>3, <1>4, <1>10, <2>2, <3>2, TextFacts DEF Bound
    <3> QED
      BY <3>1, <3>2
  <2> QED
    BY <1>2, <1>5, <2>3, <2>4 DEF CutShown
<1>11. ~refused' => CutShown'
  BY <1>2, <1>10 DEF CutShown
<1> QED
  BY <1>4, <1>6, <1>7, <1>8, <1>9, <1>11 DEF TextInv

LEMMA DelayedFlushedInv ==
  ASSUME TextInv, DelayedFlushed
  PROVE  TextInv'
<1>1. /\ delayed.at = "flush" /\ delayed' = [at |-> "none", made |-> 0]
      /\ current' = IF delayed.made = 0 THEN current ELSE delayed.made
      /\ UNCHANGED <<said, block, from, to, posts, writer, refused>>
  BY DEF DelayedFlushed, bufferVars, Bound
<1>2. TextTypeOK' /\ posts' \in Seq(Part)
  <2>1. delayed' \in [at : {"none", "sleep", "flush"}, made : 0 .. Len(posts)]
    BY <1>1, TextFacts
  <2> QED
    BY <1>1, <2>1, TextFacts DEF TextInv, TextTypeOK
<1>3. Handles' /\ Phases'
  BY <1>1 DEF TextInv, Handles, Phases, HasContent
<1>4. ASSUME ~refused' PROVE Kept' /\ CutShown'
  <2>1. writer.at # "rest" /\ ~(block = "closed" /\ writer.at = "ready")
    BY <1>1 DEF TextInv, Phases
  <2>2. Covers(posts, from, {current, writer.made, delayed.made}) /\ CutShown
    BY <1>1, <1>4, <2>1 DEF TextInv, Kept
  <2>3. Covers(posts, from, {current', writer.made, 0})
    BY <1>1, <2>2 DEF Covers
  <2>4. CutShown'
    BY <1>1, <2>2 DEF CutShown
  <2> QED
    BY <1>1, <2>1, <2>3, <2>4 DEF Kept
<1> QED
  BY <1>2, <1>3, <1>4 DEF TextInv

\* The inductive invariant of streamed text holds in every reachable state.
THEOREM TextInvHolds == TextSpec => []TextInv
<1>1. TextInv /\ TextNext => TextInv'
  BY PartialTextInv, CompleteTextInv, WholeTextInv, OverflowInv, CutInv, FlushNowInv,
     FlushLaterInv, FlushedInv, FinalizeInv, RestInv, DelayedFlushInv, DelayedFlushedInv
  DEF TextNext
<1>2. TextInv /\ UNCHANGED textVars => TextInv'
  BY DEF textVars, bufferVars, TextInv, TextTypeOK, Handles, Phases, HasContent, Kept, CutShown
<1>3. TextInv /\ [TextNext]_textVars => TextInv'
  BY <1>1, <1>2
<1> QED
  BY <1>3, TextInitInv, PTL DEF TextSpec

\* Whatever the lengths of the texts and of the messages, and however the delayed
\* flush and the handlers of the events overlap, a finished block is in the
\* messages as a whole (streaming_manager.py, append, _flush and finalize).
THEOREM TextIsShown == TextSpec => []TextShown
<1>1. TextInv => TextShown
  BY DEF TextInv, Kept, Covers, TextShown
<1> QED
  BY <1>1, TextInvHolds, PTL

\* Every variable of StreamingText keeps its type.
THEOREM TextTypeCorrect == TextSpec => []TextTypeOK
<1>1. TextInv => TextTypeOK
  BY DEF TextInv
<1> QED
  BY <1>1, TextInvHolds, PTL

-----------------------------------------------------------------------------
(***************************************************************************)
(* RunDisplay                                                              *)
(***************************************************************************)
\* A handler is under way only while events are taken; the messages of a tool
\* use are numbered in turn; a timer that is alive is known to the processor that will
\* cancel it, or its message has been superseded.
TimersKnown ==
  /\ handler.at # "ready" => stage = "events"
  /\ handler.at = "post" => handler.tool \in UsedTools
  /\ handler.at = "post" => copies[handler.tool] < MaxCopies
  /\ \A m \in timers : m[2] <= copies[m[1]] /\ (m \in tracked \/ m[2] < copies[m[1]])
  /\ \A m \in tracked : m[2] <= copies[m[1]]
  /\ \A m \in Copies : m[2] > copies[m[1]] => embed[m] = "none"

\* The reactions on the message are the recorded one, the one a change adds, and those
\* that a refusal has left.
ReactionsKnown ==
  /\ target \in Emojis
  /\ ~severed =>
       /\ debounce \in {"none", "sleep"} => shown \subseteq stuck \cup {emoji}
       /\ debounce = "remove" => shown \subseteq stuck
       /\ debounce = "add" => shown \subseteq stuck \cup {target}

\* After the result nothing starts a change or a monitor; after the cleanup none is
\* left.
StatusEnds ==
  /\ stage \in {"hold", "clean", "settled"} => ~stall
  /\ stage \in {"clean", "settled"} => debounce = "none" /\ (~severed => shown \subseteq stuck)

DispInv == DispTypeOK /\ TimersKnown /\ ReactionsKnown /\ StatusEnds /\ ResultsStay

LEMMA DispInitInv == DispInit => DispInv
<1> SUFFICES ASSUME DispInit PROVE DispInv
  OBVIOUS
<1>1. DispTypeOK
  <2>1. reruns \in 0 .. MaxReruns /\ copies \in [UsedTools -> 0 .. MaxCopies]
    BY DisplayAssumption DEF DispInit
  <2>2. /\ handler \in [at : {"ready", "post", "bump", "result"}, tool : UsedTools \cup {NoTool}]
        /\ embed \in [Copies -> {"none", "running", "result"}]
    BY DEF DispInit, Idle
  <2> QED
    BY <2>1, <2>2 DEF DispInit, DispTypeOK, Stages, Emojis
<1>2. TimersKnown /\ StatusEnds /\ ResultsStay
  BY DEF DispInit, TimersKnown, StatusEnds, ResultsStay, Idle
<1>3. ReactionsKnown
  BY DEF DispInit, ReactionsKnown, Emojis
<1> QED
  BY <1>1, <1>2, <1>3 DEF DispInv

\* A change of the status comes from the handler of an event or from the monitor,
\* which is gone by the time of the result.
LEMMA StatusChange ==
  ASSUME DispInv, NEW e \in Emojis, SetStatus(e), UNCHANGED <<shown, emoji, stuck>>
  PROVE  ReactionsKnown' /\ target' \in Emojis /\ debounce' = "sleep" /\ severed' \in BOOLEAN
BY DEF DispInv, DispTypeOK, ReactionsKnown, SetStatus, Severs

\* What a request about a reaction leaves, carried out or refused.
LEMMA Requested ==
  ASSUME DispInv, NEW e \in Emojis, Remove(e) \/ Add(e)
  PROVE  /\ shown' \subseteq Emojis /\ stuck' \subseteq Emojis
         /\ Remove(e) /\ shown \subseteq stuck \cup {e} => shown' \subseteq stuck'
         /\ Add(e) /\ shown \subseteq stuck => shown' \subseteq stuck' \cup {e}
BY DEF DispInv, DispTypeOK, Remove, Add

\* The tools and the Stop button are not the status's matter.
LEMMA StatusFrame ==
  ASSUME DispInv, UNCHANGED <<stage, reruns, handler, toolVars, stop>>
  PROVE  TimersKnown' /\ ResultsStay'
BY DEF DispInv, TimersKnown, ResultsStay, toolVars

LEMMA StatusStepInv ==
  ASSUME DispInv, StatusStep
  PROVE  DispInv'
<1> USE DEF DispInv
<1>1. CASE ApplyStarts
  <2>1. /\ UNCHANGED <<stage, reruns, handler, toolVars, target, emoji, stall, stop, severed>>
        /\ debounce = "sleep" /\ target \in Emojis
    BY <1>1 DEF ApplyStarts, ReactionsKnown
  <2>2. StatusEnds' /\ TimersKnown' /\ ResultsStay'
    BY <2>1, StatusFrame DEF StatusEnds
  <2>3. CASE target = emoji
    <3>1. debounce' = "none" /\ UNCHANGED <<shown, stuck>>
      BY <1>1, <2>3 DEF ApplyStarts
    <3> QED
      BY <2>1, <2>2, <3>1 DEF DispTypeOK, ReactionsKnown, toolVars
  <2>4. CASE target # emoji /\ emoji = "none"
    <3>1. debounce' = "add" /\ Add(target)
      BY <1>1, <2>4 DEF ApplyStarts
    <3>2. ~severed => shown \subseteq stuck
      BY <2>1, <2>4 DEF DispTypeOK, ReactionsKnown, Emojis
    <3>3. /\ shown' \subseteq Emojis /\ stuck' \subseteq Emojis
          /\ ~severed => shown' \subseteq stuck' \cup {target}
      BY <2>1, <3>1, <3>2, Requested
    <3> QED
      BY <2>1, <2>2, <3>1, <3>3 DEF DispTypeOK, ReactionsKnown, toolVars
  <2>5. CASE target # emoji /\ emoji # "none"
    <3>1. debounce' = "remove" /\ Remove(emoji)
      BY <1>1, <2>5 DEF ApplyStarts
    <3>2. emoji \in Emojis /\ (~severed => shown \subseteq stuck \cup {emoji})
      BY <2>1, <2>5 DEF DispTypeOK, ReactionsKnown
    <3>3. /\ shown' \subseteq Emojis /\ stuck' \subseteq Emojis
          /\ ~severed => shown' \subseteq stuck'
      BY <3>1, <3>2, Requested
    <3> QED
      BY <2>1, <2>2, <3>1, <3>3 DEF DispTypeOK, ReactionsKnown, toolVars
  <2> QED
    BY <2>3, <2>4, <2>5
<1>2. CASE ApplyAdds
  <2>1. /\ UNCHANGED <<stage, reruns, handler, toolVars, target, emoji, stall, stop, severed>>
        /\ debounce = "remove" /\ target \in Emojis /\ debounce' = "add" /\ Add(target)
    BY <1>2 DEF ApplyAdds, ReactionsKnown
  <2>2. StatusEnds' /\ TimersKnown' /\ ResultsStay'
    BY <2>1, StatusFrame DEF StatusEnds
  <2>3. /\ shown' \subseteq Emojis /\ stuck' \subseteq Emojis
        /\ ~severed => shown' \subseteq stuck' \cup {target}
    BY <2>1, Requested DEF ReactionsKnown
  <2> QED
    BY <2>1, <2>2, <2>3 DEF DispTypeOK, ReactionsKnown, toolVars
<1>3. CASE Applied
  <2>1. UNCHANGED <<stage, reruns, handler, toolVars, stop>>
    BY <1>3 DEF Applied
  <2>2. DispTypeOK'
    BY <1>3 DEF Applied, DispTypeOK, toolVars
  <2>3. ReactionsKnown' /\ StatusEnds'
    BY <1>3 DEF Applied, ReactionsKnown, StatusEnds, toolVars
  <2> QED
    BY <2>1, <2>2, <2>3, StatusFrame
<1>4. CASE StallWarns
  <2>0. SetStatus("stalled") /\ "stalled" \in Emojis /\ UNCHANGED <<shown, emoji, stuck>>
    BY <1>4 DEF StallWarns, Emojis
  <2>1. ReactionsKnown' /\ target' \in Emojis /\ debounce' = "sleep" /\ severed' \in BOOLEAN
    BY <2>0, StatusChange
  <2>2. UNCHANGED <<stage, reruns, handler, toolVars, stop, stall>> /\ stall
    BY <1>4 DEF StallWarns
  <2>3. DispTypeOK'
    BY <2>0, <2>1, <2>2 DEF DispTypeOK, toolVars
  <2>4. StatusEnds'
    BY <2>2 DEF StatusEnds
  <2> QED
    BY <2>1, <2>2, <2>3, <2>4, StatusFrame
<1>5. CASE Cleanup
  <2>1. /\ stage = "hold" /\ stage' = "clean" /\ stall' = FALSE /\ debounce' = "none"
        /\ UNCHANGED <<reruns, handler, toolVars, target, emoji, stop>>
        /\ severed' \in BOOLEAN /\ (~severed' => ~severed /\ debounce # "add")
    BY <1>5 DEF Cleanup, Severs, DispTypeOK
  <2>2. ~severed' => shown \subseteq stuck \cup {emoji}
    BY <2>1 DEF DispTypeOK, ReactionsKnown
  <2>3. /\ shown' \subseteq Emojis /\ stuck' \subseteq Emojis
        /\ ~severed' => shown' \subseteq stuck'
    <3>1. CASE emoji = "none"
      <4>1. UNCHANGED <<shown, stuck>>
        BY <1>5, <3>1 DEF Cleanup
      <4> QED
        BY <2>2, <3>1, <4>1 DEF DispTypeOK, Emojis
    <3>2. CASE emoji # "none"
      <4>1. Remove(emoji) /\ emoji \in Emojis
        BY <1>5, <3>2 DEF Cleanup, DispTypeOK
      <4> QED
        BY <2>2, <4>1, Requested
    <3> QED
      BY <3>1, <3>2
  <2>4. DispTypeOK'
    BY <2>1, <2>3 DEF DispTypeOK, Stages, toolVars
  <2>5. ReactionsKnown' /\ StatusEnds'
    BY <2>1, <2>3 DEF ReactionsKnown, StatusEnds
  <2>6. TimersKnown' /\ ResultsStay'
    BY <2>1 DEF TimersKnown, ResultsStay, toolVars
  <2> QED
    BY <2>4, <2>5, <2>6
<1>6. CASE CleanedUp
  <2>1. DispTypeOK'
    BY <1>6 DEF CleanedUp, DispTypeOK, Stages, toolVars
  <2>2. ReactionsKnown' /\ StatusEnds'
    BY <1>6 DEF CleanedUp, ReactionsKnown, StatusEnds, toolVars
  <2>3. TimersKnown' /\ ResultsStay'
    BY <1>6 DEF CleanedUp, TimersKnown, ResultsStay, toolVars
  <2> QED
    BY <2>1, <2>2, <2>3
<1> QED
  BY <1>1, <1>2, <1>3, <1>4, <1>5, <1>6 DEF StatusStep

LEMMA ToolStepInv ==
  ASSUME DispInv, NEW t \in UsedTools, ToolStep(t)
  PROVE  DispInv'
<1> USE DEF DispInv
<1>1. CASE ToolUse(t)
  <2>0. SetStatus("tool") /\ "tool" \in Emojis /\ UNCHANGED <<shown, emoji, stuck>>
    BY <1>1 DEF ToolUse, Emojis
  <2>1. ReactionsKnown' /\ target' \in Emojis /\ debounce' = "sleep" /\ severed' \in BOOLEAN
    BY <2>0, StatusChange
  <2>2. /\ handler' = [at |-> "post", tool |-> t] /\ copies[t] < MaxCopies /\ stage = "events"
        /\ UNCHANGED <<stage, reruns, toolVars, stall, stop>>
    BY <1>1 DEF ToolUse, Ready
  <2>3. DispTypeOK'
    BY <2>0, <2>1, <2>2 DEF DispTypeOK, toolVars
  <2>4. StatusEnds' /\ TimersKnown' /\ ResultsStay'
    BY <2>2 DEF StatusEnds, TimersKnown, ResultsStay, toolVars
  <2> QED
    BY <2>1, <2>3, <2>4
<1>2. CASE ToolResult(t)
  <2>0. SetStatus("thinking") /\ "thinking" \in Emojis /\ UNCHANGED <<shown, emoji, stuck>>
    BY <1>2 DEF ToolResult, Emojis
  <2>1. ReactionsKnown' /\ target' \in Emojis /\ debounce' = "sleep" /\ severed' \in BOOLEAN
    BY <2>0, StatusChange
  <2>2. PICK m \in tracked : /\ timers' = timers \ {m} /\ tracked' = tracked \ {m}
                             /\ embed' = [embed EXCEPT ![m] = "result"]
    BY <1>2 DEF ToolResult
  <2>3. /\ handler' = [at |-> "result", tool |-> t] /\ stage = "events" /\ stall' = TRUE
        /\ UNCHANGED <<stage, reruns, copies, stop>>
    BY <1>2 DEF ToolResult, Ready
  <2>4. m \in Copies /\ m[2] <= copies[m[1]]
    BY DEF DispTypeOK, TimersKnown
  <2>5. DispTypeOK'
    BY <2>0, <2>1, <2>2, <2>3, <2>4 DEF DispTypeOK
  <2>6. TimersKnown'
    <3>1. \A k \in timers' : k[2] <= copies[k[1]] /\ (k \in tracked' \/ k[2] < copies[k[1]])
      BY <2>2 DEF TimersKnown
    <3>2. \A k \in tracked' : k[2] <= copies[k[1]]
      BY <2>2 DEF TimersKnown
    <3>3. \A k \in Copies : k[2] > copies[k[1]] => embed'[k] = "none"
      <4> SUFFICES ASSUME NEW k \in Copies, k[2] > copies[k[1]] PROVE embed'[k] = "none"
        OBVIOUS
      <4>1. embed[k] = "none"
        BY DEF TimersKnown
      <4>2. copies[m[1]] \in Nat /\ m[2] \in Nat
        BY <2>4 DEF DispTypeOK, Copies
      <4>3. k # m
        BY <2>4, <4>2
      <4> QED
        BY <2>2, <4>1, <4>3 DEF DispTypeOK
    <3> QED
      BY <2>3, <3>1, <3>2, <3>3 DEF TimersKnown
  <2>7. ResultsStay'
    BY <2>2, <2>3 DEF DispTypeOK, ResultsStay
  <2>8. StatusEnds'
    BY <2>3 DEF StatusEnds
  <2> QED
    BY <2>1, <2>5, <2>6, <2>7, <2>8
<1> QED
  BY <1>1, <1>2 DEF ToolStep

LEMMA TimerEditsInv ==
  ASSUME DispInv, TimerEdits
  PROVE  DispInv'
<1> USE DEF DispInv
<1>1. PICK m \in timers : embed' = [embed EXCEPT ![m] = "running"]
  BY DEF TimerEdits
<1>2. UNCHANGED <<stage, reruns, handler, copies, timers, tracked, statusVars, stop>>
  BY DEF TimerEdits
<1>3. m \in Copies /\ m[2] <= copies[m[1]]
  BY DEF DispTypeOK, TimersKnown
<1>4. DispTypeOK'
  BY <1>1, <1>2, <1>3 DEF DispTypeOK, statusVars
<1>5. ReactionsKnown' /\ StatusEnds'
  BY <1>2 DEF ReactionsKnown, StatusEnds, statusVars
<1>6. TimersKnown'
  <2>1. \A k \in Copies : k[2] > copies[k[1]] => embed'[k] = "none"
    <3> SUFFICES ASSUME NEW k \in Copies, k[2] > copies[k[1]] PROVE embed'[k] = "none"
      OBVIOUS
    <3>1. embed[k] = "none"
      BY DEF TimersKnown
    <3>2. copies[m[1]] \in Nat /\ m[2] \in Nat
      BY <1>3 DEF DispTypeOK, Copies
    <3>3. k # m
      BY <1>3, <3>2
    <3> QED
      BY <1>1, <3>1, <3>3 DEF DispTypeOK
  <2> QED
    BY <1>2, <2>1 DEF TimersKnown
<1>7. ResultsStay'
  BY <1>1, <1>2 DEF DispTypeOK, ResultsStay
<1> QED
  BY <1>4, <1>5, <1>6, <1>7

\* The handlers and the Stop button leave the status alone.
LEMMA HandlerInv ==
  ASSUME DispInv, TextPosted \/ EmbedPosted \/ EmbedFails \/ Bumped \/ ResultShown \/ StopPressed
  PROVE  DispInv'
<1> USE DEF DispInv
<1>1. UNCHANGED <<stage, reruns, statusVars>>
  BY DEF TextPosted, EmbedPosted, EmbedFails, Bumped, ResultShown, StopPressed
<1>2. ReactionsKnown' /\ StatusEnds'
  BY <1>1 DEF ReactionsKnown, StatusEnds, statusVars
<1>3. CASE EmbedPosted
  <2> DEFINE t == handler.tool
             n == copies[t] + 1
             m == <<t, n>>
  <2>1. /\ t \in UsedTools /\ stage = "events" /\ copies[t] \in Nat /\ copies[t] < MaxCopies
        /\ \A u \in UsedTools : copies[u] \in Nat
    BY <1>3 DEF EmbedPosted, TimersKnown, DispTypeOK
  <2>2. /\ copies' = [copies EXCEPT ![t] = @ + 1]
        /\ embed' = [embed EXCEPT ![m] = "running"]
        /\ timers' = timers \cup {m}
        /\ tracked' = {k \in tracked : k[1] # t} \cup {m}
    BY <1>3 DEF EmbedPosted
  <2>3. handler' \in {Idle, [handler EXCEPT !.at = "bump"]} /\ stop' \in {stop, "moving"}
    BY <1>3 DEF EmbedPosted, Bump
  <2>4. n \in 1 .. MaxCopies
    BY <2>1, DisplayAssumption
  <2>5. m \in Copies /\ copies' \in [UsedTools -> 0 .. MaxCopies]
    BY <2>1, <2>2, <2>4 DEF Copies, DispTypeOK
  <2>6. /\ copies' = [u \in UsedTools |-> IF u = t THEN n ELSE copies[u]]
        /\ embed' = [k \in Copies |-> IF k = m THEN "running" ELSE embed[k]]
    BY <2>2 DEF DispTypeOK
  <2>7. DispTypeOK'
    <3>1. handler' \in [at : {"ready", "post", "bump", "result"}, tool : UsedTools \cup {NoTool}]
      BY <2>3 DEF DispTypeOK, Idle
    <3>2. timers' \subseteq Copies /\ tracked' \subseteq Copies
      BY <2>2, <2>5 DEF DispTypeOK
    <3>3. embed' \in [Copies -> {"none", "running", "result"}]
      BY <2>6 DEF DispTypeOK
    <3>4. stop' \in {"live", "moving", "stopped", "orphaned"}
      BY <2>3 DEF DispTypeOK
    <3> QED
      BY <1>1, <2>5, <3>1, <3>2, <3>3, <3>4 DEF DispTypeOK, statusVars
  <2>8. \A k \in Copies : /\ k = <<k[1], k[2]>> /\ k[1] \in UsedTools /\ k[2] \in Nat
                          /\ copies[k[1]] \in Nat /\ copies'[k[1]] \in Nat
                          /\ copies[k[1]] <= copies'[k[1]]
                          /\ k[1] = t => copies'[k[1]] = n
                          /\ k[1] # t => copies'[k[1]] = copies[k[1]]
    BY <2>1, <2>6 DEF Copies
  <2> HIDE DEF t, n, m
  <2>9. \A k \in timers' : k[2] <= copies'[k[1]] /\ (k \in tracked' \/ k[2] < copies'[k[1]])
    <3> SUFFICES ASSUME NEW k \in timers'
                 PROVE  k[2] <= copies'[k[1]] /\ (k \in tracked' \/ k[2] < copies'[k[1]])
      OBVIOUS
    <3>1. CASE k = m
      BY <2>2, <2>5, <2>8, <3>1 DEF m, n
    <3>2. CASE k # m
      <4>1. /\ k \in timers /\ k \in Copies
            /\ k[2] <= copies[k[1]] /\ (k \in tracked \/ k[2] < copies[k[1]])
        BY <2>2, <3>2 DEF TimersKnown, DispTypeOK
      <4>2. CASE k[1] = t
        <5>1. copies'[k[1]] = copies[k[1]] + 1
          BY <2>8, <4>1, <4>2 DEF n
        <5> QED
          BY <2>8, <4>1, <5>1
      <4>3. CASE k[1] # t
        BY <2>2, <2>8, <4>1, <4>3
      <4> QED
        BY <4>2, <4>3
    <3> QED
      BY <3>1, <3>2
  <2>10. \A k \in tracked' : k[2] <= copies'[k[1]]
    <3> SUFFICES ASSUME NEW k \in tracked' PROVE k[2] <= copies'[k[1]]
      OBVIOUS
    <3>1. CASE k = m
      BY <2>5, <2>8, <3>1 DEF m, n
    <3>2. CASE k # m
      <4>1. k \in tracked /\ k[2] <= copies[k[1]] /\ k \in Copies /\ k[1] # t
        BY <2>2, <3>2 DEF TimersKnown, DispTypeOK
      <4> QED
        BY <2>8, <4>1
    <3> QED
      BY <3>1, <3>2
  <2>11. \A k \in Copies : k[2] > copies'[k[1]] => embed'[k] = "none"
    <3> SUFFICES ASSUME NEW k \in Copies, k[2] > copies'[k[1]] PROVE embed'[k] = "none"
      OBVIOUS
    <3>1. k # m
      BY <2>8 DEF m
    <3>2. k[2] > copies[k[1]]
      BY <2>8
    <3> QED
      BY <2>6, <3>1, <3>2 DEF TimersKnown
  <2>12. TimersKnown'
    <3>1. handler'.at \in {"ready", "bump"} /\ stage' = "events"
      BY <1>1, <2>1, <2>3 DEF DispTypeOK, Idle
    <3> QED
      BY <2>9, <2>10, <2>11, <3>1 DEF TimersKnown
  <2>13. ResultsStay'
    <3>1. \A k \in Copies : embed'[k] = "result" => k \notin timers'
      BY <2>2, <2>6 DEF ResultsStay
    <3> QED
      BY <1>1, <2>1, <3>1 DEF ResultsStay
  <2> QED
    BY <1>2, <2>7, <2>12, <2>13
<1>4. CASE TextPosted \/ EmbedFails \/ Bumped \/ ResultShown \/ StopPressed
  <2>1. UNCHANGED toolVars
    BY <1>4 DEF TextPosted, EmbedFails, Bumped, ResultShown, StopPressed
  <2>2. /\ handler' \in {Idle, handler} \/ (handler' = [handler EXCEPT !.at = "bump"] /\ stage = "events")
        /\ stop' \in {stop, "live", "moving", "stopped", "orphaned"}
    BY <1>4 DEF TextPosted, Ready, Bump, EmbedFails, Bumped, ResultShown, StopPressed
  <2>3. DispTypeOK'
    BY <1>1, <2>1, <2>2 DEF DispTypeOK, Idle, toolVars, statusVars
  <2>4. TimersKnown' /\ ResultsStay'
    BY <1>1, <2>1, <2>2 DEF DispTypeOK, TimersKnown, ResultsStay, Idle, toolVars
  <2> QED
    BY <1>2, <2>3, <2>4
<1> QED
  BY <1>3, <1>4

\* The result and a compaction change the status; the monitor ends with the result.
LEMMA EventInv ==
  ASSUME DispInv, UnknownResult \/ Compaction \/ Question \/ Result
  PROVE  DispInv'
<1> USE DEF DispInv
<1>1. Ready /\ UNCHANGED <<reruns, handler, toolVars, emoji, shown, stop, stuck>>
  BY DEF UnknownResult, Compaction, Question, Result, statusVars
<1>2. CASE Question
  BY <1>1, <1>2 DEF Question, DispTypeOK, Stages, ReactionsKnown, StatusEnds, TimersKnown,
     ResultsStay, Ready, toolVars, statusVars
<1>3. CASE UnknownResult \/ Compaction \/ Result
  <2>0. \E e \in {"thinking", "compact", "done"} : SetStatus(e)
    BY <1>3 DEF UnknownResult, Compaction, Result
  <2>1. ReactionsKnown' /\ target' \in Emojis /\ debounce' = "sleep" /\ severed' \in BOOLEAN
    BY <1>1, <2>0, StatusChange DEF Emojis
  <2>2. stage' \in {"events", "drain", "hold"} /\ stall' \in BOOLEAN /\ (stage' = "hold" => ~stall')
    BY <1>1, <1>3 DEF UnknownResult, Compaction, Result, Ready, DispTypeOK
  <2>3. DispTypeOK'
    BY <1>1, <2>1, <2>2 DEF DispTypeOK, Stages, toolVars
  <2>4. StatusEnds' /\ TimersKnown' /\ ResultsStay'
    BY <1>1, <2>2 DEF StatusEnds, TimersKnown, ResultsStay, Ready, toolVars
  <2> QED
    BY <2>1, <2>3, <2>4
<1> QED
  BY <1>2, <1>3

\* The processor cancels the timers it knows, which are all but the superseded ones.
LEMMA EndsInv ==
  ASSUME DispInv, Finalized \/ RunAgain
  PROVE  DispInv'
<1> USE DEF DispInv
<1>1. timers' = timers \ tracked /\ tracked' = {} /\ UNCHANGED <<handler, copies, embed, statusVars>>
  BY DEF Finalized, RunAgain
<1>2. stage' \in {"over", "events"} /\ handler.at = "ready"
  BY DEF Finalized, RunAgain, Ready, TimersKnown, DispTypeOK
<1>3. reruns' \in 0 .. MaxReruns
  BY DisplayAssumption DEF Finalized, RunAgain, DispTypeOK
<1>4. stop' \in {stop, "stopped"}
  BY DEF Finalized, RunAgain
<1>5. DispTypeOK'
  BY <1>1, <1>2, <1>3, <1>4 DEF DispTypeOK, Stages, statusVars
<1>6. \A m \in timers' : m \in timers /\ m[2] < copies[m[1]] /\ m[2] <= copies[m[1]]
  BY <1>1 DEF TimersKnown
<1>7. TimersKnown' /\ ResultsStay'
  BY <1>1, <1>2, <1>6 DEF TimersKnown, ResultsStay
<1>8. ReactionsKnown' /\ StatusEnds'
  BY <1>1, <1>2 DEF ReactionsKnown, StatusEnds, statusVars
<1> QED
  BY <1>5, <1>7, <1>8

LEMMA DispInvStep == DispInv /\ [DispNext]_dispVars => DispInv'
<1> SUFFICES ASSUME DispInv, [DispNext]_dispVars PROVE DispInv'
  OBVIOUS
<1>1. CASE DispNext
  BY <1>1, StatusStepInv, ToolStepInv, TimerEditsInv, HandlerInv, EventInv, EndsInv DEF DispNext
<1>2. CASE UNCHANGED dispVars
  BY <1>2 DEF dispVars, DispInv, DispTypeOK, TimersKnown, ReactionsKnown, StatusEnds, ResultsStay
<1> QED
  BY <1>1, <1>2

\* The inductive invariant holds in every state of every run.
THEOREM DispInvHolds == DispSpec => []DispInv
BY DispInitInv, DispInvStep, PTL DEF DispSpec

\* Every variable keeps its type.
THEOREM DispTypeCorrect == DispSpec => []DispTypeOK
<1>1. DispInv => DispTypeOK
  BY DEF DispInv
<1> QED
  BY <1>1, DispInvHolds, PTL

\* Whatever timers, users and events do, the result of a tool stays on its message
\* and no timer outlives the run but those of superseded messages.
THEOREM ResultsAreFinal == DispSpec => []ResultsStay
<1>1. DispInv => ResultsStay
  BY DEF DispInv
<1> QED
  BY <1>1, DispInvHolds, PTL

\* However debounced changes, the monitor and the cleanup interleave, a settled
\* status leaves nothing behind but what was refused or cut off in a request.
THEOREM StatusIsFinal == DispSpec => []StatusSettles
<1>1. DispInv => StatusSettles
  BY DEF DispInv, StatusEnds, StatusSettles
<1> QED
  BY <1>1, DispInvHolds, PTL
=============================================================================
