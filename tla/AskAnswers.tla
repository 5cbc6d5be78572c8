------------------------------ MODULE AskAnswers ------------------------------
(***************************************************************************)
(* Questions of Claude to the users of one thread: collect_ask_answers     *)
(* shows a view per question and waits for its answer up to a day; the     *)
(* buttons and forms of the views find the waiting coroutine through       *)
(* AskAnswerBus, which knows it by the id of the thread alone; a row of    *)
(* pending_asks lets the views survive a restart, which the waiting        *)
(* coroutine does not.  Runs of Claude in one thread may overlap.          *)
(***************************************************************************)
EXTENDS Naturals, FiniteSets

CONSTANTS
  Askers,       \* calls of collect_ask_answers for the thread
  Longer,       \* the calls that may ask more than one question
  MaxQuestions, \* the most questions that one call asks
  MaxReboots,   \* bound on the restarts of the bot
  MaxPresses,   \* bound on the forms and callbacks that are open at a time
  NoView        \* no question

ASSUME AskBoundsAssumption ==
  /\ Longer \subseteq Askers /\ MaxQuestions \in Nat \ {0}
  /\ MaxReboots \in Nat /\ MaxPresses \in Nat

Views == (Askers \X {1}) \cup (Longer \X (1 .. MaxQuestions))

ASSUME NoViewAssumption == NoView \notin Views

VARIABLES
  asker,    \* call -> the question it is at, what it awaits
  waiter,   \* AskAnswerBus._waiters[thread]: the question whose queue it holds
  inbox,    \* question -> the first answer in its queue, named by its view
  asked,    \* row of pending_asks: the question it names
  buttons,  \* the questions whose message in the thread has its buttons
  alive,    \* of these, the ones whose view discord.py dispatches to
  forms,    \* views with a form that a user may still submit
  callbacks, \* callbacks that have posted their answer and await Discord
  reboots,  \* number of restarts
  apart,    \* history: no two calls of the thread have overlapped so far
  late,     \* history, while apart: questions whose queued answer came late
  misfits   \* history, while apart: answers in time that went astray

askVars == <<asker, waiter, inbox, asked, buttons, alive, forms, callbacks,
             reboots, apart, late, misfits>>
busVars == <<waiter, inbox, asked, late>>
viewVars == <<buttons, alive, forms, callbacks>>

AskSteps == {"idle", "save", "send", "wait", "forget", "expire", "inert", "over", "failed"}

\* Whether it is a press or a form that answers, and whether the bus took it.
Callbacks == [view : Views, by : {"press", "form"}, taken : BOOLEAN]

AskTypeOK ==
  /\ asker \in [Askers -> [q : 1 .. MaxQuestions, at : AskSteps]]
  /\ waiter \in Views \cup {NoView}
  /\ inbox \in [Views -> Views \cup {NoView}]
  /\ asked \in Views \cup {NoView}
  /\ buttons \subseteq Views /\ alive \subseteq buttons
  /\ forms \subseteq Views /\ callbacks \subseteq Callbacks
  /\ reboots \in 0 .. MaxReboots
  /\ late \subseteq Views /\ misfits \subseteq Views
  /\ apart \in BOOLEAN

View(r) == <<r, asker[r].q>>

AskInit ==
  /\ asker = [r \in Askers |-> [q |-> 1, at |-> "idle"]]
  /\ waiter = NoView
  /\ inbox = [v \in Views |-> NoView]
  /\ asked = NoView
  /\ buttons = {} /\ alive = {} /\ forms = {} /\ callbacks = {}
  /\ reboots = 0
  /\ late = {} /\ misfits = {}
  /\ apart = TRUE

-----------------------------------------------------------------------------
(***************************************************************************)
(* collect_ask_answers.                                                    *)
(***************************************************************************)
AskerGoes(r, at) == asker' = [asker EXCEPT ![r].at = at]

Asking(r) == asker[r].at \notin {"idle", "over", "failed"}

AskStart(r) ==
  /\ asker[r].at = "idle"
  /\ AskerGoes(r, "save")
  /\ apart' = (apart /\ ~\E s \in Askers : Asking(s))
  /\ UNCHANGED <<busVars, viewVars, reboots, misfits>>

\* ask_repo.save, INSERT OR REPLACE by thread; then register, before the view.
SaveQuestion(r) ==
  /\ asker[r].at = "save"
  /\ asked' = View(r)
  /\ waiter' = View(r)
  /\ AskerGoes(r, "send")
  /\ UNCHANGED <<inbox, late, viewVars, reboots, misfits, apart>>

ShowView(r) ==
  /\ asker[r].at = "send"
  /\ buttons' = buttons \cup {View(r)}
  /\ alive' = alive \cup {View(r)}
  /\ AskerGoes(r, "wait")
  /\ UNCHANGED <<busVars, forms, callbacks, reboots, misfits, apart>>

\* thread.send raises before the try: the row and the waiter stay.
SendFails(r) ==
  /\ asker[r].at = "send"
  /\ AskerGoes(r, "failed")
  /\ UNCHANGED <<busVars, viewVars, reboots, misfits, apart>>

\* The first answer of the queue; it is a misfit if it was given in time to
\* another question.
FirstAnswer(r) ==
  LET q == View(r) IN
  /\ asker[r].at = "wait" /\ inbox[q] # NoView
  /\ misfits' = IF ~apart \/ inbox[q] = q \/ q \in late THEN misfits ELSE misfits \cup {inbox[q]}
  /\ inbox' = [inbox EXCEPT ![q] = NoView]
  /\ late' = late \ {q}

\* Mutant: no finally.
TakeAnswerNoFinally(r) ==
  /\ FirstAnswer(r)
  /\ AskerGoes(r, "forget")
  /\ UNCHANGED <<waiter, asked, viewVars, reboots, apart>>

\* unregister, in the finally, pops the waiter of the thread, whosever it is.
TakeAnswer(r) ==
  /\ FirstAnswer(r)
  /\ waiter' = NoView
  /\ AskerGoes(r, "forget")
  /\ UNCHANGED <<asked, viewVars, reboots, apart>>

QuestionExpires(r) ==
  /\ asker[r].at = "wait" /\ inbox[View(r)] = NoView
  /\ waiter' = NoView
  /\ AskerGoes(r, "expire")
  /\ UNCHANGED <<inbox, asked, late, viewVars, reboots, misfits, apart>>

\* ask_repo.delete drops the row of the thread, whose question it may be.
RowDropped(r) ==
  /\ asker[r].at = "expire"
  /\ asked' = NoView
  /\ AskerGoes(r, "inert")
  /\ UNCHANGED <<waiter, inbox, late, viewVars, reboots, misfits, apart>>

CloseMessage(v) ==
  /\ buttons' = buttons \ {v}
  /\ alive' = alive \ {v}

NextQuestion(r) ==
  \/ AskerGoes(r, "over")
  \/ /\ r \in Longer /\ asker[r].q < MaxQuestions
     /\ asker' = [asker EXCEPT ![r] = [q |-> @.q + 1, at |-> "save"]]

\* msg.edit removes the buttons, or fails and is forgiven; then the finally.
MadeInert(r) ==
  /\ asker[r].at = "inert"
  /\ CloseMessage(View(r)) \/ UNCHANGED <<buttons, alive>>
  /\ waiter' = NoView
  /\ NextQuestion(r)
  /\ UNCHANGED <<inbox, asked, late, forms, callbacks, reboots, misfits, apart>>

\* The row goes with its question; the next one, or the prompt for Claude.
Forget(r) ==
  /\ asker[r].at = "forget"
  /\ asked' = NoView
  /\ NextQuestion(r)
  /\ UNCHANGED <<waiter, inbox, late, viewVars, reboots, misfits, apart>>

AskerStep(r) ==
  \/ SaveQuestion(r) \/ ShowView(r) \/ TakeAnswer(r) \/ QuestionExpires(r)
  \/ RowDropped(r) \/ MadeInert(r) \/ Forget(r)

-----------------------------------------------------------------------------
(***************************************************************************)
(* The callbacks of a view.                                                *)
(***************************************************************************)

\* A question waits for its answer.
Waits(v) == asker[v[1]].q = v[2] /\ asker[v[1]].at = "wait"

\* The queue of the question that the bus knows keeps the order of its answers.
\* Mutant: one queue for the thread, whose second answer is for the next question.
PostAnswerShared(v) ==
  LET q == IF inbox[waiter] # NoView /\ <<waiter[1], waiter[2] + 1>> \in Views
           THEN <<waiter[1], waiter[2] + 1>> ELSE waiter IN
  /\ inbox' = [inbox EXCEPT ![q] = IF @ = NoView THEN v ELSE @]
  /\ late' = IF apart /\ inbox[q] = NoView /\ ~Waits(v) THEN late \cup {q} ELSE late

\* post_answer: the answer enters the queue of whatever question waits.
PostAnswer(v) ==
  /\ inbox' = [inbox EXCEPT ![waiter] = IF @ = NoView THEN v ELSE @]
  /\ late' = IF apart /\ inbox[waiter] = NoView /\ ~Waits(v) THEN late \cup {waiter} ELSE late

\* What a press or a submitted form does first; with no waiter it is turned away.
Deliver(v, by) ==
  /\ callbacks' = callbacks \cup {[view |-> v, by |-> by, taken |-> waiter # NoView]}
  /\ \/ waiter # NoView /\ PostAnswer(v) /\ UNCHANGED misfits
     \/ /\ waiter = NoView
        /\ misfits' = IF apart /\ Waits(v) THEN misfits \cup {v} ELSE misfits
        /\ UNCHANGED <<inbox, late>>
  /\ UNCHANGED <<asker, waiter, asked, buttons, alive, reboots, apart>>

Open == Cardinality(forms) + Cardinality(callbacks)

PressView(v) ==
  /\ v \in alive /\ Open < MaxPresses
  /\ Deliver(v, "press")
  /\ UNCHANGED forms

OpenForm(v) ==
  /\ v \in alive /\ Open < MaxPresses
  /\ forms' = forms \cup {v}
  /\ UNCHANGED <<asker, busVars, buttons, alive, callbacks, reboots, misfits, apart>>

\* The user may take any time over the form: modal.wait() has no limit.
SubmitForm(v) ==
  /\ v \in forms
  /\ forms' = forms \ {v}
  /\ Deliver(v, "form")

\* The message shows the selection, and the view stops.  A refused edit raises
\* after a press, before the view stops; after a form it is forgiven.
Acknowledge(k) ==
  /\ k \in callbacks /\ k.taken
  /\ callbacks' = callbacks \ {k}
  /\ \/ CloseMessage(k.view)
     \/ k.by = "press" /\ UNCHANGED <<buttons, alive>>
     \/ k.by = "form" /\ alive' = alive \ {k.view} /\ UNCHANGED buttons
  /\ UNCHANGED <<asker, busVars, forms, reboots, misfits, apart>>

\* Nobody waits: the row of the thread goes, and the user is told of a restart,
\* after a press in a message of its own, after a form in place of the question;
\* then the view stops, unless the message of its own was refused.
DropStale(k) ==
  /\ k \in callbacks /\ ~k.taken
  /\ callbacks' = callbacks \ {k}
  /\ asked' = NoView
  /\ \/ alive' = alive \ {k.view} /\ UNCHANGED buttons
     \/ k.by = "press" /\ UNCHANGED <<buttons, alive>>
     \/ k.by = "form" /\ CloseMessage(k.view)
  /\ UNCHANGED <<asker, waiter, inbox, late, forms, reboots, misfits, apart>>

ViewStep(k) == Acknowledge(k) \/ DropStale(k)

-----------------------------------------------------------------------------
\* The process dies with its coroutines, queues, forms and views.
Reboot ==
  /\ reboots < MaxReboots
  /\ reboots' = reboots + 1
  /\ asker' = [r \in Askers |->
       IF Asking(r) THEN [asker[r] EXCEPT !.at = "over"] ELSE asker[r]]
  /\ waiter' = NoView
  /\ inbox' = [v \in Views |-> NoView] /\ late' = {}
  /\ alive' = {} /\ forms' = {} /\ callbacks' = {}
  /\ UNCHANGED <<asked, buttons, misfits, apart>>

\* _restore_pending_ask_views, in every on_ready: also after a reconnection.
RestoreViews ==
  /\ asked # NoView
  /\ alive' = alive \cup {v \in buttons : v[1] = asked[1] /\ v[2] >= asked[2]}
  /\ UNCHANGED <<asker, busVars, buttons, forms, callbacks, reboots, misfits, apart>>

AskNext ==
  \/ \E r \in Askers : AskStart(r) \/ AskerStep(r) \/ SendFails(r)
  \/ \E v \in Views : PressView(v) \/ OpenForm(v) \/ SubmitForm(v)
  \/ \E k \in callbacks : ViewStep(k)
  \/ Reboot \/ RestoreViews

AskSpec == AskInit /\ [][AskNext]_askVars

-----------------------------------------------------------------------------
\* Whoever the bus would hand an answer to is a call that still waits for the
\* answer to that very question, although a call that ends removes the waiter
\* of any other; only a call that failed to show its view leaves one behind.
WaiterListens ==
  waiter # NoView =>
    LET r == waiter[1] IN
    asker[r].q = waiter[2] /\ asker[r].at \in {"send", "wait", "failed"}

\* As long as the calls of the thread do not overlap, an answer that is given while
\* its own question waits is neither turned away nor taken by another question,
\* whatever else is pressed or submitted late, twice, or on a view that a refused
\* edit or a restart has left alive.
AnswerFits ==
  apart => misfits = {}

=============================================================================
