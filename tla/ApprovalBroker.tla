---------------------------- MODULE ApprovalBroker ----------------------------
(***************************************************************************)
(* Tool approvals: ApprovalBroker between the MCP server's approval_request*)
(* calls and the buttons of ApprovalView.  A request is one call of submit;*)
(* a turn is a handle_message with approvals enabled, which registers the  *)
(* channel's listener and unregisters it when its run is over.  All of it  *)
(* runs in one event loop: a step is what happens between two awaits.      *)
(***************************************************************************)
EXTENDS Naturals

CONSTANTS
  Channels,  \* channels of projects with approvals enabled
  Turns,     \* their turns; ChannelSession shows that they may overlap
  Requests,  \* calls of submit
  Tools,     \* tool names
  None

ASSUME NoneAssumption == None \notin Channels \cup Tools

VARIABLES
  turn,      \* turn -> its channel, and whether it is new, on or over
  listener,  \* channel -> has it an on_request callback (_channel_listeners)
  cache,     \* channel -> the tools allowed without asking (_session_cache)
  req,       \* request -> where submit is, and what it returned and why
  pending,   \* the requests that have an entry in _pending
  answer,    \* request -> what its future was set to
  view,      \* request -> none | open | settled: its buttons
  click,     \* the <<request, button>> clicks whose handler awaits defer()
  pressed    \* request -> the first button that was handled (history)

vars == <<turn, listener, cache, req, pending, answer, view, click, pressed>>

Buttons == {"allow", "allow_and_cache", "deny"}

Behaviour(b) == IF b = "deny" THEN "deny" ELSE "allow"

ReqPCs == {"new", "posting", "waiting", "done", "cancelled"}

Reasons == {"none", "policy", "cache", "user", "timeout"}

ReqRecords ==
  [pc : ReqPCs, chan : Channels \cup {None}, tool : Tools \cup {None},
   how : Reasons, result : {"unset", "allow", "deny"}]

TypeOK ==
  /\ turn \in [Turns -> [state : {"new", "on", "over"}, chan : Channels \cup {None}]]
  /\ listener \in [Channels -> BOOLEAN]
  /\ cache \in [Channels -> SUBSET Tools]
  /\ req \in [Requests -> ReqRecords]
  /\ pending \in SUBSET Requests
  /\ answer \in [Requests -> {"unset", "allow", "deny"}]
  /\ view \in [Requests -> {"none", "open", "settled"}]
  /\ click \in SUBSET (Requests \X Buttons)
  /\ pressed \in [Requests -> Buttons \cup {"none"}]

Init ==
  /\ turn = [t \in Turns |-> [state |-> "new", chan |-> None]]
  /\ listener = [c \in Channels |-> FALSE]
  /\ cache = [c \in Channels |-> {}]
  /\ req = [r \in Requests |-> [pc |-> "new", chan |-> None, tool |-> None,
                                how |-> "none", result |-> "unset"]]
  /\ pending = {}
  /\ answer = [r \in Requests |-> "unset"]
  /\ view = [r \in Requests |-> "none"]
  /\ click = {}
  /\ pressed = [r \in Requests |-> "none"]

-----------------------------------------------------------------------------
(***************************************************************************)
(* The turns of a channel.                                                 *)
(***************************************************************************)

\* register_channel replaces the listener of an earlier turn.
Register(t, c) ==
  /\ turn[t].state = "new"
  /\ turn' = [turn EXCEPT ![t] = [state |-> "on", chan |-> c]]
  /\ listener' = [listener EXCEPT ![c] = TRUE]
  /\ UNCHANGED <<cache, req, pending, answer, view, click, pressed>>

\* Mutant: unregistering a channel drops its pending requests.
UnregisterDropsPending(t) ==
  LET c == turn[t].chan
  IN  /\ turn[t].state = "on"
      /\ turn' = [turn EXCEPT ![t].state = "over"]
      /\ listener' = [listener EXCEPT ![c] = FALSE]
      /\ pending' = {r \in pending : req[r].chan # c}
      /\ UNCHANGED <<cache, req, answer, view, click, pressed>>

\* handle_message's finally: whichever turn's listener it is.  Requests that
\* are pending go on waiting.
Unregister(t) ==
  /\ turn[t].state = "on"
  /\ turn' = [turn EXCEPT ![t].state = "over"]
  /\ listener' = [listener EXCEPT ![turn[t].chan] = FALSE]
  /\ UNCHANGED <<cache, req, pending, answer, view, click, pressed>>

-----------------------------------------------------------------------------
(***************************************************************************)
(* A request.                                                              *)
(***************************************************************************)
Goto(r, pc) == req' = [req EXCEPT ![r].pc = pc]

Decide(r, how, result) == req' = [req EXCEPT ![r] = [@ EXCEPT !.pc = "done", !.how = how, !.result = result]]

\* submit up to its first await, for a tool that a running turn wants to use.
\* The allowlist decides on the tool's input first, then the session cache is
\* asked; a request left over gets a future and goes to the listener, if any.
Submit(r, c, tool) ==
  LET new == [pc |-> IF listener[c] THEN "posting" ELSE "waiting",
              chan |-> c, tool |-> tool, how |-> "none", result |-> "unset"]
      Returns(how, result) ==
        /\ req' = [req EXCEPT ![r] = [new EXCEPT !.pc = "done", !.how = how, !.result = result]]
        /\ UNCHANGED pending
  IN  /\ req[r].pc = "new"
      /\ \E t \in Turns : turn[t].state = "on" /\ turn[t].chan = c
      /\ \/ \E decision \in {"allow", "deny"} : Returns("policy", decision)
         \/ tool \in cache[c] /\ Returns("cache", "allow")
         \/ /\ tool \notin cache[c]
            /\ req' = [req EXCEPT ![r] = new]
            /\ pending' = pending \cup {r}
      /\ UNCHANGED <<turn, listener, cache, answer, view, click, pressed>>

\* The listener returned: the buttons were posted, or sending them failed.
\* The deadline of the request starts now.
Posted(r) ==
  /\ req[r].pc = "posting"
  /\ Goto(r, "waiting")
  /\ \E v \in {"open", "none"} : view' = [view EXCEPT ![r] = v]
  /\ UNCHANGED <<turn, listener, cache, pending, answer, click, pressed>>

\* wait_for returns the answer.
Wake(r) ==
  /\ req[r].pc = "waiting"
  /\ answer[r] # "unset"
  /\ Decide(r, "user", answer[r])
  /\ UNCHANGED <<turn, listener, cache, pending, answer, view, click, pressed>>

\* Mutant: the deadline is that of the view, so it needs one.
TimeoutOfView(r) ==
  /\ req[r].pc = "waiting"
  /\ view[r] = "settled"
  /\ pending' = pending \ {r}
  /\ Decide(r, "timeout", "deny")
  /\ UNCHANGED <<turn, listener, cache, answer, view, click, pressed>>

\* wait_for gives up, and the MCP server answers deny.  The view's own timer
\* is 2 s shorter, but at least 5 s, and starts anew at every click: nothing
\* says which of the two is first.  An answer of the same loop tick is lost.
Timeout(r) ==
  /\ req[r].pc = "waiting"
  /\ pending' = pending \ {r}
  /\ Decide(r, "timeout", "deny")
  /\ UNCHANGED <<turn, listener, cache, answer, view, click, pressed>>

\* The MCP call is cancelled: the entry in _pending stays.
Cancel(r) ==
  /\ req[r].pc \in {"posting", "waiting"}
  /\ Goto(r, "cancelled")
  /\ UNCHANGED <<turn, listener, cache, pending, answer, view, click, pressed>>

-----------------------------------------------------------------------------
(***************************************************************************)
(* The buttons.                                                            *)
(***************************************************************************)

\* A click in Discord; its handler first awaits the acknowledgement.
Click(r, b) ==
  /\ view[r] = "open"
  /\ click' = click \cup {<<r, b>>}
  /\ UNCHANGED <<turn, listener, cache, req, pending, answer, view, pressed>>

\* The acknowledgement fails and the handler is over.
DeferFails(r, b) ==
  /\ <<r, b>> \in click
  /\ click' = click \ {<<r, b>>}
  /\ UNCHANGED <<turn, listener, cache, req, pending, answer, view, pressed>>

\* Mutant: the handler looks at _settled before it awaits, not after.
HandleUnchecked(r, b) ==
  LET c == req[r].chan
  IN  /\ <<r, b>> \in click
      /\ click' = click \ {<<r, b>>}
      /\ view' = [view EXCEPT ![r] = "settled"]
      /\ pressed' = [pressed EXCEPT ![r] = IF @ = "none" THEN b ELSE @]
      /\ cache' = IF b = "allow_and_cache" THEN [cache EXCEPT ![c] = @ \cup {req[r].tool}] ELSE cache
      /\ answer' = IF r \in pending THEN [answer EXCEPT ![r] = Behaviour(b)] ELSE answer
      /\ pending' = pending \ {r}
      /\ UNCHANGED <<turn, listener, req>>

\* Mutant: the future gets the button instead of the behaviour it stands for.
HandleRaw(r, b) ==
  /\ <<r, b>> \in click
  /\ view[r] = "open"
  /\ click' = click \ {<<r, b>>}
  /\ view' = [view EXCEPT ![r] = "settled"]
  /\ pressed' = [pressed EXCEPT ![r] = IF @ = "none" THEN b ELSE @]
  /\ answer' = IF r \in pending THEN [answer EXCEPT ![r] = b] ELSE answer
  /\ pending' = pending \ {r}
  /\ UNCHANGED <<turn, listener, cache, req>>

\* The acknowledgement was sent.  Unless the view has been settled meanwhile,
\* the button settles it, fills the cache and resolves the pending future.
Handle(r, b) ==
  /\ <<r, b>> \in click
  /\ click' = click \ {<<r, b>>}
  /\ \/ /\ view[r] = "settled"
        /\ UNCHANGED <<cache, pending, answer, view, pressed>>
     \/ LET c == req[r].chan
        IN  /\ view[r] = "open"
            /\ view' = [view EXCEPT ![r] = "settled"]
            /\ pressed' = [pressed EXCEPT ![r] = IF @ = "none" THEN b ELSE @]
            /\ cache' = IF b = "allow_and_cache" THEN [cache EXCEPT ![c] = @ \cup {req[r].tool}] ELSE cache
            /\ answer' = IF r \in pending THEN [answer EXCEPT ![r] = Behaviour(b)] ELSE answer
            /\ pending' = pending \ {r}
  /\ UNCHANGED <<turn, listener, req>>

\* on_timeout of the view.
ViewTimeout(r) ==
  /\ view[r] = "open"
  /\ view' = [view EXCEPT ![r] = "settled"]
  /\ UNCHANGED <<turn, listener, cache, req, pending, answer, click, pressed>>

-----------------------------------------------------------------------------
RequestStep(r) == Posted(r) \/ Wake(r) \/ Timeout(r)

Next ==
  \/ \E t \in Turns : Unregister(t) \/ \E c \in Channels : Register(t, c)
  \/ \E r \in Requests :
       \/ \E c \in Channels, tool \in Tools : Submit(r, c, tool)
       \/ RequestStep(r) \/ Cancel(r) \/ ViewTimeout(r)
       \/ \E b \in Buttons : Click(r, b) \/ DeferFails(r, b) \/ Handle(r, b)

Spec == Init /\ [][Next]_vars

\* channel.send returns or raises, and the broker's timer goes off.
Fairness == \A r \in Requests : WF_vars(RequestStep(r))

FairSpec == Spec /\ Fairness

-----------------------------------------------------------------------------
\* A tool is only ever allowed because the policy says so, because the user
\* pressed allow for this very request, or because the user chose, for a
\* request of the same channel and the same tool, to allow it from then on:
\* clicks race with each other and with both deadlines, and the first one
\* handled counts.
AllowJustified ==
  \A r \in Requests : req[r].result = "allow" =>
    \/ req[r].how = "policy"
    \/ req[r].how = "user" /\ pressed[r] \in {"allow", "allow_and_cache"}
    \/ /\ req[r].how = "cache"
       /\ \E q \in Requests : /\ pressed[q] = "allow_and_cache"
                              /\ req[q].chan = req[r].chan
                              /\ req[q].tool = req[r].tool

\* A button handled while its request still waits has set the answer, even if
\* the turn that posted it is over and its channel unregistered: the user's
\* decision does not get lost between the view and the future.
PressReaches ==
  \A r \in Requests : pressed[r] # "none" /\ req[r].pc = "waiting" =>
    answer[r] = Behaviour(pressed[r])

\* Every request that reaches the broker is answered or cancelled, also when no
\* listener was there to post it or nobody ever clicks.
RequestAnswered ==
  \A r \in Requests : req[r].pc \in {"posting", "waiting"} ~> req[r].pc \in {"done", "cancelled"}

=============================================================================
