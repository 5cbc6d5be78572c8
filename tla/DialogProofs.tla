---------------------------- MODULE DialogProofs -----------------------------
(***************************************************************************)
(* Theorems about what Claude asks the users and waits for: ApprovalBroker *)
(* allows what was allowed, for any channels, overlapping turns, requests, *)
(* tools and clicks; RequestDialogs stops no view without an answer, for   *)
(* any requests of a turn and any presses; and MCDialogs, which has both.  *)
(***************************************************************************)
EXTENDS MCDialogs, TLAPS

-----------------------------------------------------------------------------
(***************************************************************************)
(* ApprovalBroker                                                          *)
(***************************************************************************)
\* What ties a request to its view, its future and its entry in _pending: a
\* view is open at most after the listener returned, and until it is settled
\* the request can be found by a button.
RequestInv(r) ==
  /\ req[r].pc \in {"new", "posting"} => view[r] = "none" /\ answer[r] = "unset"
  /\ req[r].pc # "new" => req[r].chan \in Channels /\ req[r].tool \in Tools
  /\ req[r].pc # "done" => req[r].result = "unset"
  /\ view[r] # "settled" => pressed[r] = "none"
  /\ answer[r] # "unset" => pressed[r] # "none" /\ answer[r] = Behaviour(pressed[r])
  /\ req[r].pc \in {"posting", "waiting"} /\ pressed[r] = "none" => r \in pending
  /\ req[r].pc = "waiting" /\ pressed[r] # "none" => answer[r] = Behaviour(pressed[r])

\* What an allowed request is owed to.
ResultInv(r) ==
  req[r].result = "allow" =>
    \/ req[r].how = "policy"
    \/ req[r].how = "user" /\ answer[r] = "allow"
    \/ req[r].how = "cache" /\ req[r].tool \in cache[req[r].chan]

\* A cached tool was put there by a button of that channel and that tool.
CacheInv ==
  \A c \in Channels : \A x \in cache[c] : \E q \in Requests :
    pressed[q] = "allow_and_cache" /\ req[q].chan = c /\ req[q].tool = x

IInv ==
  /\ TypeOK
  /\ \A r \in Requests : RequestInv(r)
  /\ \A r \in Requests : ResultInv(r)
  /\ CacheInv

-----------------------------------------------------------------------------
LEMMA InitIInv == Init => IInv
BY DEF Init, IInv, TypeOK, ReqRecords, ReqPCs, Reasons, RequestInv, ResultInv, CacheInv

\* A step on a request changes at most its pc, its reason and its result.
LEMMA DecideType ==
  ASSUME TypeOK, NEW r \in Requests, NEW how \in Reasons, NEW result \in {"allow", "deny"},
         Decide(r, how, result)
  PROVE  req' \in [Requests -> ReqRecords]
<1>0. req[r] \in ReqRecords
  BY DEF TypeOK
<1>1. [req[r] EXCEPT !.pc = "done", !.how = how, !.result = result] \in ReqRecords
  BY <1>0 DEF ReqRecords, ReqPCs
<1> QED
  BY <1>1 DEF Decide, TypeOK

LEMMA GotoType ==
  ASSUME TypeOK, NEW r \in Requests, NEW p \in ReqPCs, Goto(r, p)
  PROVE  req' \in [Requests -> ReqRecords]
<1>0. req[r] \in ReqRecords
  BY DEF TypeOK
<1>1. [req[r] EXCEPT !.pc = p] \in ReqRecords
  BY <1>0 DEF ReqRecords
<1> QED
  BY <1>1 DEF Goto, TypeOK

\* What submit enters for a request.
LEMMA SubmitEffect ==
  ASSUME NEW r \in Requests, NEW c \in Channels, NEW tool \in Tools, Submit(r, c, tool), TypeOK
  PROVE  \E e \in ReqRecords :
           /\ req' = [req EXCEPT ![r] = e]
           /\ e.chan = c /\ e.tool = tool /\ e.pc \in {"posting", "waiting", "done"}
           /\ e.pc # "done" => e.result = "unset" /\ pending' = pending \cup {r}
           /\ e.result = "allow" => e.how = "policy" \/ (e.how = "cache" /\ tool \in cache[c])
           /\ pending \subseteq pending' /\ pending' \in SUBSET Requests
<1> DEFINE new == [pc |-> IF listener[c] THEN "posting" ELSE "waiting",
                   chan |-> c, tool |-> tool, how |-> "none", result |-> "unset"]
           Out(how, result) == [new EXCEPT !.pc = "done", !.how = how, !.result = result]
<1>1. CASE \E d \in {"allow", "deny"} : req' = [req EXCEPT ![r] = Out("policy", d)] /\ pending' = pending
  <2>1. PICK d \in {"allow", "deny"} : req' = [req EXCEPT ![r] = Out("policy", d)] /\ pending' = pending
    BY <1>1
  <2>2. Out("policy", d) \in ReqRecords
    BY DEF ReqRecords, ReqPCs, Reasons
  <2> QED
    BY <2>1, <2>2 DEF TypeOK
<1>2. CASE tool \in cache[c] /\ req' = [req EXCEPT ![r] = Out("cache", "allow")] /\ pending' = pending
  <2>1. Out("cache", "allow") \in ReqRecords
    BY DEF ReqRecords, ReqPCs, Reasons
  <2> QED
    BY <1>2, <2>1 DEF TypeOK
<1>3. CASE req' = [req EXCEPT ![r] = new] /\ pending' = pending \cup {r}
  <2>1. new \in ReqRecords
    BY DEF ReqRecords, ReqPCs, Reasons
  <2> QED
    BY <1>3, <2>1 DEF TypeOK
<1> QED
  BY <1>1, <1>2, <1>3 DEF Submit

LEMMA NextType == TypeOK /\ (\A r \in Requests : RequestInv(r)) /\ [Next]_vars => TypeOK'
<1> SUFFICES ASSUME TypeOK, \A r \in Requests : RequestInv(r), [Next]_vars PROVE TypeOK'
  OBVIOUS
<1>1. ASSUME NEW t \in Turns, Unregister(t) PROVE TypeOK'
  <2>1. [turn[t] EXCEPT !.state = "over"] \in [state : {"new", "on", "over"}, chan : Channels \cup {None}]
    BY DEF TypeOK
  <2>2. turn' \in [Turns -> [state : {"new", "on", "over"}, chan : Channels \cup {None}]]
    BY <1>1, <2>1 DEF Unregister, TypeOK
  <2> QED
    BY <1>1, <2>2 DEF Unregister, TypeOK
<1>2. ASSUME NEW t \in Turns, NEW c \in Channels, Register(t, c) PROVE TypeOK'
  BY <1>2 DEF Register, TypeOK
<1>4. ASSUME NEW r \in Requests, NEW c \in Channels, NEW tool \in Tools, Submit(r, c, tool)
      PROVE  TypeOK'
  <2>1. PICK e \in ReqRecords : req' = [req EXCEPT ![r] = e] /\ pending' \in SUBSET Requests
    BY <1>4, SubmitEffect
  <2> QED
    BY <1>4, <2>1 DEF Submit, TypeOK
<1>5. ASSUME NEW r \in Requests, Posted(r) PROVE TypeOK'
  BY <1>5, GotoType DEF Posted, TypeOK, ReqPCs
<1>6. ASSUME NEW r \in Requests, Wake(r) PROVE TypeOK'
  BY <1>6, DecideType DEF Wake, TypeOK, Reasons
<1>7. ASSUME NEW r \in Requests, Timeout(r) PROVE TypeOK'
  BY <1>7, DecideType DEF Timeout, TypeOK, Reasons
<1>8. ASSUME NEW r \in Requests, Cancel(r) PROVE TypeOK'
  BY <1>8, GotoType DEF Cancel, TypeOK, ReqPCs
<1>9. ASSUME NEW r \in Requests, ViewTimeout(r) PROVE TypeOK'
  BY <1>9 DEF ViewTimeout, TypeOK
<1>10. ASSUME NEW r \in Requests, NEW b \in Buttons, Click(r, b) \/ DeferFails(r, b) PROVE TypeOK'
  BY <1>10 DEF Click, DeferFails, TypeOK
<1>11. ASSUME NEW r \in Requests, NEW b \in Buttons, Handle(r, b) PROVE TypeOK'
  <2>1. CASE view[r] = "settled"
    BY <1>11, <2>1 DEF Handle, TypeOK
  <2>2. CASE view[r] # "settled"
    <3> DEFINE c == req[r].chan
    <3>1. c \in Channels /\ req[r].tool \in Tools
      BY <1>11, <2>2 DEF Handle, RequestInv
    <3>2. cache' \in [Channels -> SUBSET Tools]
      BY <1>11, <2>2, <3>1 DEF Handle, TypeOK
    <3>3. pressed' \in [Requests -> Buttons \cup {"none"}] /\ answer' \in [Requests -> {"unset", "allow", "deny"}]
      BY <1>11, <2>2 DEF Handle, TypeOK, Behaviour
    <3> QED
      BY <1>11, <2>2, <3>2, <3>3 DEF Handle, TypeOK
  <2> QED
    BY <2>1, <2>2
<1>12. CASE UNCHANGED vars
  BY <1>12 DEF vars, TypeOK
<1> QED
  BY <1>1, <1>2, <1>4, <1>5, <1>6, <1>7, <1>8, <1>9, <1>10, <1>11, <1>12 DEF Next, RequestStep

-----------------------------------------------------------------------------
\* A request keeps its channel and its tool, and a button that was handled
\* first remains so.
LEMMA Stable ==
  ASSUME TypeOK, \A r \in Requests : RequestInv(r), [Next]_vars, NEW q \in Requests,
         req[q].pc # "new"
  PROVE  /\ req'[q].chan = req[q].chan /\ req'[q].tool = req[q].tool
         /\ pressed[q] # "none" => pressed'[q] = pressed[q]
<1>0. req \in [Requests -> ReqRecords] /\ pressed \in [Requests -> Buttons \cup {"none"}] /\ req[q] \in ReqRecords
  BY DEF TypeOK
<1>1. ASSUME NEW r \in Requests, NEW c \in Channels, NEW tool \in Tools, Submit(r, c, tool)
      PROVE  req'[q] = req[q] /\ pressed' = pressed
  <2>1. PICK e \in ReqRecords : req' = [req EXCEPT ![r] = e]
    BY <1>1, SubmitEffect
  <2>2. r # q
    BY <1>1 DEF Submit
  <2> QED
    BY <1>0, <1>1, <2>1, <2>2 DEF Submit
<1>2. ASSUME NEW r \in Requests, RequestStep(r) \/ Cancel(r)
      PROVE  req'[q].chan = req[q].chan /\ req'[q].tool = req[q].tool /\ pressed' = pressed
  <2>1. CASE Posted(r)
    BY <1>0, <2>1 DEF Posted, Goto, ReqRecords
  <2>2. CASE Wake(r)
    BY <1>0, <2>2 DEF Wake, Decide, ReqRecords
  <2>3. CASE Timeout(r)
    BY <1>0, <2>3 DEF Timeout, Decide, ReqRecords
  <2>4. CASE Cancel(r)
    BY <1>0, <2>4 DEF Cancel, Goto, ReqRecords
  <2> QED
    BY <1>2, <2>1, <2>2, <2>3, <2>4 DEF RequestStep
<1>3. ASSUME NEW r \in Requests, NEW b \in Buttons, Handle(r, b)
      PROVE  req' = req /\ (pressed[q] # "none" => pressed'[q] = pressed[q])
  BY <1>0, <1>3 DEF Handle
<1>4. ASSUME NEW t \in Turns, NEW c \in Channels, Register(t, c)
      PROVE  req' = req /\ pressed' = pressed
  BY <1>4 DEF Register
<1>5. ASSUME NEW r \in Requests, NEW b \in Buttons, Click(r, b) \/ DeferFails(r, b)
      PROVE  req' = req /\ pressed' = pressed
  BY <1>5 DEF Click, DeferFails
<1>6. CASE UNCHANGED vars
  BY <1>6 DEF vars
<1>7. ASSUME NEW t \in Turns, Unregister(t) PROVE req' = req /\ pressed' = pressed
  BY <1>7 DEF Unregister
<1>9. ASSUME NEW r \in Requests, ViewTimeout(r) PROVE req' = req /\ pressed' = pressed
  BY <1>9 DEF ViewTimeout
<1> QED
  BY <1>1, <1>2, <1>3, <1>4, <1>5, <1>6, <1>7, <1>9 DEF Next

LEMMA NextRequestInv ==
  ASSUME TypeOK, \A r \in Requests : RequestInv(r), [Next]_vars, NEW q \in Requests
  PROVE  RequestInv(q)'
<1>0. req \in [Requests -> ReqRecords] /\ req[q] \in ReqRecords /\ RequestInv(q)
  BY DEF TypeOK
<1>1. ASSUME NEW r \in Requests, NEW c \in Channels, NEW tool \in Tools, Submit(r, c, tool)
      PROVE  RequestInv(q)'
  <2>1. PICK e \in ReqRecords :
          /\ req' = [req EXCEPT ![r] = e]
          /\ e.chan = c /\ e.tool = tool /\ e.pc \in {"posting", "waiting", "done"}
          /\ e.pc # "done" => e.result = "unset" /\ pending' = pending \cup {r}
          /\ pending \subseteq pending'
    BY <1>1, SubmitEffect
  <2>2. view[r] = "none" /\ answer[r] = "unset" /\ pressed[r] = "none"
    BY <1>1 DEF Submit, RequestInv
  <2>3. UNCHANGED <<view, answer, pressed>>
    BY <1>1 DEF Submit
  <2>4. CASE r = q
    <3>1. req'[q] = e
      BY <1>0, <2>1, <2>4
    <3> QED
      BY <2>1, <2>2, <2>3, <2>4, <3>1 DEF RequestInv
  <2>5. CASE r # q
    <3>1. req'[q] = req[q]
      BY <1>0, <2>1, <2>5
    <3> QED
      BY <1>0, <2>1, <2>3, <3>1 DEF RequestInv
  <2> QED
    BY <2>4, <2>5
<1>2. ASSUME NEW r \in Requests, Posted(r) PROVE RequestInv(q)'
  <2>1. view \in [Requests -> {"none", "open", "settled"}]
    BY DEF TypeOK
  <2> QED
    BY <1>0, <1>2, <2>1 DEF Posted, Goto, RequestInv, ReqRecords
<1>3. ASSUME NEW r \in Requests, Wake(r) PROVE RequestInv(q)'
  BY <1>0, <1>3 DEF Wake, Decide, RequestInv, ReqRecords
<1>4. ASSUME NEW r \in Requests, Timeout(r) PROVE RequestInv(q)'
  BY <1>0, <1>4 DEF Timeout, Decide, RequestInv, ReqRecords
<1>5. ASSUME NEW r \in Requests, Cancel(r) PROVE RequestInv(q)'
  BY <1>0, <1>5 DEF Cancel, Goto, RequestInv, ReqRecords
<1>6. ASSUME NEW r \in Requests, ViewTimeout(r) PROVE RequestInv(q)'
  <2>1. view \in [Requests -> {"none", "open", "settled"}]
    BY DEF TypeOK
  <2> QED
    BY <1>0, <1>6, <2>1 DEF ViewTimeout, RequestInv
<1>7. ASSUME NEW r \in Requests, NEW b \in Buttons, Click(r, b) \/ DeferFails(r, b)
      PROVE  RequestInv(q)'
  BY <1>0, <1>7 DEF Click, DeferFails, RequestInv
<1>8. ASSUME NEW r \in Requests, NEW b \in Buttons, Handle(r, b) PROVE RequestInv(q)'
  <2>1. CASE view[r] = "settled"
    BY <1>0, <1>8, <2>1 DEF Handle, RequestInv
  <2>2. CASE view[r] # "settled"
    <3>1. /\ view \in [Requests -> {"none", "open", "settled"}]
          /\ pressed \in [Requests -> Buttons \cup {"none"}]
          /\ answer \in [Requests -> {"unset", "allow", "deny"}]
          /\ pressed[r] = "none" /\ b # "none"
      BY <1>8, <2>2 DEF TypeOK, RequestInv, Buttons
    <3>2. CASE r # q
      BY <1>0, <1>8, <2>2, <3>1, <3>2 DEF Handle, RequestInv
    <3>3. CASE r = q
      BY <1>0, <1>8, <2>2, <3>1, <3>3 DEF Handle, RequestInv
    <3> QED
      BY <3>2, <3>3
  <2> QED
    BY <2>1, <2>2
<1>9. ASSUME NEW t \in Turns, Unregister(t) PROVE RequestInv(q)'
  BY <1>0, <1>9 DEF Unregister, RequestInv
<1>10. ASSUME NEW t \in Turns, NEW c \in Channels, Register(t, c) PROVE RequestInv(q)'
  BY <1>0, <1>10 DEF Register, RequestInv
<1>12. CASE UNCHANGED vars
  BY <1>0, <1>12 DEF vars, RequestInv
<1> QED
  BY <1>1, <1>2, <1>3, <1>4, <1>5, <1>6, <1>7, <1>8, <1>9, <1>10, <1>12 DEF Next, RequestStep

\* Only a button fills a cache, and nothing ever empties it.
LEMMA CacheGrows ==
  ASSUME TypeOK, \A r \in Requests : RequestInv(r), [Next]_vars
  PROVE  \/ cache' = cache
         \/ \E r \in Requests :
              /\ pressed'[r] = "allow_and_cache" /\ req' = req
              /\ cache' = [cache EXCEPT ![req[r].chan] = @ \cup {req[r].tool}]
<1>1. ASSUME NEW r \in Requests, NEW b \in Buttons, Handle(r, b)
      PROVE  cache' = cache \/ (/\ pressed'[r] = "allow_and_cache" /\ req' = req
                                /\ cache' = [cache EXCEPT ![req[r].chan] = @ \cup {req[r].tool}])
  <2>1. CASE view[r] = "settled"
    BY <1>1, <2>1 DEF Handle
  <2>2. CASE view[r] # "settled"
    <3>1. pressed[r] = "none" /\ pressed \in [Requests -> Buttons \cup {"none"}]
      BY <2>2 DEF RequestInv, TypeOK
    <3> QED
      BY <1>1, <2>2, <3>1 DEF Handle
  <2> QED
    BY <2>1, <2>2
<1>2. ASSUME NEW r \in Requests, NEW c \in Channels, NEW tool \in Tools, Submit(r, c, tool)
      PROVE  cache' = cache
  BY <1>2 DEF Submit
<1>3. ASSUME NEW r \in Requests, RequestStep(r) \/ Cancel(r) \/ ViewTimeout(r) PROVE cache' = cache
  BY <1>3 DEF RequestStep, Posted, Wake, Timeout, Cancel, ViewTimeout
<1>4. ASSUME NEW r \in Requests, NEW b \in Buttons, Click(r, b) \/ DeferFails(r, b) PROVE cache' = cache
  BY <1>4 DEF Click, DeferFails
<1>5. ASSUME NEW t \in Turns, Unregister(t) PROVE cache' = cache
  BY <1>5 DEF Unregister
<1>6. ASSUME NEW t \in Turns, NEW c \in Channels, Register(t, c) PROVE cache' = cache
  BY <1>6 DEF Register
<1>8. CASE UNCHANGED vars
  BY <1>8 DEF vars
<1> QED
  BY <1>1, <1>2, <1>3, <1>4, <1>5, <1>6, <1>8 DEF Next

\* An answer that is set stays as it is: the view is settled by then.
LEMMA AnswerStands ==
  ASSUME TypeOK, \A r \in Requests : RequestInv(r), [Next]_vars, NEW q \in Requests,
         answer[q] # "unset"
  PROVE  answer'[q] = answer[q]
<1>0. answer \in [Requests -> {"unset", "allow", "deny"}] /\ view[q] = "settled"
  <2>1. pressed[q] # "none"
    BY DEF RequestInv
  <2>2. view[q] = "settled"
    BY <2>1 DEF RequestInv
  <2> QED
    BY <2>2 DEF TypeOK
<1>1. ASSUME NEW r \in Requests, NEW b \in Buttons, Handle(r, b) PROVE answer'[q] = answer[q]
  BY <1>0, <1>1 DEF Handle
<1>2. ASSUME NEW r \in Requests, NEW c \in Channels, NEW tool \in Tools, Submit(r, c, tool)
      PROVE  answer' = answer
  BY <1>2 DEF Submit
<1>3. ASSUME NEW r \in Requests, RequestStep(r) \/ Cancel(r) \/ ViewTimeout(r) PROVE answer' = answer
  BY <1>3 DEF RequestStep, Posted, Wake, Timeout, Cancel, ViewTimeout
<1>4. ASSUME NEW r \in Requests, NEW b \in Buttons, Click(r, b) \/ DeferFails(r, b) PROVE answer' = answer
  BY <1>4 DEF Click, DeferFails
<1>5. ASSUME NEW t \in Turns, Unregister(t) PROVE answer' = answer
  BY <1>5 DEF Unregister
<1>6. ASSUME NEW t \in Turns, NEW c \in Channels, Register(t, c) PROVE answer' = answer
  BY <1>6 DEF Register
<1>8. CASE UNCHANGED vars
  BY <1>8 DEF vars
<1> QED
  BY <1>1, <1>2, <1>3, <1>4, <1>5, <1>6, <1>8 DEF Next

LEMMA NextResultInv ==
  ASSUME TypeOK, \A r \in Requests : RequestInv(r), [Next]_vars, NEW q \in Requests, ResultInv(q)
  PROVE  ResultInv(q)'
<1>0. /\ req \in [Requests -> ReqRecords] /\ req[q] \in ReqRecords /\ RequestInv(q)
      /\ cache \in [Channels -> SUBSET Tools]
  BY DEF TypeOK
<1>1. \A c \in Channels : cache[c] \subseteq cache'[c]
  BY <1>0, CacheGrows DEF RequestInv
<1>2. ASSUME req'[q] = req[q] PROVE ResultInv(q)'
  <2>1. CASE req[q].result = "allow"
    <3>1. req[q].chan \in Channels
      BY <1>0, <2>1 DEF RequestInv
    <3>2. answer[q] = "allow" => answer'[q] = "allow"
      BY AnswerStands
    <3> QED
      BY <1>1, <1>2, <2>1, <3>1, <3>2 DEF ResultInv
  <2>2. CASE req[q].result # "allow"
    BY <1>2, <2>2 DEF ResultInv
  <2> QED
    BY <2>1, <2>2
<1>4. ASSUME NEW r \in Requests, NEW c \in Channels, NEW tool \in Tools, Submit(r, c, tool)
      PROVE  ResultInv(q)'
  <2>1. PICK e \in ReqRecords :
          /\ req' = [req EXCEPT ![r] = e] /\ e.chan = c /\ e.tool = tool
          /\ e.result = "allow" => e.how = "policy" \/ (e.how = "cache" /\ tool \in cache[c])
    BY <1>4, SubmitEffect
  <2>2. CASE r = q
    <3>1. req'[q] = e
      BY <1>0, <2>1, <2>2
    <3> QED
      BY <1>1, <2>1, <3>1 DEF ResultInv
  <2>3. CASE r # q
    <3>1. req'[q] = req[q]
      BY <1>0, <2>1, <2>3
    <3> QED
      BY <1>2, <3>1
  <2> QED
    BY <2>2, <2>3
<1>5. ASSUME NEW r \in Requests, Posted(r) \/ Cancel(r) PROVE ResultInv(q)'
  <2>1. CASE r = q
    <3>1. req[q].result # "allow"
      BY <1>0, <1>5, <2>1 DEF Posted, Cancel, RequestInv
    <3>2. CASE Posted(r)
      BY <1>0, <2>1, <3>1, <3>2 DEF Posted, Goto, ResultInv, ReqRecords
    <3>3. CASE Cancel(r)
      BY <1>0, <2>1, <3>1, <3>3 DEF Cancel, Goto, ResultInv, ReqRecords
    <3> QED
      BY <1>5, <3>2, <3>3
  <2>2. CASE r # q
    <3>1. req'[q] = req[q]
      BY <1>0, <1>5, <2>2 DEF Posted, Cancel, Goto
    <3> QED
      BY <1>2, <3>1
  <2> QED
    BY <2>1, <2>2
<1>6. ASSUME NEW r \in Requests, Wake(r) PROVE ResultInv(q)'
  <2>1. CASE r = q
    BY <1>0, <1>6, <2>1 DEF Wake, Decide, ResultInv, ReqRecords
  <2>2. CASE r # q
    <3>1. req'[q] = req[q]
      BY <1>0, <1>6, <2>2 DEF Wake, Decide
    <3> QED
      BY <1>2, <3>1
  <2> QED
    BY <2>1, <2>2
<1>7. ASSUME NEW r \in Requests, Timeout(r) PROVE ResultInv(q)'
  <2>1. CASE r = q
    BY <1>0, <1>7, <2>1 DEF Timeout, Decide, ResultInv, ReqRecords
  <2>2. CASE r # q
    <3>1. req'[q] = req[q]
      BY <1>0, <1>7, <2>2 DEF Timeout, Decide
    <3> QED
      BY <1>2, <3>1
  <2> QED
    BY <2>1, <2>2
<1>8. ASSUME NEW r \in Requests, NEW b \in Buttons, Click(r, b) \/ DeferFails(r, b) \/ Handle(r, b)
      PROVE  req' = req
  BY <1>8 DEF Click, DeferFails, Handle
<1>9. ASSUME NEW r \in Requests, ViewTimeout(r) PROVE req' = req
  BY <1>9 DEF ViewTimeout
<1>10. ASSUME NEW t \in Turns, Unregister(t) PROVE req' = req
  BY <1>10 DEF Unregister
<1>11. ASSUME NEW t \in Turns, NEW c \in Channels, Register(t, c) PROVE req' = req
  BY <1>11 DEF Register
<1>13. CASE UNCHANGED vars
  BY <1>2, <1>13 DEF vars
<1> QED
  BY <1>2, <1>4, <1>5, <1>6, <1>7, <1>8, <1>9, <1>10, <1>11, <1>13 DEF Next, RequestStep

LEMMA NextCacheInv ==
  ASSUME TypeOK, \A r \in Requests : RequestInv(r), [Next]_vars, CacheInv
  PROVE  CacheInv'
<1> SUFFICES ASSUME NEW c \in Channels, NEW x \in cache'[c]
             PROVE  \E q \in Requests :
                      pressed'[q] = "allow_and_cache" /\ req'[q].chan = c /\ req'[q].tool = x
  BY DEF CacheInv
<1>1. CASE x \in cache[c]
  <2>1. PICK q \in Requests : pressed[q] = "allow_and_cache" /\ req[q].chan = c /\ req[q].tool = x
    BY <1>1 DEF CacheInv
  <2>2. view[q] = "settled"
    BY <2>1 DEF RequestInv
  <2>3. req[q].pc # "new"
    BY <2>2 DEF RequestInv
  <2> QED
    BY <2>1, <2>3, Stable
<1>2. CASE x \notin cache[c]
  <2>1. PICK r \in Requests :
          /\ pressed'[r] = "allow_and_cache" /\ req' = req
          /\ cache' = [cache EXCEPT ![req[r].chan] = @ \cup {req[r].tool}]
    BY <1>2, CacheGrows
  <2>2. req[r].chan = c /\ req[r].tool = x
    BY <1>2, <2>1 DEF TypeOK
  <2> QED
    BY <2>1, <2>2
<1> QED
  BY <1>1, <1>2

LEMMA NextIInv == IInv /\ [Next]_vars => IInv'
BY NextType, NextRequestInv, NextResultInv, NextCacheInv DEF IInv

LEMMA Consequences == IInv => TypeOK /\ AllowJustified /\ PressReaches
<1> SUFFICES ASSUME IInv PROVE TypeOK /\ AllowJustified /\ PressReaches
  OBVIOUS
<1>1. PressReaches
  BY DEF IInv, RequestInv, PressReaches
<1>2. AllowJustified
  <2> SUFFICES ASSUME NEW r \in Requests, req[r].result = "allow", req[r].how # "policy"
               PROVE  \/ req[r].how = "user" /\ pressed[r] \in {"allow", "allow_and_cache"}
                      \/ /\ req[r].how = "cache"
                         /\ \E q \in Requests : /\ pressed[q] = "allow_and_cache"
                                                /\ req[q].chan = req[r].chan
                                                /\ req[q].tool = req[r].tool
    BY DEF AllowJustified
  <2>1. RequestInv(r) /\ ResultInv(r) /\ CacheInv /\ pressed[r] \in Buttons \cup {"none"}
    BY DEF IInv, TypeOK
  <2>2. CASE req[r].how = "user" /\ answer[r] = "allow"
    <3>1. pressed[r] # "none" /\ Behaviour(pressed[r]) = "allow"
      BY <2>1, <2>2 DEF RequestInv
    <3> QED
      BY <2>1, <2>2, <3>1 DEF Behaviour, Buttons
  <2>3. CASE req[r].how = "cache" /\ req[r].tool \in cache[req[r].chan]
    <3>1. req[r].chan \in Channels
      BY <2>1 DEF RequestInv
    <3> QED
      BY <2>1, <2>3, <3>1 DEF CacheInv
  <2> QED
    BY <2>1, <2>2, <2>3 DEF ResultInv
<1> QED
  BY <1>1, <1>2 DEF IInv

\* The inductive invariant holds in every reachable state.
THEOREM BrokerInvHolds == Spec => []IInv
BY InitIInv, NextIInv, PTL DEF Spec

\* Every variable keeps its type, for any number of channels and requests.
THEOREM TypeCorrect == Spec => []TypeOK
BY BrokerInvHolds, Consequences, PTL

\* A tool runs only because the policy, the user's own press for the request,
\* or an earlier allow-and-cache press for that channel and tool allows it.
THEOREM AllowsAreJustified == Spec => []AllowJustified
BY BrokerInvHolds, Consequences, PTL

\* A handled button has always answered the request that still waits for it.
THEOREM PressesReach == Spec => []PressReaches
BY BrokerInvHolds, Consequences, PTL

-----------------------------------------------------------------------------
(***************************************************************************)
(* RequestDialogs                                                          *)
(***************************************************************************)
\* Only a form in form mode opens.
FormsOnly == \A d \in Dialogs : dialog[d] = "form" => d \in Forms

\* A view is stopped exactly when its request is answered, but for the turns that
\* are over and the forms that were left.
ClosedIsAnswered ==
  \A d \in Dialogs :
    /\ injected[d] # "nothing" => dialog[d] = "closed"
    /\ dialog[d] = "closed" => injected[d] # "nothing" \/ ~stdin \/ d \in lapsed

DlgInv == DlgTypeOK /\ FormsOnly /\ ClosedIsAnswered

LEMMA DlgInitInv == DlgInit => DlgInv
<1> SUFFICES ASSUME DlgInit PROVE DlgInv
  OBVIOUS
<1>1. stdin \in BOOLEAN
  BY Zenon DEF DlgInit
<1>2. refusals \in 0 .. MaxRefusals
  BY RefusalsAssumption DEF DlgInit
<1>3. DlgTypeOK
  BY <1>1, <1>2 DEF DlgInit, DlgTypeOK
<1>4. FormsOnly /\ ClosedIsAnswered
  BY DEF DlgInit, FormsOnly, ClosedIsAnswered
<1> QED
  BY <1>3, <1>4 DEF DlgInv

\* A line for the process adds to what has been answered.
LEMMA InjectAdds ==
  ASSUME DlgInv, NEW d \in Dialogs, NEW reply \in Answers, InjectToolResult(d, reply)
  PROVE  /\ injected' \in [Dialogs -> {"nothing", "yes", "no", "both"}]
         /\ \A e \in Dialogs \ {d} : injected'[e] = injected[e]
         /\ stdin => injected'[d] # "nothing"
BY DEF InjectToolResult, DlgInv, DlgTypeOK, Answers

LEMMA ShowsOne ==
  ASSUME DlgInv, NEW d \in Dialogs, NEW shape \in {"none", "buttons", "form", "closed"},
         Shows(d, shape)
  PROVE  /\ dialog' \in [Dialogs -> {"none", "buttons", "form", "closed"}]
         /\ dialog'[d] = shape
         /\ \A e \in Dialogs \ {d} : dialog'[e] = dialog[e]
BY DEF Shows, DlgInv, DlgTypeOK

\* A view that stops with an answer for the process.
LEMMA AnswerCloses ==
  ASSUME DlgInv, NEW d \in Dialogs, NEW reply \in Answers,
         InjectToolResult(d, reply), Shows(d, "closed"),
         chosen' \in [Dialogs -> SUBSET Answers], UNCHANGED <<stdin, lapsed, refusals>>
  PROVE  DlgInv'
<1>1. DlgTypeOK'
  BY InjectAdds, ShowsOne DEF DlgInv, DlgTypeOK
<1>2. FormsOnly'
  BY ShowsOne DEF DlgInv, FormsOnly
<1>3. ClosedIsAnswered'
  BY InjectAdds, ShowsOne DEF DlgInv, ClosedIsAnswered
<1> QED
  BY <1>1, <1>2, <1>3 DEF DlgInv

LEMMA DialogStepInv ==
  ASSUME DlgInv, NEW d \in Dialogs,
         \/ RequestArrives(d) \/ FormOpens(d) \/ FormSubmitted(d) \/ SubmitRaises(d)
         \/ FormLapses(d) \/ DialogTimesOut(d) \/ CallbackStep(d)
         \/ \E reply \in Answers : Choose(d, reply) \/ DeferRaises(d, reply)
  PROVE  DlgInv'
<1>0. "yes" \in Answers /\ "no" \in Answers
  BY DEF Answers
<1>1. CASE RequestArrives(d)
  <2>1. CASE InjectToolResult(d, "yes") /\ Shows(d, "closed")
    BY <1>0, <1>1, <2>1, AnswerCloses DEF RequestArrives, DlgInv, DlgTypeOK
  <2>2. CASE Shows(d, "buttons") /\ injected' = injected
    BY <1>1, <2>2, ShowsOne
    DEF RequestArrives, DlgInv, DlgTypeOK, FormsOnly, ClosedIsAnswered
  <2> QED
    BY <1>1, <2>1, <2>2 DEF RequestArrives
<1>2. CASE FormOpens(d)
  BY <1>2, ShowsOne DEF FormOpens, DlgInv, DlgTypeOK, FormsOnly, ClosedIsAnswered
<1>3. CASE FormSubmitted(d)
  BY <1>0, <1>3, AnswerCloses DEF FormSubmitted, DlgInv, DlgTypeOK
<1>4. CASE FormLapses(d)
  <2>1. d \in Forms
    BY <1>4 DEF FormLapses, DlgInv, FormsOnly
  <2> QED
    BY <1>4, <2>1, ShowsOne DEF FormLapses, DlgInv, DlgTypeOK, FormsOnly, ClosedIsAnswered
<1>5. CASE DialogTimesOut(d)
  BY <1>0, <1>5, AnswerCloses DEF DialogTimesOut, DlgInv, DlgTypeOK
<1>6. CASE CallbackStep(d)
  <2>1. PICK reply \in Answers : ChoiceMade(d, reply)
    BY <1>6 DEF CallbackStep
  <2>2. chosen' \in [Dialogs -> SUBSET Answers]
    BY <2>1 DEF ChoiceMade, DlgInv, DlgTypeOK
  <2> QED
    BY <2>1, <2>2, AnswerCloses DEF ChoiceMade
<1>7. ASSUME NEW reply \in Answers, Choose(d, reply) \/ DeferRaises(d, reply)
      PROVE  DlgInv'
  <2>1. chosen' \in [Dialogs -> SUBSET Answers]
    BY <1>7 DEF Choose, DeferRaises, DlgInv, DlgTypeOK
  <2>2. refusals' \in 0 .. MaxRefusals
    BY <1>7, RefusalsAssumption DEF Choose, DeferRaises, DlgInv, DlgTypeOK
  <2>3. UNCHANGED <<stdin, dialog, injected, lapsed>>
    BY <1>7 DEF Choose, DeferRaises
  <2> QED
    BY <2>1, <2>2, <2>3 DEF DlgInv, DlgTypeOK, FormsOnly, ClosedIsAnswered
<1>8. CASE SubmitRaises(d)
  <2>1. refusals' \in 0 .. MaxRefusals
    BY <1>8, RefusalsAssumption DEF SubmitRaises, DlgInv, DlgTypeOK
  <2> QED
    BY <1>8, <2>1 DEF SubmitRaises, DlgInv, DlgTypeOK, FormsOnly, ClosedIsAnswered
<1> QED
  BY <1>1, <1>2, <1>3, <1>4, <1>5, <1>6, <1>7, <1>8

\* The inductive invariant of the requests holds in every reachable state.
THEOREM DlgInvHolds == DlgSpec => []DlgInv
<1>1. DlgInv /\ TurnEnds => DlgInv'
  BY DEF TurnEnds, DlgInv, DlgTypeOK, FormsOnly, ClosedIsAnswered
<1>2. DlgInv /\ UNCHANGED dlgVars => DlgInv'
  BY DEF dlgVars, DlgInv, DlgTypeOK, FormsOnly, ClosedIsAnswered
<1>3. DlgInv /\ [DlgNext]_dlgVars => DlgInv'
  BY <1>1, <1>2, DialogStepInv DEF DlgNext
<1> QED
  BY <1>3, DlgInitInv, PTL DEF DlgSpec

\* No view is stopped without an answer for Claude, and none that has answered
\* stays up (the callbacks of permission_view.py, plan_view.py and
\* elicitation_view.py), except after the turn and for forms that nobody submits, or
\* that Discord refuses to take until their deadline:
\* the safety half of RequestSettled, for any number of requests.
THEOREM NoSilentClose == DlgSpec => []ClosedIsAnswered
<1>1. DlgInv => ClosedIsAnswered
  BY DEF DlgInv
<1> QED
  BY <1>1, DlgInvHolds, PTL

-----------------------------------------------------------------------------
(***************************************************************************)
(* Both                                                                    *)
(***************************************************************************)
\* Whichever of the two moves, each takes a step of its own or none.
THEOREM DialogsImplement == DialogsSpec => Spec /\ DlgSpec
<1>1. DialogsInit => Init /\ DlgInit
  BY DEF DialogsInit
<1>2. [DialogsNext]_allVars => [Next]_vars /\ [DlgNext]_dlgVars
  BY DEF DialogsNext, allVars
<1> QED
  BY <1>1, <1>2, PTL DEF DialogsSpec, Spec, DlgSpec

\* Every variable of both keeps its type, for all constants of both.
THEOREM DialogsTypeCorrect == DialogsSpec => []DialogsTypeOK
<1>1. TypeOK /\ DlgInv => DialogsTypeOK
  BY DEF DialogsTypeOK, DlgInv
<1> QED
  BY <1>1, DialogsImplement, TypeCorrect, DlgInvHolds, PTL
=============================================================================
