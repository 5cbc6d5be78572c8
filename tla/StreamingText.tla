----------------------------- MODULE StreamingText ----------------------------
(***************************************************************************)
(* The text of one block of Claude's answer on its way to the thread:      *)
(* EventProcessor turns growing texts into deltas, and                     *)
(* StreamingMessageManager sends and edits messages of limited length, at  *)
(* once or by a task that flushes after a delay.  Every request to Discord *)
(* is awaited, so that the task and the handler of the next event overlap. *)
(* Discord carries requests out in the order they are made.                *)
(***************************************************************************)
EXTENDS Naturals, Sequences

CONSTANTS
  MaxText, \* bound on the length of the text
  Limit    \* STREAM_MAX_CHARS

ASSUME TextAssumption == MaxText \in Nat /\ Limit \in Nat \ {0}

VARIABLES
  said,     \* how much of the text the events so far contained
  block,    \* whether more of the text may come
  from, to, \* the part of the text in _buffer
  current,  \* _current_message, 0 for None
  posts,    \* the messages in the thread, and the part of the text each shows
  writer,   \* what the handler of the event awaits
  delayed,  \* what the task _pending_edit awaits
  refused   \* history: Discord refused a request, which _flush only logs

textVars == <<said, block, from, to, current, posts, writer, delayed, refused>>
bufferVars == <<said, block, from, to>>

WriterSteps == {"ready", "drain", "cut", "flush", "tail", "rest"}

\* A coroutine, the message that its request makes, and its next step.
NoRequest == [at |-> "ready", made |-> 0, closing |-> FALSE]

TextTypeOK ==
  /\ said \in 0 .. MaxText
  /\ block \in {"open", "closed"}
  /\ from \in 0 .. MaxText /\ to \in 0 .. MaxText
  /\ current \in 0 .. Len(posts)
  /\ \A i \in 1 .. Len(posts) : posts[i] \in [lo : 0 .. MaxText, hi : 0 .. MaxText]
  /\ writer \in [at : WriterSteps, made : 0 .. Len(posts), closing : BOOLEAN]
  /\ delayed \in [at : {"none", "sleep", "flush"}, made : 0 .. Len(posts)]
  /\ refused \in BOOLEAN

TextInit ==
  /\ said = 0 /\ block = "open"
  /\ from = 0 /\ to = 0
  /\ current = 0
  /\ posts = <<>>
  /\ writer = NoRequest
  /\ delayed = [at |-> "none", made |-> 0]
  /\ refused = FALSE

HasContent == from < to

-----------------------------------------------------------------------------
(***************************************************************************)
(* Requests.                                                               *)
(***************************************************************************)
Upto(n, m) == IF n < m THEN n ELSE m

\* thread.send or message.edit of the buffer up to hi; the handle of a new
\* message arrives with the answer.  made' is 0 for an edit or a refusal.
FlushMakes(hi, made) ==
  \/ /\ HasContent
     /\ IF current = 0
        THEN /\ posts' = Append(posts, [lo |-> from, hi |-> hi])
             /\ made = Len(posts) + 1
        ELSE /\ posts' = [posts EXCEPT ![current] = [lo |-> from, hi |-> hi]]
             /\ made = 0
     /\ UNCHANGED refused
  \/ /\ HasContent
     /\ made = 0
     /\ refused' = TRUE
     /\ UNCHANGED posts
  \/ /\ ~HasContent
     /\ made = 0
     /\ UNCHANGED <<posts, refused>>

Flushes(made) == FlushMakes(Upto(from + Limit, to), made)

Made == 0 .. Len(posts) + 1

Bound(made) == IF made = 0 THEN current ELSE made

-----------------------------------------------------------------------------
(***************************************************************************)
(* The events, and append.                                                 *)
(***************************************************************************)
\* A partial event; its delta is what the events before did not contain.
PartialText ==
  /\ block = "open" /\ writer.at = "ready"
  /\ \E n \in said + 1 .. MaxText :
       /\ said' = n
       /\ to' = n
  /\ writer' = [writer EXCEPT !.at = "drain"]
  /\ UNCHANGED <<block, from, current, posts, delayed, refused>>

\* The complete event with its remaining delta, or a tool use that ends the text.
CompleteText ==
  /\ block = "open" /\ writer.at = "ready" /\ HasContent
  /\ block' = "closed"
  /\ \E n \in said .. MaxText :
       /\ said' = n
       /\ to' = n
       /\ writer' = [writer EXCEPT !.at = IF n = said THEN "tail" ELSE "drain",
                                   !.closing = TRUE]
  /\ UNCHANGED <<from, current, posts, delayed, refused>>

\* No partial event came: chunk_message and a send for every chunk.
WholeText ==
  /\ block = "open" /\ writer.at = "ready" /\ ~HasContent
  /\ block' = "closed"
  /\ said' \in 1 .. MaxText
  /\ posts' = Append(posts, [lo |-> 0, hi |-> said'])
  /\ UNCHANGED <<from, to, current, writer, delayed, refused>>

AfterAppend == IF writer.closing THEN "tail" ELSE "ready"

\* The loop: a full message is flushed and left behind.
Overflow ==
  /\ writer.at = "drain" /\ to - from > Limit
  /\ \E made \in Made :
       /\ Flushes(made)
       /\ writer' = [writer EXCEPT !.at = "cut", !.made = made]
  /\ UNCHANGED <<bufferVars, current, delayed>>

\* Mutant: the next part goes into the same message.
CutSameMessage ==
  /\ writer.at = "cut"
  /\ current' = Bound(writer.made)
  /\ from' = from + Limit
  /\ writer' = [writer EXCEPT !.at = "drain", !.made = 0]
  /\ UNCHANGED <<said, block, to, posts, delayed, refused>>

Cut ==
  /\ writer.at = "cut"
  /\ current' = 0
  /\ from' = from + Limit
  /\ writer' = [writer EXCEPT !.at = "drain", !.made = 0]
  /\ UNCHANGED <<said, block, to, posts, delayed, refused>>

\* The interval since the last edit has passed, or the task is to wait for it.
FlushNow ==
  /\ writer.at = "drain" /\ to - from <= Limit
  /\ \E made \in Made :
       /\ Flushes(made)
       /\ writer' = [writer EXCEPT !.at = "flush", !.made = made]
  /\ UNCHANGED <<bufferVars, current, delayed>>

FlushLater ==
  /\ writer.at = "drain" /\ to - from <= Limit
  /\ delayed' = IF delayed.at = "none" THEN [delayed EXCEPT !.at = "sleep"] ELSE delayed
  /\ writer' = [writer EXCEPT !.at = AfterAppend]
  /\ UNCHANGED <<bufferVars, current, posts, refused>>

Flushed ==
  /\ writer.at = "flush"
  /\ current' = Bound(writer.made)
  /\ writer' = [writer EXCEPT !.at = AfterAppend, !.made = 0]
  /\ UNCHANGED <<bufferVars, posts, delayed, refused>>

-----------------------------------------------------------------------------
(***************************************************************************)
(* finalize, and the delayed flush.                                        *)
(***************************************************************************)
\* The task is cancelled, under way or not; the last flush shows the buffer, or
\* as much of it as still fits when the fences around its tables are added.
Finalize ==
  /\ writer.at = "tail"
  /\ delayed' = [at |-> "none", made |-> 0]
  /\ \E hi \in from + 1 .. Upto(from + Limit, to), made \in Made :
       /\ FlushMakes(hi, made)
       /\ from' = hi
       /\ writer' = [writer EXCEPT !.at = "rest", !.made = made]
  /\ UNCHANGED <<said, block, to, current>>

\* What did not fit is sent; then the processor takes a new manager.
Rest ==
  /\ writer.at = "rest"
  /\ posts' = IF HasContent THEN Append(posts, [lo |-> from, hi |-> to]) ELSE posts
  /\ writer' = NoRequest
  /\ current' = 0
  /\ from' = to
  /\ UNCHANGED <<said, block, to, delayed, refused>>

DelayedFlush ==
  /\ delayed.at = "sleep"
  /\ \E made \in Made :
       /\ Flushes(made)
       /\ delayed' = [at |-> "flush", made |-> made]
  /\ UNCHANGED <<bufferVars, current, writer>>

DelayedFlushed ==
  /\ delayed.at = "flush"
  /\ current' = Bound(delayed.made)
  /\ delayed' = [at |-> "none", made |-> 0]
  /\ UNCHANGED <<bufferVars, posts, writer, refused>>

TextNext ==
  \/ PartialText \/ CompleteText \/ WholeText
  \/ Overflow \/ Cut \/ FlushNow \/ FlushLater \/ Flushed
  \/ Finalize \/ Rest
  \/ DelayedFlush \/ DelayedFlushed

TextSpec == TextInit /\ [][TextNext]_textVars

-----------------------------------------------------------------------------
\* When a block is over, every part of its text is in some message, however the
\* delayed flush and the handlers overlapped and whatever it did to the current
\* message, unless Discord refused a request, which nothing repeats.
TextShown ==
  block = "closed" /\ writer.at = "ready" /\ ~refused =>
    \A u \in 1 .. said : \E i \in 1 .. Len(posts) : posts[i].lo < u /\ u <= posts[i].hi

=============================================================================
