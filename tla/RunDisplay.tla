------------------------------ MODULE RunDisplay ------------------------------
(***************************************************************************)
(* What a run of Claude shows besides its text: the embeds of its tools,   *)
(* each with a timer that edits it; the reaction on the user's message,    *)
(* which StatusManager changes after a delay and a monitor overwrites in a *)
(* stall; and the Stop button, which moves below every new message.  The   *)
(* handlers of EventProcessor, the timers, the debounced change and the    *)
(* monitor are coroutines that overlap at every request; Discord carries   *)
(* requests out in the order they are made.                                *)
(***************************************************************************)
EXTENDS Naturals

CONSTANTS
  UsedTools, \* tool uses; one is announced again by every partial message
  MaxCopies, \* bound on the messages posted for a tool use
  MaxReruns, \* bound on the reruns after a compaction or an answer
  NoTool

ASSUME DisplayAssumption == NoTool \notin UsedTools /\ MaxReruns \in Nat /\ MaxCopies \in Nat

VARIABLES
  stage,    \* of the run: events, draining, the cleanup of its status, over
  reruns,   \* number of reruns
  handler,  \* what the handler of the current event awaits, and its tool
  copies,   \* tool use -> number of its messages
  embed,    \* message -> what it shows
  timers,   \* the messages with a LiveToolTimer task that is alive
  tracked,  \* those of the tasks that active_timers holds, one for a tool
  target, emoji, \* _target_emoji, _current_emoji
  shown,    \* the reactions of the bot on the message
  debounce, \* what the task of _apply_debounced awaits
  stall,    \* whether the stall monitor is alive
  stop,     \* the Stop button: on a message, or dead; and a copy left behind
  severed,  \* history: a debounced change was cancelled in a request
  stuck     \* history: the reactions that a refused removal has left

dispVars == <<stage, reruns, handler, copies, embed, timers, tracked, target, emoji,
              shown, debounce, stall, stop, severed, stuck>>
toolVars == <<copies, embed, timers, tracked>>
statusVars == <<target, emoji, shown, debounce, stall, severed, stuck>>

Emojis == {"thinking", "tool", "compact", "done", "stalled"}
Stages == {"events", "drain", "hold", "clean", "settled", "over"}
Idle == [at |-> "ready", tool |-> NoTool]
Copies == UsedTools \X (1 .. MaxCopies)

DispTypeOK ==
  /\ stage \in Stages
  /\ reruns \in 0 .. MaxReruns
  /\ handler \in [at : {"ready", "post", "bump", "result"}, tool : UsedTools \cup {NoTool}]
  /\ copies \in [UsedTools -> 0 .. MaxCopies]
  /\ embed \in [Copies -> {"none", "running", "result"}]
  /\ timers \subseteq Copies /\ tracked \subseteq Copies
  /\ target \in Emojis \cup {"none"} /\ emoji \in Emojis \cup {"none"}
  /\ shown \subseteq Emojis
  /\ debounce \in {"none", "sleep", "remove", "add"}
  /\ stall \in BOOLEAN
  /\ stop \in {"live", "moving", "stopped", "orphaned"}
  /\ severed \in BOOLEAN
  /\ stuck \subseteq Emojis

\* The caller has posted the button and called set_thinking.
DispInit ==
  /\ stage = "events" /\ reruns = 0
  /\ handler = Idle
  /\ copies = [t \in UsedTools |-> 0]
  /\ embed = [m \in Copies |-> "none"]
  /\ timers = {} /\ tracked = {}
  /\ target = "thinking" /\ emoji = "none" /\ shown = {}
  /\ debounce = "sleep" /\ stall = TRUE
  /\ stop = "live"
  /\ severed = FALSE /\ stuck = {}

-----------------------------------------------------------------------------
(***************************************************************************)
(* StatusManager.                                                          *)
(***************************************************************************)
\* A reaction has been added that is not recorded.
Severs == severed' = (severed \/ debounce = "add")

\* _set_status replaces the debounced change, whatever it was doing.
SetStatus(e) ==
  /\ target' = e
  /\ debounce' = "sleep"
  /\ Severs

\* remove_reaction and add_reaction: a refusal is suppressed.
Remove(e) ==
  \/ shown' = shown \ {e} /\ stuck' = stuck \ {e}
  \/ UNCHANGED shown /\ stuck' = stuck \cup (shown \cap {e})

Add(e) ==
  \/ shown' = shown \cup {e} /\ stuck' = stuck \ {e}
  \/ UNCHANGED <<shown, stuck>>

\* The old reaction goes first, if one is recorded.
ApplyStarts ==
  /\ debounce = "sleep"
  /\ IF target = emoji
     THEN debounce' = "none" /\ UNCHANGED <<shown, stuck>>
     ELSE IF emoji = "none"
     THEN debounce' = "add" /\ Add(target)
     ELSE debounce' = "remove" /\ Remove(emoji)
  /\ UNCHANGED <<stage, reruns, handler, toolVars, target, emoji, stall, stop, severed>>

ApplyAdds ==
  /\ debounce = "remove"
  /\ debounce' = "add"
  /\ Add(target)
  /\ UNCHANGED <<stage, reruns, handler, toolVars, target, emoji, stall, stop, severed>>

Applied ==
  /\ debounce = "add"
  /\ emoji' = target
  /\ debounce' = "none"
  /\ UNCHANGED <<stage, reruns, handler, toolVars, target, shown, stall, stop, severed, stuck>>

\* _stall_monitor, after either delay; its notice to the thread is left out.
StallWarns ==
  /\ stall /\ emoji # "stalled"
  /\ SetStatus("stalled")
  /\ UNCHANGED <<stage, reruns, handler, toolVars, emoji, shown, stall, stop, stuck>>

\* cleanup: the monitor and a pending change end, the recorded reaction goes.
\* Mutant: the pending change goes on.
CleanupKeepsDebounce ==
  /\ stage = "hold"
  /\ stage' = "clean"
  /\ stall' = FALSE
  /\ IF emoji = "none" THEN UNCHANGED <<shown, stuck>> ELSE Remove(emoji)
  /\ UNCHANGED <<reruns, handler, toolVars, target, emoji, debounce, severed, stop>>

Cleanup ==
  /\ stage = "hold"
  /\ stage' = "clean"
  /\ stall' = FALSE
  /\ debounce' = "none"
  /\ Severs
  /\ IF emoji = "none" THEN UNCHANGED <<shown, stuck>> ELSE Remove(emoji)
  /\ UNCHANGED <<reruns, handler, toolVars, target, emoji, stop>>

CleanedUp ==
  /\ stage = "clean"
  /\ stage' = "settled"
  /\ emoji' = "none"
  /\ UNCHANGED <<reruns, handler, toolVars, target, shown, debounce, stall, stop, severed, stuck>>

StatusStep == ApplyStarts \/ ApplyAdds \/ Applied \/ StallWarns \/ Cleanup \/ CleanedUp

-----------------------------------------------------------------------------
(***************************************************************************)
(* Tools.                                                                  *)
(***************************************************************************)
Ready == stage = "events" /\ handler.at = "ready"

ToolUse(t) ==
  /\ Ready /\ copies[t] < MaxCopies
  /\ SetStatus("tool")
  /\ handler' = [at |-> "post", tool |-> t]
  /\ UNCHANGED <<stage, reruns, toolVars, emoji, shown, stall, stop, stuck>>

\* bump: the Stop button is posted again, below the new message.
Bump ==
  IF stop = "live"
  THEN stop' = "moving" /\ handler' = [handler EXCEPT !.at = "bump"]
  ELSE handler' = Idle /\ UNCHANGED stop

TextPosted ==
  /\ Ready
  /\ Bump
  /\ UNCHANGED <<stage, reruns, toolVars, statusVars>>

\* The embed is there, and its timer starts: it takes the place of the tool's
\* former one, which goes on.
EmbedPosted ==
  /\ handler.at = "post"
  /\ LET t == handler.tool
         m == <<t, copies[t] + 1>>
     IN /\ copies' = [copies EXCEPT ![t] = @ + 1]
        /\ embed' = [embed EXCEPT ![m] = "running"]
        /\ timers' = timers \cup {m}
        /\ tracked' = {k \in tracked : k[1] # t} \cup {m}
  /\ Bump
  /\ UNCHANGED <<stage, reruns, statusVars>>

EmbedFails ==
  /\ handler.at = "post"
  /\ handler' = Idle
  /\ UNCHANGED <<stage, reruns, toolVars, statusVars, stop>>

\* The new message is there and the old one goes, pressed meanwhile or not.
Bumped ==
  /\ handler.at = "bump"
  /\ handler' = Idle
  /\ stop' = IF stop = "moving" THEN "live" ELSE "orphaned"
  /\ UNCHANGED <<stage, reruns, toolVars, statusVars>>

StopPressed ==
  /\ stop \in {"live", "moving"} /\ stage # "over"
  /\ stop' = "stopped"
  /\ UNCHANGED <<stage, reruns, handler, toolVars, statusVars>>

\* set_thinking starts a new monitor; then the timer ends, and the edit follows.
\* Mutant: the timer is forgotten, not cancelled.
ToolResultTimerLives(t) ==
  /\ Ready
  /\ \E m \in tracked :
       /\ m[1] = t
       /\ tracked' = tracked \ {m}
       /\ embed' = [embed EXCEPT ![m] = "result"]
  /\ SetStatus("thinking")
  /\ stall' = TRUE
  /\ handler' = [at |-> "result", tool |-> t]
  /\ UNCHANGED <<stage, reruns, copies, timers, emoji, shown, stop, stuck>>

ToolResult(t) ==
  /\ Ready
  /\ \E m \in tracked :
       /\ m[1] = t
       /\ timers' = timers \ {m}
       /\ tracked' = tracked \ {m}
       /\ embed' = [embed EXCEPT ![m] = "result"]
  /\ SetStatus("thinking")
  /\ stall' = TRUE
  /\ handler' = [at |-> "result", tool |-> t]
  /\ UNCHANGED <<stage, reruns, copies, emoji, shown, stop, stuck>>

\* The embed was not posted, or by the processor before a rerun.
UnknownResult ==
  /\ Ready
  /\ SetStatus("thinking")
  /\ stall' = TRUE
  /\ UNCHANGED <<stage, reruns, handler, toolVars, emoji, shown, stop, stuck>>

ResultShown ==
  /\ handler.at = "result"
  /\ handler' = Idle
  /\ UNCHANGED <<stage, reruns, toolVars, statusVars, stop>>

\* The loop of a timer: the embed shows the time that has passed.
TimerEdits ==
  /\ \E m \in timers : embed' = [embed EXCEPT ![m] = "running"]
  /\ UNCHANGED <<stage, reruns, handler, copies, timers, tracked, statusVars, stop>>

ToolStep(t) == ToolUse(t) \/ ToolResult(t)

-----------------------------------------------------------------------------
(***************************************************************************)
(* The run.                                                                *)
(***************************************************************************)
\* A compaction shows itself; in the first run it also interrupts, and so does a
\* question: from then on events are dropped, the result with them.
Compaction ==
  /\ Ready
  /\ SetStatus("compact")
  /\ stage' = IF reruns = 0 THEN "drain" ELSE stage
  /\ UNCHANGED <<reruns, handler, toolVars, emoji, shown, stall, stop, stuck>>

Question ==
  /\ Ready
  /\ stage' = "drain"
  /\ UNCHANGED <<reruns, handler, toolVars, statusVars, stop>>

\* The result, or an error of the process: set_done, set_error.
Result ==
  /\ Ready
  /\ stage' = "hold"
  /\ SetStatus("done")
  /\ stall' = FALSE
  /\ UNCHANGED <<reruns, handler, toolVars, emoji, shown, stop, stuck>>

\* The processor's finalize.  Mutant: the timers go on.
FinalizeNothing ==
  /\ \/ stage = "settled"
     \/ stage = "drain"
     \/ Ready
  /\ stage' = "over"
  /\ tracked' = {}
  /\ stop' = IF stop = "live" THEN "stopped" ELSE stop
  /\ UNCHANGED <<reruns, handler, copies, embed, timers, statusVars>>

Finalized ==
  /\ \/ stage = "settled"
     \/ stage = "drain"
     \/ Ready
  /\ stage' = "over"
  /\ timers' = timers \ tracked
  /\ tracked' = {}
  /\ stop' = IF stop = "live" THEN "stopped" ELSE stop
  /\ UNCHANGED <<reruns, handler, copies, embed, statusVars>>

\* After a compaction, or the answer to a question: a new processor, the old
\* status and button.
RunAgain ==
  /\ stage = "drain" /\ reruns < MaxReruns
  /\ reruns' = reruns + 1
  /\ stage' = "events"
  /\ timers' = timers \ tracked
  /\ tracked' = {}
  /\ UNCHANGED <<handler, copies, embed, statusVars, stop>>

DispNext ==
  \/ StatusStep
  \/ \E t \in UsedTools : ToolStep(t)
  \/ TimerEdits
  \/ TextPosted \/ UnknownResult \/ EmbedPosted \/ EmbedFails \/ Bumped \/ ResultShown \/ StopPressed
  \/ Compaction \/ Question \/ Result \/ Finalized \/ RunAgain

DispSpec == DispInit /\ [][DispNext]_dispVars

-----------------------------------------------------------------------------
\* The result of a tool stays where it is put: no timer overwrites it.  And no timer
\* outlives the run but that of a message which a later one of the same tool use has
\* superseded: active_timers forgets it, and nothing ends it (event_processor.py:565).
ResultsStay ==
  /\ \A m \in Copies : embed[m] = "result" => m \notin timers
  /\ stage = "over" => \A m \in timers : m[2] < copies[m[1]]

\* Once the status has been cleaned up, nothing is left that could add a reaction, and
\* no reaction but those whose removal Discord refused, which is suppressed: unless a
\* change was cancelled in the middle of a request, when what it has added is
\* recorded nowhere (status.py:110, "Remove all status reactions.").
StatusSettles ==
  stage = "settled" /\ ~severed => shown \subseteq stuck /\ debounce = "none" /\ ~stall

=============================================================================
