------------------------------ MODULE Worktrees -------------------------------
(***************************************************************************)
(* The worktrees on disk and everything that removes them apart from a     *)
(* channel's own tear-down: the end of a thread's session, the sweep of    *)
(* on_ready, /worktree-cleanup and /ch-worktree-cleanup, with its forced   *)
(* form.  Sweeps run in worker threads: between any two of their git       *)
(* commands Claude and the users go on editing and committing.             *)
(***************************************************************************)
EXTENDS Naturals, FiniteSets

CONSTANTS
  ThreadTrees,   \* wt-<thread_id>, made by Claude itself
  ChanTrees,     \* ch-<slug>, made for a message of the channel
  Sweeps,        \* commands and start-ups that sweep
  NoTree         \* no worktree

ASSUME WorktreesAssumption ==
  /\ ThreadTrees \cap ChanTrees = {} /\ NoTree \notin ThreadTrees \cup ChanTrees
  /\ IsFiniteSet(ChanTrees)

Trees == ThreadTrees \cup ChanTrees

VARIABLES
  disk,     \* worktree -> whether it exists, and git status says anything
  session,  \* worktree -> the leg of the session that works in it
  indexed,  \* the channels in the index
  cached,   \* ChannelWorktreeManager._clean_cache
  sweep,    \* sweep -> what it does
  ready,    \* number of on_ready: 0 before the first
  spared    \* history: sweep -> sessions registered without a break since it began

wtVars == <<disk, session, indexed, cached, sweep, ready, spared>>

SweepKinds == {"ready", "manual", "bulk", "force"}
Sweeping == [kind : SweepKinds, at : {"idle", "confirm", "scan", "next", "checked"}, dry : BOOLEAN,
             ids : SUBSET ThreadTrees, todo : SUBSET Trees, size : 0 .. Cardinality(ChanTrees),
             tree : Trees \cup {NoTree}]

WtTypeOK ==
  /\ disk \in [Trees -> {"none", "clean", "dirty"}]
  /\ session \in [Trees -> {"none", "registered", "claude", "ended", "checked"}]
  /\ indexed \subseteq ChanTrees
  /\ cached \in [ChanTrees -> {"none", "clean", "dirty"}]
  /\ sweep \in [Sweeps -> Sweeping]
  /\ ready \in 0 .. 2
  /\ spared \in [Sweeps -> SUBSET Trees]

Over == [kind |-> "ready", at |-> "idle", dry |-> FALSE, ids |-> {}, todo |-> {}, size |-> 0,
         tree |-> NoTree]

\* Worktrees of an earlier run of the bot may lie about.
WtInit ==
  /\ disk \in [Trees -> {"none", "clean", "dirty"}]
  /\ session = [w \in Trees |-> "none"]
  /\ indexed = {}
  /\ cached = [w \in ChanTrees |-> "none"]
  /\ sweep = [k \in Sweeps |-> Over]
  /\ ready = 0
  /\ spared = [k \in Sweeps |-> {}]

Active(w) == session[w] \in {"registered", "claude"}

-----------------------------------------------------------------------------
(***************************************************************************)
(* Sessions and users.                                                     *)
(***************************************************************************)
Becomes(w, state) ==
  /\ session' = [session EXCEPT ![w] = state]
  /\ UNCHANGED <<indexed, sweep, ready>>

\* A leg of run_claude_with_config is registered and waits for its slot; for a
\* channel, ensure has made the worktree or found it.
SessionBegins(w) ==
  /\ ready > 0 /\ session[w] = "none"
  /\ w \in ChanTrees => w \in indexed
  /\ Becomes(w, "registered")
  /\ disk' = [disk EXCEPT ![w] = IF w \in ChanTrees /\ @ = "none" THEN "clean" ELSE @]
  /\ cached' = IF w \in ChanTrees /\ disk[w] = "none"
               THEN [cached EXCEPT ![w] = "none"] ELSE cached
  /\ UNCHANGED spared

\* Claude edits or commits, and makes a thread's worktree when it likes; the work
\* of others needs no session.
Edited(w) ==
  /\ disk[w] = "none" => w \in ThreadTrees /\ session[w] = "claude"
  /\ disk' = [disk EXCEPT ![w] = CASE @ = "none" -> "clean" [] @ = "clean" -> "dirty"
                                   [] OTHER -> "clean"]
  /\ UNCHANGED <<session, indexed, cached, sweep, ready, spared>>

ClaudeRuns(w) ==
  /\ session[w] = "registered"
  /\ Becomes(w, "claude")
  /\ UNCHANGED <<disk, cached, spared>>

\* The end of the leg: unregister, then cleanup_for_thread in a worker thread.
SessionEnds(w) ==
  /\ session[w] = "claude"
  /\ Becomes(w, IF w \in ThreadTrees THEN "ended" ELSE "none")
  /\ spared' = [k \in Sweeps |-> spared[k] \ {w}]
  /\ UNCHANGED <<disk, cached>>

EndChecks(w) ==
  /\ session[w] = "ended"
  /\ Becomes(w, IF disk[w] = "clean" THEN "checked" ELSE "none")
  /\ UNCHANGED <<disk, cached, spared>>

\* Mutant: --force, for it has just been found clean.
RemovesForced(w) == disk' = [disk EXCEPT ![w] = "none"]

\* git worktree remove itself refuses a worktree that has got dirty, or fails.
Removes(w) == disk' \in {disk, [disk EXCEPT ![w] = IF @ = "clean" THEN "none" ELSE @]}

EndRemoves(w) ==
  /\ session[w] = "checked"
  /\ Removes(w)
  /\ Becomes(w, "none")
  /\ UNCHANGED <<cached, spared>>

IndexChanges(w) ==
  /\ ready > 0
  /\ indexed' \in {indexed \cup {w}, indexed \ {w}} \ {indexed}
  /\ UNCHANGED <<disk, session, cached, sweep, ready, spared>>

\* /ch-worktree-list and the topic ask the cache, which forgets after 5 seconds.
AskedIfClean(w) ==
  /\ w \in indexed /\ disk[w] # "none"
  /\ \/ cached[w] = "none" /\ cached' = [cached EXCEPT ![w] = disk[w]]
     \/ cached[w] # "none" /\ cached' = [cached EXCEPT ![w] = "none"]
  /\ UNCHANGED <<disk, session, indexed, sweep, ready, spared>>

-----------------------------------------------------------------------------
(***************************************************************************)
(* Sweeps.                                                                 *)
(***************************************************************************)
Begins(k, record) ==
  /\ sweep[k].at = "idle"
  /\ sweep' = [sweep EXCEPT ![k] = record]
  /\ spared' = [spared EXCEPT ![k] = {w \in Trees : Active(w)}]
  /\ UNCHANGED <<disk, session, indexed, cached>>

\* Goes on with the fields given; the sessions do not mind.
Continues(k, record) ==
  /\ sweep' = [sweep EXCEPT ![k] = record]
  /\ UNCHANGED <<session, indexed, ready, spared>>

\* on_ready: cleanup_orphaned(set()), at the start and after a new connection.
ReadySweep(k) ==
  /\ ready < 2
  /\ ready' = ready + 1
  /\ Begins(k, [Over EXCEPT !.at = "scan"])

\* Mutant: the registry is not asked.
ManualSweepAll(k) ==
  /\ ready > 0
  /\ \E dry \in BOOLEAN :
       Begins(k, [Over EXCEPT !.kind = "manual", !.at = "scan", !.dry = dry])
  /\ UNCHANGED ready

\* /worktree-cleanup: the active ids are taken from the session registry first.
ManualSweep(k) ==
  /\ ready > 0
  /\ \E dry \in BOOLEAN :
       Begins(k, [Over EXCEPT !.kind = "manual", !.at = "scan", !.dry = dry,
                              !.ids = {w \in ThreadTrees : Active(w)}])
  /\ UNCHANGED ready

\* /ch-worktree-cleanup; the forced form asks first unless it is a preview.
BulkSweep(k) ==
  /\ ready > 0
  /\ \E kind \in {"bulk", "force"}, dry \in BOOLEAN :
       Begins(k, [Over EXCEPT !.kind = kind, !.dry = dry,
                              !.at = IF kind = "force" /\ ~dry THEN "confirm" ELSE "scan"])
  /\ UNCHANGED ready

\* The user reacts; a cancellation or a time-out ends the command.
Confirms(k) ==
  /\ sweep[k].at = "confirm"
  /\ \/ Continues(k, [sweep[k] EXCEPT !.at = "scan"])
     \/ Continues(k, Over)
  /\ UNCHANGED <<disk, cached>>

\* find_session_worktrees, or the iterator over the index.
Scans(k) ==
  /\ sweep[k].at = "scan"
  /\ Continues(k, [sweep[k] EXCEPT !.at = "next",
       !.todo = IF sweep[k].kind \in {"ready", "manual"}
                THEN {w \in ThreadTrees : disk[w] # "none"} ELSE indexed,
       !.size = IF sweep[k].kind \in {"ready", "manual"} THEN 0 ELSE Cardinality(indexed)])
  /\ UNCHANGED <<disk, cached>>

\* Python ends an iteration over a dictionary that has changed its size.
IteratorRaises(k) ==
  sweep[k].kind \in {"bulk", "force"} /\ Cardinality(indexed) # sweep[k].size

Ends(k) ==
  /\ sweep[k].at = "next" /\ (sweep[k].todo = {} \/ IteratorRaises(k))
  /\ Continues(k, Over)
  /\ UNCHANGED <<disk, cached>>

\* The next worktree: skipped when it is active, gone or dirty; a forced removal
\* does not ask git status, and the status of a channel's worktree is remembered.
Checks(k) ==
  /\ sweep[k].at = "next" /\ ~IteratorRaises(k)
  /\ \E w \in sweep[k].todo :
       /\ Continues(k, [sweep[k] EXCEPT !.todo = @ \ {w},
            !.tree = w,
            !.at = IF w \notin sweep[k].ids
                      /\ \/ disk[w] = "clean"
                         \/ disk[w] = "dirty" /\ sweep[k].kind = "force"
                   THEN "checked" ELSE "next"])
       /\ cached' = IF w \in ChanTrees /\ disk[w] # "none" /\ sweep[k].kind = "bulk"
                    THEN [cached EXCEPT ![w] = disk[w]] ELSE cached
  /\ UNCHANGED disk

\* remove_if_clean, _try_remove and remove_force.
SweepRemoves(k) ==
  LET w == sweep[k].tree IN
  /\ sweep[k].at = "checked"
  /\ CASE sweep[k].dry -> UNCHANGED disk
       [] ~sweep[k].dry /\ sweep[k].kind = "force" -> disk' \in {disk, [disk EXCEPT ![w] = "none"]}
       [] OTHER -> Removes(w)
  /\ cached' = IF w \in ChanTrees /\ disk'[w] # disk[w]
               THEN [cached EXCEPT ![w] = "none"] ELSE cached
  /\ Continues(k, [sweep[k] EXCEPT !.at = "next", !.tree = NoTree])

SweepStep(k) == Scans(k) \/ Ends(k) \/ Checks(k) \/ SweepRemoves(k)

WtNext ==
  \/ \E w \in Trees :
       SessionBegins(w) \/ Edited(w) \/ ClaudeRuns(w) \/ SessionEnds(w) \/ EndChecks(w) \/ EndRemoves(w)
  \/ \E w \in ChanTrees : IndexChanges(w) \/ AskedIfClean(w)
  \/ \E k \in Sweeps :
       ReadySweep(k) \/ ManualSweep(k) \/ BulkSweep(k) \/ Confirms(k) \/ SweepStep(k)

WtSpec == WtInit /\ [][WtNext]_wtVars

-----------------------------------------------------------------------------
\* Uncommitted work disappears in one way only: by a forced removal that a user has
\* confirmed, although every check is old when git removes (worktree.py:16, "NEVER
\* auto-removed"; channel_worktree.py, remove_force).
DirtyOnlyForced ==
  [][\A w \in Trees :
       disk[w] = "dirty" /\ disk'[w] = "none" =>
         \E k \in Sweeps :
           /\ sweep[k].kind = "force" /\ sweep[k].at = "checked" /\ ~sweep[k].dry
           /\ sweep[k].tree = w /\ sweep'[k] # sweep[k]]_wtVars

\* /worktree-cleanup leaves the worktrees of sessions that were active when it was
\* called, and have been ever since, however long the sweep takes
\* (session_manage.py, "that have no active session").
ManualSparesActive ==
  \A k \in Sweeps :
    sweep[k].kind = "manual" /\ sweep[k].at = "checked" => sweep[k].tree \notin spared[k]

=============================================================================
