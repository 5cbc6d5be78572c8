----------------------------- MODULE SafetyProofs -----------------------------
(***************************************************************************)
(* Theorems about Worktrees: its types, that uncommitted work only         *)
(* disappears by a confirmed forced removal, and that a manual sweep       *)
(* spares the sessions that were active when it began, for any worktrees   *)
(* and any number of sweeps that overlap; and about MCSafety, the parts    *)
(* that move side by side, which keeps what each of them promises.         *)
(***************************************************************************)
EXTENDS MCSafety, ChannelSessionProofs, ViewProofs, FiniteSetTheorems

-----------------------------------------------------------------------------
(***************************************************************************)
(* Worktrees                                                               *)
(***************************************************************************)
\* A manual sweep looks at the worktrees of threads only, and knows of those that
\* were active when it began.
Manual ==
  \A k \in Sweeps :
    sweep[k].kind = "manual" =>
      /\ sweep[k].todo \subseteq ThreadTrees
      /\ spared[k] \cap ThreadTrees \subseteq sweep[k].ids
      /\ sweep[k].at = "checked" => sweep[k].tree \in ThreadTrees \ sweep[k].ids

WtInv == WtTypeOK /\ Manual

LEMMA WtInitInv == WtInit => WtInv
<1> SUFFICES ASSUME WtInit PROVE WtInv
  OBVIOUS
<1>1. IsFiniteSet(ChanTrees) /\ Cardinality(ChanTrees) \in Nat
  BY WorktreesAssumption, FS_CardinalityType
<1>2. Over \in Sweeping
  BY <1>1 DEF Over, Sweeping, SweepKinds
<1>3. sweep = [k \in Sweeps |-> Over] /\ \A k \in Sweeps : sweep[k].kind = "ready"
  BY DEF WtInit, Over
<1> QED
  BY <1>2, <1>3 DEF WtInit, WtInv, WtTypeOK, Manual

\* Sessions and users leave the sweeps alone, and nobody joins the spared.
LEMMA SessionInv ==
  ASSUME WtInv, NEW w \in Trees,
         \/ SessionBegins(w) \/ Edited(w) \/ ClaudeRuns(w) \/ SessionEnds(w)
         \/ EndChecks(w) \/ EndRemoves(w)
         \/ w \in ChanTrees /\ (IndexChanges(w) \/ AskedIfClean(w))
  PROVE  WtInv'
<1>1. sweep' = sweep /\ ready' = ready
  BY DEF SessionBegins, Edited, ClaudeRuns, SessionEnds, EndChecks, EndRemoves, IndexChanges, AskedIfClean,
     Becomes
<1>2. spared' \in [Sweeps -> SUBSET Trees] /\ \A k \in Sweeps : spared'[k] \subseteq spared[k]
  <2>1. CASE SessionEnds(w)
    BY <2>1 DEF SessionEnds, WtInv, WtTypeOK
  <2>2. CASE ~SessionEnds(w)
    BY <2>2 DEF SessionBegins, Edited, ClaudeRuns, EndChecks, EndRemoves, IndexChanges, AskedIfClean,
       WtInv, WtTypeOK
  <2> QED
    BY <2>1, <2>2
<1>3. disk' \in [Trees -> {"none", "clean", "dirty"}]
  <2>1. CASE SessionBegins(w)
    BY <2>1 DEF SessionBegins, WtInv, WtTypeOK
  <2>2. CASE Edited(w)
    BY <2>2 DEF Edited, WtInv, WtTypeOK
  <2>3. CASE EndRemoves(w)
    BY <2>3 DEF EndRemoves, Removes, WtInv, WtTypeOK
  <2>4. CASE disk' = disk
    BY <2>4 DEF WtInv, WtTypeOK
  <2> QED
    BY <2>1, <2>2, <2>3, <2>4 DEF ClaudeRuns, SessionEnds, EndChecks, IndexChanges, AskedIfClean
<1>4. session' \in [Trees -> {"none", "registered", "claude", "ended", "checked"}]
  BY DEF SessionBegins, Edited, ClaudeRuns, SessionEnds, EndChecks, EndRemoves, IndexChanges, AskedIfClean,
     Becomes, WtInv, WtTypeOK
<1>5. indexed' \subseteq ChanTrees
  BY DEF SessionBegins, Edited, ClaudeRuns, SessionEnds, EndChecks, EndRemoves, IndexChanges, AskedIfClean,
     Becomes, WtInv, WtTypeOK
<1>6. cached' \in [ChanTrees -> {"none", "clean", "dirty"}]
  <2>1. CASE SessionBegins(w)
    BY <2>1 DEF SessionBegins, WtInv, WtTypeOK
  <2>2. CASE w \in ChanTrees /\ AskedIfClean(w)
    <3>1. disk[w] \in {"none", "clean", "dirty"}
      BY DEF WtInv, WtTypeOK
    <3> QED
      BY <2>2, <3>1 DEF AskedIfClean, WtInv, WtTypeOK
  <2>3. CASE cached' = cached
    BY <2>3 DEF WtInv, WtTypeOK
  <2> QED
    BY <2>1, <2>2, <2>3 DEF Edited, ClaudeRuns, SessionEnds, EndChecks, EndRemoves, IndexChanges
<1>7. WtTypeOK'
  BY <1>1, <1>2, <1>3, <1>4, <1>5, <1>6 DEF WtInv, WtTypeOK
<1>8. Manual'
  BY <1>1, <1>2 DEF WtInv, Manual
<1> QED
  BY <1>7, <1>8 DEF WtInv

\* A sweep begins: a manual one with the ids of all active threads.
LEMMA BeginInv ==
  ASSUME WtInv, NEW k \in Sweeps, ReadySweep(k) \/ ManualSweep(k) \/ BulkSweep(k)
  PROVE  WtInv'
<1> DEFINE Active0 == {w \in Trees : Active(w)}
<1>1. PICK record \in Sweeping :
        /\ Begins(k, record)
        /\ record.todo = {} /\ record.at # "checked"
        /\ record.kind = "manual" => Active0 \cap ThreadTrees \subseteq record.ids
  <2>0. Over \in Sweeping
    BY WorktreesAssumption, FS_CardinalityType DEF Over, Sweeping, SweepKinds
  <2>1. CASE ReadySweep(k)
    <3>1. [Over EXCEPT !.at = "scan"] \in Sweeping
      BY <2>0 DEF Over, Sweeping
    <3> QED
      BY <2>1, <3>1 DEF ReadySweep, Over
  <2>2. CASE ManualSweep(k)
    <3>1. PICK dry \in BOOLEAN :
            Begins(k, [Over EXCEPT !.kind = "manual", !.at = "scan", !.dry = dry,
                                   !.ids = {w \in ThreadTrees : Active(w)}])
      BY <2>2 DEF ManualSweep
    <3>2. [Over EXCEPT !.kind = "manual", !.at = "scan", !.dry = dry,
                       !.ids = {w \in ThreadTrees : Active(w)}] \in Sweeping
      BY <2>0 DEF Over, Sweeping, SweepKinds
    <3> QED
      BY <3>1, <3>2 DEF Over
  <2>3. CASE BulkSweep(k)
    <3>1. PICK kind \in {"bulk", "force"}, dry \in BOOLEAN :
            Begins(k, [Over EXCEPT !.kind = kind, !.dry = dry,
                              !.at = IF kind = "force" /\ ~dry THEN "confirm" ELSE "scan"])
      BY <2>3 DEF BulkSweep
    <3>2. [Over EXCEPT !.kind = kind, !.dry = dry,
                       !.at = IF kind = "force" /\ ~dry THEN "confirm" ELSE "scan"] \in Sweeping
      BY <2>0 DEF Over, Sweeping, SweepKinds
    <3> QED
      BY <3>1, <3>2 DEF Over
  <2> QED
    BY <2>1, <2>2, <2>3
<1>2. /\ sweep' = [sweep EXCEPT ![k] = record]
      /\ spared' = [spared EXCEPT ![k] = Active0]
      /\ UNCHANGED <<disk, session, indexed, cached>>
  BY <1>1 DEF Begins
<1>3. ready' \in 0 .. 2
  <2>1. ready \in 0 .. 2
    BY DEF WtInv, WtTypeOK
  <2>2. CASE ReadySweep(k)
    BY <2>1, <2>2 DEF ReadySweep
  <2> QED
    BY <2>1, <2>2 DEF ManualSweep, BulkSweep
<1>4. WtTypeOK'
  BY <1>2, <1>3 DEF WtInv, WtTypeOK
<1>5. Manual'
  BY <1>1, <1>2 DEF WtInv, WtTypeOK, Manual
<1> QED
  BY <1>4, <1>5 DEF WtInv

\* A sweep goes on without leaving its kind and what it knows, or is over.
LEMMA ContinueInv ==
  ASSUME WtInv, NEW k \in Sweeps, NEW record \in Sweeping, Continues(k, record),
         disk' \in [Trees -> {"none", "clean", "dirty"}],
         cached' \in [ChanTrees -> {"none", "clean", "dirty"}],
         record.kind = "manual" =>
           /\ sweep[k].kind = "manual" /\ record.ids = sweep[k].ids
           /\ record.todo \subseteq ThreadTrees
           /\ record.at = "checked" => record.tree \in ThreadTrees \ record.ids
  PROVE  WtInv'
<1>1. sweep' = [sweep EXCEPT ![k] = record] /\ UNCHANGED <<session, indexed, ready, spared>>
  BY DEF Continues
<1>2. WtTypeOK'
  BY <1>1 DEF WtInv, WtTypeOK
<1>3. Manual'
  BY <1>1 DEF WtInv, WtTypeOK, Manual
<1> QED
  BY <1>2, <1>3 DEF WtInv

LEMMA SweepInv ==
  ASSUME WtInv, NEW k \in Sweeps, Confirms(k) \/ SweepStep(k)
  PROVE  WtInv'
<1> DEFINE s == sweep[k]
<1>1. s \in Sweeping /\ Over \in Sweeping /\ Over.kind # "manual" /\ indexed \subseteq ChanTrees
  BY WorktreesAssumption, FS_CardinalityType DEF Over, Sweeping, SweepKinds, WtInv, WtTypeOK
<1>2. s.kind = "manual" =>
        /\ s.todo \subseteq ThreadTrees
        /\ s.at = "checked" => s.tree \in ThreadTrees \ s.ids
  BY DEF WtInv, Manual
<1>3. disk \in [Trees -> {"none", "clean", "dirty"}] /\ cached \in [ChanTrees -> {"none", "clean", "dirty"}]
  BY DEF WtInv, WtTypeOK
<1>4. CASE Confirms(k)
  <2>1. CASE Continues(k, Over)
    BY <1>1, <1>3, <1>4, <2>1, ContinueInv DEF Confirms
  <2>2. CASE Continues(k, [s EXCEPT !.at = "scan"])
    <3>1. [s EXCEPT !.at = "scan"] \in Sweeping
      BY <1>1 DEF Sweeping
    <3>2. /\ [s EXCEPT !.at = "scan"].at = "scan"
          /\ [s EXCEPT !.at = "scan"].todo = s.todo
          /\ [s EXCEPT !.at = "scan"].kind = s.kind
          /\ [s EXCEPT !.at = "scan"].ids = s.ids
      BY <1>1 DEF Sweeping
    <3> QED
      BY <1>2, <1>3, <1>4, <2>2, <3>1, <3>2, ContinueInv DEF Confirms
  <2> QED
    BY <1>4, <2>1, <2>2 DEF Confirms
<1>5. CASE Scans(k)
  <2> DEFINE todo == IF s.kind \in {"ready", "manual"}
                     THEN {w \in ThreadTrees : disk[w] # "none"} ELSE indexed
             size == IF s.kind \in {"ready", "manual"} THEN 0 ELSE Cardinality(indexed)
             r == [s EXCEPT !.at = "next", !.todo = todo, !.size = size]
  <2>1. size \in 0 .. Cardinality(ChanTrees)
    BY <1>1, WorktreesAssumption, FS_CardinalityType, FS_Subset
  <2>2. todo \in SUBSET Trees
    BY <1>1 DEF Trees
  <2>3. r \in Sweeping
    BY <1>1, <2>1, <2>2 DEF Sweeping
  <2>4. r.kind = s.kind /\ r.ids = s.ids /\ r.at = "next" /\ r.todo = todo
    BY <1>1 DEF Sweeping
  <2> HIDE DEF r
  <2>5. Continues(k, r) /\ UNCHANGED <<disk, cached>>
    BY <1>5 DEF Scans, r
  <2> QED
    BY <1>3, <2>3, <2>4, <2>5, ContinueInv
<1>6. CASE Ends(k)
  BY <1>1, <1>3, <1>6, ContinueInv DEF Ends
<1>7. CASE Checks(k)
  <2>1. PICK w \in s.todo :
          /\ Continues(k, [s EXCEPT !.todo = @ \ {w}, !.tree = w,
               !.at = IF w \notin s.ids
                         /\ \/ disk[w] = "clean"
                            \/ disk[w] = "dirty" /\ s.kind = "force"
                      THEN "checked" ELSE "next"])
          /\ cached' = IF w \in ChanTrees /\ disk[w] # "none" /\ s.kind = "bulk"
                       THEN [cached EXCEPT ![w] = disk[w]] ELSE cached
          /\ UNCHANGED disk
    BY <1>7 DEF Checks
  <2> DEFINE at == IF w \notin s.ids
                      /\ \/ disk[w] = "clean"
                         \/ disk[w] = "dirty" /\ s.kind = "force"
                   THEN "checked" ELSE "next"
             r == [s EXCEPT !.todo = @ \ {w}, !.tree = w, !.at = at]
  <2>2. w \in Trees
    BY <1>1 DEF Sweeping
  <2>3. r \in Sweeping
    BY <1>1, <2>2 DEF Sweeping
  <2>4. r.kind = s.kind /\ r.ids = s.ids /\ r.at = at /\ r.todo = s.todo \ {w} /\ r.tree = w
    BY <1>1 DEF Sweeping
  <2>5. cached' \in [ChanTrees -> {"none", "clean", "dirty"}]
    BY <1>3, <2>1, <2>2
  <2>6. Continues(k, r)
    BY <2>1
  <2> HIDE DEF r
  <2> QED
    BY <1>2, <1>3, <2>1, <2>3, <2>4, <2>5, <2>6, ContinueInv
<1>8. CASE SweepRemoves(k)
  <2> DEFINE r == [s EXCEPT !.at = "next", !.tree = NoTree]
  <2>1. r \in Sweeping
    BY <1>1 DEF Sweeping
  <2>2. r.kind = s.kind /\ r.ids = s.ids /\ r.at = "next" /\ r.todo = s.todo
    BY <1>1 DEF Sweeping
  <2>3. disk' \in [Trees -> {"none", "clean", "dirty"}]
    BY <1>3, <1>8 DEF SweepRemoves, Removes
  <2>4. cached' \in [ChanTrees -> {"none", "clean", "dirty"}]
    BY <1>3, <1>8 DEF SweepRemoves
  <2>5. Continues(k, r)
    BY <1>8 DEF SweepRemoves
  <2> HIDE DEF r
  <2> QED
    BY <1>2, <2>1, <2>2, <2>3, <2>4, <2>5, ContinueInv
<1> QED
  BY <1>4, <1>5, <1>6, <1>7, <1>8 DEF SweepStep

LEMMA WtStepInv == WtInv /\ [WtNext]_wtVars => WtInv'
<1> SUFFICES ASSUME WtInv, [WtNext]_wtVars PROVE WtInv'
  OBVIOUS
<1>1. CASE UNCHANGED wtVars
  BY <1>1 DEF wtVars, WtInv, WtTypeOK, Manual
<1>2. CASE WtNext
  <2>1. ChanTrees \subseteq Trees
    BY DEF Trees
  <2> QED
    BY <1>2, <2>1, SessionInv, BeginInv, SweepInv DEF WtNext
<1> QED
  BY <1>1, <1>2

\* The inductive invariant holds in every reachable state.
THEOREM WtInvariant == WtSpec => []WtInv
<1> QED
  BY WtInitInv, WtStepInv, PTL DEF WtSpec

\* Every variable of the worktrees keeps its type.
THEOREM WtTypeCorrect == WtSpec => []WtTypeOK
<1>1. WtInv => WtTypeOK
  BY DEF WtInv
<1> QED
  BY <1>1, WtInvariant, PTL

\* A manual sweep never removes the worktree of a session that was active when it
\* was called and still is (session_manage.py, worktree_cleanup), whatever other
\* sweeps and sessions do.
THEOREM ActiveSpared == WtSpec => []ManualSparesActive
<1>1. WtInv => ManualSparesActive
  BY DEF WtInv, Manual, ManualSparesActive
<1> QED
  BY <1>1, WtInvariant, PTL

\* Whatever removes a worktree leaves uncommitted work alone (worktree.py,
\* _try_remove; channel_worktree.py, remove_if_clean), but for the forced removal.
THEOREM DirtyStays == WtSpec => DirtyOnlyForced
<1>1. WtInv /\ [WtNext]_wtVars =>
        [\A w \in Trees :
           disk[w] = "dirty" /\ disk'[w] = "none" =>
             \E k \in Sweeps :
               /\ sweep[k].kind = "force" /\ sweep[k].at = "checked" /\ ~sweep[k].dry
               /\ sweep[k].tree = w /\ sweep'[k] # sweep[k]]_wtVars
  <2> SUFFICES ASSUME WtInv, WtNext, NEW w \in Trees, disk[w] = "dirty", disk'[w] = "none"
               PROVE  \E k \in Sweeps :
                        /\ sweep[k].kind = "force" /\ sweep[k].at = "checked" /\ ~sweep[k].dry
                        /\ sweep[k].tree = w /\ sweep'[k] # sweep[k]
    OBVIOUS
  <2>0. disk \in [Trees -> {"none", "clean", "dirty"}] /\ sweep \in [Sweeps -> Sweeping]
    BY DEF WtInv, WtTypeOK
  <2>1. \A v \in Trees :
          ~(\/ SessionBegins(v) \/ Edited(v) \/ ClaudeRuns(v) \/ SessionEnds(v)
            \/ EndChecks(v) \/ EndRemoves(v))
    BY <2>0 DEF SessionBegins, Edited, ClaudeRuns, SessionEnds, EndChecks, EndRemoves, Removes
  <2>2. \A v \in ChanTrees : ~(IndexChanges(v) \/ AskedIfClean(v))
    BY DEF IndexChanges, AskedIfClean
  <2>3. PICK k \in Sweeps :
          ReadySweep(k) \/ ManualSweep(k) \/ BulkSweep(k) \/ Confirms(k) \/ SweepStep(k)
    BY <2>1, <2>2 DEF WtNext
  <2>4. SweepRemoves(k)
    BY <2>3 DEF ReadySweep, ManualSweep, BulkSweep, Begins, Confirms, SweepStep, Scans, Ends, Checks
  <2>5. sweep[k].kind = "force" /\ ~sweep[k].dry /\ sweep[k].tree = w
    BY <2>0, <2>4 DEF SweepRemoves, Removes
  <2>6. sweep[k].at = "checked" /\ sweep'[k].at = "next"
    BY <2>0, <2>4 DEF SweepRemoves, Continues, Sweeping
  <2> QED
    BY <2>5, <2>6
<1> QED
  BY <1>1, WtInvariant, PTL DEF WtSpec, DirtyOnlyForced

-----------------------------------------------------------------------------
(***************************************************************************)
(* The parts side by side                                                  *)
(***************************************************************************)
\* The parts share no state: whichever moves, each of them takes a step of its own
\* or none, so that the whole implements every part.
THEOREM SafetyImplements == SafetySpec => Spec /\ WtSpec /\ AskSpec /\ TextSpec /\ DispSpec
<1>1. SafetyInit => Init /\ WtInit /\ AskInit /\ TextInit /\ DispInit
  BY DEF SafetyInit
<1>2. [SafetyNext]_allVars =>
        /\ [Next]_vars /\ [WtNext]_wtVars /\ [AskNext]_askVars
        /\ [TextNext]_textVars /\ [DispNext]_dispVars
  BY DEF SafetyNext, allVars
<1> QED
  BY <1>1, <1>2, PTL DEF SafetySpec, Spec, WtSpec, AskSpec, TextSpec, DispSpec

\* Every variable of the parts keeps its type, for all constants of all of them.
THEOREM SafetyTypeCorrect == SafetySpec => []SafetyTypeOK
<1>1. TypeOK /\ WtTypeOK /\ AskTypeOK /\ TextTypeOK /\ DispTypeOK => SafetyTypeOK
  BY DEF SafetyTypeOK
<1> QED
  BY <1>1, SafetyImplements, TypeCorrect, WtTypeCorrect, AskTypeCorrect, TextTypeCorrect,
     DispTypeCorrect, PTL

\* The results of tools stay, the timers that are known end, and a cleaned up status
\* keeps no task that could set a reaction, and no reaction but what a refused or
\* cancelled request has left (event_processor.py and discord_ui/status.py), for any
\* tools, repeated announcements and reruns.
THEOREM DisplayIsSettled == SafetySpec => []DisplaySettles
<1>1. ResultsStay /\ StatusSettles => DisplaySettles
  BY DEF DisplaySettles
<1> QED
  BY <1>1, SafetyImplements, ResultsAreFinal, StatusIsFinal, PTL

\* What the parts promise one by one they promise together.
THEOREM BotIsSafe ==
  SafetySpec =>
    /\ [](ActiveIsLive /\ WaitsOnStarted /\ SessionIsolation)
    /\ [](ManualSparesActive /\ WaiterListens /\ AnswerFits /\ TextShown /\ DisplaySettles)
    /\ DirtyPreserved /\ DirtyOnlyForced
BY SafetyImplements, ActiveIsLiveAlways, NoCircularWait, SessionsStayApart, ActiveSpared,
   WaitersListen, AnswersFit, TextIsShown, DisplayIsSettled, DirtyNeverRemoved, DirtyStays, PTL
=============================================================================
