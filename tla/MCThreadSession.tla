--------------------------- MODULE MCThreadSession ----------------------------
(***************************************************************************)
(* ThreadSession with symmetry: threads are alike, and so are on_ready's   *)
(* tasks, the calls whose run gets a system context, and those whose run   *)
(* gets none.  What is said of calm users is about one thread, whatever    *)
(* session it goes on with, and so is what two on_ready tasks do to a row: *)
(* there TLC looks at one thread, and elsewhere at all of them.            *)
(***************************************************************************)
EXTENDS ThreadSession, FiniteSets, TLC

Symmetry ==
  {f @@ g @@ h @@ k : f \in Permutations(Threads), g \in Permutations(ContextCalls),
                      h \in Permutations(Calls \ ContextCalls),
                      k \in Permutations(Handlers)}

Used == {call[c].thread : c \in Calls} \ {None}

Alone ==
  \/ calm
  \/ \E g, h \in Handlers : g # h /\ NotReady \notin {ready[g], ready[h]}

MCNext == Next /\ (Alone' => Cardinality(Used') <= 1)

MCSpec == Init /\ [][MCNext]_vars

=============================================================================
