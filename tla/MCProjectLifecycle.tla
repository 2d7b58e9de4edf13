------------------------- MODULE MCProjectLifecycle -------------------------
(***************************************************************************)
(* Instances of ProjectLifecycle for TLC.  "first" and "second" are two    *)
(* answers of the architect that share one task, "empty" is an answer      *)
(* without a parseable issue plan.                                         *)
(***************************************************************************)
EXTENDS ProjectLifecycle, TLC

MCKeys == {"login", "signup", "search"}
MCTasksOf == [first |-> <<"login", "signup">>,
              second |-> <<"signup", "search", "signup">>,
              empty |-> <<>>]
MCTasks == [p \in Plans |-> MCTasksOf[p]]

Symmetry == Permutations(Jobs) \cup Permutations(Approvers)
=============================================================================
