---------------------------- MODULE MCIssueBoard ----------------------------
(***************************************************************************)
(* Instances of IssueBoard for TLC.                                        *)
(***************************************************************************)
EXTENDS IssueBoard, TLC

Symmetry == Permutations(Builders) \cup Permutations(Hooks)
              \cup Permutations(Syncs)
              \cup Permutations(Asked) \cup Permutations(Reviewers \ Asked)
=============================================================================
