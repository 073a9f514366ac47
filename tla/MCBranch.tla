------------------------------ MODULE MCBranch ------------------------------
(* Instances of BranchLifecycle for TLC: caps small enough that a handful  *)
(* of spawns crosses each of them.                                         *)
EXTENDS BranchLifecycle, TLC

Symmetry == Permutations(Branches \ Executing) \cup Permutations(Graphs)
=============================================================================
