-------------------------- MODULE MCBranchSessions --------------------------
(* Instances of BranchSessions for TLC.                                    *)
EXTENDS BranchSessions, TLC

Symmetry == Permutations(Branches) \cup Permutations(Sessions)
                \cup Permutations(Graphs)
=============================================================================
