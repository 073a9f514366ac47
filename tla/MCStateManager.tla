---------------------------- MODULE MCStateManager ----------------------------
(* Instances of StateManager for TLC.                                      *)
EXTENDS StateManager, TLC

Symmetry == Permutations(Threads) \cup Permutations(Symbols)
                \cup Permutations(Shapes)
=============================================================================
