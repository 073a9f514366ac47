------------------------------ MODULE MCEpoch ------------------------------
(* Instances of EpochReclamation for TLC: three threads, each of which may *)
(* read and write, and a few objects, so that the thresholds are crossed   *)
(* and reclaims meet readers of different epochs.                          *)
EXTENDS EpochReclamation, TLC

Symmetry == Permutations(Threads) \cup Permutations(Objects)
=============================================================================
