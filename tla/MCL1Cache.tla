----------------------------- MODULE MCL1Cache ------------------------------
(* Small instances of L1Cache for TLC. *)
EXTENDS L1Cache, TLC

Symmetry == Permutations(Procs) \cup Permutations(Values)
=============================================================================
