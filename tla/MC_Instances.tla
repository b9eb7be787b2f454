---------------------------- MODULE MC_Instances ----------------------------
(* Small instances of Instances for TLC. *)
EXTENDS Instances, TLC

CONSTANTS i1, i2, i3, r1, r2

Symmetry == Permutations(Ids) \cup Permutations(Requests)
=============================================================================
