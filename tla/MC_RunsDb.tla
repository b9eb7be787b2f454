------------------------------ MODULE MC_RunsDb ------------------------------
(* Small instances of RunsDb for TLC. *)
EXTENDS RunsDb, TLC

CONSTANTS r1, r2, o1, o2, o3

Symmetry == Permutations({r1, r2}) \cup Permutations({o1, o2, o3})
=============================================================================
