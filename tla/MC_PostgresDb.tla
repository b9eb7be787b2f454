--------------------------- MODULE MC_PostgresDb ---------------------------
(* Small instances of PostgresDb for TLC. *)
EXTENDS PostgresDb, TLC

CONSTANTS a, b, o1, o2, o3

Symmetry == Permutations({a, b}) \cup Permutations({o1, o2, o3})
=============================================================================
