----------------------------- MODULE MC_InFlight -----------------------------
(* Small instances of InFlight for TLC. *)
EXTENDS InFlight, TLC

CONSTANTS w1, a1, a2, a3, c1, c2

TwoOwners == [o \in {a1, a2} |-> w1]
ThreeOwners == [o \in {a1, a2, a3} |-> w1]

Symmetry == Permutations({a1, a2, a3}) \cup Permutations({c1, c2})
=============================================================================
