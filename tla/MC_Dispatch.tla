----------------------------- MODULE MC_Dispatch -----------------------------
(* Small instances of Dispatch for TLC. *)
EXTENDS Dispatch, TLC

CONSTANTS l1, l2, p1, p2, p3, s1, s2

ScaleToZero == [l \in Lanes |-> 0]
MixedLanes == [l \in {l1, l2} |-> IF l = l1 THEN 0 ELSE 1]

Symmetry == Permutations({p1, p2, p3}) \cup Permutations({s1, s2})
=============================================================================
