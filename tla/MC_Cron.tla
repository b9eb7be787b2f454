------------------------------ MODULE MC_Cron ------------------------------
(* Two servers, one behind the other, with two schedules for TLC. *)
EXTENDS Cron, TLC

CONSTANTS t1, t2, s1, s2

SmallBoundaries == (s1 :> {1, 3}) @@ (s2 :> {2})
SkewedClocks == (t1 :> 0) @@ (t2 :> 1)

=============================================================================
