---------------------------- MODULE MC_ServerDrain ----------------------------
(* A small instance of ServerDrain for TLC. *)
EXTENDS ServerDrain, TLC

CONSTANTS p1, p2

OneProxy == (p1 :> {"r1"}) @@ (p2 :> {})

=============================================================================
