----------------------------- MODULE MC_Upgrade -----------------------------
(* Instances of Upgrade for model checking. *)
EXTENDS Upgrade
CONSTANTS a, b
=============================================================================
