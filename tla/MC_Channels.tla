----------------------------- MODULE MC_Channels -----------------------------
(* Small instances of Channels for TLC. *)
EXTENDS Channels

=============================================================================
