-------------------------- MODULE MCSessionReplay --------------------------
(* Instances of SessionReplay for TLC. *)
EXTENDS SessionReplay, TLC

=============================================================================
