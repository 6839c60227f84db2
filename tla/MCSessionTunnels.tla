-------------------------- MODULE MCSessionTunnels --------------------------
(* Instances of SessionTunnels for TLC. *)
EXTENDS SessionTunnels
=============================================================================
