-------------------------- MODULE MCSessionManager --------------------------
(* Instances of SessionManager for TLC. *)
EXTENDS SessionManagerRefinement, TLC

Symmetry == Permutations(SessionIds)
=============================================================================
