------------------------- MODULE MCAgentConnections -------------------------
(* Instances of AgentConnections for TLC. *)
EXTENDS AgentConnections, TLC

Symmetry == Permutations(Conns) \cup Permutations(Agents)
=============================================================================
