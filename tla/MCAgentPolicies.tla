-------------------------- MODULE MCAgentPolicies ---------------------------
(* Instances of AgentPolicies for TLC. *)
EXTENDS AgentPolicies
=============================================================================
