------------------------------ MODULE MCAgents ------------------------------
(* Actions and policies over the connections of agents, and the inventory of *)
(* devices, for TLC: one of the three runs, the others rest.                 *)
EXTENDS AgentActions, AgentPolicies, Devices

VARIABLE part

AgentsInit ==
  part \in {"actions", "policies", "devices"} /\ ActionInit /\ PolicyInit /\ DevicesInit

AgentsNext ==
  /\ \/ part = "actions" /\ ActionNext /\ UNCHANGED <<policyVars, deviceVars>>
     \/ part = "policies" /\ PolicyNext /\ UNCHANGED <<actionVars, deviceVars>>
     \/ part = "devices" /\ DevicesNext /\ UNCHANGED <<vars, actionVars, policyVars>>
  /\ UNCHANGED part

\* ActionFairness, where actions use the connections.
Acting == part = "actions"

AgentsFairness ==
  /\ \A x \in Actions : WF_delegationVars(Acting /\ ActionTimeout(x))
  /\ \A c \in Conns :
       /\ WF_delegationVars(Acting /\ HelloTimeout(c) /\ ActionsFollow)
       /\ WF_delegationVars(Acting /\ terminating[c] /\ HandleClose(c) /\ ActionsFollow)
  /\ WF_delegationVars(Acting /\ RunHeartbeat /\ ActionsFollow)

AgentsSpec ==
  /\ AgentsInit
  /\ [][AgentsNext]_<<part, vars, actionVars, policyVars, deviceVars>>
  /\ AgentsFairness

\* What AgentConnections says of silent peers, where their timers are fair.
ActingConnectionsLeave == Acting => QuietConnectionsLeave
=============================================================================
