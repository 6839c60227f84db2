--------------------------- MODULE AgentPolicies ---------------------------
(***************************************************************************)
(* The policy of a remote agent, at the control plane (updateAgentPolicy   *)
(* in src/src/remote/control-plane.ts, with its callers) and at the agent  *)
(* (src/src/remote/policy-update-guard.ts, applyAgentPolicyUpdate in       *)
(* agent-cli.ts), over the connections of AgentConnections.                *)
(*                                                                         *)
(* A PATCH reads the agent's row, awaits the request body, and then writes *)
(* the whole row, the status it read included.  The policy.update goes to  *)
(* the live connection and nowhere else.  An agent is one process, which   *)
(* ends with its connection; its policy is in its configuration file.      *)
(***************************************************************************)
EXTENDS AgentConnections, Sequences

CONSTANTS
  Patches,      \* requests to change a policy, each with a policy of its own
  NoPatch,      \* the policy an agent is enrolled with
  MayBeLate     \* whether an update may be received after POLICY_UPDATE_MAX_AGE_MS

ASSUME PatchAssumption == NoPatch \notin Patches /\ MayBeLate \in BOOLEAN

VARIABLES
  rowPolicy,    \* policy_json and policy_version of the agent's row
  patch,        \* where a PATCH stands, and what it read of the row
  wire,         \* policy.update messages on their way to the agent, per connection
  agentPolicy,  \* config.policy of the agent
  overwritten,  \* history: agents one of whose PATCHes wrote over another one's
  restored      \* history: agents whose row has an older status back from a PATCH

policyVars == <<rowPolicy, patch, wire, agentPolicy, overwritten, restored>>
fleetVars == <<vars, policyVars>>

Policies == [version : Nat, by : Patches \cup {NoPatch}]

Enrolment == [version |-> 1, by |-> NoPatch]

PolicyTypeOK ==
  /\ TypeOK
  /\ rowPolicy \in [Agents -> Policies]
  /\ patch \in [Patches -> [state : {"none", "reading", "done"}, agent : Agents \cup {NoAgent},
                            status : {"offline", "online", "revoked"}, version : Nat]]
  /\ wire \in [Conns -> Seq(Policies)]
  /\ agentPolicy \in [Agents -> Policies]
  /\ overwritten \subseteq Agents /\ restored \subseteq Agents

PolicyInit ==
  /\ Init
  /\ rowPolicy = [a \in Agents |-> Enrolment]
  /\ patch = [p \in Patches |->
                [state |-> "none", agent |-> NoAgent, status |-> "offline", version |-> 1]]
  /\ wire = [c \in Conns |-> << >>]
  /\ agentPolicy = [a \in Agents |-> Enrolment]
  /\ overwritten = {} /\ restored = {}

----------------------------------------------------------------------------
(* The control plane *)

\* A request is resolved to a row, and awaits its body.
StartPatch(p, a) ==
  /\ patch[p].state = "none"
  /\ patch' = [patch EXCEPT ![p] = [state |-> "reading", agent |-> a, status |-> status[a],
                                    version |-> rowPolicy[a].version]]
  /\ UNCHANGED <<vars, rowPolicy, wire, agentPolicy, overwritten, restored>>

NextPolicy(p) == [version |-> patch[p].version + 1, by |-> p]

\* Slip: the policy of the row before the update.
PolicyUpdateOfRow(p) == rowPolicy[patch[p].agent]

\* The policy of the message.
PolicyUpdate(p) == NextPolicy(p)

\* updateAgentPolicy: the row as it was read, with the new policy, and the push
\* to the agent if it is served; a transport that is not open drops the message.
UpdateAgentPolicy(p) ==
  LET a == patch[p].agent
      pushed == {c \in Conns : c = live[a] /\ ws[c] = "open"} IN
  /\ patch[p].state = "reading"
  /\ patch' = [patch EXCEPT ![p].state = "done"]
  /\ rowPolicy' = [rowPolicy EXCEPT ![a] = NextPolicy(p)]
  /\ status' = [status EXCEPT ![a] = patch[p].status]
  /\ wire' = [c \in Conns |-> IF c \in pushed THEN Append(wire[c], PolicyUpdate(p)) ELSE wire[c]]
  /\ overwritten' = overwritten \cup {b \in {a} : rowPolicy[b].version # patch[p].version}
  /\ restored' = restored \cup {b \in {a} : status[b] # patch[p].status}
  /\ UNCHANGED <<connVars, agentClaims, live, restarts, agentPolicy>>

----------------------------------------------------------------------------
(* The agent *)

\* validatePolicyUpdate, of an update that is received in time.
Newer(new, old) == new.version > old.version

\* applyAgentPolicyUpdate.
ReceivePolicy(c) ==
  LET a == agentOf[c] IN
  /\ wire[c] # << >>
  /\ wire' = [wire EXCEPT ![c] = Tail(@)]
  /\ \/ /\ Newer(Head(wire[c]), agentPolicy[a])
        /\ agentPolicy' = [agentPolicy EXCEPT ![a] = Head(wire[c])]
     \/ /\ MayBeLate \/ ~Newer(Head(wire[c]), agentPolicy[a])
        /\ UNCHANGED agentPolicy
  /\ UNCHANGED <<vars, rowPolicy, patch, overwritten, restored>>

----------------------------------------------------------------------------
(* The connections *)

\* A message is lost with its connection, and with the process it was meant
\* for: when an agent is served on a new connection its old process is gone.  A
\* request that awaits its body does not survive a restart.
Reachable(c) == c \in managed' /\ (live'[agentOf'[c]] \in {c, NoConn})

\* Agents whose row a hello, a close event or a revocation writes anew.
RowsWritten == {a \in Agents : restarts' = restarts /\ (live'[a] # live[a] \/ status'[a] # status[a])}

ConnectionStep ==
  /\ Next
  /\ wire' = [c \in Conns |-> IF wire[c] # << >> /\ Reachable(c) THEN wire[c] ELSE << >>]
  /\ patch' = [p \in Patches |->
                 IF restarts' # restarts /\ patch[p].state = "reading"
                   THEN [patch[p] EXCEPT !.state = "done"] ELSE patch[p]]
  /\ restored' = restored \ RowsWritten
  /\ UNCHANGED <<rowPolicy, agentPolicy, overwritten>>

PolicyNext ==
  \/ ConnectionStep
  \/ \E p \in Patches : UpdateAgentPolicy(p) \/ \E a \in Agents : StartPatch(p, a)
  \/ \E c \in Conns : ReceivePolicy(c)

PolicySpec == PolicyInit /\ [][PolicyNext]_fleetVars

----------------------------------------------------------------------------
(* Properties *)

\* Until a PATCH writes over another one, a version names one policy: the agent
\* and the row never hold two policies of one version, and the agent is never
\* ahead, whatever it missed while it was away.
VersionsNamePolicies ==
  \A a \in Agents \ overwritten :
    /\ agentPolicy[a].version <= rowPolicy[a].version
    /\ agentPolicy[a].version = rowPolicy[a].version => agentPolicy[a] = rowPolicy[a]

\* Until then, the last message on its way to an agent that is served is the
\* policy of its row: no reconnect leaves an older one behind it.
PushIsCurrent ==
  \A a \in Agents \ overwritten :
    LET c == live[a] IN
      c # NoConn /\ ws[c] = "open" /\ wire[c] # << >> => wire[c][Len(wire[c])] = rowPolicy[a]

\* The agent and its row agree on what a version is, now and after what is on
\* its way.
VersionsAgree == PolicyTypeOK /\ VersionsNamePolicies /\ PushIsCurrent

\* An agent is served only while its row says online, and a row that says online
\* of an agent that is not served was left by a server that stopped; neither,
\* where a PATCH that awaited its body put an older status back, until a hello, a
\* close event or a revocation writes the row again (updateAgentPolicy,
\* handleLiveConnectionClosed).
RowsTellService ==
  \A a \in Agents \ restored :
    /\ live[a] # NoConn => status[a] = "online"
    /\ status[a] = "online" /\ live[a] = NoConn => restarts > 0

----------------------------------------------------------------------------
(* What the documents say, and the code does not do *)

\* adding-a-device.md: "The control plane pushes a policy.update to the running
\* agent within seconds; no restart is required."  An update that reaches the
\* agent on the connection it is served on becomes its policy.
PushedPolicyApplies ==
  [][\A a \in Agents :
       LET c == live[a] IN
         /\ c # NoConn /\ live'[a] = c
         /\ wire[c] # << >> /\ wire'[c] = Tail(wire[c])
         => agentPolicy'[a] = Head(wire[c])]_fleetVars
=============================================================================
