-------------------------- MODULE AgentFleetProofs --------------------------
(***************************************************************************)
(* Proofs about what is done over the connections of agents: actions       *)
(* (AgentActions) and policies (AgentPolicies), for any connections,       *)
(* agents, limits, actions and PATCH requests.                             *)
(***************************************************************************)
EXTENDS AgentActions, AgentPolicies, AgentConnectionsProofs

----------------------------------------------------------------------------
(* Actions *)

(***************************************************************************)
(* The inductive invariant of actions: beside the connections and the      *)
(* agreement of rows and pendingActions, a revoked agent is not served, so *)
(* that no connection of its can pass for the live one.                    *)
(***************************************************************************)
ActionInv == IInv /\ RevokedNotLive /\ RowsMatchPending

\* To the connections, a result is activity and nothing else.
LEMMA ReceiveResultIsActivity ==
  ASSUME ActionTypeOK, NEW x \in Actions, ReceiveResult(x)
  PROVE  [Next]_vars
<1>1. /\ via[x] \in Conns \cup {NoConn} /\ managed \subseteq Conns
      /\ quiet \in [Conns -> BOOLEAN]
  BY DEF ActionTypeOK, TypeOK
<1>2. Receives(via[x]) /\ via[x] \in Conns
  BY <1>1 DEF ReceiveResult, Receives
<1>3. CASE quiet[via[x]]
  <2>1. Activity(via[x])
    BY <1>2, <1>3 DEF ReceiveResult, Activity
  <2> QED BY <1>2, <2>1 DEF Next, ConnectionEvent
<1>4. CASE ~quiet[via[x]]
  <2>1. quiet' = quiet
    BY <1>1, <1>2, <1>4 DEF Receives
  <2> QED BY <2>1 DEF ReceiveResult, vars, connVars
<1> QED BY <1>3, <1>4

\* Every step of an action is a step of the connections, or none of them.
LEMMA ActionStepOfConnections ==
  ASSUME ActionTypeOK, [ActionNext]_delegationVars
  PROVE  [Next]_vars
<1>1. ASSUME NEW x \in Actions, ReceiveResult(x) PROVE [Next]_vars
  BY <1>1, ReceiveResultIsActivity
<1>2. CASE DelegationConnections
  BY <1>2 DEF DelegationConnections
<1>3. CASE UNCHANGED vars
  BY <1>3
<1> QED
  BY <1>1, <1>2, <1>3
     DEF ActionNext, delegationVars, DispatchAction, ActionTimeout, AcceptAction, IgnoreAction, AnswerAction

LEMMA InitActionInv == ActionInit => ActionInv
<1> SUFFICES ASSUME ActionInit PROVE ActionInv
  OBVIOUS
<1>1. Init
  BY DEF ActionInit
<1>2. IInv /\ RevokedNotLive
  BY <1>1, InitIInv DEF Init, RevokedNotLive
<1>3. ActionTypeOK
  BY <1>2 DEF ActionInit, ActionTypeOK, IInv, RemoteStates
<1> QED BY <1>2, <1>3 DEF ActionInit, ActionInv, RowsMatchPending

\* Whoever settles an action takes it out of pendingActions with its row.
LEMMA SettleRows ==
  ASSUME RowsMatchPending, TypeOK', NEW x \in pending,
         NEW outcome \in {"completed", "error", "timeout"}, Settle(x, outcome),
         remote' \in [Actions -> RemoteStates],
         UNCHANGED <<owner, via, stranded>>
  PROVE  RowsMatchPending'
<1>0. ActionTypeOK /\ pending \subseteq Actions
  BY DEF RowsMatchPending, ActionTypeOK
<1>1. /\ row' \in [Actions -> {"none", "sent", "completed", "error", "timeout"}]
      /\ row'[x] = outcome
      /\ \A y \in Actions : y # x => row'[y] = row[y]
      /\ pending' = pending \ {x}
  BY <1>0 DEF Settle, ActionTypeOK
<1>2. ActionTypeOK'
  <2>1. row[x] # "none"
    BY DEF RowsMatchPending
  <2> QED BY <1>0, <1>1, <2>1 DEF ActionTypeOK
<1> QED BY <1>0, <1>1, <1>2 DEF RowsMatchPending

LEMMA NextActionInv == ActionInv /\ [ActionNext]_delegationVars => ActionInv'
<1> SUFFICES ASSUME ActionInv, [ActionNext]_delegationVars PROVE ActionInv'
  OBVIOUS
<1>0. ActionTypeOK /\ RowsMatchPending /\ IInv /\ RevokedNotLive
  BY DEF ActionInv, RowsMatchPending
<1>1. [Next]_vars
  BY <1>0, ActionStepOfConnections
<1>2. IInv' /\ RevokedNotLive'
  BY <1>0, <1>1, NextIInv, RevocationStep
<1>3. TypeOK'
  BY <1>2 DEF IInv
<1>4. ASSUME NEW x \in Actions, NEW a \in Agents, DispatchAction(x, a) PROVE RowsMatchPending'
  <2>1. live[a] \in Conns
    BY <1>0, <1>4 DEF DispatchAction, Served, ActionTypeOK, TypeOK
  <2>2. ActionTypeOK'
    BY <1>0, <1>3, <1>4, <2>1 DEF DispatchAction, ActionTypeOK, RemoteStates
  <2> QED BY <1>0, <1>4, <2>2 DEF DispatchAction, ActionTypeOK, RowsMatchPending
<1>5. ASSUME NEW x \in Actions, ActionTimeout(x) PROVE RowsMatchPending'
  BY <1>0, <1>3, <1>5, SettleRows DEF ActionTimeout, ActionTypeOK
<1>6. ASSUME NEW x \in Actions, ReceiveResult(x) PROVE RowsMatchPending'
  <2>1. remote' \in [Actions -> RemoteStates]
    BY <1>0, <1>6 DEF ReceiveResult, ActionTypeOK, RemoteStates
  <2>2. CASE x \in pending
    BY <1>0, <1>3, <1>6, <2>1, <2>2, SettleRows DEF ReceiveResult, Awaited
  <2>3. CASE x \notin pending
    <3>1. UNCHANGED <<row, pending, owner, via, stranded>>
      BY <1>6, <2>3 DEF ReceiveResult, Awaited
    <3> QED BY <1>0, <1>3, <2>1, <3>1 DEF ActionTypeOK, RowsMatchPending
  <2> QED BY <2>2, <2>3
<1>7. ASSUME NEW x \in Actions, AcceptAction(x) \/ IgnoreAction(x) \/ AnswerAction(x)
      PROVE  RowsMatchPending'
  <2>1. remote' \in [Actions -> RemoteStates]
    BY <1>0, <1>7 DEF AcceptAction, IgnoreAction, AnswerAction, ActionTypeOK, RemoteStates
  <2>2. UNCHANGED <<row, pending, owner, via, stranded>>
    BY <1>7 DEF AcceptAction, IgnoreAction, AnswerAction
  <2> QED BY <1>0, <1>3, <2>1, <2>2 DEF ActionTypeOK, RowsMatchPending
\* The end of the server strands exactly what was pending.
<1>8. ASSUME DelegationConnections PROVE RowsMatchPending'
  <2>1. remote' \in [Actions -> RemoteStates]
    BY <1>0, <1>8 DEF DelegationConnections, ActionsFollow, ActionTypeOK, RemoteStates
  <2>2. UNCHANGED <<row, owner, via>>
    BY <1>8 DEF DelegationConnections, ActionsFollow
  <2>3. \/ pending' = {} /\ stranded' = stranded \cup pending
        \/ UNCHANGED <<pending, stranded>>
    BY <1>8 DEF DelegationConnections, ActionsFollow
  <2>4. ActionTypeOK'
    BY <1>0, <1>3, <2>1, <2>2, <2>3 DEF ActionTypeOK
  <2> QED BY <1>0, <2>2, <2>3, <2>4 DEF RowsMatchPending
<1>9. ASSUME UNCHANGED delegationVars PROVE RowsMatchPending'
  BY <1>0, <1>3, <1>9 DEF delegationVars, actionVars, ActionTypeOK, RowsMatchPending
<1>10. RowsMatchPending'
  BY <1>4, <1>5, <1>6, <1>7, <1>8, <1>9 DEF ActionNext
<1> QED BY <1>2, <1>10 DEF ActionInv

LEMMA ActionInvariance == ActionSpec => []ActionInv
  BY InitActionInv, NextActionInv, PTL DEF ActionSpec

\* The control plane with actions implements the connection lifecycle: handling
\* a result never opens, closes, binds or serves a connection.  Whatever is
\* proved of Spec holds while agents work.
THEOREM ActionsImplementConnections == ActionSpec => Spec
<1>1. ActionInit => Init
  BY DEF ActionInit
<1>2. ActionInv /\ [ActionNext]_delegationVars => [Next]_vars
  BY ActionStepOfConnections DEF ActionInv, RowsMatchPending
<1> QED BY ActionInvariance, <1>1, <1>2, PTL DEF ActionSpec, Spec

\* The store says "sent" exactly of the actions a caller waits for, and of the
\* ones a shutdown or a crash cut off (dispatchAction, handleActionResult).
THEOREM RowsCorrect == ActionSpec => []RowsMatchPending
<1>1. ActionInv => RowsMatchPending
  BY DEF ActionInv
<1> QED BY ActionInvariance, <1>1, PTL

\* An outcome once written is never written over: a result, a timer or a
\* dispatch writes a row only while the action is pending, or new.
THEOREM OutcomesFinal == ActionSpec => OutcomeIsFinal
<1>1. ASSUME ActionInv, [ActionNext]_delegationVars,
             NEW x \in Actions, row[x] \notin {"none", "sent"}
      PROVE  row'[x] = row[x]
  <2>0. /\ row \in [Actions -> {"none", "sent", "completed", "error", "timeout"}]
        /\ x \notin pending
    BY <1>1 DEF ActionInv, RowsMatchPending, ActionTypeOK
  <2>1. ASSUME NEW y \in Actions, NEW a \in Agents, DispatchAction(y, a) PROVE row'[x] = row[x]
    BY <1>1, <2>0, <2>1 DEF DispatchAction
  <2>2. ASSUME NEW y \in Actions, ActionTimeout(y) PROVE row'[x] = row[x]
    BY <2>0, <2>2 DEF ActionTimeout, Settle
  <2>3. ASSUME NEW y \in Actions, ReceiveResult(y) PROVE row'[x] = row[x]
    BY <2>0, <2>3 DEF ReceiveResult, Awaited, Settle
  <2>4. CASE UNCHANGED row
    BY <2>4
  <2> QED
    BY <1>1, <2>1, <2>2, <2>3, <2>4
       DEF ActionNext, delegationVars, actionVars, DelegationConnections, ActionsFollow,
           AcceptAction, IgnoreAction, AnswerAction
<1>2. ActionInv /\ [ActionNext]_delegationVars =>
        [\A x \in Actions : row[x] \notin {"none", "sent"} => row'[x] = row[x]]_delegationVars
  BY <1>1
<1> QED BY ActionInvariance, <1>2, PTL DEF ActionSpec, OutcomeIsFinal

\* No row of a revoked agent becomes "sent" or "completed": it is not served,
\* and a result of its is not from a live connection.
THEOREM RevokedAgentsIdle == ActionSpec => RevokedDoesNothing
<1>1. ASSUME ActionInv, [ActionNext]_delegationVars,
             NEW x \in Actions, row'[x] # row[x], row'[x] \in {"sent", "completed"}
      PROVE  status[owner'[x]] # "revoked"
  <2>0. /\ row \in [Actions -> {"none", "sent", "completed", "error", "timeout"}]
        /\ owner \in [Actions -> Agents \cup {NoAgent}]
        /\ \A y \in pending : y \in Actions /\ owner[y] \in Agents /\ via[y] \in Conns
        /\ RevokedNotLive
    BY <1>1 DEF ActionInv, RowsMatchPending, ActionTypeOK
  <2>1. ASSUME NEW y \in Actions, NEW a \in Agents, DispatchAction(y, a)
        PROVE  status[owner'[x]] # "revoked"
    BY <1>1, <2>0, <2>1 DEF DispatchAction, Served
  <2>2. ASSUME NEW y \in Actions, ActionTimeout(y) PROVE FALSE
    BY <1>1, <2>0, <2>2 DEF ActionTimeout, Settle
  <2>3. ASSUME NEW y \in Actions, ReceiveResult(y) PROVE status[owner'[x]] # "revoked"
    <3>1. x = y /\ y \in pending /\ FromLive(y) /\ owner' = owner
      BY <1>1, <2>0, <2>3 DEF ReceiveResult, Awaited, Settle
    <3>2. live[owner[x]] # NoConn
      BY <2>0, <3>1, NoneAssumption DEF FromLive
    <3> QED BY <2>0, <3>1, <3>2 DEF RevokedNotLive
  <2>4. row' # row
    BY <1>1
  <2> QED
    BY <1>1, <2>1, <2>2, <2>3, <2>4
       DEF ActionNext, delegationVars, actionVars, DelegationConnections, ActionsFollow,
           AcceptAction, IgnoreAction, AnswerAction
<1>2. ActionInv /\ [ActionNext]_delegationVars =>
        [\A x \in Actions :
           row'[x] # row[x] /\ row'[x] \in {"sent", "completed"}
             => status[owner'[x]] # "revoked"]_delegationVars
  BY <1>1
<1> QED BY ActionInvariance, <1>2, PTL DEF ActionSpec, RevokedDoesNothing

----------------------------------------------------------------------------
(* Policies *)

(***************************************************************************)
(* The inductive invariant of policies.  Messages are only ever on their   *)
(* way on a managed connection that said a good hello.  What is on the way *)
(* to an agent none of whose PATCHes wrote over another one is no newer    *)
(* than the row, and is the row's policy where it has the row's version.   *)
(* (RevokedNotLive is not part of it: a PATCH that awaited its body writes *)
(* back the status it read.)                                               *)
(***************************************************************************)
Agrees(policy, a) ==
  /\ policy.version <= rowPolicy[a].version
  /\ policy.version = rowPolicy[a].version => policy = rowPolicy[a]

WireIsServed ==
  \A c \in Conns : wire[c] # << >> =>
    c \in managed /\ authenticated[c] /\ agentOf[c] \in Agents

WireAgrees ==
  \A c \in Conns : agentOf[c] \notin overwritten =>
    \A i \in DOMAIN wire[c] : Agrees(wire[c][i], agentOf[c])

ReadingNamesAgent == \A p \in Patches : patch[p].state = "reading" => patch[p].agent \in Agents

PolicyInv ==
  /\ IInv
  /\ PolicyTypeOK
  /\ WireIsServed
  /\ WireAgrees
  /\ ReadingNamesAgent
  /\ VersionsNamePolicies
  /\ PushIsCurrent

LEMMA InitPolicyInv == PolicyInit => PolicyInv
<1> SUFFICES ASSUME PolicyInit PROVE PolicyInv
  OBVIOUS
<1>1. IInv /\ TypeOK
  BY InitIInv DEF PolicyInit, IInv
<1>2. Enrolment \in Policies
  BY DEF Enrolment, Policies
<1>3. PolicyTypeOK
  BY <1>1, <1>2 DEF PolicyInit, PolicyTypeOK
<1>4. WireIsServed /\ WireAgrees /\ ReadingNamesAgent
  BY <1>1 DEF PolicyInit, WireIsServed, WireAgrees, ReadingNamesAgent, TypeOK
<1>5. VersionsNamePolicies /\ PushIsCurrent
  BY <1>1 DEF PolicyInit, VersionsNamePolicies, PushIsCurrent, TypeOK, Enrolment
<1> QED BY <1>1, <1>3, <1>4, <1>5 DEF PolicyInv

\* A connection that said a good hello stays bound to its agent for as long as
\* it is managed.
LEMMA BindingStays ==
  ASSUME IInv, Next, NEW c \in managed, authenticated[c], c \in managed'
  PROVE  authenticated'[c] /\ agentOf'[c] = agentOf[c]
<1>0. TypeOK /\ agentOf[c] \in Agents
  BY DEF IInv, ManagedInv
<1>1. ASSUME NEW d \in Conns, NEW a \in Agents, HelloInvalid(d, a) \/ HelloAccepted(d, a)
      PROVE  authenticated'[c] /\ agentOf'[c] = agentOf[c]
  BY <1>0, <1>1, NoneAssumption
     DEF HelloInvalid, HelloAccepted, MayClaim, Claim, TypeOK
<1> QED
  BY <1>1
     DEF Next, ConnectionEvent, Hello, Attach, RefuseUpgrade, HandleClose, BadMessage, BinaryMessage,
         Activity, HelloTimeout, GoQuiet, HelloRefused, RevokeAgent, RunHeartbeat, Restart

\* Nobody but a new connection becomes open.
LEMMA OpenWasOpen ==
  ASSUME IInv, Next, NEW c \in managed, ws'[c] = "open"
  PROVE  ws[c] = "open"
<1>0. c \in Conns /\ ws[c] \in {"open", "closing"} /\ ws \in [Conns -> {"new", "open", "closing", "closed"}]
  BY DEF IInv, TypeOK, ManagedInv
<1>1. ASSUME NEW d \in Conns, Attach(d) \/ RefuseUpgrade(d) \/ HandleClose(d) \/ BinaryMessage(d)
      PROVE  ws[c] = "open"
  BY <1>0, <1>1 DEF Attach, RefuseUpgrade, HandleClose, BinaryMessage
<1>2. ASSUME NEW S, CloseConnections(S) PROVE ws[c] = "open"
  BY <1>0, <1>2 DEF CloseConnections
<1>3. CASE Restart \/ \E a \in Agents : RevokeAgent(a)
  BY <1>0, <1>3 DEF Restart, RevokeAgent
<1>4. CASE UNCHANGED ws
  BY <1>4
<1> QED
  BY <1>1, <1>2, <1>3, <1>4
     DEF Next, ConnectionEvent, Hello, BadMessage, Activity, HelloTimeout, GoQuiet,
         HelloRefused, HelloInvalid, HelloAccepted, RunHeartbeat

\* updateAgentPolicy, at the moment it writes the row: either it writes over
\* another PATCH, or its version is newer than every one given out before.
LEMMA UpdateKeeps ==
  ASSUME PolicyInv, NEW p \in Patches, UpdateAgentPolicy(p)
  PROVE  PolicyInv'
<1> DEFINE a == patch[p].agent
           new == NextPolicy(p)
           pushed == {c \in Conns : c = live[a] /\ ws[c] = "open"}
<1>0. /\ IInv /\ TypeOK /\ PolicyTypeOK
      /\ a \in Agents
  BY DEF PolicyInv, PolicyTypeOK, UpdateAgentPolicy, ReadingNamesAgent
<1>1. /\ new \in Policies /\ new.version = patch[p].version + 1
      /\ patch[p].version \in Nat /\ patch[p].status \in {"offline", "online", "revoked"}
  BY <1>0 DEF PolicyTypeOK, NextPolicy, Policies
<1>2. /\ rowPolicy' = [rowPolicy EXCEPT ![a] = new]
      /\ wire' = [c \in Conns |-> IF c \in pushed THEN Append(wire[c], new) ELSE wire[c]]
      /\ overwritten' = overwritten \cup {b \in {a} : rowPolicy[b].version # patch[p].version}
      /\ restored' = restored \cup {b \in {a} : status[b] # patch[p].status}
      /\ status' = [status EXCEPT ![a] = patch[p].status]
      /\ patch' = [patch EXCEPT ![p].state = "done"]
      /\ UNCHANGED <<connVars, agentClaims, live, restarts, agentPolicy>>
  BY DEF UpdateAgentPolicy, PolicyUpdate
<1> HIDE DEF new
<1>3. TypeOK'
  BY <1>0, <1>1, <1>2 DEF TypeOK, connVars
<1>4. IInv'
  BY <1>0, <1>2, <1>3, OnlyTransports DEF connVars
<1>5. PolicyTypeOK'
  <2>1. wire' \in [Conns -> Seq(Policies)]
    BY <1>0, <1>1, <1>2 DEF PolicyTypeOK
  <2>2. patch' \in [Patches -> [state : {"none", "reading", "done"}, agent : Agents \cup {NoAgent},
                                status : {"offline", "online", "revoked"}, version : Nat]]
    BY <1>0, <1>2 DEF PolicyTypeOK
  <2> QED BY <1>0, <1>1, <1>2, <1>3, <2>1, <2>2 DEF PolicyTypeOK
<1>6. \A c \in pushed : c \in managed /\ authenticated[c] /\ agentOf[c] = a /\ c = live[a]
  BY <1>0, NoneAssumption DEF IInv, LiveIsAuthenticated
<1>7. WireIsServed'
  BY <1>0, <1>2, <1>6 DEF PolicyInv, WireIsServed, connVars
<1>8. ReadingNamesAgent'
  BY <1>0, <1>2 DEF PolicyInv, ReadingNamesAgent, PolicyTypeOK
\* Where nothing is written over, the new policy is newer than all the others.
<1>9. ASSUME NEW policy \in Policies, NEW b \in Agents, b \notin overwritten', Agrees(policy, b)
      PROVE  Agrees(policy, b)'
  BY <1>0, <1>1, <1>2, <1>9 DEF Agrees, Policies, PolicyTypeOK
<1>10. WireAgrees'
  <2> SUFFICES ASSUME NEW c \in Conns, agentOf[c] \notin overwritten', NEW i \in DOMAIN wire'[c]
               PROVE  Agrees(wire[c][i], agentOf[c])' 
    BY <1>2 DEF WireAgrees, connVars
  <2>1. agentOf[c] \in Agents
    BY <1>2, <1>7 DEF WireIsServed, connVars
  <2>2. /\ wire[c] \in Seq(Policies) /\ wire' \in [Conns -> Seq(Policies)]
        /\ agentOf' = agentOf
    BY <1>0, <1>2, <1>5 DEF PolicyTypeOK, connVars
  <2>3. CASE i \in DOMAIN wire[c]
    <3>1. wire'[c][i] = wire[c][i] /\ wire[c][i] \in Policies
      BY <1>1, <1>2, <2>2, <2>3
    <3>2. Agrees(wire[c][i], agentOf[c])
      BY <1>2, <2>3 DEF PolicyInv, WireAgrees
    <3> QED BY <1>9, <2>1, <2>2, <3>1, <3>2 DEF Agrees
  <2>4. CASE i \notin DOMAIN wire[c]
    <3>1. c \in pushed /\ wire'[c][i] = new
      BY <1>1, <1>2, <2>2, <2>4
    <3> QED BY <1>0, <1>1, <1>2, <1>6, <2>2, <3>1 DEF Agrees, PolicyTypeOK, Policies
  <2> QED BY <2>3, <2>4
<1>11. VersionsNamePolicies'
  <2> SUFFICES ASSUME NEW b \in Agents, b \notin overwritten' PROVE Agrees(agentPolicy[b], b)'
    BY DEF VersionsNamePolicies, Agrees
  <2>1. agentPolicy[b] \in Policies /\ Agrees(agentPolicy[b], b)
    BY <1>0, <1>2 DEF PolicyInv, VersionsNamePolicies, Agrees, PolicyTypeOK
  <2> QED BY <1>2, <1>9, <2>1 DEF Agrees
<1>12. PushIsCurrent'
  <2> SUFFICES ASSUME NEW b \in Agents, b \notin overwritten', live[b] # NoConn,
                      ws[live[b]] = "open", wire'[live[b]] # << >>
               PROVE  wire'[live[b]][Len(wire'[live[b]])] = rowPolicy'[b]
    BY <1>2 DEF PushIsCurrent, connVars
  <2>1. live[b] \in Conns /\ agentOf[live[b]] = b /\ wire[live[b]] \in Seq(Policies)
    BY <1>0 DEF IInv, LiveIsAuthenticated, TypeOK, PolicyTypeOK
  <2>2. CASE b = a
    BY <1>0, <1>1, <1>2, <2>1, <2>2 DEF PolicyTypeOK
  <2>3. CASE b # a
    <3>1. live[b] \notin pushed
      BY <1>6, <2>1, <2>3
    <3> QED BY <1>0, <1>2, <2>1, <2>3, <3>1 DEF PolicyInv, PushIsCurrent, PolicyTypeOK
  <2> QED BY <2>2, <2>3
<1> QED BY <1>4, <1>5, <1>7, <1>8, <1>10, <1>11, <1>12 DEF PolicyInv

\* applyAgentPolicyUpdate: what the agent takes over agreed with the row on its
\* way.
LEMMA ReceiveKeeps ==
  ASSUME PolicyInv, NEW c \in Conns, ReceivePolicy(c)
  PROVE  PolicyInv'
<1> DEFINE a == agentOf[c]
           m == Head(wire[c])
<1>0. /\ IInv /\ TypeOK /\ PolicyTypeOK
      /\ a \in Agents
      /\ wire[c] \in Seq(Policies) /\ wire[c] # << >>
  BY DEF PolicyInv, PolicyTypeOK, ReceivePolicy, WireIsServed
<1>1. /\ wire' = [wire EXCEPT ![c] = Tail(wire[c])]
      /\ agentPolicy' = [agentPolicy EXCEPT ![a] = m] \/ agentPolicy' = agentPolicy
      /\ UNCHANGED <<vars, rowPolicy, patch, overwritten, restored>>
  BY DEF ReceivePolicy
<1>2. /\ m \in Policies /\ Tail(wire[c]) \in Seq(Policies) /\ m = wire[c][1] /\ 1 \in DOMAIN wire[c]
  BY <1>0
<1>3. IInv'
  BY <1>0, <1>1, NextIInv
<1>4. PolicyTypeOK'
  BY <1>0, <1>1, <1>2, <1>3 DEF PolicyTypeOK, IInv
<1>5. WireIsServed' /\ ReadingNamesAgent'
  <2>1. \A d \in Conns : wire'[d] # << >> => wire[d] # << >>
    BY <1>0, <1>1 DEF PolicyTypeOK
  <2> QED BY <1>1, <2>1 DEF PolicyInv, WireIsServed, ReadingNamesAgent, vars, connVars
<1>6. WireAgrees'
  <2> SUFFICES ASSUME NEW d \in Conns, agentOf[d] \notin overwritten, NEW i \in DOMAIN wire'[d]
               PROVE  Agrees(wire'[d][i], agentOf[d])
    BY <1>1 DEF WireAgrees, vars, connVars, Agrees
  <2>1. \E j \in DOMAIN wire[d] : wire'[d][i] = wire[d][j]
    <3>1. CASE d = c
      <4>1. wire'[c] = Tail(wire[c])
        BY <1>0, <1>1 DEF PolicyTypeOK
      <4>2. i + 1 \in DOMAIN wire[c] /\ Tail(wire[c])[i] = wire[c][i + 1]
        BY <1>0, <3>1, <4>1
      <4> QED BY <3>1, <4>1, <4>2
    <3>2. CASE d # c
      BY <1>0, <1>1, <3>2 DEF PolicyTypeOK
    <3> QED BY <3>1, <3>2
  <2> QED BY <2>1 DEF PolicyInv, WireAgrees
<1>7. VersionsNamePolicies'
  <2> SUFFICES ASSUME NEW b \in Agents, b \notin overwritten PROVE Agrees(agentPolicy'[b], b)
    BY <1>1 DEF VersionsNamePolicies, Agrees
  <2>1. Agrees(agentPolicy[b], b)
    BY DEF PolicyInv, VersionsNamePolicies, Agrees
  <2>2. b = a => Agrees(m, b)
    BY <1>2 DEF PolicyInv, WireAgrees
  <2> QED BY <1>0, <1>1, <2>1, <2>2 DEF PolicyTypeOK
<1>8. PushIsCurrent'
  <2> SUFFICES ASSUME NEW b \in Agents, b \notin overwritten, live[b] # NoConn,
                      ws[live[b]] = "open", wire'[live[b]] # << >>
               PROVE  wire'[live[b]][Len(wire'[live[b]])] = rowPolicy[b]
    BY <1>1 DEF PushIsCurrent, vars, connVars
  <2>1. live[b] \in Conns
    BY <1>0 DEF TypeOK
  <2>2. CASE live[b] # c
    BY <1>0, <1>1, <2>1, <2>2 DEF PolicyInv, PushIsCurrent, PolicyTypeOK
  <2>3. CASE live[b] = c
    <3>1. wire'[c] = Tail(wire[c])
      BY <1>0, <1>1 DEF PolicyTypeOK
    <3>2. wire[c][Len(wire[c])] = rowPolicy[b]
      BY <1>0, <2>3 DEF PolicyInv, PushIsCurrent
    <3>3. Tail(wire[c])[Len(Tail(wire[c]))] = wire[c][Len(wire[c])]
      BY <1>0, <2>3, <3>1
    <3> QED BY <2>3, <3>1, <3>2, <3>3
  <2> QED BY <2>2, <2>3
<1> QED BY <1>3, <1>4, <1>5, <1>6, <1>7, <1>8 DEF PolicyInv

\* A step of the connections: what is still on its way belongs to a connection
\* that was, and is, its agent's.
LEMMA ConnectionStepKeeps ==
  ASSUME PolicyInv, ConnectionStep
  PROVE  PolicyInv'
<1>0. IInv /\ TypeOK /\ PolicyTypeOK /\ Next
  BY DEF PolicyInv, PolicyTypeOK, ConnectionStep
<1>1. /\ wire' = [c \in Conns |-> IF wire[c] # << >> /\ Reachable(c) THEN wire[c] ELSE << >>]
      /\ patch' = [p \in Patches |->
                     IF restarts' # restarts /\ patch[p].state = "reading"
                       THEN [patch[p] EXCEPT !.state = "done"] ELSE patch[p]]
      /\ restored' = restored \ RowsWritten
      /\ UNCHANGED <<rowPolicy, agentPolicy, overwritten>>
  BY DEF ConnectionStep
<1>2. IInv'
  BY <1>0, NextIInv
<1>3. PolicyTypeOK'
  <2>1. wire' \in [Conns -> Seq(Policies)]
    BY <1>0, <1>1 DEF PolicyTypeOK
  <2>2. patch' \in [Patches -> [state : {"none", "reading", "done"}, agent : Agents \cup {NoAgent},
                                status : {"offline", "online", "revoked"}, version : Nat]]
    BY <1>0, <1>1 DEF PolicyTypeOK
  <2> QED BY <1>0, <1>1, <1>2, <2>1, <2>2 DEF PolicyTypeOK, IInv
<1>4. ReadingNamesAgent'
  BY <1>0, <1>1 DEF PolicyInv, ReadingNamesAgent, PolicyTypeOK
\* What survives the step.
<1>5. ASSUME NEW c \in Conns, wire'[c] # << >>
      PROVE  /\ wire'[c] = wire[c] /\ wire[c] # << >>
             /\ c \in managed /\ c \in managed'
             /\ authenticated[c] /\ authenticated'[c]
             /\ agentOf[c] \in Agents /\ agentOf'[c] = agentOf[c]
  <2>1. wire'[c] = wire[c] /\ wire[c] # << >> /\ c \in managed'
    BY <1>1, <1>5 DEF Reachable
  <2>2. c \in managed /\ authenticated[c] /\ agentOf[c] \in Agents
    BY <2>1 DEF PolicyInv, WireIsServed
  <2> QED BY <1>0, <2>1, <2>2, BindingStays
<1>6. WireIsServed'
  BY <1>5 DEF WireIsServed
<1>7. WireAgrees'
  <2> SUFFICES ASSUME NEW c \in Conns, agentOf'[c] \notin overwritten, NEW i \in DOMAIN wire'[c]
               PROVE  Agrees(wire'[c][i], agentOf'[c])
    BY <1>1 DEF WireAgrees, Agrees
  <2>1. wire'[c] # << >>
    OBVIOUS
  <2> QED BY <1>5, <2>1 DEF PolicyInv, WireAgrees
<1>8. VersionsNamePolicies'
  BY <1>1 DEF PolicyInv, VersionsNamePolicies
<1>9. PushIsCurrent'
  <2> SUFFICES ASSUME NEW b \in Agents, b \notin overwritten, live'[b] # NoConn,
                      ws'[live'[b]] = "open", wire'[live'[b]] # << >>
               PROVE  wire'[live'[b]][Len(wire'[live'[b]])] = rowPolicy[b]
    BY <1>1 DEF PushIsCurrent
  <2> DEFINE c == live'[b]
  <2>1. c \in Conns /\ agentOf'[c] = b
    BY <1>2 DEF IInv, TypeOK, LiveIsAuthenticated
  <2>2. /\ wire'[c] = wire[c] /\ wire[c] # << >>
        /\ c \in managed /\ authenticated[c] /\ agentOf[c] = b
    BY <1>5, <2>1
  <2>3. ws[c] = "open"
    BY <1>0, <2>2, OpenWasOpen
  \* It was open, so it was not superseded: it is the connection b was served on.
  <2>4. live[b] = c
    BY <1>0, <2>2, <2>3 DEF IInv, SupersededIsClosing
  <2> QED BY <2>1, <2>2, <2>3, <2>4 DEF PolicyInv, PushIsCurrent
<1> QED BY <1>2, <1>3, <1>4, <1>6, <1>7, <1>8, <1>9 DEF PolicyInv

LEMMA NextPolicyInv == PolicyInv /\ [PolicyNext]_fleetVars => PolicyInv'
<1> SUFFICES ASSUME PolicyInv, [PolicyNext]_fleetVars PROVE PolicyInv'
  OBVIOUS
<1>0. IInv /\ TypeOK /\ PolicyTypeOK
  BY DEF PolicyInv, PolicyTypeOK
<1>1. ASSUME NEW p \in Patches, NEW a \in Agents, StartPatch(p, a) PROVE PolicyInv'
  <2>1. /\ patch' = [patch EXCEPT ![p] = [state |-> "reading", agent |-> a, status |-> status[a],
                                         version |-> rowPolicy[a].version]]
        /\ UNCHANGED <<vars, rowPolicy, wire, agentPolicy, overwritten, restored>>
    BY <1>1 DEF StartPatch
  <2>2. IInv'
    BY <1>0, <2>1, NextIInv
  <2>3. rowPolicy[a].version \in Nat /\ status[a] \in {"offline", "online", "revoked"}
    BY <1>0 DEF PolicyTypeOK, TypeOK, Policies
  <2>4. PolicyTypeOK'
    BY <1>0, <2>1, <2>2, <2>3 DEF PolicyTypeOK, IInv
  <2>5. ReadingNamesAgent'
    BY <1>0, <2>1 DEF PolicyInv, ReadingNamesAgent, PolicyTypeOK
  <2>6. WireIsServed' /\ WireAgrees' /\ VersionsNamePolicies' /\ PushIsCurrent'
    BY <2>1 DEF PolicyInv, WireIsServed, WireAgrees, Agrees, VersionsNamePolicies, PushIsCurrent,
                vars, connVars
  <2> QED BY <2>2, <2>4, <2>5, <2>6 DEF PolicyInv
<1>2. CASE UNCHANGED fleetVars
  <2>1. UNCHANGED <<vars, rowPolicy, patch, wire, agentPolicy, overwritten, restored>>
    BY <1>2 DEF fleetVars, policyVars
  <2>2. IInv'
    BY <1>0, <2>1, NextIInv
  <2> QED
    BY <1>0, <2>1, <2>2
       DEF PolicyInv, PolicyTypeOK, IInv, WireIsServed, WireAgrees, Agrees, ReadingNamesAgent,
           VersionsNamePolicies, PushIsCurrent, vars, connVars
<1> QED BY <1>1, <1>2, UpdateKeeps, ReceiveKeeps, ConnectionStepKeeps DEF PolicyNext

LEMMA PolicyInvariance == PolicySpec => []PolicyInv
  BY InitPolicyInv, NextPolicyInv, PTL DEF PolicySpec

\* An agent and its row never disagree on what a version is, and the last push on
\* its way is the policy of the row, until a PATCH writes over another one: for
\* any number of agents, connections, reconnects and PATCHes.
THEOREM VersionsCorrect == PolicySpec => []VersionsAgree
<1>1. PolicyInv => VersionsAgree
  BY DEF PolicyInv, VersionsAgree
<1> QED BY PolicyInvariance, <1>1, PTL

(***************************************************************************)
(* What the rows say of the service.  A step of the connections that       *)
(* serves an agent, or ends its service, writes its row too, but for the   *)
(* end of the server; a step that does neither leaves what was true.       *)
(***************************************************************************)
RowTells(a) ==
  /\ live[a] # NoConn => status[a] = "online"
  /\ status[a] = "online" /\ live[a] = NoConn => restarts > 0

LEMMA ConnectionsTell ==
  ASSUME IInv, Next, NEW a \in Agents
  PROVE  /\ live'[a] = live[a] /\ status'[a] = status[a] => (RowTells(a) => RowTells(a)')
         /\ live'[a] # live[a] \/ status'[a] # status[a] => RowTells(a)'
<1>0. /\ status \in [Agents -> {"offline", "online", "revoked"}]
      /\ live \in [Agents -> Conns \cup {NoConn}]
      /\ restarts \in Nat /\ restarts' \in Nat /\ restarts' >= restarts
  <2>1. TypeOK /\ TypeOK'
    BY NextIInv DEF IInv
  <2>2. restarts' = restarts \/ restarts' = restarts + 1
    BY DEF Next, ConnectionEvent, Hello, Attach, RefuseUpgrade, HandleClose, BadMessage, BinaryMessage,
           Activity, HelloTimeout, GoQuiet, HelloRefused, HelloInvalid, HelloAccepted, RevokeAgent,
           RunHeartbeat, Restart
  <2> QED BY <2>1, <2>2 DEF TypeOK
<1>1. live'[a] = live[a] /\ status'[a] = status[a] => (RowTells(a) => RowTells(a)')
  BY <1>0 DEF RowTells
<1> SUFFICES ASSUME live'[a] # live[a] \/ status'[a] # status[a] PROVE RowTells(a)'
  BY <1>1
<1>2. ASSUME NEW c \in Conns, HandleClose(c) PROVE RowTells(a)'
  <2>1. a \in ServedOn(c)
    BY <1>0, <1>2 DEF HandleClose, GoesOffline
  <2>2. live'[a] = NoConn /\ status'[a] # "online"
    BY <1>0, <1>2, <2>1 DEF HandleClose, GoesOffline
  <2> QED BY <2>2 DEF RowTells
<1>3. ASSUME NEW c \in Conns, NEW b \in Agents, HelloAccepted(c, b) PROVE RowTells(a)'
  <2>1. a = b
    BY <1>0, <1>3 DEF HelloAccepted
  <2> QED BY <1>0, <1>3, <2>1, NoneAssumption DEF HelloAccepted, RowTells
<1>4. ASSUME NEW b \in Agents, RevokeAgent(b) PROVE RowTells(a)'
  <2>1. a = b
    BY <1>0, <1>4 DEF RevokeAgent
  <2> QED BY <1>0, <1>4, <2>1 DEF RevokeAgent, RowTells
<1>5. ASSUME Restart PROVE RowTells(a)'
  BY <1>0, <1>5 DEF Restart, RowTells
<1>6. CASE UNCHANGED <<status, live>>
  BY <1>6
<1> QED
  BY <1>2, <1>3, <1>4, <1>5, <1>6
     DEF Next, ConnectionEvent, Hello, Attach, RefuseUpgrade, BadMessage, BinaryMessage, Activity,
         HelloTimeout, GoQuiet, HelloRefused, HelloInvalid, RunHeartbeat

\* A row tells who is served, for any number of agents, connections and PATCHes,
\* except where a PATCH put an older status back (updateAgentPolicy).
THEOREM ServiceRowsCorrect == PolicySpec => []RowsTellService
<1>1. PolicyInit => RowsTellService
  BY DEF PolicyInit, Init, RowsTellService
<1>2. ASSUME PolicyInv, RowsTellService, [PolicyNext]_fleetVars PROVE RowsTellService'
  <2>0. IInv /\ PolicyTypeOK /\ status \in [Agents -> {"offline", "online", "revoked"}]
    BY <1>2 DEF PolicyInv, IInv, TypeOK
  <2> SUFFICES ASSUME NEW a \in Agents, a \notin restored' PROVE RowTells(a)'
    BY DEF RowsTellService, RowTells
  <2>1. a \notin restored => RowTells(a)
    BY <1>2 DEF RowsTellService, RowTells
  <2>2. CASE ConnectionStep
    <3>1. Next /\ restored' = restored \ RowsWritten
      BY <2>2 DEF ConnectionStep
    <3>2. a \in restored => live'[a] # live[a] \/ status'[a] # status[a]
      BY <3>1 DEF RowsWritten
    <3> QED BY <2>0, <2>1, <3>1, <3>2, ConnectionsTell
  <2>3. ASSUME NEW p \in Patches, UpdateAgentPolicy(p) PROVE RowTells(a)'
    <3>1. /\ restored' = restored \cup {b \in {patch[p].agent} : status[b] # patch[p].status}
          /\ status' = [status EXCEPT ![patch[p].agent] = patch[p].status]
          /\ UNCHANGED <<live, restarts>>
      BY <2>3 DEF UpdateAgentPolicy
    <3>2. status'[a] = status[a] /\ a \notin restored
      BY <2>0, <3>1
    <3> QED BY <2>1, <3>1, <3>2 DEF RowTells
  <2>4. CASE UNCHANGED <<status, live, restarts, restored>>
    BY <2>1, <2>4 DEF RowTells
  <2> QED
    BY <1>2, <2>2, <2>3, <2>4
       DEF PolicyNext, fleetVars, policyVars, vars, StartPatch, ReceivePolicy
<1> QED BY PolicyInvariance, <1>1, <1>2, PTL DEF PolicySpec
=============================================================================
