----------------------- MODULE AgentConnectionsProofs -----------------------
(***************************************************************************)
(* Proofs about AgentConnections, for any connections, agents and limits.  *)
(***************************************************************************)
EXTENDS AgentConnections, FiniteSetTheorems, TLAPS

(***************************************************************************)
(* The inductive invariant.  Beside the properties themselves it says that *)
(* a managed connection is open or closing, that a connection nobody       *)
(* accepted yet is bound to nobody, and that a connection that said a good *)
(* hello is bound to an agent.                                             *)
(***************************************************************************)
ManagedInv ==
  /\ IsFiniteSet(managed)
  /\ \A c \in managed : ws[c] \in {"open", "closing"}
  /\ \A c \in Conns : ws[c] = "new" => agentOf[c] = NoAgent /\ ~authenticated[c]
  /\ \A c \in managed : authenticated[c] => agentOf[c] \in Agents

IInv ==
  /\ TypeOK
  /\ ManagedInv
  /\ ClaimsAreConnections
  /\ LimitsRespected
  /\ LiveIsAuthenticated
  /\ SupersededIsClosing

LEMMA InitIInv == Init => IInv
<1> SUFFICES ASSUME Init PROVE IInv
  OBVIOUS
<1>1. TypeOK
  BY DEF Init, TypeOK
<1>2. ManagedInv /\ LimitsRespected
  BY FS_EmptySet, LimitsAssumption DEF Init, ManagedInv, LimitsRespected
<1>3. ClaimsAreConnections /\ LiveIsAuthenticated /\ SupersededIsClosing
  BY DEF Init, ClaimsAreConnections, LiveIsAuthenticated, SupersededIsClosing
<1> QED BY <1>1, <1>2, <1>3 DEF IInv

\* The claims of an agent are a finite set.
LEMMA ClaimsFinite ==
  ASSUME IInv, NEW a \in Agents
  PROVE  IsFiniteSet(agentClaims[a]) /\ Cardinality(agentClaims[a]) \in Nat
<1>1. agentClaims[a] \subseteq managed
  BY DEF IInv, ClaimsAreConnections
<1> QED BY <1>1, FS_Subset, FS_CardinalityType DEF IInv, ManagedInv

\* closeConnection touches transports and timers only, and leaves every
\* connection it closes closing.
LEMMA CloseConnectionsEffect ==
  ASSUME IInv, NEW S, CloseConnections(S)
  PROVE  /\ ws' \in [Conns -> {"new", "open", "closing", "closed"}]
         /\ terminating' \in [Conns -> BOOLEAN]
         /\ \A c \in managed \cap S : ws'[c] = "closing"
         /\ \A c \in Conns : ws[c] # "open" => ws'[c] = ws[c]
         /\ \A c \in Conns : ws[c] = "open" => ws'[c] \in {"open", "closing"}
  BY DEF CloseConnections, IInv, TypeOK, ManagedInv

\* A step that moves only transports (from open to closing), timers and the
\* idle marks keeps the invariant.
LEMMA OnlyTransports ==
  ASSUME IInv, TypeOK',
         UNCHANGED <<managed, authenticated, agentOf, agentClaims, live>>,
         \A c \in Conns : ws[c] # "open" => ws'[c] = ws[c],
         \A c \in Conns : ws[c] = "open" => ws'[c] \in {"open", "closing"}
  PROVE  IInv'
<1>0. managed \subseteq Conns /\ \A c \in managed : ws[c] \in {"open", "closing"}
  BY DEF IInv, TypeOK, ManagedInv
<1>1. ManagedInv'
  BY <1>0 DEF IInv, ManagedInv
<1>2. SupersededIsClosing'
  BY <1>0 DEF IInv, SupersededIsClosing
<1>3. ClaimsAreConnections' /\ LimitsRespected' /\ LiveIsAuthenticated'
  BY DEF IInv, ClaimsAreConnections, LimitsRespected, LiveIsAuthenticated
<1> QED BY <1>1, <1>2, <1>3 DEF IInv

LEMMA NextIInv == IInv /\ [Next]_vars => IInv'
<1> SUFFICES ASSUME IInv, [Next]_vars PROVE IInv'
  OBVIOUS
<1> USE DEF connVars
<1>0. /\ TypeOK
      /\ \A c \in managed : ws[c] \in {"open", "closing"}
      /\ \A c \in Conns : ws[c] = "new" => agentOf[c] = NoAgent /\ ~authenticated[c]
      /\ \A c \in managed : authenticated[c] => agentOf[c] \in Agents
      /\ IsFiniteSet(managed) /\ Cardinality(managed) \in Nat
  BY FS_CardinalityType DEF IInv, ManagedInv
<1>1. ASSUME NEW c \in Conns, Attach(c) PROVE IInv'
  <2>1. c \notin managed /\ agentOf[c] = NoAgent /\ ~authenticated[c]
    BY <1>0, <1>1 DEF Attach
  <2>2. TypeOK'
    BY <1>0, <1>1 DEF Attach, TypeOK
  <2>3. IsFiniteSet(managed') /\ Cardinality(managed') = Cardinality(managed) + 1
    BY <1>0, <1>1, <2>1, FS_AddElement DEF Attach
  <2>4. ManagedInv'
    BY <1>0, <1>1, <2>1, <2>3 DEF Attach, TypeOK, ManagedInv
  <2>5. LimitsRespected'
    BY <1>0, <1>1, <2>3, LimitsAssumption DEF Attach, IInv, LimitsRespected
  <2>6. ClaimsAreConnections'
    BY <1>0, <1>1, <2>1, NoneAssumption DEF Attach, IInv, ClaimsAreConnections
  <2>7. LiveIsAuthenticated'
    BY <1>1 DEF Attach, IInv, LiveIsAuthenticated
  <2>8. SupersededIsClosing'
    BY <1>0, <1>1, <2>1 DEF Attach, TypeOK, IInv, SupersededIsClosing
  <2> QED BY <2>2, <2>4, <2>5, <2>6, <2>7, <2>8 DEF IInv
<1>2. ASSUME NEW c \in Conns, RefuseUpgrade(c) PROVE IInv'
  <2>1. c \notin managed
    BY <1>0, <1>2 DEF RefuseUpgrade
  <2>2. TypeOK'
    BY <1>0, <1>2 DEF RefuseUpgrade, TypeOK
  <2>3. ManagedInv'
    BY <1>0, <1>2, <2>1 DEF RefuseUpgrade, TypeOK, ManagedInv
  <2>4. SupersededIsClosing'
    BY <1>0, <1>2, <2>1 DEF RefuseUpgrade, TypeOK, IInv, SupersededIsClosing
  <2>5. ClaimsAreConnections' /\ LimitsRespected' /\ LiveIsAuthenticated'
    BY <1>2 DEF RefuseUpgrade, IInv, ClaimsAreConnections, LimitsRespected,
                LiveIsAuthenticated
  <2> QED BY <2>2, <2>3, <2>4, <2>5 DEF IInv
\* The close event of a connection takes it out of everything it was in.
<1>3. ASSUME NEW c \in Conns, HandleClose(c) PROVE IInv'
  <2> DEFINE served == {a \in Agents : authenticated[c] /\ agentOf[c] = a /\ live[a] = c}
  <2>1. /\ managed' = managed \ {c} /\ c \in managed
        /\ ws' = [ws EXCEPT ![c] = "closed"]
        /\ agentClaims' = [a \in Agents |-> agentClaims[a] \ (IF agentOf[c] = a THEN {c} ELSE {})]
        /\ live' = [a \in Agents |-> IF a \in served THEN NoConn ELSE live[a]]
        /\ status' = [a \in Agents |->
                        IF a \in served /\ status[a] # "revoked" THEN "offline" ELSE status[a]]
        /\ UNCHANGED <<authenticated, agentOf>>
    BY <1>3 DEF HandleClose, ReleaseAgentClaim, ServedOn, GoesOffline
  <2>2. TypeOK'
    <3>1. /\ agentClaims' \in [Agents -> SUBSET Conns]
          /\ live' \in [Agents -> Conns \cup {NoConn}]
          /\ status' \in [Agents -> {"offline", "online", "revoked"}]
      BY <1>0, <2>1 DEF TypeOK
    <3> QED BY <1>0, <1>3, <2>1, <3>1 DEF HandleClose, TypeOK
  <2>3. IsFiniteSet(managed') /\ Cardinality(managed') = Cardinality(managed) - 1
    BY <1>0, <2>1, FS_RemoveElement
  <2>4. ManagedInv'
    BY <1>0, <2>1, <2>3 DEF TypeOK, ManagedInv
  <2>5. ClaimsAreConnections'
    BY <1>0, <2>1 DEF IInv, ClaimsAreConnections, TypeOK
  <2>6. LimitsRespected'
    <3>1. ASSUME NEW a \in Agents PROVE Cardinality(agentClaims'[a]) <= MaxPerAgent
      <4>1. agentClaims'[a] \subseteq agentClaims[a]
        BY <2>1
      <4>2. /\ Cardinality(agentClaims'[a]) <= Cardinality(agentClaims[a])
            /\ Cardinality(agentClaims'[a]) \in Nat
        BY <4>1, ClaimsFinite, FS_Subset, FS_CardinalityType
      <4>3. Cardinality(agentClaims[a]) <= MaxPerAgent
        BY DEF IInv, LimitsRespected
      <4> QED BY <4>2, <4>3, ClaimsFinite, LimitsAssumption
    <3>2. Cardinality(managed') <= MaxConnections
      BY <1>0, <2>3, LimitsAssumption DEF IInv, LimitsRespected
    <3> QED BY <3>1, <3>2 DEF LimitsRespected
  <2>7. LiveIsAuthenticated'
    <3> SUFFICES ASSUME NEW a \in Agents, live'[a] # NoConn
                 PROVE  live'[a] \in managed' /\ authenticated'[live'[a]] /\ agentOf'[live'[a]] = a
      BY DEF LiveIsAuthenticated
    <3>1. a \notin served /\ live'[a] = live[a]
      BY <2>1
    <3>2. live[a] \in managed /\ authenticated[live[a]] /\ agentOf[live[a]] = a
      BY <3>1 DEF IInv, LiveIsAuthenticated
    <3> QED BY <2>1, <3>1, <3>2
  <2>8. SupersededIsClosing'
    <3> SUFFICES ASSUME NEW d \in managed', authenticated'[d], live'[agentOf'[d]] # d
                 PROVE  ws'[d] = "closing"
      BY DEF SupersededIsClosing
    <3>1. d \in managed /\ d # c /\ agentOf[d] \in Agents /\ authenticated[d]
      BY <1>0, <2>1
    <3>2. live[agentOf[d]] # d
      BY <2>1, <3>1
    <3> QED BY <1>0, <2>1, <3>1, <3>2 DEF IInv, SupersededIsClosing, TypeOK
  <2> QED BY <2>2, <2>4, <2>5, <2>6, <2>7, <2>8 DEF IInv
<1>4. ASSUME NEW c \in Conns, BadMessage(c) PROVE IInv'
  <2>1. CloseConnections({c})
    BY <1>4 DEF BadMessage
  <2>2. TypeOK'
    BY <1>0, <1>4, <2>1, CloseConnectionsEffect DEF BadMessage, Receives, TypeOK
  <2> QED BY <1>4, <2>1, <2>2, CloseConnectionsEffect, OnlyTransports DEF BadMessage
<1>15. ASSUME NEW c \in Conns, BinaryMessage(c) PROVE IInv'
  <2>1. TypeOK'
    BY <1>0, <1>15 DEF BinaryMessage, TypeOK
  <2> QED BY <1>0, <1>15, <2>1, OnlyTransports DEF BinaryMessage, TypeOK
<1>5. ASSUME NEW c \in Conns, Activity(c) \/ GoQuiet(c) PROVE IInv'
  <2>1. TypeOK'
    BY <1>0, <1>5 DEF Activity, GoQuiet, Receives, TypeOK
  <2> QED BY <1>0, <1>5, <2>1, OnlyTransports DEF Activity, GoQuiet
<1>6. ASSUME NEW c \in Conns, HelloTimeout(c) PROVE IInv'
  <2>1. CASE authenticated[c]
    <3>1. TypeOK'
      BY <1>0, <1>6, <2>1 DEF HelloTimeout, TypeOK
    <3> QED BY <1>0, <1>6, <2>1, <3>1, OnlyTransports DEF HelloTimeout
  <2>2. CASE CloseConnections({c})
    <3>1. TypeOK'
      BY <1>0, <1>6, <2>2, CloseConnectionsEffect DEF HelloTimeout, TypeOK
    <3> QED BY <1>6, <2>2, <3>1, CloseConnectionsEffect, OnlyTransports DEF HelloTimeout
  <2> QED BY <1>6, <2>1, <2>2 DEF HelloTimeout
<1>7. ASSUME NEW c \in Conns, NEW a \in Agents, HelloRefused(c, a) PROVE IInv'
  <2>1. CloseConnections({c})
    BY <1>7 DEF HelloRefused
  <2>2. TypeOK'
    BY <1>0, <1>7, <2>1, CloseConnectionsEffect DEF HelloRefused, Receives, TypeOK
  <2> QED BY <1>7, <2>1, <2>2, CloseConnectionsEffect, OnlyTransports DEF HelloRefused
\* A claim keeps the claims in step with the bindings, and within the limit.
<1>8. ASSUME NEW c \in managed, NEW a \in Agents, MayClaim(c, a), Claim(c, a),
             UNCHANGED managed
      PROVE  /\ agentClaims' \in [Agents -> SUBSET Conns]
             /\ agentOf' \in [Conns -> Agents \cup {NoAgent}]
             /\ ClaimsAreConnections'
             /\ LimitsRespected'
             /\ \A d \in Conns : d # c => agentOf'[d] = agentOf[d]
             /\ agentOf'[c] = a
  <2>1. /\ agentClaims' \in [Agents -> SUBSET Conns]
        /\ agentOf' \in [Conns -> Agents \cup {NoAgent}]
        /\ \A d \in Conns : d # c => agentOf'[d] = agentOf[d]
        /\ agentOf'[c] = a
    BY <1>0, <1>8 DEF Claim, TypeOK
  <2>2. ClaimsAreConnections'
    <3> SUFFICES ASSUME NEW b \in Agents
                 PROVE  agentClaims'[b] = {d \in managed : agentOf'[d] = b}
      BY <1>8 DEF ClaimsAreConnections
    <3>1. agentClaims[b] = {d \in managed : agentOf[d] = b}
      BY DEF IInv, ClaimsAreConnections
    <3>2. CASE b = a
      BY <1>0, <1>8, <2>1, <3>1, <3>2 DEF Claim, TypeOK
    <3>3. CASE b # a
      <4>1. agentClaims'[b] = agentClaims[b]
        BY <1>0, <1>8, <3>3 DEF Claim, TypeOK
      <4>2. agentOf[c] # b
        BY <1>8, <3>3, NoneAssumption DEF MayClaim
      <4> QED BY <1>0, <2>1, <3>1, <3>3, <4>1, <4>2 DEF TypeOK
    <3> QED BY <3>2, <3>3
  <2>3. LimitsRespected'
    <3>1. ASSUME NEW b \in Agents PROVE Cardinality(agentClaims'[b]) <= MaxPerAgent
      <4>1. Cardinality(agentClaims[b]) <= MaxPerAgent
        BY DEF IInv, LimitsRespected
      <4>2. CASE agentClaims'[b] = agentClaims[b]
        BY <4>1, <4>2
      <4>3. CASE b = a /\ c \notin agentClaims[a]
        <5>1. agentClaims'[a] = agentClaims[a] \cup {c}
          BY <1>0, <1>8 DEF Claim, TypeOK
        <5>2. Cardinality(agentClaims'[a]) = Cardinality(agentClaims[a]) + 1
          BY <4>3, <5>1, ClaimsFinite, FS_AddElement
        <5>3. Cardinality(agentClaims[a]) < MaxPerAgent
          BY <1>8, <4>3 DEF MayClaim
        <5> QED BY <4>3, <5>2, <5>3, ClaimsFinite, LimitsAssumption
      <4> QED BY <1>0, <1>8, <4>2, <4>3 DEF Claim, TypeOK
    <3>2. Cardinality(managed') <= MaxConnections
      BY <1>8 DEF IInv, LimitsRespected
    <3> QED BY <3>1, <3>2 DEF LimitsRespected
  <2> QED BY <2>1, <2>2, <2>3
<1>9. ASSUME NEW c \in Conns, NEW a \in Agents, HelloInvalid(c, a) PROVE IInv'
  <2>1. /\ c \in managed /\ MayClaim(c, a) /\ Claim(c, a) /\ CloseConnections({c})
        /\ UNCHANGED <<managed, authenticated, helloTimer, live, status, restarts>>
    BY <1>9 DEF HelloInvalid, Receives
  <2>2. /\ agentClaims' \in [Agents -> SUBSET Conns]
        /\ agentOf' \in [Conns -> Agents \cup {NoAgent}]
        /\ ClaimsAreConnections'
        /\ LimitsRespected'
        /\ \A d \in Conns : d # c => agentOf'[d] = agentOf[d]
        /\ agentOf'[c] = a
    BY <1>8, <2>1
  <2>3. TypeOK'
    <3>1. quiet' \in [Conns -> BOOLEAN]
      BY <1>0, <1>9 DEF HelloInvalid, Receives, TypeOK
    <3>2. /\ ws' \in [Conns -> {"new", "open", "closing", "closed"}]
          /\ terminating' \in [Conns -> BOOLEAN]
      BY <1>0, <2>1, CloseConnectionsEffect
    <3> QED BY <1>0, <2>1, <2>2, <3>1, <3>2 DEF TypeOK
  \* A connection that said a good hello cannot be bound anew.
  <2>4. authenticated[c] => agentOf[c] = a
    BY <1>0, <2>1, NoneAssumption DEF MayClaim
  <2>5. \A d \in managed : authenticated[d] => agentOf'[d] = agentOf[d]
    BY <1>0, <2>2, <2>4 DEF TypeOK
  <2>6. ManagedInv'
    <3>1. \A d \in managed : ws'[d] \in {"open", "closing"}
      BY <1>0, <2>1, CloseConnectionsEffect DEF TypeOK
    <3>2. \A d \in Conns : ws'[d] = "new" => d # c /\ ws[d] = "new"
      BY <1>0, <2>1, CloseConnectionsEffect DEF TypeOK
    <3> QED BY <1>0, <2>1, <2>2, <2>5, <3>1, <3>2 DEF ManagedInv
  <2>7. LiveIsAuthenticated'
    BY <2>1, <2>5 DEF IInv, LiveIsAuthenticated
  <2>8. SupersededIsClosing'
    BY <1>0, <2>1, <2>5, CloseConnectionsEffect DEF IInv, SupersededIsClosing, TypeOK
  <2> QED BY <2>2, <2>3, <2>6, <2>7, <2>8 DEF IInv
<1>10. ASSUME NEW c \in Conns, NEW a \in Agents, HelloAccepted(c, a) PROVE IInv'
  <2>1. /\ c \in managed /\ MayClaim(c, a) /\ Claim(c, a)
        /\ CloseConnections({live[a]} \ {NoConn})
        /\ live' = [live EXCEPT ![a] = c]
        /\ authenticated' = [authenticated EXCEPT ![c] = TRUE]
        /\ status' = [status EXCEPT ![a] = "online"]
        /\ live[a] # c /\ status[a] # "revoked"
        /\ UNCHANGED <<managed, restarts>>
    BY <1>10 DEF HelloAccepted, Receives, Replaced, Enrolled
  <2>2. /\ agentClaims' \in [Agents -> SUBSET Conns]
        /\ agentOf' \in [Conns -> Agents \cup {NoAgent}]
        /\ ClaimsAreConnections'
        /\ LimitsRespected'
        /\ \A d \in Conns : d # c => agentOf'[d] = agentOf[d]
        /\ agentOf'[c] = a
    BY <1>8, <2>1
  <2>3. TypeOK'
    <3>1. quiet' \in [Conns -> BOOLEAN] /\ helloTimer' \in [Conns -> BOOLEAN]
      BY <1>0, <1>10 DEF HelloAccepted, Receives, TypeOK
    <3>2. /\ ws' \in [Conns -> {"new", "open", "closing", "closed"}]
          /\ terminating' \in [Conns -> BOOLEAN]
      BY <1>0, <2>1, CloseConnectionsEffect
    <3>3. /\ live' \in [Agents -> Conns \cup {NoConn}]
          /\ status' \in [Agents -> {"offline", "online", "revoked"}]
          /\ authenticated' \in [Conns -> BOOLEAN]
      BY <1>0, <2>1 DEF TypeOK
    <3> QED BY <1>0, <2>1, <2>2, <3>1, <3>2, <3>3 DEF TypeOK
  <2>4. authenticated[c] => agentOf[c] = a
    BY <1>0, <2>1, NoneAssumption DEF MayClaim
  <2>5. \A d \in managed : authenticated[d] => agentOf'[d] = agentOf[d]
    BY <1>0, <2>2, <2>4 DEF TypeOK
  <2>6. ManagedInv'
    <3>1. \A d \in managed : ws'[d] \in {"open", "closing"}
      BY <1>0, <2>1, CloseConnectionsEffect DEF TypeOK
    <3>2. \A d \in Conns : ws'[d] = "new" => d # c /\ ws[d] = "new"
      BY <1>0, <2>1, CloseConnectionsEffect DEF TypeOK
    <3>3. \A d \in Conns : d # c => authenticated'[d] = authenticated[d]
      BY <1>0, <2>1 DEF TypeOK
    <3> QED BY <1>0, <2>1, <2>2, <2>5, <3>1, <3>2, <3>3 DEF ManagedInv, TypeOK
  <2>7. LiveIsAuthenticated'
    <3> SUFFICES ASSUME NEW b \in Agents, live'[b] # NoConn
                 PROVE  live'[b] \in managed /\ authenticated'[live'[b]] /\ agentOf'[live'[b]] = b
      BY <2>1 DEF LiveIsAuthenticated
    <3>1. CASE b = a
      BY <1>0, <2>1, <2>2, <3>1 DEF TypeOK
    <3>2. CASE b # a
      <4>1. live'[b] = live[b]
        BY <1>0, <2>1, <3>2 DEF TypeOK
      <4>2. live[b] \in managed /\ authenticated[live[b]] /\ agentOf[live[b]] = b
        BY <4>1 DEF IInv, LiveIsAuthenticated
      <4> QED BY <1>0, <2>1, <2>5, <4>1, <4>2 DEF TypeOK
    <3> QED BY <3>1, <3>2
  \* The connection the agent was served on is the one that gets closed.
  <2>8. SupersededIsClosing'
    <3> SUFFICES ASSUME NEW d \in managed, authenticated'[d], live'[agentOf'[d]] # d
                 PROVE  ws'[d] = "closing"
      BY <2>1 DEF SupersededIsClosing
    <3>1. d # c
      BY <1>0, <2>1, <2>2 DEF TypeOK
    <3>2. authenticated[d] /\ agentOf'[d] = agentOf[d] /\ agentOf[d] \in Agents
      BY <1>0, <2>1, <2>2, <3>1 DEF TypeOK
    <3>3. CASE live[agentOf[d]] = d
      <4>1. agentOf[d] = a
        BY <1>0, <2>1, <3>2, <3>3 DEF TypeOK
      <4> QED BY <1>0, <2>1, <3>3, <4>1, CloseConnectionsEffect, NoneAssumption DEF TypeOK
    <3>4. CASE live[agentOf[d]] # d
      <4>1. ws[d] = "closing"
        BY <3>2, <3>4 DEF IInv, SupersededIsClosing
      <4> QED BY <1>0, <2>1, <4>1, CloseConnectionsEffect DEF TypeOK
    <3> QED BY <3>3, <3>4
  <2> QED BY <2>2, <2>3, <2>6, <2>7, <2>8 DEF IInv
<1>11. ASSUME NEW a \in Agents, RevokeAgent(a) PROVE IInv'
  <2>1. TypeOK'
    BY <1>0, <1>11 DEF RevokeAgent, TypeOK
  <2>2. ManagedInv'
    BY <1>0, <1>11 DEF RevokeAgent, TypeOK, ManagedInv
  <2>3. ClaimsAreConnections' /\ LimitsRespected'
    BY <1>11 DEF RevokeAgent, IInv, ClaimsAreConnections, LimitsRespected
  <2>4. LiveIsAuthenticated'
    BY <1>0, <1>11 DEF RevokeAgent, TypeOK, IInv, LiveIsAuthenticated
  <2>5. SupersededIsClosing'
    BY <1>0, <1>11 DEF RevokeAgent, TypeOK, IInv, SupersededIsClosing
  <2> QED BY <2>1, <2>2, <2>3, <2>4, <2>5 DEF IInv
<1>12. CASE RunHeartbeat
  <2> DEFINE idle == {c \in managed : quiet[c]}
  <2>1. CloseConnections(idle)
    BY <1>12 DEF RunHeartbeat, IdleConnections
  <2>2. TypeOK'
    BY <1>0, <1>12, <2>1, CloseConnectionsEffect DEF RunHeartbeat, IdleConnections, TypeOK
  <2> QED BY <1>12, <2>1, <2>2, CloseConnectionsEffect, OnlyTransports DEF RunHeartbeat, IdleConnections
<1>13. CASE Restart
  <2>1. TypeOK'
    BY <1>0, <1>13 DEF Restart, TypeOK
  <2>2. ManagedInv'
    BY <1>0, <1>13, FS_EmptySet DEF Restart, TypeOK, ManagedInv
  <2>3. LimitsRespected'
    BY <1>13, FS_EmptySet, LimitsAssumption DEF Restart, LimitsRespected
  <2>4. ClaimsAreConnections' /\ LiveIsAuthenticated' /\ SupersededIsClosing'
    BY <1>13 DEF Restart, ClaimsAreConnections, LiveIsAuthenticated, SupersededIsClosing
  <2> QED BY <2>1, <2>2, <2>3, <2>4 DEF IInv
<1>14. CASE UNCHANGED vars
  <2>1. TypeOK'
    BY <1>0, <1>14 DEF vars, TypeOK
  <2> QED BY <1>0, <1>14, <2>1, OnlyTransports DEF vars
<1> QED
  BY <1>1, <1>2, <1>3, <1>4, <1>5, <1>6, <1>7, <1>9, <1>10, <1>11, <1>12, <1>13, <1>14, <1>15
     DEF Next, ConnectionEvent, Hello

LEMMA Invariance == Spec => []IInv
  BY InitIInv, NextIInv, PTL DEF Spec

\* Every state of the connection lifecycle is well typed.
THEOREM TypeCorrect == Spec => []TypeOK
<1>1. IInv => TypeOK
  BY DEF IInv
<1> QED BY Invariance, <1>1, PTL

\* No slot of an agent is leaked or freed twice, and both limits hold.
THEOREM LimitsCorrect == Spec => []ClaimsWithinLimits
<1>1. IInv => ClaimsWithinLimits
  BY DEF IInv, ClaimsWithinLimits
<1> QED BY Invariance, <1>1, PTL

\* An agent is served on a managed, authenticated connection of its own, and every
\* other connection it authenticated on is being closed.
THEOREM ServiceCorrect == Spec => []ServedProperly
<1>1. IInv => ServedProperly
  BY DEF IInv, ServedProperly
<1> QED BY Invariance, <1>1, PTL

(***************************************************************************)
(* Revocation.  A revoked agent is not served: only a hello serves an      *)
(* agent, and a hello asks the row.                                        *)
(***************************************************************************)
RevokedNotLive == \A a \in Agents : status[a] = "revoked" => live[a] = NoConn

\* A step of the connections keeps a revoked agent revoked and out of service.
LEMMA RevocationStep ==
  ASSUME IInv, RevokedNotLive, [Next]_vars
  PROVE  /\ \A a \in Agents : status[a] = "revoked" => status'[a] = "revoked" /\ live'[a] = NoConn
         /\ RevokedNotLive'
<1>0. /\ status \in [Agents -> {"offline", "online", "revoked"}]
      /\ live \in [Agents -> Conns \cup {NoConn}]
  BY DEF IInv, TypeOK
<1> DEFINE Kept == \A a \in Agents : status[a] = "revoked" => status'[a] = "revoked" /\ live'[a] = NoConn
           Only == \A a \in Agents : status'[a] = "revoked" => status[a] = "revoked" \/ live'[a] = NoConn
<1>1. ASSUME NEW c \in Conns, HandleClose(c) PROVE Kept /\ Only
  BY <1>0, <1>1 DEF HandleClose, GoesOffline, RevokedNotLive
<1>2. ASSUME NEW c \in Conns, NEW b \in Agents, HelloAccepted(c, b) PROVE Kept /\ Only
  BY <1>0, <1>2 DEF HelloAccepted, Enrolled, RevokedNotLive
<1>3. ASSUME NEW b \in Agents, RevokeAgent(b) PROVE Kept /\ Only
  BY <1>0, <1>3 DEF RevokeAgent, RevokedNotLive
<1>4. ASSUME Restart PROVE Kept /\ Only
  BY <1>4 DEF Restart
<1>5. ASSUME UNCHANGED <<status, live>> PROVE Kept /\ Only
  BY <1>5 DEF RevokedNotLive
<1>6. Kept /\ Only
  BY <1>1, <1>2, <1>3, <1>4, <1>5
     DEF Next, vars, ConnectionEvent, Hello, Attach, RefuseUpgrade, BadMessage, BinaryMessage, Activity,
         HelloTimeout, GoQuiet, HelloRefused, HelloInvalid, RunHeartbeat
<1> QED BY <1>6 DEF RevokedNotLive

LEMMA RevokedInvariance == Spec => []RevokedNotLive
<1>1. Init => RevokedNotLive
  BY DEF Init, RevokedNotLive
<1>2. IInv /\ RevokedNotLive /\ [Next]_vars => RevokedNotLive'
  BY RevocationStep
<1> QED BY Invariance, <1>1, <1>2, PTL DEF Spec

\* A revoked agent stays revoked and is never served again.
THEOREM RevocationCorrect == Spec => RevocationSticks
<1>1. IInv /\ RevokedNotLive /\ [Next]_vars =>
        [\A a \in Agents : status[a] = "revoked" => status'[a] = "revoked" /\ live'[a] = NoConn]_vars
  BY RevocationStep
<1> QED BY Invariance, RevokedInvariance, <1>1, PTL DEF Spec, RevocationSticks
=============================================================================
