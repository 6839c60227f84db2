-------------------------- MODULE AgentConnections --------------------------
(***************************************************************************)
(* The WebSocket connections of remote agents at the control plane:        *)
(* src/src/remote/agent-connection-lifecycle.ts (which connections are     *)
(* managed, which claim an agent's slots, the timers that close them) and  *)
(* the hello of src/src/remote/agent-handler.ts (which connection is the   *)
(* live one of an agent), with the revocation in control-plane.ts.         *)
(*                                                                         *)
(* Message handling awaits nothing, so a step of this module is one event  *)
(* of the server's event loop.  A connection that is being closed by the   *)
(* server still delivers messages until its close event.                   *)
(***************************************************************************)
EXTENDS Naturals, FiniteSets

CONSTANTS
  Conns,            \* accepted WebSocket connections, never reused
  Agents,           \* enrolled agents
  NoConn, NoAgent,  \* "none" of each
  MaxConnections,   \* maxAgentConnections
  MaxPerAgent,      \* maxAgentConnectionsPerAgent
  MaxRestarts       \* bound: restarts of the server

ASSUME LimitsAssumption == MaxConnections \in Nat \ {0} /\ MaxPerAgent \in Nat \ {0}
ASSUME RestartsAssumption == MaxRestarts \in Nat
ASSUME NoneAssumption == NoConn \notin Conns /\ NoAgent \notin Agents

VARIABLES
  ws,             \* readyState of each connection; "new" before the upgrade
  managed,        \* keys of managedConnections
  authenticated,  \* managed.authenticated
  agentOf,        \* managed.agentId
  helloTimer,     \* managed.helloTimeout is armed
  terminating,    \* managed.terminationTimeout is armed
  quiet,          \* nothing was received for agentIdleTimeoutMs
  agentClaims,    \* the agentClaims map
  live,           \* agentConnections: the connection an agent is served on
  status,         \* status column of the agent's row
  restarts        \* how often the server process has been restarted

connVars == <<ws, managed, authenticated, agentOf, helloTimer, terminating, quiet>>
vars == <<connVars, agentClaims, live, status, restarts>>

TypeOK ==
  /\ ws \in [Conns -> {"new", "open", "closing", "closed"}]
  /\ managed \subseteq Conns
  /\ authenticated \in [Conns -> BOOLEAN]
  /\ agentOf \in [Conns -> Agents \cup {NoAgent}]
  /\ helloTimer \in [Conns -> BOOLEAN]
  /\ terminating \in [Conns -> BOOLEAN]
  /\ quiet \in [Conns -> BOOLEAN]
  /\ agentClaims \in [Agents -> SUBSET Conns]
  /\ live \in [Agents -> Conns \cup {NoConn}]
  /\ status \in [Agents -> {"offline", "online", "revoked"}]
  /\ restarts \in Nat

Init ==
  /\ ws = [c \in Conns |-> "new"]
  /\ managed = {}
  /\ authenticated = [c \in Conns |-> FALSE]
  /\ agentOf = [c \in Conns |-> NoAgent]
  /\ helloTimer = [c \in Conns |-> FALSE]
  /\ terminating = [c \in Conns |-> FALSE]
  /\ quiet = [c \in Conns |-> FALSE]
  /\ agentClaims = [a \in Agents |-> {}]
  /\ live = [a \in Agents |-> NoConn]
  /\ status = [a \in Agents |-> "offline"]
  /\ restarts = 0

----------------------------------------------------------------------------
(* Accepting and closing *)

\* attach, the synchronous end of an upgrade: below the limit the connection is
\* managed and must say hello in time ...
Attach(c) ==
  /\ ws[c] = "new"
  /\ Cardinality(managed) < MaxConnections
  /\ ws' = [ws EXCEPT ![c] = "open"]
  /\ managed' = managed \cup {c}
  /\ helloTimer' = [helloTimer EXCEPT ![c] = TRUE]
  /\ UNCHANGED <<authenticated, agentOf, terminating, quiet, agentClaims, live, status, restarts>>

\* ... at the limit handleUpgrade answers 503.
RefuseUpgrade(c) ==
  /\ ws[c] = "new"
  /\ Cardinality(managed) >= MaxConnections
  /\ ws' = [ws EXCEPT ![c] = "closed"]
  /\ UNCHANGED <<managed, authenticated, agentOf, helloTimer, terminating, quiet,
                 agentClaims, live, status, restarts>>

\* closeConnection for every connection of S: arm the termination timer, start
\* the close handshake.
CloseConnections(S) ==
  /\ terminating' = [c \in Conns |-> terminating[c] \/ c \in S \cap managed]
  /\ ws' = [c \in Conns |-> IF c \in S /\ ws[c] = "open" THEN "closing" ELSE ws[c]]

\* Slip: the close event does not release the claim.
ReleaseAgentClaimForgotten(c) == UNCHANGED agentClaims

\* releaseAgentClaim.
ReleaseAgentClaim(c) ==
  agentClaims' = [a \in Agents |-> agentClaims[a] \ (IF agentOf[c] = a THEN {c} ELSE {})]

\* Slip: whether the agent has a newer connection is not asked.
ServedBefore(c) == {a \in Agents : authenticated[c] /\ agentOf[c] = a}

\* The agent, if any, that was served on a connection that closes.
ServedOn(c) == {a \in Agents : authenticated[c] /\ agentOf[c] = a /\ live[a] = c}

\* Slip: the row is written whichever connection closed.
EverServedOn(c) == {a \in Agents : authenticated[c] /\ agentOf[c] = a /\ status[a] # "revoked"}

\* The agents whose row goes offline: a revoked one's row is left alone.
GoesOffline(c) == {a \in ServedOn(c) : status[a] # "revoked"}

\* The close event: the handshake ended, the peer dropped, or the termination
\* timer cut the connection.
HandleClose(c) ==
  /\ c \in managed
  /\ ws' = [ws EXCEPT ![c] = "closed"]
  /\ managed' = managed \ {c}
  /\ helloTimer' = [helloTimer EXCEPT ![c] = FALSE]
  /\ terminating' = [terminating EXCEPT ![c] = FALSE]
  /\ ReleaseAgentClaim(c)
  /\ live' = [a \in Agents |-> IF a \in ServedOn(c) THEN NoConn ELSE live[a]]
  /\ status' = [a \in Agents |-> IF a \in GoesOffline(c) THEN "offline" ELSE status[a]]
  /\ UNCHANGED <<authenticated, agentOf, quiet, restarts>>

----------------------------------------------------------------------------
(* Messages *)

Receives(c) ==
  /\ c \in managed
  /\ ws[c] \in {"open", "closing"}
  /\ quiet' = [quiet EXCEPT ![c] = FALSE]

\* Slip: the hello does not look at the status of the row.
EverEnrolled(a) == TRUE

Enrolled(a) == status[a] # "revoked"

\* claim.
MayClaim(c, a) ==
  /\ agentOf[c] \in {NoAgent, a}
  /\ c \in agentClaims[a] \/ Cardinality(agentClaims[a]) < MaxPerAgent

Claim(c, a) ==
  /\ agentClaims' = [agentClaims EXCEPT ![a] = @ \cup {c}]
  /\ agentOf' = [agentOf EXCEPT ![c] = a]

\* A hello that names no enrolled agent, a revoked one, another agent than the
\* connection is bound to, or an agent whose slots are taken.
HelloRefused(c, a) ==
  /\ Receives(c)
  /\ ~Enrolled(a) \/ ~MayClaim(c, a)
  /\ CloseConnections({c})
  /\ UNCHANGED <<managed, authenticated, agentOf, helloTimer, agentClaims, live, status, restarts>>

\* A hello that claims a slot, and then fails its signature, its freshness or
\* its nonce, or is the second one on the agent's live connection.
HelloInvalid(c, a) ==
  /\ Receives(c)
  /\ Enrolled(a)
  /\ MayClaim(c, a)
  /\ Claim(c, a)
  /\ CloseConnections({c})
  /\ UNCHANGED <<managed, authenticated, helloTimer, live, status, restarts>>

\* The connection a good hello replaces.
Replaced(a) == {live[a]} \ {NoConn}

\* A good hello: the agent is served on this connection from now on, and the
\* connection it was served on is closed.
HelloAccepted(c, a) ==
  /\ Receives(c)
  /\ Enrolled(a)
  /\ MayClaim(c, a)
  /\ live[a] # c
  /\ Claim(c, a)
  /\ live' = [live EXCEPT ![a] = c]
  /\ authenticated' = [authenticated EXCEPT ![c] = TRUE]
  /\ helloTimer' = [helloTimer EXCEPT ![c] = FALSE]
  /\ CloseConnections(Replaced(a))
  /\ status' = [status EXCEPT ![a] = "online"]
  /\ UNCHANGED <<managed, restarts>>

\* A message before the hello, or one that is not understood.
BadMessage(c) ==
  /\ Receives(c)
  /\ CloseConnections({c})
  /\ UNCHANGED <<managed, authenticated, agentOf, helloTimer, agentClaims, live, status, restarts>>

\* A binary message (the adapter of websocket.ts): the transport is closed without
\* the termination timer, and it does not count as activity.
BinaryMessage(c) ==
  /\ c \in managed
  /\ ws[c] = "open"
  /\ ws' = [ws EXCEPT ![c] = "closing"]
  /\ UNCHANGED <<managed, authenticated, agentOf, helloTimer, terminating, quiet,
                 agentClaims, live, status, restarts>>

\* A pong, or a result: the connection is not idle.
Activity(c) ==
  /\ quiet[c]
  /\ Receives(c)
  /\ UNCHANGED <<ws, managed, authenticated, agentOf, helloTimer, terminating,
                 agentClaims, live, status, restarts>>

----------------------------------------------------------------------------
(* Timers *)

\* handleHelloTimeout.
HelloTimeout(c) ==
  /\ c \in managed
  /\ helloTimer[c]
  /\ helloTimer' = [helloTimer EXCEPT ![c] = FALSE]
  /\ IF authenticated[c] THEN UNCHANGED <<ws, terminating>> ELSE CloseConnections({c})
  /\ UNCHANGED <<managed, authenticated, agentOf, quiet, agentClaims, live, status, restarts>>

\* agentIdleTimeoutMs passes without a message or a pong.
GoQuiet(c) ==
  /\ c \in managed
  /\ ~quiet[c]
  /\ quiet' = [quiet EXCEPT ![c] = TRUE]
  /\ UNCHANGED <<ws, managed, authenticated, agentOf, helloTimer, terminating,
                 agentClaims, live, status, restarts>>

\* Slip: a connection that is being closed already is passed over.
IdleAndOpen == {c \in managed : quiet[c] /\ ws[c] = "open"}

IdleConnections == {c \in managed : quiet[c]}

\* runHeartbeat closes the idle connections (and pings the others).
RunHeartbeat ==
  /\ \E c \in IdleConnections : ~terminating[c]
  /\ CloseConnections(IdleConnections)
  /\ UNCHANGED <<managed, authenticated, agentOf, helloTimer, quiet, agentClaims, live, status, restarts>>

----------------------------------------------------------------------------
(* The rest of the control plane *)

\* revokeAgent: the row, the close of the live connection (without the
\* termination timer of closeConnection), the end of its service.  It does not
\* ask what the row says.
RevokeAgent(a) ==
  /\ status' = [status EXCEPT ![a] = "revoked"]
  /\ ws' = [c \in Conns |-> IF c = live[a] /\ ws[c] = "open" THEN "closing" ELSE ws[c]]
  /\ live' = [live EXCEPT ![a] = NoConn]
  /\ UNCHANGED <<managed, authenticated, agentOf, helloTimer, terminating, quiet, agentClaims, restarts>>

\* A shutdown (lifecycle.close clears its maps before it cuts the connections,
\* so no close event is handled) or a crash, and the next start: of all this
\* only the rows are persistent, and nothing resets them.
Restart ==
  /\ restarts < MaxRestarts
  /\ restarts' = restarts + 1
  /\ ws' = [c \in Conns |-> IF ws[c] = "new" THEN "new" ELSE "closed"]
  /\ managed' = {}
  /\ helloTimer' = [c \in Conns |-> FALSE]
  /\ terminating' = [c \in Conns |-> FALSE]
  /\ agentClaims' = [a \in Agents |-> {}]
  /\ live' = [a \in Agents |-> NoConn]
  /\ UNCHANGED <<authenticated, agentOf, quiet, status>>

ConnectionEvent(c) ==
  \/ Attach(c)
  \/ RefuseUpgrade(c)
  \/ HandleClose(c)
  \/ BadMessage(c)
  \/ BinaryMessage(c)
  \/ Activity(c)
  \/ HelloTimeout(c)
  \/ GoQuiet(c)

Hello(c, a) == HelloRefused(c, a) \/ HelloInvalid(c, a) \/ HelloAccepted(c, a)

Next ==
  \/ \E c \in Conns : ConnectionEvent(c)
  \/ \E c \in Conns, a \in Agents : Hello(c, a)
  \/ \E a \in Agents : RevokeAgent(a)
  \/ RunHeartbeat
  \/ Restart

\* Timers fire: the hello deadline, the heartbeat, and the termination timer,
\* after which the close event follows.  Nothing is assumed of agents.
Fairness ==
  /\ \A c \in Conns :
       /\ WF_vars(HelloTimeout(c))
       /\ WF_vars(terminating[c] /\ HandleClose(c))
  /\ WF_vars(RunHeartbeat)

Spec == Init /\ [][Next]_vars
FairSpec == Spec /\ Fairness

----------------------------------------------------------------------------
(* Properties *)

\* The slots an agent has in use are the managed connections bound to it: no
\* close, replacement, refusal or shutdown leaks a claim or frees one twice
\* (claim, releaseAgentClaim).
ClaimsAreConnections ==
  \A a \in Agents : agentClaims[a] = {c \in managed : agentOf[c] = a}

\* SECURITY_DECISIONS.md: accepted connections are bounded globally and per
\* agent.
LimitsRespected ==
  /\ Cardinality(managed) <= MaxConnections
  /\ \A a \in Agents : Cardinality(agentClaims[a]) <= MaxPerAgent

\* Slots are neither leaked nor handed out beyond the limits.
ClaimsWithinLimits == ClaimsAreConnections /\ LimitsRespected

\* The connection an agent is served on is managed, said a good hello, and is
\* bound to that agent: an action is never sent to, nor its result taken from,
\* a connection that is gone or is another agent's.
LiveIsAuthenticated ==
  \A a \in Agents : live[a] # NoConn =>
    live[a] \in managed /\ authenticated[live[a]] /\ agentOf[live[a]] = a

\* A connection that said hello and is no longer the one its agent is served on
\* (replaced, or its agent revoked) is on its way out.
SupersededIsClosing ==
  \A c \in managed :
    authenticated[c] /\ live[agentOf[c]] # c => ws[c] = "closing"

\* The table and the transports agree on who is served, on which connection.
\* (What the row says of it is in AgentPolicies, where PATCHes write it too.)
ServedProperly == LiveIsAuthenticated /\ SupersededIsClosing

\* A revoked agent is not served again, and its row does not leave "revoked":
\* neither a late hello, nor the close event of its old connection, nor a
\* restart brings it back.
RevocationSticks ==
  [][\A a \in Agents : status[a] = "revoked" => status'[a] = "revoked" /\ live'[a] = NoConn]_vars

\* A connection that never completes its hello is gone in the end, whatever it
\* sends.
UnauthenticatedLeaves ==
  \A c \in Conns : c \in managed /\ ~authenticated[c] ~> c \notin managed \/ authenticated[c]

\* An idle connection is gone in the end, or is heard of again: a half-open
\* peer keeps neither its global slot nor its agent's.
IdleLeaves == \A c \in Conns : c \in managed /\ quiet[c] ~> c \notin managed \/ ~quiet[c]

\* No silent peer keeps a slot for ever, before its hello or after it.
QuietConnectionsLeave == UnauthenticatedLeaves /\ IdleLeaves
=============================================================================
