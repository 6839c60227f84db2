---------------------------- MODULE AgentActions ----------------------------
(***************************************************************************)
(* Actions on remote agents: dispatchAction in                             *)
(* src/src/remote/control-plane.ts, handleActionResult in                  *)
(* agent-handler.ts, and the agent's side in agent-cli.ts, over the        *)
(* connections of AgentConnections.                                        *)
(*                                                                         *)
(* An action is a row in the store, which survives a restart, and an entry *)
(* in pendingActions, which does not.  It ends with the first of its       *)
(* result, its timer and the end of the server; closing the connection it  *)
(* was sent on ends nothing.                                               *)
(***************************************************************************)
EXTENDS AgentConnections

CONSTANT Actions   \* action ids, one per dispatch, never reused

VARIABLES
  row,      \* status column of the action's row; "none" while there is no row
  pending,  \* keys of pendingActions
  owner,    \* action.agentId
  via,      \* the connection the request was sent on
  remote,   \* how far it is at the agent's end of that connection
  stranded  \* history: actions that were pending when the server went down

actionVars == <<row, pending, owner, via, remote, stranded>>
delegationVars == <<vars, actionVars>>

\* "asked": the request is on its way; "ok", "error": the result is.
RemoteStates == {"none", "asked", "running", "ok", "error", "over"}

ActionTypeOK ==
  /\ TypeOK
  /\ row \in [Actions -> {"none", "sent", "completed", "error", "timeout"}]
  /\ pending \subseteq Actions
  /\ owner \in [Actions -> Agents \cup {NoAgent}]
  /\ via \in [Actions -> Conns \cup {NoConn}]
  /\ remote \in [Actions -> RemoteStates]
  /\ stranded \subseteq Actions
  /\ \A x \in Actions : row[x] # "none" => owner[x] \in Agents /\ via[x] \in Conns

ActionInit ==
  /\ Init
  /\ row = [x \in Actions |-> "none"]
  /\ pending = {}
  /\ owner = [x \in Actions |-> NoAgent]
  /\ via = [x \in Actions |-> NoConn]
  /\ remote = [x \in Actions |-> "none"]
  /\ stranded = {}

----------------------------------------------------------------------------
(* The control plane *)

\* dispatchAction refuses a revoked agent, and one without a live connection.
Served(a) == status[a] # "revoked" /\ live[a] # NoConn

\* dispatchAction, up to its await: the row, the timer, the request.  A
\* transport that is not open drops the request.
DispatchAction(x, a) ==
  /\ row[x] = "none"
  /\ Served(a)
  /\ row' = [row EXCEPT ![x] = "sent"]
  /\ pending' = pending \cup {x}
  /\ owner' = [owner EXCEPT ![x] = a]
  /\ via' = [via EXCEPT ![x] = live[a]]
  /\ remote' = [remote EXCEPT ![x] =
                  IF live[a] \in Conns /\ ws[live[a]] = "open" THEN "asked" ELSE "over"]
  /\ UNCHANGED <<vars, stranded>>

\* Slip: the entry in pendingActions is left behind.
SettleKeepsEntry(x, outcome) ==
  /\ row' = [row EXCEPT ![x] = outcome]
  /\ UNCHANGED pending

\* The promise of a pending action settles, and its continuation writes the row.
Settle(x, outcome) ==
  /\ row' = [row EXCEPT ![x] = outcome]
  /\ pending' = pending \ {x}

\* Slip: the timer is dropped when the agent disconnects.
TimeoutWhileServed(x) ==
  /\ x \in pending
  /\ live[owner[x]] = via[x]
  /\ Settle(x, "timeout")
  /\ UNCHANGED <<vars, owner, via, remote, stranded>>

\* The timer of dispatchAction, two seconds after the action's own limit.
ActionTimeout(x) ==
  /\ x \in pending
  /\ Settle(x, "timeout")
  /\ UNCHANGED <<vars, owner, via, remote, stranded>>

\* Slip: any authenticated connection of the agent will do.
FromAnyOfAgent(x) == authenticated[via[x]] /\ agentOf[via[x]] = owner[x]

\* Whether a result arrived on the connection its agent is served on.
FromLive(x) == live[owner[x]] = via[x]

\* Slip: the row is asked, and not pendingActions.
AwaitedByRow(x) == row[x] # "none"

Awaited(x) == x \in pending

\* handleActionResult: of an action that is pending no more the result is
\* ignored; a result from another connection than the live one ends the action
\* with an error.  (So do a bad signature and a nonce seen before.)
ReceiveResult(x) ==
  /\ remote[x] \in {"ok", "error"}
  /\ Receives(via[x])
  /\ remote' = [remote EXCEPT ![x] = "over"]
  /\ IF Awaited(x)
       THEN Settle(x, IF FromLive(x) /\ remote[x] = "ok" THEN "completed" ELSE "error")
       ELSE UNCHANGED <<row, pending>>
  /\ UNCHANGED <<ws, managed, authenticated, agentOf, helloTimer, terminating,
                 agentClaims, live, status, restarts, owner, via, stranded>>

----------------------------------------------------------------------------
(* The agent *)

\* acceptAgentAction: an action that was seen before, is past its deadline or
\* is for another policy version is ignored, without an answer.
AcceptAction(x) ==
  /\ remote[x] = "asked"
  /\ remote' = [remote EXCEPT ![x] = "running"]
  /\ UNCHANGED <<vars, row, pending, owner, via, stranded>>

IgnoreAction(x) ==
  /\ remote[x] = "asked"
  /\ remote' = [remote EXCEPT ![x] = "over"]
  /\ UNCHANGED <<vars, row, pending, owner, via, stranded>>

AnswerAction(x) ==
  /\ remote[x] = "running"
  /\ \E r \in {"ok", "error"} : remote' = [remote EXCEPT ![x] = r]
  /\ UNCHANGED <<vars, row, pending, owner, via, stranded>>

----------------------------------------------------------------------------
(* The connections and the server *)

\* close() rejects the pending actions, but closes the store before their
\* continuations run: their rows stay as they are, as they do in a crash.  An
\* agent's process ends with its connection, and what it was doing with it.
ActionsFollow ==
  /\ IF restarts' # restarts
       THEN pending' = {} /\ stranded' = stranded \cup pending
       ELSE UNCHANGED <<pending, stranded>>
  /\ remote' = [x \in Actions |->
                  IF remote[x] # "none" /\ via[x] \notin managed' THEN "over" ELSE remote[x]]
  /\ UNCHANGED <<row, owner, via>>

DelegationConnections == Next /\ ActionsFollow

ActionNext ==
  \/ DelegationConnections
  \/ \E x \in Actions :
       \/ \E a \in Agents : DispatchAction(x, a)
       \/ ActionTimeout(x)
       \/ ReceiveResult(x)
       \/ AcceptAction(x)
       \/ IgnoreAction(x)
       \/ AnswerAction(x)

ActionSpec == ActionInit /\ [][ActionNext]_delegationVars

\* Of actions, only that their timers fire; of connections, what AgentConnections
\* assumes.
ActionFairness ==
  /\ \A x \in Actions : WF_delegationVars(ActionTimeout(x))
  /\ \A c \in Conns :
       /\ WF_delegationVars(HelloTimeout(c) /\ ActionsFollow)
       /\ WF_delegationVars(terminating[c] /\ HandleClose(c) /\ ActionsFollow)
  /\ WF_delegationVars(RunHeartbeat /\ ActionsFollow)

FairActionSpec == ActionSpec /\ ActionFairness

----------------------------------------------------------------------------
(* Properties *)

\* The rows and pendingActions agree: an action is "sent" in the store exactly
\* while its caller waits for it, but for the ones a shutdown or a crash cut off.
RowsMatchPending ==
  /\ ActionTypeOK
  /\ \A x \in pending : row[x] = "sent"
  /\ \A x \in Actions : row[x] = "sent" /\ x \notin pending => x \in stranded

\* Results after the timer, timers after the result, results of an earlier run
\* of the server: whatever comes late, an outcome once written stays.
OutcomeIsFinal ==
  [][\A x \in Actions : row[x] \notin {"none", "sent"} => row'[x] = row[x]]_delegationVars

\* No action is dispatched to, or completed by, an agent that is revoked, also
\* when the revocation falls between the two.
RevokedDoesNothing ==
  [][\A x \in Actions :
       row'[x] # row[x] /\ row'[x] \in {"sent", "completed"}
         => status[owner'[x]] # "revoked"]_delegationVars

\* Every caller is answered, although agents disconnect, ignore actions and
\* fall silent, and nothing rejects the actions of a lost connection.
ActionsSettle == \A x \in Actions : x \in pending ~> x \notin pending
=============================================================================
