--------------------------- MODULE MessageWindows ---------------------------
(***************************************************************************)
(* How the two ends of an agent connection tell a message from its repeat: *)
(* the hello at the control plane (src/src/remote/agent-handler.ts), and   *)
(* the policy update and the action at the agent (agent-cli.ts and         *)
(* policy-update-guard.ts), over the nonce maps of http-util.ts.           *)
(*                                                                         *)
(* A message is accepted while the time it carries is near the receiver's  *)
(* clock; what tells its repeat is kept from its arrival, or up to its     *)
(* deadline, in memory and up to a limit.                                  *)
(***************************************************************************)
EXTENDS Naturals, Sequences, FiniteSets

CONSTANTS
  Messages,       \* signed messages that may arrive, and arrive again
  NonceTtl,       \* AGENT_NONCE_TTL_MS, POLICY_UPDATE_MAX_AGE_MS, and the 300 s of isStaleHello
  FutureSkew,     \* POLICY_UPDATE_MAX_FUTURE_SKEW_MS
  MaxSeen,        \* MAX_AGENT_CONNECTION_NONCES, and the 10 000 of rememberAction
  MaxVersion,     \* bound on policy versions
  MaxRepeats,     \* bound on the times a message is accepted
  WindowMaxClock  \* bound on the clock and on the times messages carry

ASSUME WindowAssumption ==
  /\ {NonceTtl, FutureSkew, MaxVersion, MaxRepeats, WindowMaxClock} \subseteq Nat
  /\ MaxSeen \in Nat \ {0}

Kinds == {"hello", "policy", "action"}
NotIssued == [kind |-> "none", stamp |-> 0, version |-> 0]

VARIABLES
  message,       \* the messages: kind, time or deadline, policy version
  helloSeen,     \* agentHelloNonces of the agent: entries [id, until, turn], turn being their order
  policySeen,    \* seenPolicyUpdateNonces
  actionSeen,    \* seenActions
  version,       \* config.policy.version, saved with the configuration
  windowClock,
  acceptedAt     \* history: when each was accepted since its receiver last forgot it

windowVars == <<message, helloSeen, policySeen, actionSeen, version, windowClock, acceptedAt>>

WindowInit ==
  /\ message = [m \in Messages |-> NotIssued]
  /\ helloSeen = {} /\ policySeen = {} /\ actionSeen = {}
  /\ version = 0
  /\ windowClock = 0
  /\ acceptedAt = [m \in Messages |-> <<>>]

----------------------------------------------------------------------------
(* http-util.ts *)

\* pruneNonceWindow
Prune(seen) == {e \in seen : e.until > windowClock}

Has(seen, m) == \E e \in seen : e.id = m

\* An entry is set after the others, and the oldest goes when there are too many.
Turn(seen) == 1 + CHOOSE n \in {0} \cup {e.turn : e \in seen} : \A e \in seen : e.turn <= n
Remember(seen, m, until) == seen \cup {[id |-> m, until |-> until, turn |-> Turn(seen)]}
WithoutOldest(seen) == {e \in seen : \E f \in seen : f.turn < e.turn}
RememberCapped(seen, m, until) ==
  Remember(IF Cardinality(seen) < MaxSeen THEN seen ELSE WithoutOldest(seen), m, until)

\* Slip: a nonce is kept from the time the message carries.
UntilByStamp(m) == message[m].stamp + NonceTtl

\* How long a nonce is kept.
Until(m) == windowClock + NonceTtl

\* Accepted now; a message dropped from a map may be accepted anew.
Accept(m, before, after) ==
  /\ Len(acceptedAt[m]) < MaxRepeats
  /\ acceptedAt' = [n \in Messages |->
       IF n = m THEN Append(acceptedAt[m], windowClock)
       ELSE IF Has(before, n) /\ ~Has(after, n) THEN <<>> ELSE acceptedAt[n]]

----------------------------------------------------------------------------
(* The receivers *)

\* The sender signs a message; its clock may be ahead or behind.
Issue(m, kind, stamp, v) ==
  /\ message[m] = NotIssued
  /\ message' = [message EXCEPT ![m] = [kind |-> kind, stamp |-> stamp, version |-> v]]
  /\ UNCHANGED <<helloSeen, policySeen, actionSeen, version, windowClock, acceptedAt>>

\* isStaleHello, cleanupEphemeralState, hasReplayedHello: a hello that is not
\* stale prunes the map even if it is then refused.
ReceiveHello(m) ==
  LET seen == Prune(helloSeen)
  IN /\ message[m].kind = "hello"
     /\ windowClock <= message[m].stamp + NonceTtl /\ message[m].stamp <= windowClock + NonceTtl
     /\ IF Has(seen, m)
          THEN helloSeen' = seen /\ UNCHANGED acceptedAt
          ELSE /\ helloSeen' = Remember(seen, m, Until(m))
               /\ Accept(m, seen, helloSeen')
     /\ UNCHANGED <<message, policySeen, actionSeen, version, windowClock>>

\* validatePolicyUpdate and applyAgentPolicyUpdate.
ReceivePolicy(m) ==
  LET seen == Prune(policySeen)
      accepted == /\ ~Has(seen, m)
                  /\ windowClock <= message[m].stamp + NonceTtl
                  /\ message[m].stamp <= windowClock + FutureSkew
                  /\ message[m].version > version
  IN /\ message[m].kind = "policy"
     /\ IF accepted
          THEN /\ policySeen' = RememberCapped(seen, m, Until(m))
               /\ version' = message[m].version
               /\ Len(acceptedAt[m]) < MaxRepeats
               /\ acceptedAt' = [acceptedAt EXCEPT ![m] = Append(@, windowClock)]
          ELSE policySeen' = seen /\ UNCHANGED <<version, acceptedAt>>
     /\ UNCHANGED <<message, helloSeen, actionSeen, windowClock>>

\* acceptAgentAction and rememberAction; the map is pruned only when an action
\* is accepted, after it was looked up.  (The policy version is left out.)
ReceiveAction(m) ==
  LET seen == Prune(actionSeen)
  IN /\ message[m].kind = "action"
     /\ ~Has(actionSeen, m) /\ windowClock <= message[m].stamp
     /\ actionSeen' = RememberCapped(seen, m, message[m].stamp)
     /\ Accept(m, seen, actionSeen')
     /\ UNCHANGED <<message, helloSeen, policySeen, version, windowClock>>

\* cleanupEphemeralState, on the interval of the control plane.
CleanupEphemeralState ==
  /\ helloSeen' = Prune(helloSeen)
  /\ UNCHANGED <<message, policySeen, actionSeen, version, windowClock, acceptedAt>>

\* The control plane or the agent ends and starts again: its maps are gone.
Restarted(kind) == [m \in Messages |-> IF message[m].kind = kind THEN <<>> ELSE acceptedAt[m]]

RestartControlPlane ==
  /\ helloSeen' = {} /\ acceptedAt' = Restarted("hello")
  /\ UNCHANGED <<message, policySeen, actionSeen, version, windowClock>>

RestartAgent ==
  /\ policySeen' = {} /\ actionSeen' = {}
  /\ acceptedAt' = Restarted("action")
  /\ UNCHANGED <<message, helloSeen, version, windowClock>>

WindowTick ==
  /\ windowClock < WindowMaxClock
  /\ windowClock' = windowClock + 1
  /\ UNCHANGED <<message, helloSeen, policySeen, actionSeen, version, acceptedAt>>

WindowNext ==
  \/ \E m \in Messages, stamp \in 0..WindowMaxClock :
       \/ Issue(m, "hello", stamp, 0) \/ Issue(m, "action", stamp, 0)
       \/ \E v \in 1..MaxVersion : Issue(m, "policy", stamp, v)
  \/ \E m \in Messages : ReceiveHello(m) \/ ReceivePolicy(m) \/ ReceiveAction(m)
  \/ CleanupEphemeralState
  \/ RestartControlPlane \/ RestartAgent
  \/ WindowTick

WindowSpec == WindowInit /\ [][WindowNext]_windowVars

----------------------------------------------------------------------------

\* A repeat is told from the message as long as its receiver runs and has not
\* dropped it for others.  What is left open are the ends of the windows: a hello
\* the time of which is not before its arrival is accepted again when its nonce
\* has just been pruned, and an action at the very time of its deadline.  A policy
\* update is applied once, whatever its receiver forgot.
RepeatsAreKnown ==
  \A m \in Messages : Len(acceptedAt[m]) > 1 =>
    LET first == acceptedAt[m][1]
        last == acceptedAt[m][Len(acceptedAt[m])]
    IN \/ message[m].kind = "hello" /\ message[m].stamp >= first /\ last >= first + NonceTtl
       \/ message[m].kind = "action" /\ last = message[m].stamp
=============================================================================
