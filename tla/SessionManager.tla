--------------------------- MODULE SessionManager ---------------------------
(***************************************************************************)
(* The SSH session manager, src/src/session.ts: a table of live SSH        *)
(* connections with a capacity limit, an absolute time to live, eviction   *)
(* of the least recently used idle session, and an asynchronous close.     *)
(*                                                                         *)
(* The program runs on one JavaScript thread: a step of this module is     *)
(* what one call does between two awaits.  A session id is generated for   *)
(* each openSession call and never reused, so an element of SessionIds     *)
(* names both the call that opens the session and the session itself.      *)
(***************************************************************************)
EXTENDS Naturals, Sequences, FiniteSets

CONSTANTS
  SessionIds,   \* ids drawn by openSession, one per call
  NoSession,    \* "no session": the value of awaits[s] when s awaits nothing
  MaxSessions,  \* the limit given to the constructor
  Ttls,         \* times to live a caller may ask for
  MaxClock,     \* bound: the clock stops here
  MaxUses       \* bound: uses of one session at a time, of each kind

ASSUME MaxSessionsAssumption == MaxSessions \in Nat \ {0}
ASSUME TtlsAssumption == Ttls \subseteq Nat
ASSUME BoundsAssumption == MaxClock \in Nat /\ MaxUses \in Nat
ASSUME NoSessionAssumption == NoSession \notin SessionIds

VARIABLES
  sessions,            \* keys of the `sessions` map
  pendingConnections,  \* the counter of reserved slots
  admission,           \* openSession calls holding or awaiting the `admission` promise, in order
  closingSessions,     \* the `closingSessions` set
  activeOperations,    \* the `activeOperations` map, 0 for an absent key
  expiresAt,           \* info.expiresAt, fixed when openSession starts
  lastUsed,            \* info.lastUsed
  opener,              \* where the openSession (or reconnectSession) call of an id stands
  awaits,              \* the session whose close that call awaits
  closer,              \* who called the closeSession that is running on an id
  commands,            \* commands the services are running on a session's connection
  lifecycle,           \* of the manager: running, destroying, destroyed
  destroyAwaits,       \* sessions whose close destroy() awaits
  clock                \* Date.now()

tableVars == <<sessions, closingSessions, closer>>
openVars  == <<pendingConnections, admission, opener, awaits>>
useVars   == <<activeOperations, commands>>
infoVars  == <<expiresAt, lastUsed>>
lifeVars  == <<lifecycle, destroyAwaits>>
vars == <<tableVars, openVars, useVars, infoVars, lifeVars, clock>>

OpenerStates == {"idle", "reconnecting", "queued", "evicting", "connecting", "opened", "failed"}
Closers == {"none", "request", "eviction", "expiry"}

TypeOK ==
  /\ sessions \subseteq SessionIds
  /\ pendingConnections \in Nat
  /\ admission \in Seq(SessionIds)
  /\ closingSessions \subseteq SessionIds
  /\ activeOperations \in [SessionIds -> Nat]
  /\ expiresAt \in [SessionIds -> Nat]
  /\ lastUsed \in [SessionIds -> Nat]
  /\ opener \in [SessionIds -> OpenerStates]
  /\ awaits \in [SessionIds -> SessionIds \cup {NoSession}]
  /\ closer \in [SessionIds -> Closers]
  /\ commands \in [SessionIds -> Nat]
  /\ lifecycle \in {"running", "destroying", "destroyed"}
  /\ destroyAwaits \subseteq SessionIds
  /\ clock \in Nat

Init ==
  /\ sessions = {}
  /\ pendingConnections = 0
  /\ admission = << >>
  /\ closingSessions = {}
  /\ activeOperations = [s \in SessionIds |-> 0]
  /\ expiresAt = [s \in SessionIds |-> 0]
  /\ lastUsed = [s \in SessionIds |-> 0]
  /\ opener = [s \in SessionIds |-> "idle"]
  /\ awaits = [s \in SessionIds |-> NoSession]
  /\ closer = [s \in SessionIds |-> "none"]
  /\ commands = [s \in SessionIds |-> 0]
  /\ lifecycle = "running"
  /\ destroyAwaits = {}
  /\ clock = 0

----------------------------------------------------------------------------
(* State functions *)

Connecting == {s \in SessionIds : opener[s] = "connecting"}

Occupied == Cardinality(sessions) + pendingConnections

\* Slip: the reservations are not counted.
FullOfSessions == Cardinality(sessions) >= MaxSessions

Full == Occupied >= MaxSessions

HasActiveOperations(s) == activeOperations[s] > 0

Expired(s) == clock >= expiresAt[s]

\* The sessions evictOldestSession looks at, and the ones it may pick: the
\* least recently used (the first in map order when several are).
Idle == {s \in sessions \ closingSessions : ~HasActiveOperations(s)}

Oldest == {s \in Idle : \A t \in Idle : lastUsed[s] <= lastUsed[t]}

\* Slip: a session is evicted although another connection is in flight.
MayEvictForOpenings == Idle # {}

\* "Never evict a live session to make room for another in-flight connection."
MayEvict == pendingConnections = 0 /\ Idle # {}

\* The sessions the cleanup timer closes.
Stale == {s \in Idle : clock > expiresAt[s]}

\* The synchronous prefix of closeSession, for a set of sessions of the table
\* that are not closing already; `who` called it.
BeginClose(S, who) ==
  /\ closingSessions' = closingSessions \cup S
  /\ closer' = [s \in SessionIds |-> IF s \in S THEN who ELSE closer[s]]
  /\ UNCHANGED sessions

----------------------------------------------------------------------------
(* Opening *)

\* openSession up to `await previous`.  A call refused by policy, or made in
\* explain mode, returns before it touches any state.
StartOpening(s) ==
  /\ \E ttl \in Ttls : expiresAt' = [expiresAt EXCEPT ![s] = clock + ttl]
  /\ lastUsed' = [lastUsed EXCEPT ![s] = clock]
  /\ opener' = [opener EXCEPT ![s] = "queued"]
  /\ admission' = Append(admission, s)
  /\ awaits' = [awaits EXCEPT ![s] = NoSession]
  /\ UNCHANGED pendingConnections

OpenSession(s) ==
  /\ opener[s] = "idle"
  /\ StartOpening(s)
  /\ UNCHANGED <<tableVars, useVars, lifeVars, clock>>

\* The holder of `admission` reserves a slot and lets the next one in.
TakeSlot(s) ==
  /\ pendingConnections' = pendingConnections + 1
  /\ opener' = [opener EXCEPT ![s] = "connecting"]
  /\ awaits' = [awaits EXCEPT ![s] = NoSession]
  /\ admission' = Tail(admission)

\* Slip: the refused call does not release the mutex.
RefuseSlotAndHold(s) ==
  /\ opener' = [opener EXCEPT ![s] = "failed"]
  /\ awaits' = [awaits EXCEPT ![s] = NoSession]
  /\ UNCHANGED <<admission, pendingConnections>>

RefuseSlot(s) ==
  /\ opener' = [opener EXCEPT ![s] = "failed"]
  /\ awaits' = [awaits EXCEPT ![s] = NoSession]
  /\ admission' = Tail(admission)
  /\ UNCHANGED pendingConnections

HoldsAdmission(s) == admission # << >> /\ Head(admission) = s

\* reserveConnectionSlot, from the moment the mutex is granted.
ReserveConnectionSlot(s) ==
  /\ opener[s] = "queued"
  /\ HoldsAdmission(s)
  /\ \/ /\ ~Full
        /\ TakeSlot(s)
        /\ UNCHANGED tableVars
     \/ /\ Full
        /\ ~MayEvict
        /\ RefuseSlot(s)
        /\ UNCHANGED tableVars
     \/ /\ Full
        /\ MayEvict
        /\ \E victim \in Oldest :
              /\ BeginClose({victim}, "eviction")
              /\ opener' = [opener EXCEPT ![s] = "evicting"]
              /\ awaits' = [awaits EXCEPT ![s] = victim]
        /\ UNCHANGED <<pendingConnections, admission>>
  /\ UNCHANGED <<useVars, infoVars, lifeVars, clock>>

\* ... and from the moment the evicted session is gone.
ReserveAfterEviction(s) ==
  /\ opener[s] = "evicting"
  /\ awaits[s] \notin sessions
  /\ IF Full THEN RefuseSlot(s) ELSE TakeSlot(s)
  /\ UNCHANGED <<tableVars, useVars, infoVars, lifeVars, clock>>

\* ssh.connect resolved: the table entry and the release of the reservation
\* happen in the same turn.
Connected(s) ==
  /\ opener[s] = "connecting"
  /\ sessions' = sessions \cup {s}
  /\ pendingConnections' = pendingConnections - 1
  /\ opener' = [opener EXCEPT ![s] = "opened"]
  /\ UNCHANGED <<closingSessions, closer, admission, awaits, useVars, infoVars, lifeVars, clock>>

\* Slip: the reservation is not given back.
ConnectFailedKeepsSlot(s) ==
  /\ opener[s] = "connecting"
  /\ opener' = [opener EXCEPT ![s] = "failed"]
  /\ UNCHANGED <<tableVars, pendingConnections, admission, awaits, useVars, infoVars, lifeVars, clock>>

\* The authentication material cannot be loaded, or ssh.connect rejected.
ConnectFailed(s) ==
  /\ opener[s] = "connecting"
  /\ pendingConnections' = pendingConnections - 1
  /\ opener' = [opener EXCEPT ![s] = "failed"]
  /\ UNCHANGED <<tableVars, admission, awaits, useVars, infoVars, lifeVars, clock>>

\* reconnectSession(old), which opens a session under the new id s.  A close
\* of `old` that is under way already is not awaited.
ReconnectSession(old, s) ==
  /\ opener[s] = "idle"
  /\ old \in sessions
  /\ \/ /\ old \in closingSessions
        /\ StartOpening(s)
        /\ UNCHANGED tableVars
     \/ /\ old \notin closingSessions
        /\ BeginClose({old}, "request")
        /\ opener' = [opener EXCEPT ![s] = "reconnecting"]
        /\ awaits' = [awaits EXCEPT ![s] = old]
        /\ UNCHANGED <<pendingConnections, admission, infoVars>>
  /\ UNCHANGED <<useVars, lifeVars, clock>>

OpenAfterClose(s) ==
  /\ opener[s] = "reconnecting"
  /\ awaits[s] \notin sessions
  /\ StartOpening(s)
  /\ UNCHANGED <<tableVars, useVars, lifeVars, clock>>

----------------------------------------------------------------------------
(* Closing *)

\* Slip: closingSessions is not consulted.
CloseSessionAgain(s) ==
  /\ s \in sessions
  /\ BeginClose({s}, "request")
  /\ UNCHANGED <<openVars, useVars, infoVars, lifeVars, clock>>

\* A caller's closeSession.  On an id that is closing, or not in the table,
\* it returns false and changes nothing.
CloseSession(s) ==
  /\ s \in sessions \ closingSessions
  /\ BeginClose({s}, "request")
  /\ UNCHANGED <<openVars, useVars, infoVars, lifeVars, clock>>

\* Slip: the operation count is left behind.
FinishCloseKeepsCount(s) ==
  /\ s \in closingSessions
  /\ sessions' = sessions \ {s}
  /\ closingSessions' = closingSessions \ {s}
  /\ closer' = [closer EXCEPT ![s] = "none"]
  /\ UNCHANGED <<openVars, useVars, infoVars, lifeVars, clock>>

\* Slip: the connection is disposed only when no command runs on it.
FinishCloseWhenUnused(s) ==
  /\ commands[s] = 0
  /\ s \in closingSessions
  /\ sessions' = sessions \ {s}
  /\ closingSessions' = closingSessions \ {s}
  /\ closer' = [closer EXCEPT ![s] = "none"]
  /\ activeOperations' = [activeOperations EXCEPT ![s] = 0]
  /\ UNCHANGED <<openVars, commands, infoVars, lifeVars, clock>>

\* The rest of closeSession, once every close listener has settled or timed
\* out: the connection is disposed and every trace of the session removed.
FinishClose(s) ==
  /\ s \in closingSessions
  /\ sessions' = sessions \ {s}
  /\ closingSessions' = closingSessions \ {s}
  /\ closer' = [closer EXCEPT ![s] = "none"]
  /\ activeOperations' = [activeOperations EXCEPT ![s] = 0]
  /\ UNCHANGED <<openVars, commands, infoVars, lifeVars, clock>>

\* The cleanup timer: one run closes every session it finds expired.
CleanupExpiredSessions ==
  /\ lifecycle = "running"
  /\ Stale # {}
  /\ BeginClose(Stale, "expiry")
  /\ UNCHANGED <<openVars, useVars, infoVars, lifeVars, clock>>

\* Slip: the connections in flight are awaited too.
DestroyAwaitsOpenings ==
  /\ lifecycle = "running"
  /\ lifecycle' = "destroying"
  /\ destroyAwaits' = (sessions \ closingSessions) \cup Connecting
  /\ BeginClose(sessions \ closingSessions, "request")
  /\ UNCHANGED <<openVars, useVars, infoVars, clock>>

\* destroy() stops the timer and closes what it finds in the table; a close
\* under way already is not awaited.
Destroy ==
  /\ lifecycle = "running"
  /\ lifecycle' = "destroying"
  /\ destroyAwaits' = sessions \ closingSessions
  /\ BeginClose(sessions \ closingSessions, "request")
  /\ UNCHANGED <<openVars, useVars, infoVars, clock>>

DestroyDone ==
  /\ lifecycle = "destroying"
  /\ destroyAwaits \cap sessions = {}
  /\ lifecycle' = "destroyed"
  /\ destroyAwaits' = {}
  /\ UNCHANGED <<tableVars, openVars, useVars, infoVars, clock>>

----------------------------------------------------------------------------
(* Using *)

\* getSession(s) gives the session to its caller.  It looks at the table and
\* at the expiry, not at closingSessions.
GetSession(s) ==
  /\ s \in sessions
  /\ \/ /\ ~Expired(s)
        /\ lastUsed' = [lastUsed EXCEPT ![s] = clock]
     \/ /\ Expired(s)
        /\ HasActiveOperations(s)
        /\ UNCHANGED lastUsed
  /\ UNCHANGED expiresAt

\* getSession(s) finds the session expired: it starts a close and gives nothing.
GetExpired(s) ==
  /\ s \in sessions \ closingSessions
  /\ Expired(s)
  /\ ~HasActiveOperations(s)
  /\ BeginClose({s}, "expiry")
  /\ UNCHANGED <<openVars, useVars, infoVars, lifeVars, clock>>

\* A service (process.ts, transfer.ts, fs-tools.ts, ...) takes the session and
\* runs a command on its connection; none of them registers the operation.
RunCommand(s) ==
  /\ commands[s] < MaxUses
  /\ GetSession(s)
  /\ commands' = [commands EXCEPT ![s] = @ + 1]
  /\ UNCHANGED <<tableVars, openVars, activeOperations, lifeVars, clock>>

\* A caller that takes the session and runs no command on its connection: it
\* forwards a port (tunnel.ts), or policy refuses what it was going to do.
TakeSession(s) ==
  /\ GetSession(s)
  /\ UNCHANGED <<tableVars, openVars, useVars, lifeVars, clock>>

CommandDone(s) ==
  /\ commands[s] > 0
  /\ commands' = [commands EXCEPT ![s] = @ - 1]
  /\ UNCHANGED <<tableVars, openVars, activeOperations, infoVars, lifeVars, clock>>

\* beginOperation, of a caller that has the session from the table (only tests
\* call it): the method asks nothing of the session.
BeginOperation(s) ==
  /\ activeOperations[s] < MaxUses
  /\ s \in sessions
  /\ activeOperations' = [activeOperations EXCEPT ![s] = @ + 1]
  /\ UNCHANGED <<tableVars, openVars, commands, infoVars, lifeVars, clock>>

\* endOperation; a call that finds no count changes nothing.
EndOperation(s) ==
  /\ HasActiveOperations(s)
  /\ activeOperations' = [activeOperations EXCEPT ![s] = @ - 1]
  /\ UNCHANGED <<tableVars, openVars, commands, infoVars, lifeVars, clock>>

Tick ==
  /\ clock < MaxClock
  /\ clock' = clock + 1
  /\ UNCHANGED <<tableVars, openVars, useVars, infoVars, lifeVars>>

----------------------------------------------------------------------------
Opening(s) ==
  \/ OpenSession(s)
  \/ ReserveConnectionSlot(s)
  \/ ReserveAfterEviction(s)
  \/ Connected(s)
  \/ ConnectFailed(s)
  \/ OpenAfterClose(s)

Closing(s) ==
  \/ CloseSession(s)
  \/ FinishClose(s)
  \/ GetExpired(s)

Using(s) ==
  \/ RunCommand(s)
  \/ TakeSession(s)
  \/ CommandDone(s)
  \/ BeginOperation(s)
  \/ EndOperation(s)

Next ==
  \/ \E s \in SessionIds : Opening(s) \/ Closing(s) \/ Using(s)
  \/ \E old, s \in SessionIds : ReconnectSession(old, s)
  \/ CleanupExpiredSessions
  \/ Destroy
  \/ DestroyDone
  \/ Tick

\* A resolved promise runs its continuation; a close listener settles or times
\* out after five seconds; the cleanup timer fires.  Nothing is assumed of
\* callers, of the commands they run, or of the server a connection awaits
\* (requestSFTP has no timeout).
Fairness ==
  /\ \A s \in SessionIds :
       /\ WF_vars(ReserveConnectionSlot(s))
       /\ WF_vars(ReserveAfterEviction(s))
       /\ WF_vars(OpenAfterClose(s))
       /\ WF_vars(FinishClose(s))
  /\ WF_vars(CleanupExpiredSessions)
  /\ WF_vars(DestroyDone)

Spec == Init /\ [][Next]_vars
FairSpec == Spec /\ Fairness
----------------------------------------------------------------------------
(* What the manager promises *)

\* The reservation counter is the number of openSession calls between their
\* reservation and the end of their connect: none is lost on a failed connect,
\* none is released twice (the `finally` of openSession).
SlotsAccounted == pendingConnections = Cardinality(Connecting)

\* Live sessions, the ones being closed included, and reservations together
\* never exceed the limit, whatever connects, evictions and closes overlap.
CapacityRespected == Occupied <= MaxSessions

\* reserveConnectionSlot: "Never evict a live session to make room for another
\* in-flight connection."  While one call evicts, no connection is in flight
\* and no other call evicts.
EvictionExclusive ==
  \A s \in SessionIds : opener[s] = "evicting" =>
    /\ Connecting = {}
    /\ \A t \in SessionIds : opener[t] = "evicting" => t = s

\* No live session is evicted in vain: when the evicted session is gone, the
\* call that evicted it finds the slot free.
EvictionNotWasted ==
  \A s \in SessionIds :
    opener[s] = "evicting" /\ awaits[s] \notin sessions => ~Full

\* A live session is given up only for the one call that takes its slot.
EvictionSound == EvictionExclusive /\ EvictionNotWasted

\* The bookkeeping of a session dies with it: a closing mark, an operation
\* count or a running close never outlives the table entry (closeSession
\* deletes all three in one turn).
NothingOutlivesSession ==
  \A s \in SessionIds \ sessions :
    s \notin closingSessions /\ ~HasActiveOperations(s) /\ closer[s] = "none"

\* A close, once begun, is never called off and never restarted by another
\* caller: two calls cannot both dispose one connection, or both return true.
ClosedOnce ==
  [][\A s \in closingSessions : s \in closingSessions' => closer'[s] = closer[s]]_vars

\* A call waiting for admission, for its eviction or for the close of the
\* session it replaces is answered: `admission` is released on every path.
AdmissionSettles ==
  \A s \in SessionIds :
    opener[s] \in {"reconnecting", "queued", "evicting"}
      ~> opener[s] \in {"connecting", "opened", "failed"}

\* While the manager runs, a session past its time to live and without
\* registered operations leaves the table, whatever runs on its connection, unless
\* somebody registers an operation on it still.
StaleSessionsLeave ==
  \A s \in SessionIds :
    s \in Stale /\ lifecycle = "running"
      ~> s \notin sessions \/ HasActiveOperations(s) \/ lifecycle # "running"

\* destroy() returns.
DestroyReturns == lifecycle = "destroying" ~> lifecycle = "destroyed"

----------------------------------------------------------------------------
(* What its comments say, and the code does not do *)

\* session.ts says of destroy: "Destroys the session manager, cleaning up all
\* sessions and intervals".
DestroyLeavesNoSession == lifecycle = "destroyed" => sessions = {}
=============================================================================
