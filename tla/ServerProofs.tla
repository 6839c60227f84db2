---------------------------- MODULE ServerProofs ----------------------------
(***************************************************************************)
(* Proofs about the HTTP server (HttpServer), for any number of requests   *)
(* and any limit: what the registry of sessions holds, and what close()    *)
(* leaves behind in whatever order it and start() run; about the calls it  *)
(* lets through (ToolCalls); about what the policy approves                *)
(* (PolicyDecisions), for any policy and paths of any length; and about    *)
(* the hosts its tools resolve (SshConfig), for any file.                  *)
(***************************************************************************)
EXTENDS HttpServer, ToolCalls, PolicyDecisions, SshConfig,
        FiniteSetTheorems, WellFoundedInduction, TLAPS

USE HttpAssumption

\* What n handshakes at once may take the registry to.
SizeLimit(n) == HttpMax + (IF n = 0 THEN 0 ELSE n - 1)

Sizes ==
  /\ Cardinality(Handshakes) <= peak
  /\ Cardinality(httpSessions) + Cardinality(Handshakes) <= SizeLimit(peak)

(***************************************************************************)
(* close() and start() are two threads of awaits over one server.  The     *)
(* cleanup is under way from the turn that makes closePromise; what it has *)
(* taken down is not taken up again, and the promise settles after it.     *)
(***************************************************************************)
CloseInOrder ==
  /\ closed <=> cleanup # "none"
  /\ "signals" \in held => startCall = "started" /\ ~closed
  /\ cleanup \notin {"none", "queued"} => httpSessions \subseteq late /\ "interval" \notin held
  /\ closeCall \in {"resolved", "rejected"} => cleanup \in {"done", "failed"}

\* A server that close() has stopped itself, and waits for.
StoppedByClose == closed /\ (server = "closed" \/ (server = "draining" /\ closeCall = "awaitsBoth"))

StartInOrder ==
  /\ startCall \in {"idle", "preparing"} => server = "down"
  /\ startCall = "listening" <=> server = "resolving"
  /\ startCall = "listened" => server = "listening" \/ StoppedByClose
  /\ startCall = "stopping" => closed /\ server \in {"draining", "closed"}
  /\ startCall = "started" => (server = "listening" /\ ~closed) \/ StoppedByClose
  /\ startCall \in {"failing", "failed"} => closed /\ (server = "down" \/ StoppedByClose)

(***************************************************************************)
(* The inductive invariant.                                                *)
(***************************************************************************)
HttpInv == HttpTypeOK /\ Sizes /\ OpenIsRegistered /\ CloseInOrder /\ StartInOrder

----------------------------------------------------------------------------
(* Sizes *)

\* Sets of requests are finite, and a part of one is no larger than the whole.
LEMMA SizesOfRequests ==
  ASSUME NEW S \in SUBSET HttpIds, NEW T \in SUBSET S
  PROVE  /\ IsFiniteSet(S) /\ IsFiniteSet(T)
         /\ Cardinality(S) \in Nat /\ Cardinality(T) \in Nat
         /\ Cardinality(T) <= Cardinality(S)
<1>1. IsFiniteSet(S)
  BY FS_Subset
<1> QED BY <1>1, FS_Subset, FS_CardinalityType

\* A set grows by one member at most, and by one if the member is new.
LEMMA SizeOfAdded ==
  ASSUME NEW S \in SUBSET HttpIds, NEW i \in HttpIds
  PROVE  /\ Cardinality(S \cup {i}) <= Cardinality(S) + 1
         /\ i \notin S => Cardinality(S \cup {i}) = Cardinality(S) + 1
<1>1. IsFiniteSet(S) /\ Cardinality(S) \in Nat
  BY SizesOfRequests
<1>2. Cardinality(S \cup {i}) = IF i \in S THEN Cardinality(S) ELSE Cardinality(S) + 1
  BY <1>1, FS_AddElement
<1> QED BY <1>1, <1>2

\* A member less is one less.
LEMMA SizeOfRemoved ==
  ASSUME NEW S \in SUBSET HttpIds, NEW i \in S
  PROVE  Cardinality(S \ {i}) = Cardinality(S) - 1
<1>1. IsFiniteSet(S) /\ Cardinality(S) \in Nat
  BY SizesOfRequests
<1> QED BY <1>1, FS_RemoveElement

\* The limit moves with the handshakes that overlap.
LEMMA LimitGrows ==
  ASSUME NEW m \in Nat, NEW n \in Nat, m <= n
  PROVE  SizeLimit(m) \in Nat /\ SizeLimit(n) \in Nat /\ SizeLimit(m) <= SizeLimit(n)
BY DEF SizeLimit

\* A step that opens nothing keeps the sizes.
LEMMA SizesKept ==
  ASSUME HttpTypeOK, Sizes, peak' = peak,
         httpSessions' \subseteq httpSessions, Handshakes' \subseteq Handshakes
  PROVE  Sizes'
<1>1. httpSessions \subseteq HttpIds /\ Handshakes \subseteq HttpIds /\ peak \in Nat
  BY DEF HttpTypeOK, Handshakes
<1>2. /\ Cardinality(httpSessions) \in Nat /\ Cardinality(httpSessions') \in Nat
      /\ Cardinality(httpSessions') <= Cardinality(httpSessions)
  BY <1>1, SizesOfRequests
<1>3. /\ Cardinality(Handshakes) \in Nat /\ Cardinality(Handshakes') \in Nat
      /\ Cardinality(Handshakes') <= Cardinality(Handshakes)
  BY <1>1, SizesOfRequests
<1>4. SizeLimit(peak) \in Nat
  BY <1>1, LimitGrows
<1> QED BY <1>1, <1>2, <1>3, <1>4 DEF Sizes

\* reserveCapacity: the sessions it leaves are fewer than the limit, or fewer
\* than there were; and the handshakes it is among are counted.
LEMMA CapacityReserved ==
  ASSUME HttpInv, NEW gone \in SUBSET httpSessions, ReserveCapacity(gone)
  PROVE  /\ Cardinality(httpSessions \ gone) \in Nat
         /\ \/ Cardinality(httpSessions \ gone) < HttpMax
            \/ Cardinality(httpSessions \ gone) < Cardinality(httpSessions)
         /\ peak' \in Nat /\ peak <= peak' /\ Cardinality(Handshakes) < peak'
<1>1. httpSessions \subseteq HttpIds /\ Handshakes \subseteq HttpIds /\ peak \in Nat
  BY DEF HttpInv, HttpTypeOK, Handshakes
<1>2. Cardinality(httpSessions) \in Nat /\ Cardinality(Handshakes) \in Nat
  BY <1>1, SizesOfRequests
<1>3. Cardinality(httpSessions \ gone) \in Nat
  <2> httpSessions \ gone \subseteq HttpIds
    BY <1>1
  <2> QED BY SizesOfRequests
<1>4. peak' \in Nat /\ peak <= peak' /\ Cardinality(Handshakes) < peak'
  BY <1>1, <1>2 DEF ReserveCapacity, HttpInv, Sizes
<1>5. PICK evicted \in Evictions(LiveSessions) : gone = ExpiredSessions \cup evicted
  BY DEF ReserveCapacity
<1>6. CASE Cardinality(LiveSessions) < HttpMax
  <2>1. evicted = {}
    BY <1>5, <1>6 DEF Evictions
  <2>2. httpSessions \ gone = LiveSessions
    BY <1>5, <2>1 DEF LiveSessions
  <2> QED BY <1>3, <1>4, <1>6, <2>2
<1>7. CASE ~(Cardinality(LiveSessions) < HttpMax)
  <2>1. PICK v \in LiveSessions : evicted = {v}
    BY <1>5, <1>7 DEF Evictions
  <2>2. v \in httpSessions /\ httpSessions \ gone \subseteq httpSessions \ {v}
    BY <1>5, <2>1 DEF LiveSessions
  <2>3. Cardinality(httpSessions \ {v}) = Cardinality(httpSessions) - 1
    BY <1>1, <2>2, SizeOfRemoved
  <2>4. Cardinality(httpSessions \ gone) <= Cardinality(httpSessions \ {v})
    <3> httpSessions \ {v} \subseteq HttpIds
      BY <1>1
    <3> QED BY <2>2, SizesOfRequests
  <2> QED BY <1>2, <1>3, <1>4, <2>3, <2>4
<1> QED BY <1>6, <1>7

\* No step takes the registry over what its handshakes at once account for:
\* room made in a turn of its own is used once.
LEMMA SizesStep ==
  ASSUME HttpInv, HttpNext
  PROVE  Sizes'
<1>typed. /\ httpSessions \subseteq HttpIds /\ Handshakes \subseteq HttpIds /\ peak \in Nat
          /\ conn \in [HttpIds -> {"none", "arrived", "connecting", "open", "closed", "failed"}]
          /\ HttpTypeOK /\ Sizes
  BY DEF HttpInv, HttpTypeOK, Handshakes
<1>sizes. /\ Cardinality(httpSessions) \in Nat /\ Cardinality(Handshakes) \in Nat
          /\ SizeLimit(peak) \in Nat
  BY <1>typed, SizesOfRequests, LimitGrows
<1>1. ASSUME NEW i \in HttpIds, OpenStreamable(i)
      PROVE  Sizes'
  <2>1. PICK gone \in SUBSET httpSessions :
          /\ ReserveCapacity(gone)
          /\ httpSessions' = httpSessions \ gone
          /\ conn' = [WithClosed(gone) EXCEPT ![i] = "connecting"]
    BY <1>1 DEF OpenStreamable
  <2>2. conn[i] = "arrived" /\ i \notin Handshakes
    BY <1>1 DEF OpenStreamable, Handshakes
  <2>3. Handshakes' = Handshakes \cup {i}
    BY <1>typed, <2>1, <2>2 DEF Handshakes, WithClosed, HttpInv, OpenIsRegistered
  <2>4. Cardinality(Handshakes') = Cardinality(Handshakes) + 1
    BY <1>typed, <2>2, <2>3, SizeOfAdded
  <2>5. /\ Cardinality(httpSessions') \in Nat
        /\ \/ Cardinality(httpSessions') < HttpMax
           \/ Cardinality(httpSessions') < Cardinality(httpSessions)
        /\ peak' \in Nat /\ peak <= peak' /\ Cardinality(Handshakes) < peak'
    BY <2>1, CapacityReserved
  <2>6. SizeLimit(peak) <= SizeLimit(peak')
    BY <1>typed, <2>5, LimitGrows
  <2> QED BY <1>typed, <1>sizes, <2>4, <2>5, <2>6 DEF Sizes, SizeLimit
<1>2. ASSUME NEW i \in HttpIds, OpenLegacySse(i)
      PROVE  Sizes'
  <2>1. PICK gone \in SUBSET httpSessions :
          /\ ReserveCapacity(gone)
          /\ httpSessions' = (httpSessions \ gone) \cup {i}
          /\ conn' = [WithClosed(gone) EXCEPT ![i] = "open"]
    BY <1>2 DEF OpenLegacySse
  <2>2. conn[i] = "arrived"
    BY <1>2 DEF OpenLegacySse
  <2>3. Handshakes' = Handshakes
    BY <1>typed, <2>1, <2>2 DEF Handshakes, WithClosed, HttpInv, OpenIsRegistered
  <2>4. /\ Cardinality(httpSessions \ gone) \in Nat
        /\ \/ Cardinality(httpSessions \ gone) < HttpMax
           \/ Cardinality(httpSessions \ gone) < Cardinality(httpSessions)
        /\ peak' \in Nat /\ peak <= peak' /\ Cardinality(Handshakes) < peak'
    BY <2>1, CapacityReserved
  <2>5. Cardinality(httpSessions') <= Cardinality(httpSessions \ gone) + 1
    <3> httpSessions \ gone \subseteq HttpIds
      BY <1>typed
    <3> QED BY <2>1, SizeOfAdded
  <2>6. Cardinality(httpSessions') \in Nat
    <3> httpSessions' \subseteq HttpIds
      BY <1>typed, <2>1
    <3> QED BY SizesOfRequests
  <2>7. SizeLimit(peak) <= SizeLimit(peak')
    BY <1>typed, <2>4, LimitGrows
  <2> QED BY <1>typed, <1>sizes, <2>3, <2>4, <2>5, <2>6, <2>7 DEF Sizes, SizeLimit
<1>3. ASSUME NEW i \in HttpIds, SessionInitialized(i)
      PROVE  Sizes'
  <2>1. i \in Handshakes /\ Handshakes' = Handshakes \ {i} /\ httpSessions' = httpSessions \cup {i}
    BY <1>typed, <1>3 DEF SessionInitialized, Handshakes
  <2>2. Cardinality(Handshakes') = Cardinality(Handshakes) - 1
    BY <1>typed, <2>1, SizeOfRemoved
  <2>3. Cardinality(httpSessions') <= Cardinality(httpSessions) + 1
    BY <1>typed, <2>1, SizeOfAdded
  <2>4. Cardinality(httpSessions') \in Nat
    <3> httpSessions' \subseteq HttpIds
      BY <1>typed, <2>1
    <3> QED BY SizesOfRequests
  <2>5. peak' = peak
    BY <1>3 DEF SessionInitialized
  <2> QED BY <1>typed, <1>sizes, <2>2, <2>3, <2>4, <2>5 DEF Sizes
<1>4. ASSUME NEW i \in HttpIds, Arrive(i) \/ Reject(i) \/ HandshakeFails(i) \/ UseSession(i) \/ TransportCloses(i)
      PROVE  Sizes'
  <2> peak' = peak /\ httpSessions' \subseteq httpSessions /\ Handshakes' \subseteq Handshakes
    BY <1>typed, <1>4 DEF Arrive, Reject, HandshakeFails, UseSession, TransportCloses, Handshakes, WithClosed
  <2> QED BY <1>typed, SizesKept
<1>5. ASSUME CleanupExpired \/ HttpTick \/ Lifecycle
      PROVE  Sizes'
  <2> peak' = peak /\ httpSessions' \subseteq httpSessions /\ Handshakes' \subseteq Handshakes
    BY <1>typed, <1>5 DEF CleanupExpired, LiveSessions, HttpTick, Handshakes, WithClosed, Lifecycle, registryVars,
       CloseServer, ServerDrained, CloseTransports, CloseAllTransports, ClearSessions, CleanupStep, CloseSettles,
       StartServer, Listen, ListenFails, ListeningEvent, Started, ServerStopped, StartFails
  <2> QED BY <1>typed, SizesKept
<1> QED BY <1>1, <1>2, <1>3, <1>4, <1>5 DEF HttpNext, HttpRequest

----------------------------------------------------------------------------
(* The inductive invariant *)

\* Every handler and every step of start() and close() keeps the types.
LEMMA HttpTypeStep ==
  ASSUME HttpTypeOK, HttpNext
  PROVE  HttpTypeOK'
<1> USE DEF HttpTypeOK
<1>1. ASSUME NEW i \in HttpIds, HttpRequest(i)
      PROVE  HttpTypeOK'
  <2>1. CASE Arrive(i) \/ Reject(i) \/ HandshakeFails(i) \/ TransportCloses(i) \/ SessionInitialized(i)
    BY <2>1 DEF Arrive, Reject, HandshakeFails, TransportCloses, SessionInitialized, lifecycleVars
  <2>2. CASE OpenStreamable(i)
    <3>1. PICK gone \in SUBSET httpSessions :
            /\ ReserveCapacity(gone)
            /\ httpSessions' = httpSessions \ gone
            /\ conn' = [WithClosed(gone) EXCEPT ![i] = "connecting"]
            /\ streams' = streams \ gone
      BY <2>2 DEF OpenStreamable
    <3>2. Handshakes \subseteq HttpIds /\ peak' \in Nat
      <4>1. Handshakes \subseteq HttpIds
        BY DEF Handshakes
      <4>2. Cardinality(Handshakes) \in Nat
        BY <4>1, SizesOfRequests
      <4> QED BY <3>1, <4>1, <4>2 DEF ReserveCapacity
    <3> QED BY <2>2, <3>1, <3>2 DEF OpenStreamable, WithClosed, lifecycleVars
  <2>3. CASE OpenLegacySse(i)
    <3>1. PICK gone \in SUBSET httpSessions :
            /\ ReserveCapacity(gone)
            /\ httpSessions' = (httpSessions \ gone) \cup {i}
            /\ conn' = [WithClosed(gone) EXCEPT ![i] = "open"]
            /\ streams' = (streams \ gone) \cup {i}
      BY <2>3 DEF OpenLegacySse
    <3>2. Handshakes \subseteq HttpIds /\ peak' \in Nat
      <4>1. Handshakes \subseteq HttpIds
        BY DEF Handshakes
      <4>2. Cardinality(Handshakes) \in Nat
        BY <4>1, SizesOfRequests
      <4> QED BY <3>1, <4>1, <4>2 DEF ReserveCapacity
    <3> QED BY <2>3, <3>1, <3>2 DEF OpenLegacySse, WithClosed, lifecycleVars
  <2>4. CASE UseSession(i)
    <3>1. PICK gone \in {ExpiredSessions, {}} :
            /\ httpSessions' = httpSessions \ gone
            /\ conn' = WithClosed(gone)
            /\ streams' \in {streams \ gone, (streams \ gone) \cup {i}}
      BY <2>4 DEF UseSession
    <3> QED BY <2>4, <3>1 DEF UseSession, WithClosed, lifecycleVars
  <2> QED BY <1>1, <2>1, <2>2, <2>3, <2>4 DEF HttpRequest
<1>2. CASE CleanupExpired
  BY <1>2 DEF CleanupExpired, LiveSessions, WithClosed, lifecycleVars
<1>3. CASE HttpTick
  BY <1>3 DEF HttpTick, lifecycleVars
<1>4. CASE CloseTransports \/ ClearSessions
  BY <1>4 DEF CloseTransports, CloseAllTransports, ClearSessions, WithClosed, CleanupSteps
<1>5. CASE CloseServer \/ ServerDrained \/ CloseSettles
  BY <1>5 DEF CloseServer, BeginShutdown, ServerDrained, CloseSettles, CleanupSteps, registryVars
<1>6. CASE CleanupStep
  <2>1. cleanup' \in CleanupSteps \cup {"done", "failed"}
    BY <1>6 DEF CleanupStep, AfterStep, CleanupSteps
  <2> QED BY <1>6, <2>1 DEF CleanupStep, registryVars
<1>7. CASE StartServer \/ Listen \/ ListenFails \/ ListeningEvent \/ Started \/ ServerStopped \/ StartFails
  BY <1>7 DEF StartServer, FailStart, BeginShutdown, Listen, ListenFails, ListeningEvent, Started, ServerStopped,
     StartFails, CleanupSteps, registryVars
<1> QED BY <1>1, <1>2, <1>3, <1>4, <1>5, <1>6, <1>7 DEF HttpNext, Lifecycle

\* What is open stays in the registry or was registered late, and what leaves
\* the registry is closed.
LEMMA RegisteredStep ==
  ASSUME HttpInv, HttpNext
  PROVE  OpenIsRegistered'
<1>typed. /\ httpSessions \subseteq HttpIds /\ late \subseteq HttpIds
          /\ conn \in [HttpIds -> {"none", "arrived", "connecting", "open", "closed", "failed"}]
          /\ \A i \in HttpIds : conn[i] = "open" => i \in httpSessions \cup late
          /\ \A i \in httpSessions : conn[i] = "open"
  BY DEF HttpInv, HttpTypeOK, OpenIsRegistered
<1>1. ASSUME NEW i \in HttpIds, HttpRequest(i)
      PROVE  OpenIsRegistered'
  <2>1. CASE Arrive(i) \/ Reject(i) \/ HandshakeFails(i) \/ TransportCloses(i) \/ SessionInitialized(i)
    BY <1>typed, <2>1 DEF Arrive, Reject, HandshakeFails, TransportCloses, SessionInitialized, OpenIsRegistered
  <2>2. CASE OpenStreamable(i) \/ OpenLegacySse(i) \/ UseSession(i)
    BY <1>typed, <2>2 DEF OpenStreamable, OpenLegacySse, UseSession, WithClosed, OpenIsRegistered
  <2> QED BY <1>1, <2>1, <2>2 DEF HttpRequest
<1>2. CASE CleanupExpired \/ HttpTick
  BY <1>typed, <1>2 DEF CleanupExpired, LiveSessions, HttpTick, WithClosed, OpenIsRegistered
<1>3. CASE CloseTransports
  BY <1>typed, <1>3 DEF CloseTransports, CloseAllTransports, WithClosed, OpenIsRegistered
<1>4. CASE ClearSessions
  <2>1. httpSessions \subseteq late
    BY <1>4 DEF ClearSessions, HttpInv, CloseInOrder
  <2> QED BY <1>typed, <1>4, <2>1 DEF ClearSessions, OpenIsRegistered
<1>5. CASE UNCHANGED registryVars
  BY <1>typed, <1>5 DEF registryVars, OpenIsRegistered
<1> QED BY <1>1, <1>2, <1>3, <1>4, <1>5 DEF HttpNext, Lifecycle, CloseServer, ServerDrained, CleanupStep,
      CloseSettles, StartServer, Listen, ListenFails, ListeningEvent, Started, ServerStopped, StartFails

\* A handler, an expiry or a tick leaves start() and close() where they are, and
\* registers nothing behind close() that late does not know of.
LEMMA RegistryStepKeepsOrder ==
  ASSUME HttpInv, (\E i \in HttpIds : HttpRequest(i)) \/ CleanupExpired \/ HttpTick
  PROVE  CloseInOrder' /\ StartInOrder'
<1>1. UNCHANGED lifecycleVars
  BY DEF HttpRequest, Arrive, Reject, OpenStreamable, SessionInitialized, HandshakeFails, OpenLegacySse, UseSession,
     TransportCloses, CleanupExpired, HttpTick
<1>2. closed /\ httpSessions \subseteq late => httpSessions' \subseteq late'
  BY DEF HttpRequest, Arrive, Reject, OpenStreamable, SessionInitialized, HandshakeFails, OpenLegacySse, UseSession,
     TransportCloses, CleanupExpired, LiveSessions, HttpTick
<1> QED BY <1>1, <1>2 DEF HttpInv, CloseInOrder, StartInOrder, StoppedByClose, closed, lifecycleVars

\* start() and close() keep their order, whichever await of theirs ends next.
LEMMA LifecycleStepKeepsOrder ==
  ASSUME HttpInv, Lifecycle
  PROVE  CloseInOrder' /\ StartInOrder'
<1> USE DEF HttpInv, CloseInOrder, StartInOrder, StoppedByClose, closed
<1>1. CASE CloseServer
  BY <1>1 DEF CloseServer, BeginShutdown, registryVars, HttpTypeOK
<1>2. CASE ServerDrained
  BY <1>2 DEF ServerDrained, registryVars, HttpTypeOK
<1>3. CASE CloseTransports \/ ClearSessions
  BY <1>3 DEF CloseTransports, CloseAllTransports, ClearSessions
<1>4. CASE CleanupStep
  BY <1>4 DEF CleanupStep, AfterStep, registryVars
<1>5. CASE CloseSettles
  BY <1>5 DEF CloseSettles, registryVars
<1>6. CASE StartServer
  BY <1>6 DEF StartServer, FailStart, BeginShutdown, registryVars, HttpTypeOK
<1>7. CASE Listen
  BY <1>7 DEF Listen, FailStart, BeginShutdown, registryVars, HttpTypeOK
<1>8. CASE ListenFails \/ ListeningEvent
  BY <1>8 DEF ListenFails, ListeningEvent, registryVars, HttpTypeOK
<1>9. CASE Started
  BY <1>9 DEF Started, registryVars, HttpTypeOK
<1>10. CASE ServerStopped \/ StartFails
  BY <1>10 DEF ServerStopped, StartFails, registryVars, HttpTypeOK
<1> QED BY <1>1, <1>2, <1>3, <1>4, <1>5, <1>6, <1>7, <1>8, <1>9, <1>10 DEF Lifecycle

\* The invariant of the server.
LEMMA HttpInvariance == HttpSpec => []HttpInv
<1>1. HttpInit => HttpInv
  <2> SUFFICES ASSUME HttpInit PROVE HttpInv
    OBVIOUS
  <2>1. httpSessions = {} /\ Handshakes = {} /\ peak = 0
    BY DEF HttpInit, Handshakes
  <2>2. Sizes
    BY <2>1, FS_EmptySet DEF Sizes, SizeLimit
  <2> QED BY <2>2 DEF HttpInit, HttpInv, HttpTypeOK, OpenIsRegistered, CloseInOrder, StartInOrder, StoppedByClose,
             closed, CleanupSteps
<1>2. HttpInv /\ [HttpNext]_httpVars => HttpInv'
  <2> SUFFICES ASSUME HttpInv, [HttpNext]_httpVars PROVE HttpInv'
    OBVIOUS
  <2>1. CASE HttpNext
    <3>1. HttpTypeOK' /\ Sizes' /\ OpenIsRegistered'
      BY <2>1, HttpTypeStep, SizesStep, RegisteredStep DEF HttpInv
    <3>2. CloseInOrder' /\ StartInOrder'
      BY <2>1, RegistryStepKeepsOrder, LifecycleStepKeepsOrder DEF HttpNext
    <3> QED BY <3>1, <3>2 DEF HttpInv
  <2>2. CASE UNCHANGED httpVars
    BY <2>2 DEF httpVars, registryVars, lifecycleVars, HttpInv, HttpTypeOK, Sizes, Handshakes, OpenIsRegistered,
       CloseInOrder, StartInOrder, StoppedByClose, closed
  <2> QED BY <2>1, <2>2
<1> QED BY <1>1, <1>2, PTL DEF HttpSpec

\* Handshakes at once may take the registry over its limit by one less than
\* their number and by no more, and every transport that is open can be reached
\* for expiry, eviction and shutdown unless close() was called before it opened
\* (http-session-registry.ts, http-server-runtime.ts).
THEOREM RegistryCorrect == HttpSpec => []RegistryMatches
<1>1. HttpInv => RegistryMatches
  BY DEF HttpInv, Sizes, SizeLimit, RegistryMatches, OvershootBounded
<1> QED BY <1>1, HttpInvariance, PTL

\* Once close() has settled no signal handler and no timer is left and the
\* server is down, or on its way down, wherever start() stood when it was called
\* (http-server-lifecycle.ts).
THEOREM ShutdownCorrect == HttpSpec => []ClosedStaysDown
<1>1. HttpInv => ClosedStaysDown
  BY DEF HttpInv, HttpTypeOK, CloseInOrder, StartInOrder, StoppedByClose, closed, ClosedStaysDown
<1> QED BY <1>1, HttpInvariance, PTL

----------------------------------------------------------------------------
(* Rate limits *)

Admissions ==
  [session : CallSessions \cup {NoCallSession}, at : Nat,
   outcome : {"global", "session", "dispatched"}, down : BOOLEAN]

LimitTypes ==
  /\ calls \in Seq(Admissions)
  /\ logs \in [Keys -> SUBSET Nat]
  /\ keyWindow \in [Keys -> Nat]
  /\ limiterDown \in BOOLEAN
  /\ limitClock \in Nat

\* The calls that the limit of a key counts, however old they are.
Counts(key, admission) ==
  IF key = GlobalKey THEN admission.outcome # "global"
  ELSE admission.session = key /\ admission.outcome = "dispatched"
CountedCalls(key) == {n \in 1..Len(calls) : Counts(key, calls[n])}

\* What the property says of the n-th call.
Admitted(n) ==
  LET full == IsFullFor(GlobalKey, n, calls[n].at)
      sessionFull == calls[n].session # NoCallSession /\ IsFullFor(calls[n].session, n, calls[n].at)
  IN calls[n].outcome = IF calls[n].down \/ full THEN "global"
                        ELSE IF sessionFull THEN "session" ELSE "dispatched"

\* The calls that count now.
CountedNow(key) == Counted(key, Len(calls) + 1, limitClock)

(***************************************************************************)
(* The inductive invariant: the log of a key has counted calls only and    *)
(* all of those that its window holds, and is pruned by that window or has *)
(* nothing to prune.                                                       *)
(***************************************************************************)
LogIsExact(key) ==
  /\ logs[key] \subseteq CountedCalls(key)
  /\ \A n \in CountedCalls(key) : calls[n].at + WindowOf(key) > limitClock => n \in logs[key]
  /\ keyWindow[key] = WindowOf(key) \/ (keyWindow[key] = 0 /\ logs[key] = {})

LimitInv ==
  /\ LimitTypes
  /\ ~limiterDown =>
       (\A key \in Keys : LogIsExact(key)) /\ Cardinality(CountedNow(GlobalKey)) <= GlobalMax
  /\ \A n \in 1..Len(calls) : Admitted(n)

\* The windows and limits are those of the configuration, and calls have times.
LEMMA LimitsAndWindows ==
  ASSUME NEW key \in Keys
  PROVE  MaxOf(key) \in Nat /\ WindowOf(key) \in Nat \ {0}
  BY LimitAssumption DEF MaxOf, WindowOf, Keys

LEMMA CallTimes ==
  ASSUME LimitTypes
  PROVE  Len(calls) \in Nat /\ \A n \in 1..Len(calls) : calls[n] \in Admissions /\ calls[n].at \in Nat
<1>1. Len(calls) \in Nat /\ \A n \in 1..Len(calls) : calls[n] \in Admissions
  BY DEF LimitTypes
<1> QED BY <1>1 DEF Admissions

\* What a log holds of its window is what the limit should count.
LEMMA WindowIsCounted ==
  ASSUME LimitTypes, NEW key \in Keys, LogIsExact(key)
  PROVE  InWindow(logs[key], WindowOf(key)) = CountedNow(key)
<1>1. ASSUME NEW n \in 1..Len(calls) PROVE n \in CountedCalls(key) <=> Counts(key, calls[n])
  BY DEF CountedCalls
<1>2. CountedNow(key) = {n \in CountedCalls(key) : calls[n].at + WindowOf(key) > limitClock}
  BY DEF CountedNow, Counted, CountedCalls, Counts, LimitTypes
<1> QED BY <1>2 DEF InWindow, LogIsExact

\* Calls are finitely many.
LEMMA CountedIsFinite ==
  ASSUME LimitTypes, NEW key, NEW n \in Nat, NEW t
  PROVE  IsFiniteSet(Counted(key, n, t)) /\ Cardinality(Counted(key, n, t)) \in Nat
<1>1. IsFiniteSet(1..n - 1)
  BY FS_Interval
<1>2. Counted(key, n, t) \subseteq 1..n - 1
  BY DEF Counted
<1> QED BY <1>1, <1>2, FS_Subset, FS_CardinalityType

\* A later call does not change what was counted for an earlier one.
LEMMA CountedKept ==
  ASSUME LimitTypes, NEW r, calls' = Append(calls, r) \/ calls' = calls,
         NEW key, NEW n \in 1..Len(calls) + 1, NEW t
  PROVE  Counted(key, n, t)' = Counted(key, n, t)
<1>1. \A m \in 1..n - 1 : calls'[m] = calls[m]
  BY DEF LimitTypes
<1>2. \A m \in 1..n - 1 : m \in Counted(key, n, t)' <=> m \in Counted(key, n, t)
  BY <1>1 DEF Counted
<1>3. Counted(key, n, t) \subseteq 1..n - 1 /\ Counted(key, n, t)' \subseteq 1..n - 1
  BY DEF Counted
<1> QED BY <1>2, <1>3

LEMMA AdmittedKept ==
  ASSUME LimitTypes, NEW r, calls' = Append(calls, r) \/ calls' = calls,
         NEW n \in 1..Len(calls), Admitted(n)
  PROVE  Admitted(n)'
<1>0. Len(calls) \in Nat /\ calls \in Seq(Admissions)
  BY DEF LimitTypes
<1>1. calls'[n] = calls[n] /\ n \in 1..Len(calls) + 1
  BY <1>0
<1>2. \A key, t : Counted(key, n, t)' = Counted(key, n, t)
  BY <1>1, CountedKept
<1>3. \A key, t : IsFullFor(key, n, t)' <=> IsFullFor(key, n, t)
  BY <1>2 DEF IsFullFor
<1>4. PICK c : c = calls[n]
  OBVIOUS
<1>5. calls'[n] = c
  BY <1>1, <1>4
<1> QED BY <1>3, <1>4, <1>5 DEF Admitted

LEMMA InitLimitInv == LimitInit => LimitInv
<1> SUFFICES ASSUME LimitInit PROVE LimitInv
  OBVIOUS
<1>1. LimitTypes
  <2>1. calls \in Seq(Admissions)
    BY DEF LimitInit
  <2>2. logs \in [Keys -> SUBSET Nat] /\ keyWindow \in [Keys -> Nat]
    BY DEF LimitInit
  <2> QED BY <2>1, <2>2 DEF LimitInit, LimitTypes
<1>2. Len(calls) = 0
  BY DEF LimitInit
<1>3. CountedNow(GlobalKey) = {}
  BY <1>2 DEF CountedNow, Counted
<1>4. Cardinality(CountedNow(GlobalKey)) <= GlobalMax
  BY <1>3, FS_EmptySet, LimitAssumption
<1>5. \A key \in Keys : LogIsExact(key)
  BY <1>2 DEF LimitInit, LogIsExact, CountedCalls
<1> QED BY <1>1, <1>2, <1>4, <1>5 DEF LimitInv

\* A step that makes no call keeps the past as it is.
LEMMA PastKept ==
  ASSUME LimitInv, UNCHANGED calls
  PROVE  /\ \A n \in 1..Len(calls') : Admitted(n)'
         /\ \A key : CountedCalls(key)' = CountedCalls(key)
<1>1. \A n \in 1..Len(calls) : Admitted(n)'
  BY AdmittedKept DEF LimitInv
<1> QED BY <1>1 DEF CountedCalls, Counts

\* As time passes, fewer calls count.
LEMMA FewerCount ==
  ASSUME LimitTypes, LimitTypes', UNCHANGED calls, limitClock <= limitClock', NEW key \in Keys
  PROVE  Cardinality(CountedNow(key)') <= Cardinality(CountedNow(key))
<1>1. CountedNow(key)' \subseteq CountedNow(key)
  <2>1. ASSUME NEW n \in CountedNow(key)' PROVE n \in CountedNow(key)
    <3>1. n \in 1..Len(calls) /\ calls[n].at \in Nat /\ WindowOf(key) \in Nat /\ Len(calls) \in Nat
      BY CallTimes, LimitsAndWindows DEF CountedNow, Counted
    <3> QED BY <3>1 DEF CountedNow, Counted, LimitTypes
  <2> QED BY <2>1
<1>2. IsFiniteSet(CountedNow(key))
  BY CountedIsFinite DEF CountedNow, LimitTypes
<1> QED BY <1>1, <1>2, FS_Subset

LEMMA PruneInv == ASSUME LimitInv, PruneExpiredLogs PROVE LimitInv'
<1>1. LimitTypes'
  BY DEF LimitInv, LimitTypes, PruneExpiredLogs, InWindow
<1>2. ASSUME NEW key \in Keys PROVE LogIsExact(key)'
  <2>1. LogIsExact(key) /\ CountedCalls(key)' = CountedCalls(key)
    BY PastKept DEF LimitInv, PruneExpiredLogs
  <2>2. logs'[key] = InWindow(logs[key], PruneWindow(key))
    BY DEF PruneExpiredLogs
  <2>3. keyWindow'[key] = IF logs'[key] = {} THEN 0 ELSE keyWindow[key]
    BY DEF PruneExpiredLogs
  <2>4. WindowOf(key) \in Nat \ {0}
    BY LimitsAndWindows
  <2>5. CASE logs[key] = {}
    <3>1. logs'[key] = {}
      BY <2>2, <2>5 DEF InWindow
    <3> QED BY <2>1, <2>3, <2>5, <3>1 DEF LogIsExact, PruneExpiredLogs
  <2>6. CASE logs[key] # {}
    <3>1. PruneWindow(key) = WindowOf(key)
      BY <2>1, <2>4, <2>6 DEF LogIsExact, PruneWindow
    <3> QED BY <2>1, <2>2, <2>3, <2>6, <3>1 DEF LogIsExact, PruneExpiredLogs, InWindow
  <2> QED BY <2>5, <2>6
<1>3. Cardinality(CountedNow(GlobalKey))' = Cardinality(CountedNow(GlobalKey))
  BY DEF PruneExpiredLogs, CountedNow, Counted
<1> QED BY <1>1, <1>2, <1>3, PastKept DEF LimitInv, PruneExpiredLogs

LEMMA DestroyInv == ASSUME LimitInv, DestroyLimiter PROVE LimitInv'
<1>1. LimitTypes'
  BY DEF LimitInv, LimitTypes, DestroyLimiter
<1> QED BY <1>1, PastKept DEF LimitInv, DestroyLimiter

LEMMA LimitTickInv == ASSUME LimitInv, LimitTick PROVE LimitInv'
<1>1. LimitTypes'
  BY DEF LimitInv, LimitTypes, LimitTick
<1>2. ASSUME NEW key \in Keys, LogIsExact(key) PROVE LogIsExact(key)'
  <2>1. CountedCalls(key)' = CountedCalls(key)
    BY PastKept DEF LimitTick
  <2>2. WindowOf(key) \in Nat /\ \A n \in CountedCalls(key) : calls[n].at \in Nat
    BY LimitsAndWindows, CallTimes DEF LimitInv, CountedCalls
  <2> QED BY <1>2, <2>1, <2>2 DEF LogIsExact, LimitTick, LimitInv, LimitTypes
<1>3. GlobalKey \in Keys
  BY DEF Keys
<1>4. ~limiterDown => Cardinality(CountedNow(GlobalKey)') <= GlobalMax
  <2>1. Cardinality(CountedNow(GlobalKey)') <= Cardinality(CountedNow(GlobalKey))
    BY <1>1, <1>3, FewerCount DEF LimitInv, LimitTick, LimitTypes
  <2>2. Cardinality(CountedNow(GlobalKey)') \in Nat /\ Cardinality(CountedNow(GlobalKey)) \in Nat
    <3>1. Cardinality(CountedNow(GlobalKey)) \in Nat
      BY CountedIsFinite DEF CountedNow, LimitInv, LimitTypes
    <3>2. \A t : Counted(GlobalKey, Len(calls) + 1, t)' = Counted(GlobalKey, Len(calls) + 1, t)
      BY DEF Counted, LimitTick
    <3>3. \A t : Cardinality(Counted(GlobalKey, Len(calls) + 1, t)) \in Nat
      BY CountedIsFinite DEF LimitInv, LimitTypes
    <3>4. CountedNow(GlobalKey)' = Counted(GlobalKey, Len(calls) + 1, limitClock')
      BY DEF CountedNow, Counted, LimitTick
    <3> QED BY <3>1, <3>3, <3>4
  <2> QED BY <2>1, <2>2, LimitAssumption DEF LimitInv
<1> QED BY <1>1, <1>2, <1>4, PastKept DEF LimitInv, LimitTick

LEMMA LimitStutterInv == ASSUME LimitInv, UNCHANGED limitVars PROVE LimitInv'
  BY PastKept DEF limitVars, LimitInv, LimitTypes, LogIsExact, CountedNow, Counted

\* A call is let through if its limits have room, and counts where it was checked
\* and let through.
LEMMA CallToolInv ==
  ASSUME LimitInv, NEW s \in CallSessions \cup {NoCallSession}, CallTool(s)
  PROVE  LimitInv'
<1> DEFINE room == HasRoom(GlobalKey)
           sessionRoom == s # NoCallSession => HasRoom(s)
           Passes(key) == room /\ (key # GlobalKey => s = key /\ sessionRoom)
<1>1. PICK r \in Admissions :
        /\ r = [session |-> s, at |-> limitClock, down |-> limiterDown,
                outcome |-> IF limiterDown \/ ~room THEN "global"
                            ELSE IF sessionRoom THEN "dispatched" ELSE "session"]
        /\ calls' = Append(calls, r)
  <2>1. PICK o \in {"global", "session", "dispatched"} :
          o = IF limiterDown \/ ~room THEN "global"
              ELSE IF sessionRoom THEN "dispatched" ELSE "session"
    OBVIOUS
  <2>2. [session |-> s, at |-> limitClock, outcome |-> o, down |-> limiterDown] \in Admissions
    BY DEF Admissions, LimitInv, LimitTypes
  <2>3. calls' = Append(calls, [session |-> s, at |-> limitClock, outcome |-> o, down |-> limiterDown])
    BY <2>1 DEF CallTool
  <2> QED BY <2>1, <2>2, <2>3
<1>2. PICK n, now : n = Len(calls) + 1 /\ now = limitClock
  OBVIOUS
<1>3. /\ LimitTypes /\ Len(calls) \in Nat /\ n \in Nat /\ now \in Nat
      /\ Len(calls') = n /\ calls'[n] = r
      /\ \A m \in 1..Len(calls) : calls'[m] = calls[m]
      /\ UNCHANGED <<limiterDown, limitClock>>
  BY <1>1, <1>2, CallTimes DEF CallTool, LimitInv, LimitTypes
<1>4. ASSUME ~limiterDown, NEW key \in Keys
      PROVE  \/ /\ logs'[key] = logs[key] /\ keyWindow'[key] = keyWindow[key] /\ ~Passes(key)
             \/ /\ keyWindow'[key] = WindowOf(key)
                /\ logs'[key] = InWindow(logs[key], WindowOf(key)) \cup (IF Passes(key) THEN {n} ELSE {})
  <2>1. CASE key = GlobalKey
    BY <1>2, <1>4, <2>1 DEF CallTool, Checked
  <2>2. CASE key # GlobalKey /\ ~(s = key /\ room)
    BY <1>4, <2>2, LimitAssumption DEF CallTool, Keys
  <2>3. CASE key # GlobalKey /\ s = key /\ room
    BY <1>2, <1>4, <2>3, LimitAssumption DEF CallTool, Checked, Keys
  <2> QED BY <2>1, <2>2, <2>3
<1>5. LimitTypes'
  <2>1. calls' \in Seq(Admissions)
    BY <1>1, <1>3 DEF LimitTypes
  <2>2. \A key \in Keys : Checked(key) \in SUBSET Nat /\ WindowOf(key) \in Nat
    BY <1>2, <1>3, LimitsAndWindows DEF Checked, InWindow, LimitTypes
  <2>3. logs' \in [Keys -> SUBSET Nat] /\ keyWindow' \in [Keys -> Nat]
    BY <1>3, <2>2 DEF CallTool, LimitTypes
  <2> QED BY <1>3, <2>1, <2>3 DEF LimitTypes
<1>6. ASSUME ~limiterDown, NEW key \in Keys
      PROVE  InWindow(logs[key], WindowOf(key)) = CountedNow(key)
  BY <1>6, WindowIsCounted DEF LimitInv
<1>7. ASSUME NEW key PROVE Counted(key, n, now)' = CountedNow(key)
  <2>1. Counted(key, n, now)' = Counted(key, n, now)
    BY <1>1, <1>2, <1>3, CountedKept
  <2> QED BY <1>2, <2>1 DEF CountedNow, Counted
<1>8. ASSUME ~limiterDown, NEW key \in Keys PROVE IsFullFor(key, n, now)' <=> ~HasRoom(key)
  <2>1. Cardinality(CountedNow(key)) \in Nat /\ MaxOf(key) \in Nat
    BY <1>3, CountedIsFinite, LimitsAndWindows DEF CountedNow
  <2>2. HasRoom(key) <=> Cardinality(CountedNow(key)) < MaxOf(key)
    BY <1>6, <1>8 DEF HasRoom
  <2>3. IsFullFor(key, n, now)' <=> Cardinality(CountedNow(key)) >= MaxOf(key)
    BY <1>7 DEF IsFullFor, MaxOf
  <2> QED BY <2>1, <2>2, <2>3
<1>9. Admitted(n)'
  <2>1. r.at = now /\ r.session = s /\ r.down = limiterDown
        /\ r.outcome = IF limiterDown \/ ~room THEN "global"
                       ELSE IF sessionRoom THEN "dispatched" ELSE "session"
    BY <1>1, <1>2
  <2>2. CASE limiterDown
    BY <1>3, <2>1, <2>2 DEF Admitted
  <2>3. CASE ~limiterDown
    <3>1. IsFullFor(GlobalKey, n, now)' <=> ~room
      BY <1>8, <2>3 DEF Keys
    <3>2. s # NoCallSession => (IsFullFor(s, n, now)' <=> ~HasRoom(s))
      BY <1>8, <2>3 DEF Keys
    <3> HIDE DEF room, sessionRoom
    <3> QED BY <1>3, <2>1, <2>3, <3>1, <3>2 DEF Admitted, sessionRoom
  <2> QED BY <2>2, <2>3
<1>10. ASSUME ~limiterDown, NEW key \in Keys PROVE Counts(key, r) <=> Passes(key)
  <2>1. r.session = s /\ r.outcome = IF ~room THEN "global"
                                     ELSE IF sessionRoom THEN "dispatched" ELSE "session"
    BY <1>1, <1>10
  <2> QED BY <2>1 DEF Counts
<1> HIDE DEF room, sessionRoom, Passes
<1>11. ASSUME NEW key
       PROVE  CountedCalls(key)' = CountedCalls(key) \cup (IF Counts(key, r) THEN {n} ELSE {})
  BY <1>2, <1>3 DEF CountedCalls, Counts
<1>12. ASSUME ~limiterDown, NEW key \in Keys PROVE LogIsExact(key)'
  <2>1. LogIsExact(key)
    BY <1>12 DEF LimitInv
  <2>2. CountedCalls(key)' = CountedCalls(key) \cup (IF Passes(key) THEN {n} ELSE {})
    BY <1>10, <1>11, <1>12
  <2>3. \A m \in CountedCalls(key) : calls'[m].at = calls[m].at
    BY <1>3 DEF CountedCalls
  <2> QED BY <1>3, <1>4, <1>12, <2>1, <2>2, <2>3 DEF LogIsExact, InWindow
<1>13. ASSUME ~limiterDown PROVE Cardinality(CountedNow(GlobalKey)') <= GlobalMax
  <2>1. CountedNow(GlobalKey)' = CountedNow(GlobalKey) \cup (IF Counts(GlobalKey, r) THEN {n} ELSE {})
    <3>1. r.at = now /\ GlobalWindow \in Nat \ {0}
      BY <1>1, <1>2, LimitAssumption
    <3>2. CountedNow(GlobalKey)' = {m \in 1..n : calls'[m].at + GlobalWindow > now /\ Counts(GlobalKey, calls'[m])}
      BY <1>2, <1>3 DEF CountedNow, Counted, Counts, WindowOf
    <3>3. CountedNow(GlobalKey) = {m \in 1..n - 1 : calls[m].at + GlobalWindow > now /\ Counts(GlobalKey, calls[m])}
      BY <1>2, <1>3 DEF CountedNow, Counted, Counts, WindowOf
    <3>4. \A m \in 1..n : m \in 1..n - 1 \/ m = n
      BY <1>3
    <3> QED BY <1>2, <1>3, <3>1, <3>2, <3>3, <3>4
  <2>2. IsFiniteSet(CountedNow(GlobalKey)) /\ Cardinality(CountedNow(GlobalKey)) \in Nat
        /\ n \notin CountedNow(GlobalKey)
    <3>1. IsFiniteSet(CountedNow(GlobalKey)) /\ Cardinality(CountedNow(GlobalKey)) \in Nat
      BY <1>3, CountedIsFinite DEF CountedNow
    <3> QED BY <1>2, <1>3, <3>1 DEF CountedNow, Counted
  <2>3. Passes(GlobalKey) => Cardinality(CountedNow(GlobalKey)) < GlobalMax
    BY <1>6, <1>13 DEF Passes, room, HasRoom, MaxOf, Keys
  <2>4. Cardinality(CountedNow(GlobalKey)) <= GlobalMax
    BY <1>13 DEF LimitInv
  <2>5. Counts(GlobalKey, r) <=> Passes(GlobalKey)
    BY <1>10, <1>13 DEF Keys
  <2>6. CASE Passes(GlobalKey)
    <3>1. Cardinality(CountedNow(GlobalKey)') = Cardinality(CountedNow(GlobalKey)) + 1
      BY <2>1, <2>2, <2>5, <2>6, FS_AddElement
    <3> QED BY <2>2, <2>3, <2>6, <3>1, LimitAssumption
  <2>7. CASE ~Passes(GlobalKey)
    BY <2>1, <2>4, <2>5, <2>7
  <2> QED BY <2>6, <2>7
<1>14. \A m \in 1..Len(calls) : Admitted(m)'
  BY <1>1, <1>3, AdmittedKept DEF LimitInv
<1>15. \A m \in 1..Len(calls') : Admitted(m)'
  BY <1>2, <1>3, <1>9, <1>14
<1> QED BY <1>3, <1>5, <1>12, <1>13, <1>15 DEF LimitInv

\* Over all sequences of checks and prunes, for any limits and windows, a call is
\* let through exactly if fewer calls than the limit lie in the window that ends
\* with it (check and pruneExpiredLogs in rate-limiter.ts, tools/call in mcp.ts).
THEOREM LimitsCorrect == LimitSpec => []LimitsAreExact
<1>1. LimitInv /\ [LimitNext]_limitVars => LimitInv'
  BY CallToolInv, PruneInv, DestroyInv, LimitTickInv, LimitStutterInv DEF LimitNext
<1>2. LimitInv => LimitsAreExact
  <2> SUFFICES ASSUME LimitInv PROVE LimitsAreExact
    OBVIOUS
  <2>1. ASSUME ~limiterDown
        PROVE  HeaderRemaining + Cardinality(Counted(GlobalKey, Len(calls) + 1, limitClock)) = GlobalMax
    <3>1. InWindow(logs[GlobalKey], GlobalWindow) = CountedNow(GlobalKey)
      BY <2>1, WindowIsCounted DEF LimitInv, Keys, WindowOf
    <3>2. Cardinality(CountedNow(GlobalKey)) \in Nat
      BY CountedIsFinite, CallTimes DEF CountedNow, LimitInv
    <3> QED BY <2>1, <3>1, <3>2, LimitAssumption DEF HeaderRemaining, LimitInv, CountedNow
  <2> QED BY <2>1 DEF LimitsAreExact, LimitInv, Admitted
<1> QED BY InitLimitInv, <1>1, <1>2, PTL DEF LimitSpec

----------------------------------------------------------------------------
(* Policy decisions *)

HIDE HttpAssumption

(* Policy decisions *)

Below == {p \in Nat \X Nat : p[1] < p[2]}

\* Induction up to n: a set that has 0 and the successors of its elements.
LEMMA UpTo ==
  ASSUME NEW n \in Nat, NEW S, 0 \in S, \A k \in 0..n : k < n /\ k \in S => k + 1 \in S
  PROVE  0..n \subseteq S
<1> SUFFICES ASSUME ~(0..n \subseteq S) PROVE FALSE
  OBVIOUS
<1>1. IsWellFoundedOn(Below, Nat)
  BY NatLessThanWellFounded DEF OpToRel, Below
<1> DEFINE T == (0..n) \ S
<1>2. T \subseteq Nat /\ T # {}
  OBVIOUS
<1>3. PICK t \in T : \A u \in T : <<u, t>> \notin Below
  BY <1>1, <1>2, WFMin
<1>4. t \in 0..n /\ t \notin S /\ t # 0
  OBVIOUS
<1>5. t - 1 \in Nat /\ t \in Nat /\ t - 1 < t
  BY <1>4
<1>6. <<t - 1, t>> \in Below
  BY <1>5 DEF Below
<1>7. t - 1 \in S
  BY <1>3, <1>4, <1>5, <1>6
<1>8. t - 1 \in 0..n /\ t - 1 < n /\ (t - 1) + 1 = t
  BY <1>4, <1>5
<1> QED
  BY <1>4, <1>7, <1>8

\* The places on the way along a path.
IsWay(w, path, n) == w = [k \in 0..n |-> IF k = 0 THEN <<>> ELSE Follow(w[k - 1], path[k])]

LEMMA WayExists ==
  ASSUME NEW path, NEW n \in Nat
  PROVE  \E w : IsWay(w, path, n)
<1> DEFINE S == {k \in 0..n : \E w : IsWay(w, path, k)}
<1>1. 0 \in S
  <2>1. IsWay([k \in 0..0 |-> <<>>], path, 0)
    BY DEF IsWay
  <2> QED
    BY <2>1
<1>2. ASSUME NEW k \in 0..n, k < n, k \in S PROVE k + 1 \in S
  <2>1. PICK w : IsWay(w, path, k)
    BY <1>2
  <2> DEFINE v == [m \in 0..k + 1 |-> IF m = k + 1 THEN Follow(w[k], path[k + 1]) ELSE w[m]]
  <2>2. ASSUME NEW m \in 0..k + 1
        PROVE  v[m] = IF m = 0 THEN <<>> ELSE Follow(v[m - 1], path[m])
    <3>1. CASE m = k + 1
      <4>1. m - 1 = k /\ m - 1 \in 0..k + 1 /\ m # 0 /\ m - 1 # k + 1
        BY <1>2, <3>1
      <4>2. v[m] = Follow(w[k], path[k + 1]) /\ v[m - 1] = w[k]
        BY <3>1, <4>1
      <4> QED
        BY <3>1, <4>1, <4>2
    <3>2. CASE m # k + 1
      <4>1. m \in 0..k /\ v[m] = w[m]
        BY <1>2, <3>2
      <4>2. w[m] = IF m = 0 THEN <<>> ELSE Follow(w[m - 1], path[m])
        BY <2>1, <4>1 DEF IsWay
      <4>3. m # 0 => m - 1 \in 0..k + 1 /\ m - 1 # k + 1
        BY <1>2, <4>1
      <4>4. m # 0 => v[m - 1] = w[m - 1]
        BY <4>3
      <4> QED
        BY <4>1, <4>2, <4>4
    <3> QED
      BY <3>1, <3>2
  <2>3. IsWay(v, path, k + 1)
    <3>1. v = [m \in 0..k + 1 |-> v[m]]
      OBVIOUS
    <3> HIDE DEF v
    <3> QED
      BY <2>2, <3>1 DEF IsWay
  <2>4. k + 1 \in 0..n
    BY <1>2
  <2> HIDE DEF v
  <2> QED
    BY <2>3, <2>4
<1>3. 0..n \subseteq S
  <2> HIDE DEF S
  <2> QED
    BY <1>1, <1>2, UpTo
<1>4. n \in S
  BY <1>3
<1> QED
  BY <1>4

\* normalizeRemotePosixPath computes what Follow says, segment by segment.
LEMMA WayLeads ==
  ASSUME NEW path, Len(path) \in Nat
  PROVE  \E w : IsWay(w, path, Len(path)) /\ Normalized(path) = w[Len(path)]
<1> DEFINE after == CHOOSE w : w = [k \in 0..Len(path) |-> IF k = 0 THEN <<>> ELSE Follow(w[k - 1], path[k])]
<1>1. \E w : w = [k \in 0..Len(path) |-> IF k = 0 THEN <<>> ELSE Follow(w[k - 1], path[k])]
  BY WayExists DEF IsWay
<1>2. IsWay(after, path, Len(path))
  BY <1>1 DEF IsWay
<1>3. Normalized(path) = after[Len(path)]
  BY DEF Normalized
<1> QED
  BY <1>2, <1>3

LEMMA NamesFinite ==
  ASSUME NEW path, NEW i \in Nat, NEW j \in Nat
  PROVE  /\ IsFiniteSet({m \in i..j : path[m] # ".."}) /\ IsFiniteSet({m \in i..j : path[m] = ".."})
         /\ Cardinality({m \in i..j : path[m] # ".."}) \in Nat
         /\ Cardinality({m \in i..j : path[m] = ".."}) \in Nat
<1>1. i \in Int /\ j \in Int
  OBVIOUS
<1>2. IsFiniteSet(i..j)
  BY <1>1, FS_Interval
<1>3. IsFiniteSet({m \in i..j : path[m] # ".."}) /\ IsFiniteSet({m \in i..j : path[m] = ".."})
  BY <1>2, FS_Subset
<1> QED
  BY <1>3, FS_CardinalityType

LEMMA RiseAtOnce ==
  ASSUME NEW path, NEW i \in Nat
  PROVE  Rise(path, i + 1, i) = 0
<1>1. {m \in i + 1..i : path[m] # ".."} = {} /\ {m \in i + 1..i : path[m] = ".."} = {}
  OBVIOUS
<1>2. Rise(path, i + 1, i) = Cardinality({}) - Cardinality({})
  BY <1>1 DEF Rise
<1>3. Cardinality({}) = 0
  BY FS_EmptySet
<1> QED
  BY <1>2, <1>3

LEMMA RiseStep ==
  ASSUME NEW path, NEW i \in Nat, NEW n \in Nat, i <= n + 1
  PROVE  /\ Rise(path, i, n) \in Int
         /\ path[n + 1] # ".." => Rise(path, i, n + 1) = Rise(path, i, n) + 1
         /\ path[n + 1] = ".." => Rise(path, i, n + 1) = Rise(path, i, n) - 1
<1> DEFINE names(j) == {m \in i..j : path[m] # ".."}
           ups(j) == {m \in i..j : path[m] = ".."}
<1>1. /\ IsFiniteSet(names(n)) /\ IsFiniteSet(ups(n))
      /\ Cardinality(names(n)) \in Nat /\ Cardinality(ups(n)) \in Nat
  BY NamesFinite
<1>2. n + 1 \notin names(n) /\ n + 1 \notin ups(n)
  OBVIOUS
<1>3. i..n + 1 = (i..n) \cup {n + 1}
  OBVIOUS
<1>4. /\ Rise(path, i, n) = Cardinality(names(n)) - Cardinality(ups(n))
      /\ Rise(path, i, n + 1) = Cardinality(names(n + 1)) - Cardinality(ups(n + 1))
  BY DEF Rise
<1>5. CASE path[n + 1] # ".."
  <2>1. names(n + 1) = names(n) \cup {n + 1} /\ ups(n + 1) = ups(n)
    BY <1>3, <1>5
  <2> HIDE DEF names, ups
  <2>2. Cardinality(names(n + 1)) = Cardinality(names(n)) + 1
    BY <1>1, <1>2, <2>1, FS_AddElement
  <2> QED
    BY <1>1, <1>4, <1>5, <2>1, <2>2
<1>6. CASE path[n + 1] = ".."
  <2>1. ups(n + 1) = ups(n) \cup {n + 1} /\ names(n + 1) = names(n)
    BY <1>3, <1>6
  <2> HIDE DEF names, ups
  <2>2. Cardinality(ups(n + 1)) = Cardinality(ups(n)) + 1
    BY <1>1, <1>2, <2>1, FS_AddElement
  <2> QED
    BY <1>1, <1>4, <1>6, <2>1, <2>2
<1> QED
  BY <1>5, <1>6

\* A name that stays so far, and where the names of a place come from: they
\* are all that stay, and as many rise above the k-th as there are after it.
StaysTo(path, i, n) == path[i] # ".." /\ \A j \in i..n : Rise(path, i + 1, j) >= 0

Origins(path, n, place, from) ==
  /\ from \in Seq(1..n) /\ place \in Seq(Segments) /\ Len(from) = Len(place)
  /\ \A k \in 1..Len(from) :
       /\ path[from[k]] = place[k] /\ StaysTo(path, from[k], n)
       /\ Rise(path, from[k] + 1, n) = Len(from) - k
       /\ \A m \in 1..Len(from) : m < k => from[m] < from[k]
  /\ \A i \in 1..n : StaysTo(path, i, n) => \E k \in 1..Len(from) : from[k] = i

LEMMA NameFollows ==
  ASSUME NEW path, NEW n \in Nat, path[n + 1] \in Segments,
         NEW place, NEW from, Origins(path, n, place, from)
  PROVE  Origins(path, n + 1, Follow(place, path[n + 1]), Append(from, n + 1))
<1>1. path[n + 1] # ".."
  BY PolicyAssumption
<1> DEFINE to == Append(place, path[n + 1])
           new == Append(from, n + 1)
<1>2. Follow(place, path[n + 1]) = to
  BY <1>1 DEF Follow
<1>3. from \in Seq(1..n) /\ place \in Seq(Segments) /\ Len(from) = Len(place) /\ Len(from) \in Nat
  BY DEF Origins
<1>4. /\ to \in Seq(Segments) /\ Len(to) = Len(place) + 1
      /\ \A k \in 1..Len(place) : to[k] = place[k]
      /\ to[Len(place) + 1] = path[n + 1]
  BY <1>3
<1>5. /\ from \in Seq(1..n + 1)
      /\ n + 1 \in 1..n + 1
  BY <1>3
<1>6. /\ new \in Seq(1..n + 1) /\ Len(new) = Len(from) + 1
      /\ \A k \in 1..Len(from) : new[k] = from[k] /\ from[k] \in 1..n
      /\ new[Len(from) + 1] = n + 1
  BY <1>3, <1>5
<1> HIDE DEF to, new
<1>7. ASSUME NEW i \in 1..n
      PROVE  /\ Rise(path, i + 1, n) \in Int
             /\ Rise(path, i + 1, n + 1) = Rise(path, i + 1, n) + 1
             /\ StaysTo(path, i, n + 1) <=> StaysTo(path, i, n)
  <2>1. i + 1 \in Nat /\ i + 1 <= n + 1
    OBVIOUS
  <2>2. Rise(path, i + 1, n) \in Int /\ Rise(path, i + 1, n + 1) = Rise(path, i + 1, n) + 1
    BY <1>1, <2>1, RiseStep
  <2>3. i..n + 1 = (i..n) \cup {n + 1} /\ n \in i..n
    OBVIOUS
  <2> QED
    BY <2>2, <2>3 DEF StaysTo
<1>8. Rise(path, (n + 1) + 1, n + 1) = 0 /\ StaysTo(path, n + 1, n + 1)
  <2>1. Rise(path, (n + 1) + 1, n + 1) = 0
    BY RiseAtOnce
  <2>2. (n + 1)..(n + 1) = {n + 1}
    OBVIOUS
  <2> QED
    BY <1>1, <2>1, <2>2 DEF StaysTo
<1>9. ASSUME NEW k \in 1..Len(new)
      PROVE  /\ path[new[k]] = to[k] /\ StaysTo(path, new[k], n + 1)
             /\ Rise(path, new[k] + 1, n + 1) = Len(new) - k
             /\ \A m \in 1..Len(new) : m < k => new[m] < new[k]
  <2>1. CASE k \in 1..Len(from)
    <3>1. new[k] = from[k] /\ from[k] \in 1..n /\ to[k] = place[k]
      BY <1>3, <1>4, <1>6, <2>1
    <3>2. /\ path[from[k]] = place[k] /\ StaysTo(path, from[k], n)
          /\ Rise(path, from[k] + 1, n) = Len(from) - k
          /\ \A m \in 1..Len(from) : m < k => from[m] < from[k]
      BY <2>1 DEF Origins
    <3>3. StaysTo(path, from[k], n + 1) /\ Rise(path, from[k] + 1, n + 1) = Len(new) - k
      <4>1. StaysTo(path, from[k], n + 1)
        BY <1>7, <3>1, <3>2
      <4>2. /\ Rise(path, from[k] + 1, n + 1) = Rise(path, from[k] + 1, n) + 1
            /\ k \in Nat
        BY <1>7, <3>1
      <4> QED
        BY <1>3, <1>6, <3>2, <4>1, <4>2
    <3>4. \A m \in 1..Len(new) : m < k => m \in 1..Len(from) /\ new[m] = from[m]
      BY <1>3, <1>6, <2>1
    <3> QED
      BY <3>1, <3>2, <3>3, <3>4
  <2>2. CASE k = Len(from) + 1
    <3>1. new[k] = n + 1 /\ to[k] = path[n + 1]
      BY <1>3, <1>4, <1>6, <2>2
    <3>2. ASSUME NEW m \in 1..Len(new), m < k PROVE new[m] < n + 1
      <4>1. m \in 1..Len(from)
        BY <1>3, <1>6, <2>2, <3>2
      <4>2. new[m] \in 1..n
        BY <1>6, <4>1
      <4> QED
        BY <4>2
    <3>3. Len(new) - k = 0
      BY <1>3, <1>6, <2>2
    <3> QED
      BY <1>8, <3>1, <3>2, <3>3
  <2> QED
    BY <1>3, <1>6, <2>1, <2>2
<1>10. ASSUME NEW i \in 1..n + 1, StaysTo(path, i, n + 1)
       PROVE  \E k \in 1..Len(new) : new[k] = i
  <2>1. CASE i = n + 1
    <3>1. Len(from) + 1 \in 1..Len(new)
      BY <1>3, <1>6
    <3> QED
      BY <1>6, <2>1, <3>1
  <2>2. CASE i \in 1..n
    <3>1. PICK k \in 1..Len(from) : from[k] = i
      BY <1>7, <1>10, <2>2 DEF Origins
    <3>2. k \in 1..Len(new) /\ new[k] = i
      BY <1>3, <1>6, <3>1
    <3> QED
      BY <3>2
  <2> QED
    BY <2>1, <2>2
<1>11. Len(new) = Len(to)
  BY <1>3, <1>4, <1>6
<1>12. Origins(path, n + 1, to, new)
  BY <1>4, <1>6, <1>9, <1>10, <1>11 DEF Origins
<1> QED
  BY <1>2, <1>12 DEF new

\* A sequence without its last element.
LEMMA ButLast ==
  ASSUME NEW S, NEW q \in Seq(S)
  PROVE  /\ SubSeq(q, 1, Len(q) - 1) \in Seq(S)
         /\ Len(q) \in Nat
         /\ Len(SubSeq(q, 1, Len(q) - 1)) = IF Len(q) = 0 THEN 0 ELSE Len(q) - 1
         /\ \A k \in 1..Len(SubSeq(q, 1, Len(q) - 1)) : SubSeq(q, 1, Len(q) - 1)[k] = q[k]
<1>1. Len(q) \in Nat
  OBVIOUS
<1>2. CASE Len(q) = 0
  <2>1. SubSeq(q, 1, Len(q) - 1) = <<>>
    BY <1>2
  <2> QED
    BY <1>2, <2>1
<1>3. CASE Len(q) # 0
  <2>1. PICK n \in Nat : n = Len(q) - 1 /\ n <= Len(q)
    <3>1. \A m \in Nat : m # 0 => m - 1 \in Nat /\ m - 1 <= m
      OBVIOUS
    <3>2. Len(q) - 1 \in Nat /\ Len(q) - 1 <= Len(q)
      BY <1>1, <1>3, <3>1
    <3> QED
      BY <3>2, Zenon
  <2>2. /\ SubSeq(q, 1, n) \in Seq(S) /\ Len(SubSeq(q, 1, n)) = n
        /\ \A k \in 1..n : SubSeq(q, 1, n)[k] = q[k]
    BY <1>1, <2>1
  <2> QED
    BY <1>1, <1>3, <2>1, <2>2
<1> QED
  BY <1>2, <1>3

LEMMA UpFollows ==
  ASSUME NEW path, NEW n \in Nat, path[n + 1] = "..",
         NEW place, NEW from, Origins(path, n, place, from)
  PROVE  Origins(path, n + 1, Follow(place, path[n + 1]), SubSeq(from, 1, Len(from) - 1))
<1> DEFINE to == SubSeq(place, 1, Len(place) - 1)
           new == SubSeq(from, 1, Len(from) - 1)
<1>2. Follow(place, path[n + 1]) = to
  BY DEF Follow
<1>3. from \in Seq(1..n) /\ place \in Seq(Segments) /\ Len(from) = Len(place) /\ Len(from) \in Nat
  BY DEF Origins
<1>4. to \in Seq(Segments) /\ Len(to) = (IF Len(place) = 0 THEN 0 ELSE Len(place) - 1)
      /\ \A k \in 1..Len(to) : to[k] = place[k]
  BY <1>3, ButLast
<1>5. from \in Seq(1..n + 1)
  BY <1>3
<1>6. new \in Seq(1..n + 1) /\ Len(new) = (IF Len(from) = 0 THEN 0 ELSE Len(from) - 1)
      /\ \A k \in 1..Len(new) : new[k] = from[k]
  BY <1>5, ButLast
<1> HIDE DEF to, new
<1>7. ASSUME NEW i \in 1..n
      PROVE  /\ Rise(path, i + 1, n) \in Int
             /\ Rise(path, i + 1, n + 1) = Rise(path, i + 1, n) - 1
             /\ StaysTo(path, i, n + 1) <=> StaysTo(path, i, n) /\ Rise(path, i + 1, n) > 0
  <2>1. i + 1 \in Nat /\ i + 1 <= n + 1
    OBVIOUS
  <2>2. Rise(path, i + 1, n) \in Int /\ Rise(path, i + 1, n + 1) = Rise(path, i + 1, n) - 1
    BY <2>1, RiseStep
  <2>3. i..n + 1 = (i..n) \cup {n + 1}
    OBVIOUS
  <2>4. Rise(path, i + 1, n + 1) >= 0 <=> Rise(path, i + 1, n) > 0
    BY <2>2
  <2> QED
    BY <2>2, <2>3, <2>4 DEF StaysTo
<1>8. ASSUME NEW k \in 1..Len(new)
      PROVE  /\ path[new[k]] = to[k] /\ StaysTo(path, new[k], n + 1)
             /\ Rise(path, new[k] + 1, n + 1) = Len(new) - k
             /\ \A m \in 1..Len(new) : m < k => new[m] < new[k]
  <2>1. /\ k \in 1..Len(from) /\ k < Len(from) /\ Len(new) = Len(from) - 1 /\ k \in Nat
        /\ k \in 1..Len(to)
    BY <1>3, <1>4, <1>6
  <2>2. new[k] = from[k] /\ from[k] \in 1..n /\ to[k] = place[k]
    <3>1. from[k] \in 1..n
      BY <1>3, <2>1
    <3> QED
      BY <1>4, <1>6, <2>1, <3>1
  <2>3. /\ path[from[k]] = place[k] /\ StaysTo(path, from[k], n)
        /\ Rise(path, from[k] + 1, n) = Len(from) - k
        /\ \A m \in 1..Len(from) : m < k => from[m] < from[k]
    BY <2>1 DEF Origins
  <2>4. StaysTo(path, from[k], n + 1) /\ Rise(path, from[k] + 1, n + 1) = Len(new) - k
    <3>1. Rise(path, from[k] + 1, n) > 0
      BY <1>3, <2>1, <2>3
    <3>2. StaysTo(path, from[k], n + 1)
      BY <1>7, <2>2, <2>3, <3>1
    <3>3. Rise(path, from[k] + 1, n + 1) = Rise(path, from[k] + 1, n) - 1
      BY <1>7, <2>2
    <3> QED
      BY <1>3, <2>1, <2>3, <3>2, <3>3
  <2>5. \A m \in 1..Len(new) : m \in 1..Len(from) /\ new[m] = from[m]
    <3>1. Len(new) \in Nat /\ Len(new) <= Len(from) /\ Len(from) \in Nat
      BY <1>3, <1>6
    <3>2. 1..Len(new) \subseteq 1..Len(from)
      BY <3>1
    <3> QED
      BY <1>6, <3>2
  <2> QED
    BY <2>2, <2>3, <2>4, <2>5
<1>9. ASSUME NEW i \in 1..n + 1, StaysTo(path, i, n + 1)
      PROVE  \E k \in 1..Len(new) : new[k] = i
  <2>1. path[i] # ".."
    BY <1>9 DEF StaysTo
  <2>2. i \in 1..n
    BY <2>1
  <2>3. StaysTo(path, i, n) /\ Rise(path, i + 1, n) > 0
    BY <1>7, <1>9, <2>2
  <2>4. PICK k \in 1..Len(from) : from[k] = i
    BY <2>2, <2>3 DEF Origins
  <2>5. Rise(path, from[k] + 1, n) = Len(from) - k
    BY DEF Origins
  <2>6. Len(from) - k > 0 /\ k \in Nat
    BY <2>3, <2>4, <2>5
  <2>7. k \in 1..Len(new)
    BY <1>3, <1>6, <2>6
  <2> QED
    BY <1>6, <2>4, <2>7
<1>10. Len(new) = Len(to)
  BY <1>3, <1>4, <1>6
<1>11. Origins(path, n + 1, to, new)
  BY <1>4, <1>6, <1>8, <1>9, <1>10 DEF Origins
<1> QED
  BY <1>2, <1>11 DEF new

\* The names of the place a path leads to are the names that stay.
LEMMA OriginsOfWay ==
  ASSUME NEW path \in Seq(Segments \cup {".."}), NEW w, IsWay(w, path, Len(path))
  PROVE  \E from : Origins(path, Len(path), w[Len(path)], from)
<1> DEFINE S == {n \in 0..Len(path) : \E from : Origins(path, n, w[n], from)}
<1>1. Len(path) \in Nat
  OBVIOUS
<1>2. \A k \in 0..Len(path) : w[k] = IF k = 0 THEN <<>> ELSE Follow(w[k - 1], path[k])
  BY DEF IsWay
<1>3. 0 \in S
  <2>1. w[0] = <<>>
    BY <1>1, <1>2
  <2>2. <<>> \in Seq(Segments) /\ <<>> \in Seq(1..0)
    OBVIOUS
  <2>3. Len(<<>>) = 0 /\ 1..0 = {}
    OBVIOUS
  <2>4. Origins(path, 0, <<>>, <<>>)
    BY <2>2, <2>3 DEF Origins
  <2> QED
    BY <1>1, <2>1, <2>4
<1>4. ASSUME NEW k \in 0..Len(path), k < Len(path), k \in S PROVE k + 1 \in S
  <2>1. PICK from : Origins(path, k, w[k], from)
    BY <1>4
  <2>2. k \in Nat /\ k + 1 \in 1..Len(path) /\ k + 1 \in 0..Len(path) /\ k + 1 # 0 /\ (k + 1) - 1 = k
    BY <1>1, <1>4
  <2>3. w[k + 1] = Follow(w[k], path[k + 1])
    BY <1>2, <2>2
  <2>4. path[k + 1] \in Segments \cup {".."}
    BY <2>2
  <2>5. \E new : Origins(path, k + 1, w[k + 1], new)
    <3>1. CASE path[k + 1] = ".."
      BY <2>1, <2>2, <2>3, <3>1, UpFollows
    <3>2. CASE path[k + 1] \in Segments
      BY <2>1, <2>2, <2>3, <3>2, NameFollows
    <3> QED
      BY <2>4, <3>1, <3>2
  <2> QED
    BY <2>2, <2>5
<1> HIDE DEF S
<1>5. 0..Len(path) \subseteq S
  BY <1>1, <1>3, <1>4, UpTo
<1>6. Len(path) \in S
  BY <1>1, <1>5
<1> QED
  BY <1>6 DEF S

\* Among the names that stay.
Rank(path, i, n) == Cardinality({j \in 1..i : StaysTo(path, j, n)})

\* The k-th name of a place is the k-th that stays.
LEMMA RankOfOrigin ==
  ASSUME NEW path, NEW n \in Nat, NEW place, NEW from, Origins(path, n, place, from),
         NEW k \in 1..Len(from)
  PROVE  Rank(path, from[k], n) = k
<1> DEFINE T == {j \in 1..from[k] : StaysTo(path, j, n)}
           f == [m \in 1..k |-> from[m]]
<1>1. /\ from \in Seq(1..n) /\ Len(from) \in Nat /\ k \in Nat
      /\ \A m \in 1..k : m \in 1..Len(from) /\ from[m] \in 1..n
      /\ from[k] \in 1..n
  BY DEF Origins
<1>2. \A a, b \in 1..Len(from) : a < b => from[a] < from[b]
  BY DEF Origins
<1>3. ASSUME NEW m \in 1..k PROVE from[m] \in T
  <2>1. m \in 1..Len(from) /\ from[m] \in 1..n /\ from[k] \in 1..n
    BY <1>1
  <2>2. m = k \/ from[m] < from[k]
    BY <1>1, <1>2, <2>1
  <2>3. StaysTo(path, from[m], n)
    BY <2>1 DEF Origins
  <2>4. from[m] \in 1..from[k]
    BY <2>1, <2>2
  <2> QED
    BY <2>3, <2>4
<1>4. ASSUME NEW j \in T PROVE \E m \in 1..k : from[m] = j
  <2>1. j \in 1..n /\ j <= from[k] /\ StaysTo(path, j, n)
    BY <1>1
  <2>2. PICK m \in 1..Len(from) : from[m] = j
    BY <2>1 DEF Origins
  <2>3. ~(k < m)
    BY <1>1, <1>2, <2>1, <2>2
  <2>4. m \in 1..k
    BY <1>1, <2>3
  <2> QED
    BY <2>2, <2>4
<1> HIDE DEF T
<1>5. f \in Bijection(1..k, T)
  <2>1. f \in [1..k -> T]
    BY <1>3
  <2>2. \A a, b \in 1..k : f[a] = f[b] => a = b
    <3> SUFFICES ASSUME NEW a \in 1..k, NEW b \in 1..k, from[a] = from[b] PROVE a = b
      OBVIOUS
    <3>1. a \in 1..Len(from) /\ b \in 1..Len(from) /\ from[a] \in 1..n
      BY <1>1
    <3>2. ~(a < b) /\ ~(b < a)
      BY <1>2, <3>1
    <3> QED
      BY <3>1, <3>2
  <2>3. \A j \in T : \E m \in 1..k : f[m] = j
    BY <1>4
  <2> QED
    BY <2>1, <2>2, <2>3, Zenon DEF Bijection, Injection, Surjection, IsInjective
<1>6. ExistsBijection(1..k, T)
  BY <1>5 DEF ExistsBijection
<1>7. IsFiniteSet(1..k) /\ Cardinality(1..k) = k
  <2>1. 1 \in Int /\ k \in Int /\ ~(1 > k)
    BY <1>1
  <2>2. IsFiniteSet(1..k) /\ Cardinality(1..k) = k - 1 + 1
    BY <2>1, FS_Interval
  <2> QED
    BY <1>1, <2>2
<1>8. Cardinality(T) = k
  BY <1>6, <1>7, FS_Bijection
<1> QED
  BY <1>8 DEF T, Rank

\* isPathUnder: the path leads below the prefix, wherever its ".." are.
LEMMA UnderMeansBelow ==
  ASSUME NEW path \in Seq(Segments \cup {".."}), NEW prefix \in Seq(Segments)
  PROVE  IsPathUnder(path, prefix) <=> LeadsBelow(path, prefix)
<1>1. Len(path) \in Nat /\ DOMAIN path = 1..Len(path)
  OBVIOUS
<1>2. PICK w : IsWay(w, path, Len(path)) /\ Normalized(path) = w[Len(path)]
  BY <1>1, WayLeads
<1>3. PICK place : place = Normalized(path)
  OBVIOUS
<1>4. PICK from : Origins(path, Len(path), place, from)
  BY <1>2, <1>3, OriginsOfWay
<1>5. /\ from \in Seq(1..Len(path)) /\ place \in Seq(Segments) /\ Len(from) = Len(place) /\ Len(from) \in Nat
      /\ Len(prefix) \in Nat /\ DOMAIN prefix = 1..Len(prefix)
  BY <1>4 DEF Origins
<1>6. \A i : Stays(path, i) <=> StaysTo(path, i, Len(path))
  BY DEF Stays, StaysTo
<1>7. \A k \in 1..Len(from) : /\ from[k] \in DOMAIN path /\ path[from[k]] = place[k] /\ Stays(path, from[k])
                              /\ Cardinality({j \in 1..from[k] : Stays(path, j)}) = k
  <2> TAKE k \in 1..Len(from)
  <2>1. from[k] \in 1..Len(path)
    BY <1>5
  <2>2. path[from[k]] = place[k] /\ StaysTo(path, from[k], Len(path))
    BY <1>4 DEF Origins
  <2>3. Rank(path, from[k], Len(path)) = k
    BY <1>1, <1>4, RankOfOrigin
  <2>4. {j \in 1..from[k] : Stays(path, j)} = {j \in 1..from[k] : StaysTo(path, j, Len(path))}
    BY <1>6
  <2> QED
    BY <1>1, <1>6, <2>1, <2>2, <2>3, <2>4 DEF Rank
<1>8. ASSUME NEW i \in DOMAIN path, Stays(path, i) PROVE \E k \in 1..Len(from) : from[k] = i
  BY <1>1, <1>4, <1>6, <1>8 DEF Origins
<1>9. IsPathUnder(path, prefix) <=>
        Len(prefix) <= Len(place) /\ \A k \in 1..Len(prefix) : prefix[k] = place[k]
  <2>1. IsPathUnder(path, prefix) <=>
          Len(prefix) <= Len(place) /\ SubSeq(prefix, 1, Len(prefix)) = SubSeq(place, 1, Len(prefix))
    BY <1>3 DEF IsPathUnder, IsPrefix
  <2>2. /\ SubSeq(prefix, 1, Len(prefix)) \in Seq(Segments) /\ Len(SubSeq(prefix, 1, Len(prefix))) = Len(prefix)
        /\ \A k \in 1..Len(prefix) : SubSeq(prefix, 1, Len(prefix))[k] = prefix[k]
    BY <1>5
  <2>3. ASSUME Len(prefix) <= Len(place)
        PROVE  /\ SubSeq(place, 1, Len(prefix)) \in Seq(Segments) /\ Len(SubSeq(place, 1, Len(prefix))) = Len(prefix)
               /\ \A k \in 1..Len(prefix) : SubSeq(place, 1, Len(prefix))[k] = place[k]
    BY <1>5, <2>3
  <2>4. \A a, b \in Seq(Segments) : Len(a) = Len(b) => (a = b <=> \A k \in 1..Len(a) : a[k] = b[k])
    OBVIOUS
  <2>5. Len(prefix) <= Len(place) =>
          (SubSeq(prefix, 1, Len(prefix)) = SubSeq(place, 1, Len(prefix))
             <=> \A k \in 1..Len(prefix) : prefix[k] = place[k])
    BY <2>2, <2>3, <2>4
  <2> QED
    BY <2>1, <2>5
<1>10. ASSUME Len(prefix) <= Len(place), \A k \in 1..Len(prefix) : prefix[k] = place[k]
       PROVE  LeadsBelow(path, prefix)
  <2>1. \A k \in 1..Len(prefix) : k \in 1..Len(from)
    BY <1>5, <1>10
  <2> QED
    BY <1>5, <1>7, <1>10, <2>1 DEF LeadsBelow
<1>11. ASSUME LeadsBelow(path, prefix)
       PROVE  Len(prefix) <= Len(place) /\ \A k \in 1..Len(prefix) : prefix[k] = place[k]
  <2>1. ASSUME NEW k \in 1..Len(prefix) PROVE k \in 1..Len(from) /\ prefix[k] = place[k]
    <3>1. PICK i \in DOMAIN path :
            Stays(path, i) /\ path[i] = prefix[k] /\ Cardinality({j \in 1..i : Stays(path, j)}) = k
      BY <1>5, <1>11 DEF LeadsBelow
    <3>2. PICK m \in 1..Len(from) : from[m] = i
      BY <1>8, <3>1
    <3>3. Cardinality({j \in 1..from[m] : Stays(path, j)}) = m
      BY <1>7
    <3>4. m = k
      BY <3>1, <3>2, <3>3
    <3> QED
      BY <1>7, <3>1, <3>2, <3>4
  <2>2. Len(prefix) <= Len(place)
    <3>1. CASE Len(prefix) = 0
      BY <1>5, <3>1
    <3>2. CASE Len(prefix) # 0
      <4>1. Len(prefix) \in 1..Len(prefix)
        BY <1>5, <3>2
      <4>2. Len(prefix) \in 1..Len(from)
        BY <2>1, <4>1
      <4> QED
        BY <1>5, <4>2
    <3> QED
      BY <3>1, <3>2
  <2> QED
    BY <2>1, <2>2
<1> QED
  BY <1>9, <1>10, <1>11

\* A path without ".." is the place it leads to.
LEMMA NamesLeadThere ==
  ASSUME NEW names \in Seq(Segments)
  PROVE  Normalized(names) = names
<1>1. Len(names) \in Nat
  OBVIOUS
<1>2. PICK w : IsWay(w, names, Len(names)) /\ Normalized(names) = w[Len(names)]
  BY <1>1, WayLeads
<1> DEFINE S == {k \in 0..Len(names) : w[k] = SubSeq(names, 1, k)}
<1>3. \A k \in 0..Len(names) : w[k] = IF k = 0 THEN <<>> ELSE Follow(w[k - 1], names[k])
  BY <1>2 DEF IsWay
<1>4. 0 \in S
  <2>1. 0 \in 0..Len(names) /\ w[0] = <<>>
    BY <1>1, <1>3
  <2>2. SubSeq(names, 1, 0) \in Seq(Segments) /\ Len(SubSeq(names, 1, 0)) = 0
    BY <1>1
  <2>3. \A s \in Seq(Segments) : Len(s) = 0 => s = <<>>
    OBVIOUS
  <2>4. w[0] = SubSeq(names, 1, 0)
    BY <2>1, <2>2, <2>3
  <2> QED
    BY <2>1, <2>4
<1>5. ASSUME NEW k \in 0..Len(names), k < Len(names), k \in S PROVE k + 1 \in S
  <2>1. k \in Nat /\ k + 1 \in 0..Len(names) /\ k + 1 \in 1..Len(names) /\ k + 1 # 0 /\ (k + 1) - 1 = k
    BY <1>1, <1>5
  <2>2. w[k + 1] = Follow(w[k], names[k + 1])
    BY <1>3, <2>1
  <2>3. names[k + 1] \in Segments /\ names[k + 1] # ".."
    BY <2>1, PolicyAssumption
  <2>4. w[k + 1] = Append(SubSeq(names, 1, k), names[k + 1])
    BY <1>5, <2>2, <2>3 DEF Follow
  <2>5. SubSeq(names, 1, k + 1) = Append(SubSeq(names, 1, k), names[k + 1])
    BY <1>1, <2>1
  <2> QED
    BY <2>1, <2>4, <2>5
<1> HIDE DEF S
<1>6. 0..Len(names) \subseteq S
  BY <1>1, <1>4, <1>5, UpTo
<1>7. Len(names) \in S
  BY <1>1, <1>6
<1>8. w[Len(names)] = SubSeq(names, 1, Len(names))
  BY <1>7 DEF S
<1>9. SubSeq(names, 1, Len(names)) = names
  OBVIOUS
<1> QED
  BY <1>2, <1>8, <1>9

\* The places on the way along names with a link among them.
IsWalk(w, link, names, n) == w = [k \in 0..n |-> IF k = 0 THEN <<>> ELSE Enter(link, w[k - 1], names[k])]

LEMMA WalkExists ==
  ASSUME NEW link, NEW names, NEW n \in Nat
  PROVE  \E w : IsWalk(w, link, names, n)
<1> DEFINE S == {k \in 0..n : \E w : IsWalk(w, link, names, k)}
<1>1. 0 \in S
  <2>1. IsWalk([k \in 0..0 |-> <<>>], link, names, 0)
    BY DEF IsWalk
  <2> QED
    BY <2>1
<1>2. ASSUME NEW k \in 0..n, k < n, k \in S PROVE k + 1 \in S
  <2>1. PICK w : IsWalk(w, link, names, k)
    BY <1>2
  <2> DEFINE v == [m \in 0..k + 1 |-> IF m = k + 1 THEN Enter(link, w[k], names[k + 1]) ELSE w[m]]
  <2>2. ASSUME NEW m \in 0..k + 1
        PROVE  v[m] = IF m = 0 THEN <<>> ELSE Enter(link, v[m - 1], names[m])
    <3>1. CASE m = k + 1
      <4>1. m - 1 = k /\ m - 1 \in 0..k + 1 /\ m # 0 /\ m - 1 # k + 1
        BY <1>2, <3>1
      <4>2. v[m] = Enter(link, w[k], names[k + 1]) /\ v[m - 1] = w[k]
        BY <3>1, <4>1
      <4> QED
        BY <3>1, <4>1, <4>2
    <3>2. CASE m # k + 1
      <4>1. m \in 0..k /\ v[m] = w[m]
        BY <1>2, <3>2
      <4>2. w[m] = IF m = 0 THEN <<>> ELSE Enter(link, w[m - 1], names[m])
        BY <2>1, <4>1 DEF IsWalk
      <4>3. m # 0 => m - 1 \in 0..k + 1 /\ m - 1 # k + 1
        BY <1>2, <4>1
      <4>4. m # 0 => v[m - 1] = w[m - 1]
        BY <4>3
      <4> QED
        BY <4>1, <4>2, <4>4
    <3> QED
      BY <3>1, <3>2
  <2>3. IsWalk(v, link, names, k + 1)
    <3>1. v = [m \in 0..k + 1 |-> v[m]]
      OBVIOUS
    <3> HIDE DEF v
    <3> QED
      BY <2>2, <3>1 DEF IsWalk
  <2>4. k + 1 \in 0..n
    BY <1>2
  <2> HIDE DEF v
  <2> QED
    BY <2>3, <2>4
<1>3. 0..n \subseteq S
  <2> HIDE DEF S
  <2> QED
    BY <1>1, <1>2, UpTo
<1>4. n \in S
  BY <1>3
<1> QED
  BY <1>4

\* realpath leads to a place.
LEMMA RealPathIsPlace ==
  ASSUME NEW link \in LocalLinks, NEW names \in Seq(Segments)
  PROVE  RealPath(link, names) \in Seq(Segments)
<1>1. Len(names) \in Nat
  OBVIOUS
<1> DEFINE after == CHOOSE w : w = [k \in 0..Len(names) |-> IF k = 0 THEN <<>> ELSE Enter(link, w[k - 1], names[k])]
<1>walk. \E w : IsWalk(w, link, names, Len(names))
  BY <1>1, WalkExists
<1>2. \E w : w = [k \in 0..Len(names) |-> IF k = 0 THEN <<>> ELSE Enter(link, w[k - 1], names[k])]
  BY <1>walk DEF IsWalk
<1>3. IsWalk(after, link, names, Len(names))
  BY <1>2 DEF IsWalk
<1>4. RealPath(link, names) = after[Len(names)]
  BY DEF RealPath
<1> HIDE DEF after
<1>5. \A k \in 0..Len(names) : after[k] = IF k = 0 THEN <<>> ELSE Enter(link, after[k - 1], names[k])
  BY <1>3 DEF IsWalk
<1> DEFINE S == {k \in 0..Len(names) : after[k] \in Seq(Segments)}
<1>6. 0 \in S
  <2>1. 0 \in 0..Len(names) /\ after[0] = <<>>
    BY <1>1, <1>5
  <2>2. <<>> \in Seq(Segments)
    OBVIOUS
  <2>3. after[0] \in Seq(Segments)
    BY <2>1, <2>2, Zenon
  <2> QED
    BY <2>1, <2>3
<1>7. ASSUME NEW k \in 0..Len(names), k < Len(names), k \in S PROVE k + 1 \in S
  <2>1. k \in Nat /\ k + 1 \in 0..Len(names) /\ k + 1 \in 1..Len(names) /\ k + 1 # 0 /\ (k + 1) - 1 = k
    BY <1>1, <1>7
  <2>2. after[k + 1] = Enter(link, after[k], names[k + 1])
    BY <1>5, <2>1
  <2>3. names[k + 1] \in Segments /\ after[k] \in Seq(Segments) /\ link.to \in Seq(Segments)
    BY <1>7, <2>1, PolicyAssumption
  <2>4. after[k + 1] \in Seq(Segments)
    BY <2>2, <2>3 DEF Enter
  <2> QED
    BY <2>1, <2>4
<1> HIDE DEF S
<1>8. 0..Len(names) \subseteq S
  BY <1>1, <1>6, <1>7, UpTo
<1>9. Len(names) \in S
  BY <1>1, <1>8
<1> QED
  BY <1>4, <1>9 DEF S

\* Where a path leads to is a place.
LEMMA NormalizedIsPlace ==
  ASSUME NEW path \in Seq(Segments \cup {".."})
  PROVE  Normalized(path) \in Seq(Segments)
<1>1. Len(path) \in Nat
  OBVIOUS
<1>2. PICK w : IsWay(w, path, Len(path)) /\ Normalized(path) = w[Len(path)]
  BY <1>1, WayLeads
<1>3. PICK from : Origins(path, Len(path), w[Len(path)], from)
  BY <1>2, OriginsOfWay
<1> QED
  BY <1>2, <1>3 DEF Origins

\* A policy and a request of a kind, and the decision that was made of them.
PolicyTypes ==
  \/ policy \in PathPolicies /\ request \in PathRequests
  \/ policy \in LoginPolicies /\ request \in LoginRequests
  \/ policy \in CommandPolicies /\ request \in CommandRequests
  \/ policy \in TunnelPolicies /\ request \in TunnelRequests

PolicyInv == PolicyTypes /\ (decision = "allowed" => Allows(policy, request))

LEMMA PathsAreSequences == Paths \subseteq Seq(Segments \cup {".."}) /\ NoPath \notin Paths
<1>1. PathLength \in Nat
  BY PolicyAssumption
<1>2. ASSUME NEW path \in Paths PROVE path \in Seq(Segments \cup {".."}) /\ path # NoPath
  <2>1. PICK n \in 1..PathLength : path \in [1..n -> Segments \cup {".."}]
    BY DEF Paths
  <2>2. n \in Nat /\ n # 0
    BY <1>1
  <2>3. path \in Seq(Segments \cup {".."}) /\ Len(path) = n
    BY <2>1, <2>2
  <2> QED
    BY <2>2, <2>3 DEF NoPath
<1> QED
  BY <1>2

\* The lists of a policy for paths have places.
LEMMA PrefixesArePlaces ==
  ASSUME NEW p \in PathPolicies
  PROVE  p.deny \subseteq Seq(Segments) /\ p.allow \subseteq Seq(Segments) /\ DefaultAllow \subseteq Seq(Segments)
BY PolicyAssumption DEF PathPolicies

LEMMA UnderIsBelow ==
  \A path \in Paths, d \in Seq(Segments) : IsPathUnder(path, d) <=> LeadsBelow(path, d)
BY PathsAreSequences, UnderMeansBelow

\* What an approval says of the absolute paths of a host.
LEMMA RemoteApprovals ==
  ASSUME NEW p \in PathPolicies, NEW r \in RemoteRequests, Allows(p, r)
  PROVE  /\ \A path \in {r.path, r.second} \ {NoPath} :
              /\ \A d \in p.deny : ~LeadsBelow(path, d)
              /\ r.destructive /\ ~p.destructive =>
                   \E a \in p.allow \cup DefaultAllow : LeadsBelow(path, a)
         /\ Allows(UndeniedPaths(p), r)
<1>1. r.path \in Paths /\ r.second \in {NoPath} \cup Paths /\ r.kind = "remote"
  BY DEF RemoteRequests
<1>2. PICK q : q = UndeniedPaths(p)
  OBVIOUS
<1>3. q.deny = {} /\ q.allow = p.allow /\ q.destructive = p.destructive
  BY <1>2 DEF PathPolicies, UndeniedPaths
<1>4. RemotePathsAllowed(p, r)
  BY <1>1 DEF Allows
<1>5. ASSUME NEW path \in {r.path, r.second} \ {NoPath}
      PROVE  /\ \A d \in p.deny : ~LeadsBelow(path, d)
             /\ r.destructive /\ ~p.destructive =>
                  \E a \in p.allow \cup DefaultAllow : LeadsBelow(path, a)
  <2>1. path \in PathsOf(r) /\ path \in Paths
    BY <1>1 DEF PathsOf
  <2>2. /\ \A d \in p.deny : ~IsPathUnder(path, d)
        /\ r.destructive /\ ~p.destructive =>
             \E a \in IF p.allow = {} THEN DefaultAllow ELSE p.allow : IsPathUnder(path, a)
    BY <1>4, <2>1 DEF RemotePathsAllowed
  <2> QED
    BY PrefixesArePlaces, UnderIsBelow, <2>1, <2>2
<1>6. RemotePathsAllowed(q, r)
  BY <1>3, <1>4 DEF RemotePathsAllowed
<1>7. Allows(q, r)
  BY <1>1, <1>6 DEF Allows
<1> QED
  BY <1>2, <1>5, <1>7

\* A path that is resolved is where it leads to.
LEMMA LocalPathsArePlaces ==
  ASSUME NEW r \in LocalRequests, NEW names \in LocalPathsOf(r)
  PROVE  names \in Seq(Segments)
<1>1. r.path \in Seq(Segments \cup {".."}) /\ r.link \in LocalLinks
  BY PathsAreSequences DEF LocalRequests
<1>2. PICK place \in Seq(Segments) : place = Normalized(r.path)
  BY <1>1, NormalizedIsPlace
<1>3. Follow(place, "..") \in Seq(Segments)
  BY DEF Follow
<1>4. RealPath(r.link, place) \in Seq(Segments) /\ RealPath(r.link, Follow(place, "..")) \in Seq(Segments)
  BY <1>1, <1>3, RealPathIsPlace
<1>5. names = RealPath(r.link, place) \/ names = RealPath(r.link, Follow(place, ".."))
  BY <1>2 DEF LocalPathsOf, Resolved
<1> QED
  BY <1>4, <1>5

\* What an approval says of the files of the server.
LEMMA LocalApprovals ==
  ASSUME NEW p \in PathPolicies, NEW r \in LocalRequests, Allows(p, r)
  PROVE  /\ \A place \in OpenedPlaces(r) :
              /\ \A d \in p.deny : ~IsPrefix(RealPath(r.link, d), place)
              /\ \E a \in p.allow : IsPrefix(RealPath(r.link, a), place)
         /\ Allows(UndeniedPaths(p), r)
<1>1. r.kind = "local"
  BY DEF LocalRequests
<1>2. PICK q : q = UndeniedPaths(p)
  OBVIOUS
<1>3. q.deny = {} /\ q.allow = p.allow
  BY <1>2 DEF PathPolicies, UndeniedPaths
<1>4. LocalPathsAllowed(p, r)
  BY <1>1 DEF Allows
<1>5. ASSUME NEW place \in OpenedPlaces(r)
      PROVE  /\ \A d \in p.deny : ~IsPrefix(RealPath(r.link, d), place)
             /\ \E a \in p.allow : IsPrefix(RealPath(r.link, a), place)
  <2>1. PICK names \in LocalPathsOf(r) : place = RealPath(r.link, names)
    BY <1>5 DEF OpenedPlaces
  <2>2. Resolved(r.link, names) = place
    BY <2>1, LocalPathsArePlaces, NamesLeadThere DEF Resolved
  <2>3. \A d \in Seq(Segments) : Resolved(r.link, d) = RealPath(r.link, d)
    BY NamesLeadThere DEF Resolved
  <2>4. /\ \A d \in p.deny : ~IsPrefix(Resolved(r.link, d), place)
        /\ \E a \in p.allow : IsPrefix(Resolved(r.link, a), place)
    BY <1>4, <2>1, <2>2 DEF LocalPathsAllowed
  <2>5. /\ \A d \in p.deny : Resolved(r.link, d) = RealPath(r.link, d)
        /\ \A a \in p.allow : Resolved(r.link, a) = RealPath(r.link, a)
    BY PrefixesArePlaces, <2>3
  <2> QED
    BY <2>4, <2>5
<1>6. LocalPathsAllowed(q, r)
  BY <1>3, <1>4 DEF LocalPathsAllowed
<1>7. Allows(q, r)
  BY <1>1, <1>6 DEF Allows
<1> QED
  BY <1>2, <1>5, <1>7

\* What an approval of an agent says.
LEMMA AgentApprovals ==
  ASSUME NEW p \in PathPolicies, NEW r \in AgentRequests, Allows(p, r)
  PROVE  /\ \A d \in p.deny : d # <<>> => ~LeadsBelow(r.path, d)
         /\ \E a \in p.allow : LeadsBelow(r.path, a)
         /\ Allows(UndeniedPaths(p), r)
<1>1. r.path \in Paths /\ r.kind = "agent"
  BY DEF AgentRequests
<1>2. PICK q : q = UndeniedPaths(p)
  OBVIOUS
<1>3. q.deny = {} /\ q.allow = p.allow
  BY <1>2 DEF PathPolicies, UndeniedPaths
<1>4. AgentPathAllowed(p, r)
  BY <1>1 DEF Allows
<1>5. \A d \in p.deny : d # <<>> => ~LeadsBelow(r.path, d)
  BY PrefixesArePlaces, UnderIsBelow, <1>1, <1>4 DEF AgentPathAllowed, AgentCovers
<1>6. \E a \in p.allow : LeadsBelow(r.path, a)
  <2>1. PICK a \in p.allow : AgentCovers(a, r.path)
    BY <1>4 DEF AgentPathAllowed
  <2>2. CASE a = <<>>
    <3>1. DOMAIN a = {}
      BY <2>2
    <3> QED
      BY <3>1 DEF LeadsBelow
  <2>3. CASE a # <<>>
    BY PrefixesArePlaces, UnderIsBelow, <1>1, <2>1, <2>3 DEF AgentCovers
  <2> QED
    BY <2>2, <2>3
<1>7. AgentPathAllowed(q, r)
  BY <1>3, <1>4 DEF AgentPathAllowed
<1>8. Allows(q, r)
  BY <1>1, <1>7 DEF Allows
<1> QED
  BY <1>2, <1>5, <1>6, <1>8

LEMMA TunnelApprovals ==
  ASSUME NEW p \in TunnelPolicies, NEW r \in TunnelRequests, Allows(p, r)
  PROVE  Allows(UndeniedTunnels(p), r)
<1>1. r.kind = "tunnel"
  BY DEF TunnelRequests
<1>2. PICK q : q = UndeniedTunnels(p)
  OBVIOUS
<1>3. /\ q.denyBind = {} /\ q.denyRemote = {} /\ q.denyPorts = {} /\ q.hosts = p.hosts
      /\ q.allowBind = p.allowBind /\ q.allowRemote = p.allowRemote /\ q.allowPorts = p.allowPorts
  BY <1>2 DEF TunnelPolicies, UndeniedTunnels
<1>4. TunnelAllowed(p, r) /\ Listed(r.host, {}, p.hosts)
  BY <1>1 DEF Allows
<1>5. TunnelAllowed(q, r) /\ Listed(r.host, {}, q.hosts)
  BY <1>3, <1>4 DEF TunnelAllowed, PortAllowed, InRanges, Listed, Matches
<1> QED
  BY <1>1, <1>2, <1>5 DEF Allows

LEMMA DecisionsSound == PolicyInv => ApprovalsAreSound
<1> SUFFICES ASSUME PolicyInv, decision = "allowed" PROVE ApprovalsAreSound
  BY DEF ApprovalsAreSound
<1>1. Allows(policy, request)
  BY DEF PolicyInv
<1> USE DEF ApprovalsAreSound, RemoteApprovalsAreSound, LocalApprovalsAreSound, AgentApprovalsAreSound,
            DenialsOnlyDeny
<1>2. CASE policy \in PathPolicies /\ request \in RemoteRequests
  <2>1. request.kind = "remote"
    BY <1>2 DEF RemoteRequests
  <2> QED
    BY <1>1, <1>2, <2>1, RemoteApprovals
<1>3. CASE policy \in PathPolicies /\ request \in LocalRequests
  <2>1. request.kind = "local"
    BY <1>3 DEF LocalRequests
  <2> QED
    BY <1>1, <1>3, <2>1, LocalApprovals
<1>4. CASE policy \in PathPolicies /\ request \in AgentRequests
  <2>1. request.kind = "agent"
    BY <1>4 DEF AgentRequests
  <2> QED
    BY <1>1, <1>4, <2>1, AgentApprovals
<1>5. CASE request \in LoginRequests \cup CommandRequests
  <2>1. request.kind \in {"login", "command"}
    BY <1>5 DEF LoginRequests, CommandRequests
  <2> QED
    BY <2>1
<1>6. CASE policy \in TunnelPolicies /\ request \in TunnelRequests
  <2>1. request.kind = "tunnel"
    BY <1>6 DEF TunnelRequests
  <2> QED
    BY <1>1, <1>6, <2>1, TunnelApprovals
<1> QED
  BY <1>2, <1>3, <1>4, <1>5, <1>6 DEF PolicyInv, PolicyTypes, PathRequests

\* evaluate, isPathAllowed: whatever a policy lists, and however the paths of
\* a request wind, an approval is sound.
THEOREM ApprovalsSound == PolicyDecisionsSpec => []ApprovalsAreSound
<1>1. PolicyDecisionsInit => PolicyInv
  BY DEF PolicyDecisionsInit, PolicyInv, PolicyTypes
<1>2. PolicyInv /\ [Evaluate]_policyVars => PolicyInv'
  <2> SUFFICES ASSUME PolicyInv, [Evaluate]_policyVars PROVE PolicyInv'
    OBVIOUS
  <2>1. policy' = policy /\ request' = request
    BY DEF Evaluate, policyVars
  <2>2. decision' = "allowed" => Allows(policy, request)
    BY DEF Evaluate, policyVars, PolicyInv
  <2> QED
    BY <2>1, <2>2 DEF PolicyInv, PolicyTypes
<1>3. PolicyInv => ApprovalsAreSound
  BY DecisionsSound
<1> QED
  BY <1>1, <1>2, <1>3, PTL DEF PolicyDecisionsSpec

----------------------------------------------------------------------------
(* The SSH configuration *)

\* The hosts as the patterns of a declaration are set one by one.
IsSetting(w, hosts, names, n) ==
  w = [k \in 0..n |-> IF k = 0 THEN hosts ELSE SetHost(w[k - 1], names[k])]

LEMMA SettingExists ==
  ASSUME NEW hosts, NEW names, NEW n \in Nat
  PROVE  \E w : IsSetting(w, hosts, names, n)
<1> DEFINE S == {k \in 0..n : \E w : IsSetting(w, hosts, names, k)}
<1>1. 0 \in S
  <2>1. IsSetting([k \in 0..0 |-> hosts], hosts, names, 0)
    BY DEF IsSetting
  <2> QED
    BY <2>1
<1>2. ASSUME NEW k \in 0..n, k < n, k \in S PROVE k + 1 \in S
  <2>1. PICK w : IsSetting(w, hosts, names, k)
    BY <1>2
  <2> DEFINE v == [m \in 0..k + 1 |-> IF m = k + 1 THEN SetHost(w[k], names[k + 1]) ELSE w[m]]
  <2>2. ASSUME NEW m \in 0..k + 1
        PROVE  v[m] = IF m = 0 THEN hosts ELSE SetHost(v[m - 1], names[m])
    <3>1. CASE m = k + 1
      <4>1. m - 1 = k /\ m - 1 \in 0..k + 1 /\ m # 0 /\ m - 1 # k + 1
        BY <1>2, <3>1
      <4>2. v[m] = SetHost(w[k], names[k + 1]) /\ v[m - 1] = w[k]
        BY <3>1, <4>1
      <4> QED
        BY <3>1, <4>1, <4>2
    <3>2. CASE m # k + 1
      <4>1. m \in 0..k /\ v[m] = w[m]
        BY <1>2, <3>2
      <4>2. w[m] = IF m = 0 THEN hosts ELSE SetHost(w[m - 1], names[m])
        BY <2>1, <4>1 DEF IsSetting
      <4>3. m # 0 => m - 1 \in 0..k + 1 /\ m - 1 # k + 1
        BY <1>2, <4>1
      <4>4. m # 0 => v[m - 1] = w[m - 1]
        BY <4>3
      <4> QED
        BY <4>1, <4>2, <4>4
    <3> QED
      BY <3>1, <3>2
  <2>3. IsSetting(v, hosts, names, k + 1)
    <3>1. v = [m \in 0..k + 1 |-> v[m]]
      OBVIOUS
    <3> HIDE DEF v
    <3> QED
      BY <2>2, <3>1 DEF IsSetting
  <2>4. k + 1 \in 0..n
    BY <1>2
  <2> HIDE DEF v
  <2> QED
    BY <2>3, <2>4
<1>3. 0..n \subseteq S
  <2> HIDE DEF S
  <2> QED
    BY <1>1, <1>2, UpTo
<1>4. n \in S
  BY <1>3
<1> QED
  BY <1>4

\* What is parsed as the lines are read one by one.
NothingParsed == [hosts |-> <<>>, current |-> {}]
IsReading(w, lines, n) ==
  w = [k \in 0..n |-> IF k = 0 THEN NothingParsed ELSE ParseLine(w[k - 1], lines[k])]

LEMMA ReadingExists ==
  ASSUME NEW lines, NEW n \in Nat
  PROVE  \E w : IsReading(w, lines, n)
<1> DEFINE S == {k \in 0..n : \E w : IsReading(w, lines, k)}
<1>1. 0 \in S
  <2>1. IsReading([k \in 0..0 |-> NothingParsed], lines, 0)
    BY DEF IsReading
  <2> QED
    BY <2>1
<1>2. ASSUME NEW k \in 0..n, k < n, k \in S PROVE k + 1 \in S
  <2>1. PICK w : IsReading(w, lines, k)
    BY <1>2
  <2> DEFINE v == [m \in 0..k + 1 |-> IF m = k + 1 THEN ParseLine(w[k], lines[k + 1]) ELSE w[m]]
  <2>2. ASSUME NEW m \in 0..k + 1
        PROVE  v[m] = IF m = 0 THEN NothingParsed ELSE ParseLine(v[m - 1], lines[m])
    <3>1. CASE m = k + 1
      <4>1. m - 1 = k /\ m - 1 \in 0..k + 1 /\ m # 0 /\ m - 1 # k + 1
        BY <1>2, <3>1
      <4>2. v[m] = ParseLine(w[k], lines[k + 1]) /\ v[m - 1] = w[k]
        BY <3>1, <4>1
      <4> QED
        BY <3>1, <4>1, <4>2
    <3>2. CASE m # k + 1
      <4>1. m \in 0..k /\ v[m] = w[m]
        BY <1>2, <3>2
      <4>2. w[m] = IF m = 0 THEN NothingParsed ELSE ParseLine(w[m - 1], lines[m])
        BY <2>1, <4>1 DEF IsReading
      <4>3. m # 0 => m - 1 \in 0..k + 1 /\ m - 1 # k + 1
        BY <1>2, <4>1
      <4>4. m # 0 => v[m - 1] = w[m - 1]
        BY <4>3
      <4> QED
        BY <4>1, <4>2, <4>4
    <3> QED
      BY <3>1, <3>2
  <2>3. IsReading(v, lines, k + 1)
    <3>1. v = [m \in 0..k + 1 |-> v[m]]
      OBVIOUS
    <3> HIDE DEF v
    <3> QED
      BY <2>2, <3>1 DEF IsReading
  <2>4. k + 1 \in 0..n
    BY <1>2
  <2> HIDE DEF v
  <2> QED
    BY <2>3, <2>4
<1>3. 0..n \subseteq S
  <2> HIDE DEF S
  <2> QED
    BY <1>1, <1>2, UpTo
<1>4. n \in S
  BY <1>3
<1> QED
  BY <1>4

LEMMA SettingLeads ==
  ASSUME NEW hosts, NEW names, Len(names) \in Nat
  PROVE  \E w : IsSetting(w, hosts, names, Len(names)) /\ SetHosts(hosts, names) = w[Len(names)]
<1> DEFINE after == CHOOSE w : w = [k \in 0..Len(names) |-> IF k = 0 THEN hosts ELSE SetHost(w[k - 1], names[k])]
<1>1. \E w : w = [k \in 0..Len(names) |-> IF k = 0 THEN hosts ELSE SetHost(w[k - 1], names[k])]
  <2>1. \E w : IsSetting(w, hosts, names, Len(names))
    BY SettingExists
  <2> QED
    BY <2>1 DEF IsSetting
<1>2. IsSetting(after, hosts, names, Len(names))
  BY <1>1 DEF IsSetting
<1>3. SetHosts(hosts, names) = after[Len(names)]
  BY DEF SetHosts
<1> QED
  BY <1>2, <1>3

LEMMA ReadingLeads ==
  ASSUME NEW lines, Len(lines) \in Nat
  PROVE  \E w : IsReading(w, lines, Len(lines)) /\ ParseContent(lines) = w[Len(lines)].hosts
<1> DEFINE after == CHOOSE w : w = [k \in 0..Len(lines) |-> IF k = 0 THEN NothingParsed ELSE ParseLine(w[k - 1], lines[k])]
<1>1. \E w : w = [k \in 0..Len(lines) |-> IF k = 0 THEN NothingParsed ELSE ParseLine(w[k - 1], lines[k])]
  <2>1. \E w : IsReading(w, lines, Len(lines))
    BY ReadingExists
  <2> QED
    BY <2>1 DEF IsReading
<1>2. IsReading(after, lines, Len(lines))
  BY <1>1 DEF IsReading
<1>3. ParseContent(lines) = after[Len(lines)].hosts
  BY DEF ParseContent, NothingParsed
<1> QED
  BY <1>2, <1>3

(***************************************************************************)
(* What n patterns of a declaration make of the hosts: those there before  *)
(* keep their places, the new ones come after them in the order of the     *)
(* declaration, and none has two.                                          *)
(***************************************************************************)
NoOptions == [o \in Options |-> Unset]

\* Entries of the Map, with options from a set of values.
Entries(V) == [pattern : Patterns, config : [Options -> V]]

OnePlaceEach(hosts) == \A i, j \in 1..Len(hosts) : hosts[i].pattern = hosts[j].pattern => i = j

Among(names, n, p) == \E a \in 1..n : names[a] = p

PlacesKept(hosts, new) ==
  Len(hosts) <= Len(new) /\ \A i \in 1..Len(hosts) : new[i].pattern = hosts[i].pattern

MadeNew(hosts, names, n, new) ==
  \A i \in 1..Len(new) :
    IF Among(names, n, new[i].pattern) THEN new[i].config = NoOptions
    ELSE i <= Len(hosts) /\ new[i].config = hosts[i].config

AllThere(names, n, new) == \A a \in 1..n : \E i \in 1..Len(new) : new[i].pattern = names[a]

NewInOrder(hosts, names, n, new) ==
  \A i, j \in 1..Len(new) :
    Len(hosts) < i /\ i < j =>
      \E a \in 1..n : names[a] = new[i].pattern /\ \A b \in 1..n : names[b] = new[j].pattern => a < b

AreSet(hosts, names, n, new, V) ==
  /\ new \in Seq(Entries(V)) /\ OnePlaceEach(new)
  /\ PlacesKept(hosts, new) /\ MadeNew(hosts, names, n, new)
  /\ AllThere(names, n, new) /\ NewInOrder(hosts, names, n, new)

\* Map.set of a pattern that is there.
LEMMA SetAgain ==
  ASSUME NEW V, Unset \in V, NEW hosts \in Seq(Entries(V)), NEW names, NEW n \in Nat, NEW old,
         AreSet(hosts, names, n, old, V), NEW p \in Patterns, names[n + 1] = p,
         NEW at \in 1..Len(old), old[at].pattern = p
  PROVE  AreSet(hosts, names, n + 1, SetHost(old, p), V)
<1>1. /\ old \in Seq(Entries(V)) /\ OnePlaceEach(old)
      /\ PlacesKept(hosts, old) /\ MadeNew(hosts, names, n, old)
      /\ AllThere(names, n, old) /\ NewInOrder(hosts, names, n, old)
  BY DEF AreSet
<1> DEFINE entry == [pattern |-> p, config |-> NoOptions]
           new == SetHost(old, p)
<1>2. entry \in Entries(V) /\ entry.pattern = p /\ entry.config = NoOptions
  BY DEF Entries, NoOptions
<1> HIDE DEF entry
<1>3. {i \in 1..Len(old) : old[i].pattern = p} = {at}
  BY DEF AreSet, OnePlaceEach
<1>4. new = [i \in 1..Len(old) |-> IF i = at THEN entry ELSE old[i]]
  BY <1>3 DEF SetHost, entry, NoOptions
<1>5. Len(old) \in Nat /\ Len(hosts) \in Nat
  BY <1>1
<1>6. /\ new \in Seq(Entries(V)) /\ Len(new) = Len(old)
      /\ \A i \in 1..Len(new) : new[i] = IF i = at THEN entry ELSE old[i]
  BY <1>1, <1>2, <1>4, <1>5
<1> HIDE DEF new
<1>7. \A i \in 1..Len(new) : new[i].pattern = old[i].pattern
  BY <1>2, <1>6
<1>8. OnePlaceEach(new)
  BY <1>1, <1>6, <1>7 DEF OnePlaceEach
<1>9. PlacesKept(hosts, new)
  BY <1>1, <1>5, <1>6, <1>7 DEF PlacesKept
<1>10. \A q : Among(names, n + 1, q) <=> Among(names, n, q) \/ q = p
  BY DEF Among
<1>11. MadeNew(hosts, names, n + 1, new)
  <2> SUFFICES ASSUME NEW i \in 1..Len(new)
               PROVE  IF Among(names, n + 1, new[i].pattern) THEN new[i].config = NoOptions
                      ELSE i <= Len(hosts) /\ new[i].config = hosts[i].config
    BY DEF MadeNew
  <2>1. CASE i = at
    BY <1>2, <1>6, <1>10, <2>1
  <2>2. CASE i # at
    <3>1. new[i] = old[i] /\ i \in 1..Len(old)
      BY <1>6, <2>2
    <3>2. old[i].pattern # p
      BY <1>1, <2>2, <3>1 DEF OnePlaceEach
    <3> QED
      BY <1>1, <1>10, <3>1, <3>2 DEF MadeNew
  <2> QED
    BY <2>1, <2>2
<1>12. AllThere(names, n + 1, new)
  <2> SUFFICES ASSUME NEW a \in 1..n + 1 PROVE \E i \in 1..Len(new) : new[i].pattern = names[a]
    BY DEF AllThere
  <2>1. CASE a = n + 1
    BY <1>6, <1>7, <2>1
  <2>2. CASE a \in 1..n
    BY <1>1, <1>6, <1>7, <2>2 DEF AllThere
  <2> QED
    BY <2>1, <2>2
<1>13. NewInOrder(hosts, names, n + 1, new)
  <2> SUFFICES ASSUME NEW i \in 1..Len(new), NEW j \in 1..Len(new), Len(hosts) < i, i < j
               PROVE  \E a \in 1..n + 1 : /\ names[a] = new[i].pattern
                                          /\ \A b \in 1..n + 1 : names[b] = new[j].pattern => a < b
    BY DEF NewInOrder
  <2>1. PICK a \in 1..n : names[a] = old[i].pattern /\ \A b \in 1..n : names[b] = old[j].pattern => a < b
    <3>1. i \in 1..Len(old) /\ j \in 1..Len(old)
      BY <1>6
    <3>2. NewInOrder(hosts, names, n, old)
      BY <1>1
    <3> QED
      BY <3>1, <3>2 DEF NewInOrder
  <2>2. a \in 1..n + 1 /\ a < n + 1
    OBVIOUS
  <2>3. \A b \in 1..n + 1 : b \in 1..n \/ b = n + 1
    OBVIOUS
  <2> QED
    BY <1>7, <2>1, <2>2, <2>3
<1>14. AreSet(hosts, names, n + 1, new, V)
  BY <1>6, <1>8, <1>9, <1>11, <1>12, <1>13 DEF AreSet
<1> QED
  BY <1>14 DEF new

\* Map.set of a pattern that is not there.
LEMMA SetAnew ==
  ASSUME NEW V, Unset \in V, NEW hosts \in Seq(Entries(V)), NEW names, NEW n \in Nat, NEW old,
         AreSet(hosts, names, n, old, V), NEW p \in Patterns, names[n + 1] = p,
         \A i \in 1..Len(old) : old[i].pattern # p
  PROVE  AreSet(hosts, names, n + 1, SetHost(old, p), V)
<1>1. /\ old \in Seq(Entries(V)) /\ OnePlaceEach(old)
      /\ PlacesKept(hosts, old) /\ MadeNew(hosts, names, n, old)
      /\ AllThere(names, n, old) /\ NewInOrder(hosts, names, n, old)
  BY DEF AreSet
<1> DEFINE entry == [pattern |-> p, config |-> NoOptions]
           new == SetHost(old, p)
<1>2. entry \in Entries(V) /\ entry.pattern = p /\ entry.config = NoOptions
  BY DEF Entries, NoOptions
<1> HIDE DEF entry
<1>3. {i \in 1..Len(old) : old[i].pattern = p} = {}
  OBVIOUS
<1>4. new = Append(old, entry)
  BY <1>3 DEF SetHost, entry, NoOptions
<1>5. Len(old) \in Nat /\ Len(hosts) \in Nat
  BY <1>1
<1>6. /\ new \in Seq(Entries(V)) /\ Len(new) = Len(old) + 1
      /\ \A i \in 1..Len(old) : new[i] = old[i]
      /\ new[Len(old) + 1] = entry
  BY <1>1, <1>2, <1>4
<1> HIDE DEF new
<1>7. \A i \in 1..Len(new) : i \in 1..Len(old) \/ i = Len(old) + 1
  BY <1>5, <1>6
<1>8. OnePlaceEach(new)
  BY <1>1, <1>2, <1>6, <1>7 DEF OnePlaceEach
<1>9. PlacesKept(hosts, new)
  <2>1. Len(hosts) <= Len(old) /\ Len(hosts) <= Len(new)
    BY <1>1, <1>5, <1>6 DEF PlacesKept
  <2>2. \A i \in 1..Len(hosts) : i \in 1..Len(old)
    BY <1>5, <2>1
  <2> QED
    BY <1>1, <1>6, <2>1, <2>2 DEF PlacesKept
<1>10. \A q : Among(names, n + 1, q) <=> Among(names, n, q) \/ q = p
  BY DEF Among
<1>11. MadeNew(hosts, names, n + 1, new)
  <2> SUFFICES ASSUME NEW i \in 1..Len(new)
               PROVE  IF Among(names, n + 1, new[i].pattern) THEN new[i].config = NoOptions
                      ELSE i <= Len(hosts) /\ new[i].config = hosts[i].config
    BY DEF MadeNew
  <2>1. CASE i = Len(old) + 1
    BY <1>2, <1>6, <1>10, <2>1
  <2>2. CASE i \in 1..Len(old)
    BY <1>1, <1>6, <1>10, <2>2 DEF MadeNew
  <2> QED
    BY <1>7, <2>1, <2>2
<1>12. AllThere(names, n + 1, new)
  <2> SUFFICES ASSUME NEW a \in 1..n + 1 PROVE \E i \in 1..Len(new) : new[i].pattern = names[a]
    BY DEF AllThere
  <2>1. CASE a = n + 1
    <3>1. Len(old) + 1 \in 1..Len(new)
      BY <1>5, <1>6
    <3> QED
      BY <1>2, <1>6, <2>1, <3>1
  <2>2. CASE a \in 1..n
    <3>1. PICK i \in 1..Len(old) : old[i].pattern = names[a]
      BY <1>1, <2>2 DEF AllThere
    <3>2. i \in 1..Len(new)
      BY <1>5, <1>6
    <3> QED
      BY <1>6, <3>1, <3>2
  <2> QED
    BY <2>1, <2>2
<1>13. NewInOrder(hosts, names, n + 1, new)
  <2> SUFFICES ASSUME NEW i \in 1..Len(new), NEW j \in 1..Len(new), Len(hosts) < i, i < j
               PROVE  \E a \in 1..n + 1 : /\ names[a] = new[i].pattern
                                          /\ \A b \in 1..n + 1 : names[b] = new[j].pattern => a < b
    BY DEF NewInOrder
  <2>1. i \in 1..Len(old) /\ new[i] = old[i]
    BY <1>5, <1>6
  <2>2. \A b \in 1..n + 1 : b \in 1..n \/ b = n + 1
    OBVIOUS
  <2>3. CASE j \in 1..Len(old)
    <3>1. PICK a \in 1..n : names[a] = old[i].pattern /\ \A b \in 1..n : names[b] = old[j].pattern => a < b
      BY <1>1, <2>1, <2>3 DEF NewInOrder
    <3>2. a \in 1..n + 1 /\ a < n + 1
      OBVIOUS
    <3> QED
      BY <1>6, <2>1, <2>2, <2>3, <3>1, <3>2
  <2>4. CASE j = Len(old) + 1
    <3>1. Among(names, n, old[i].pattern)
      <4>1. ~(i <= Len(hosts))
        BY <1>5
      <4> QED
        BY <1>1, <2>1, <4>1 DEF MadeNew
    <3>2. PICK a \in 1..n : names[a] = old[i].pattern
      BY <3>1 DEF Among
    <3>3. \A b \in 1..n : names[b] # p
      BY <1>1 DEF AllThere
    <3>4. a \in 1..n + 1 /\ a < n + 1 /\ new[j].pattern = p
      BY <1>2, <1>6, <2>4
    <3> QED
      BY <2>1, <2>2, <3>2, <3>3, <3>4
  <2> QED
    BY <1>7, <2>3, <2>4
<1>14. AreSet(hosts, names, n + 1, new, V)
  BY <1>6, <1>8, <1>9, <1>11, <1>12, <1>13 DEF AreSet
<1> QED
  BY <1>14 DEF new

LEMMA HostsAreSet ==
  ASSUME NEW V, Unset \in V, NEW hosts \in Seq(Entries(V)), OnePlaceEach(hosts), NEW names \in Seq(Patterns)
  PROVE  AreSet(hosts, names, Len(names), SetHosts(hosts, names), V)
<1>1. Len(names) \in Nat
  OBVIOUS
<1>2. PICK w : IsSetting(w, hosts, names, Len(names)) /\ SetHosts(hosts, names) = w[Len(names)]
  BY <1>1, SettingLeads
<1>3. \A k \in 0..Len(names) : w[k] = IF k = 0 THEN hosts ELSE SetHost(w[k - 1], names[k])
  BY <1>2 DEF IsSetting
<1> DEFINE S == {k \in 0..Len(names) : AreSet(hosts, names, k, w[k], V)}
<1>4. 0 \in S
  <2>1. w[0] = hosts
    BY <1>1, <1>3
  <2>2. Len(hosts) \in Nat
    OBVIOUS
  <2>3. AreSet(hosts, names, 0, hosts, V)
    BY <2>2 DEF AreSet, PlacesKept, MadeNew, Among, AllThere, NewInOrder
  <2> QED
    BY <1>1, <2>1, <2>3
<1>5. ASSUME NEW k \in 0..Len(names), k < Len(names), k \in S PROVE k + 1 \in S
  <2>1. AreSet(hosts, names, k, w[k], V)
    BY <1>5
  <2>2. k \in Nat /\ k + 1 \in 1..Len(names) /\ k + 1 \in 0..Len(names) /\ k + 1 # 0 /\ (k + 1) - 1 = k
    BY <1>1, <1>5
  <2>3. w[k + 1] = SetHost(w[k], names[k + 1])
    BY <1>3, <2>2
  <2>4. names[k + 1] \in Patterns
    BY <2>2
  <2>5. AreSet(hosts, names, k + 1, SetHost(w[k], names[k + 1]), V)
    <3>1. CASE \E at \in 1..Len(w[k]) : w[k][at].pattern = names[k + 1]
      BY <2>1, <2>2, <2>4, <3>1, SetAgain
    <3>2. CASE \A i \in 1..Len(w[k]) : w[k][i].pattern # names[k + 1]
      BY <2>1, <2>2, <2>4, <3>2, SetAnew
    <3> QED
      BY <3>1, <3>2
  <2> QED
    BY <2>2, <2>3, <2>5
<1> HIDE DEF S
<1>6. 0..Len(names) \subseteq S
  BY <1>1, <1>4, <1>5, UpTo
<1>7. Len(names) \in S
  BY <1>1, <1>6
<1> QED
  BY <1>2, <1>7 DEF S

(***************************************************************************)
(* What is known after n lines: the hosts are the patterns declared so far *)
(* in the order of their first declarations, each with the options of its  *)
(* last one, and the patterns of the last declaration take the options.    *)
(***************************************************************************)
WellFormed(lines) ==
  Len(lines) \in Nat /\ \A i \in 1..Len(lines) : lines[i].key = "host" => lines[i].value \in Seq(Patterns)

DeclaresAt(lines, i, x, p) ==
  lines[i].key = "host" /\ x \in 1..Len(lines[i].value) /\ lines[i].value[x] = p

Declares(lines, i, p) == \E x : DeclaresAt(lines, i, x, p)

NoHostLine(lines, i, j) == \A m \in i..j : lines[m].key # "host"

IsLast(lines, n, d, p) == d \in 1..n /\ Declares(lines, d, p) /\ \A m \in d + 1..n : ~Declares(lines, m, p)

OptionsTo(lines, n, d, o) == {k \in d + 1..n : lines[k].key = o /\ NoHostLine(lines, d + 1, k)}

IsValue(lines, n, d, o, v) ==
  \/ OptionsTo(lines, n, d, o) = {} /\ v = Unset
  \/ \E k \in OptionsTo(lines, n, d, o) :
       v = lines[k].value /\ \A m \in OptionsTo(lines, n, d, o) : m <= k

FirstBefore(lines, n, p, q) ==
  \E a \in 1..n : \E x :
    /\ DeclaresAt(lines, a, x, p)
    /\ \A b \in 1..n : \A y : DeclaresAt(lines, b, y, q) => a < b \/ (a = b /\ x < y)

AllDeclared(lines, n, hosts) ==
  /\ \A i \in 1..Len(hosts) : \E d \in 1..n : Declares(lines, d, hosts[i].pattern)
  /\ \A d \in 1..n : \A p : Declares(lines, d, p) => \E i \in 1..Len(hosts) : hosts[i].pattern = p

InOrder(lines, n, hosts) ==
  \A i, j \in 1..Len(hosts) : i < j => FirstBefore(lines, n, hosts[i].pattern, hosts[j].pattern)

Configured(lines, n, hosts) ==
  \A i \in 1..Len(hosts), d \in 1..n :
    IsLast(lines, n, d, hosts[i].pattern) => \A o \in Options : IsValue(lines, n, d, o, hosts[i].config[o])

IsCurrent(lines, n, current) ==
  \A p : p \in current <=> \E d \in 1..n : Declares(lines, d, p) /\ NoHostLine(lines, d + 1, n)

ParsedTo(lines, n, parse, V) ==
  /\ parse = [hosts |-> parse.hosts, current |-> parse.current]
  /\ parse.hosts \in Seq(Entries(V)) /\ OnePlaceEach(parse.hosts)
  /\ AllDeclared(lines, n, parse.hosts) /\ InOrder(lines, n, parse.hosts)
  /\ Configured(lines, n, parse.hosts) /\ IsCurrent(lines, n, parse.current)

\* setHostOption: an option goes to the patterns of the last declaration.
LEMMA OptionRead ==
  ASSUME NEW lines, WellFormed(lines), NEW V, NEW n \in Nat, n + 1 <= Len(lines), lines[n + 1].value \in V,
         lines[n + 1].key # "host", NEW parse, ParsedTo(lines, n, parse, V)
  PROVE  ParsedTo(lines, n + 1, ParseLine(parse, lines[n + 1]), V)
<1> DEFINE key == lines[n + 1].key
           value == lines[n + 1].value
           old == parse.hosts
           new == SetHostOption(old, parse.current, key, value)
           after == ParseLine(parse, lines[n + 1])
<1>1. /\ parse = [hosts |-> old, current |-> parse.current]
      /\ old \in Seq(Entries(V)) /\ OnePlaceEach(old)
      /\ AllDeclared(lines, n, old) /\ InOrder(lines, n, old)
      /\ Configured(lines, n, old) /\ IsCurrent(lines, n, parse.current)
  BY DEF ParsedTo
<1>2. after = [hosts |-> new, current |-> parse.current]
  <2>1. after = [parse EXCEPT !.hosts = new]
    BY DEF ParseLine
  <2> HIDE DEF new, after
  <2> QED
    BY <1>1, <2>1
<1>3. after.hosts = new /\ after.current = parse.current /\ after = [hosts |-> after.hosts, current |-> after.current]
  <2> HIDE DEF new, after
  <2> QED
    BY <1>2
<1>4. Len(old) \in Nat
  BY <1>1
<1>5. /\ new \in Seq(Entries(V)) /\ Len(new) = Len(old)
      /\ \A i \in 1..Len(new) :
           /\ new[i].pattern = old[i].pattern
           /\ \A o \in Options : new[i].config[o] = IF old[i].pattern \in parse.current /\ o = key THEN value
                                                    ELSE old[i].config[o]
  <2> DEFINE e(i) == IF old[i].pattern \in parse.current THEN [old[i] EXCEPT !.config[key] = value] ELSE old[i]
  <2>1. new = [i \in 1..Len(old) |-> e(i)]
    BY DEF SetHostOption
  <2>2. ASSUME NEW i \in 1..Len(old)
        PROVE  /\ e(i) \in Entries(V) /\ e(i).pattern = old[i].pattern
               /\ \A o \in Options : e(i).config[o] = IF old[i].pattern \in parse.current /\ o = key THEN value
                                                      ELSE old[i].config[o]
    <3>1. PICK h \in Entries(V) : h = old[i]
      BY <1>1
    <3>2. value \in V
      OBVIOUS
    <3> HIDE DEF key, value
    <3>3. [h EXCEPT !.config[key] = value] = [pattern |-> h.pattern, config |-> [h.config EXCEPT ![key] = value]]
      BY DEF Entries
    <3>4. [h.config EXCEPT ![key] = value] \in [Options -> V]
      BY <3>2 DEF Entries
    <3>5. \A o \in Options : [h.config EXCEPT ![key] = value][o] = IF o = key THEN value ELSE h.config[o]
      BY DEF Entries
    <3> QED
      BY <3>1, <3>3, <3>4, <3>5 DEF Entries
  <2> HIDE DEF new, e
  <2>3. new \in Seq(Entries(V)) /\ Len(new) = Len(old) /\ \A i \in 1..Len(new) : new[i] = e(i)
    BY <1>4, <2>1, <2>2
  <2> QED
    BY <2>2, <2>3
<1> HIDE DEF new, after
<1>6. OnePlaceEach(new)
  BY <1>1, <1>5 DEF OnePlaceEach
<1>7. \A d, p : ~Declares(lines, n + 1, p) /\ (d \in 1..n + 1 <=> d \in 1..n \/ d = n + 1)
  BY DEF Declares, DeclaresAt
<1>8. AllDeclared(lines, n + 1, new)
  <2>1. \A i \in 1..Len(new) : \E d \in 1..n + 1 : Declares(lines, d, new[i].pattern)
    BY <1>1, <1>5, <1>7 DEF AllDeclared
  <2>2. \A d \in 1..n + 1 : \A p : Declares(lines, d, p) => \E i \in 1..Len(new) : new[i].pattern = p
    BY <1>1, <1>5, <1>7 DEF AllDeclared
  <2> QED
    BY <2>1, <2>2 DEF AllDeclared
<1>9. InOrder(lines, n + 1, new)
  <2>1. \A p, q : FirstBefore(lines, n, p, q) => FirstBefore(lines, n + 1, p, q)
    BY <1>7 DEF FirstBefore, DeclaresAt
  <2> QED
    BY <1>1, <1>5, <2>1 DEF InOrder
<1>10. ASSUME NEW d \in 1..n, NEW o
       PROVE  /\ o # key \/ ~NoHostLine(lines, d + 1, n) => OptionsTo(lines, n + 1, d, o) = OptionsTo(lines, n, d, o)
              /\ o = key /\ NoHostLine(lines, d + 1, n) =>
                   n + 1 \in OptionsTo(lines, n + 1, d, o) /\ \A k \in OptionsTo(lines, n + 1, d, o) : k <= n + 1
  <2>1. d + 1..n + 1 = (d + 1..n) \cup {n + 1}
    OBVIOUS
  <2>2. NoHostLine(lines, d + 1, n + 1) <=> NoHostLine(lines, d + 1, n)
    BY <2>1 DEF NoHostLine
  <2>3. n + 1 \in OptionsTo(lines, n + 1, d, o) <=> o = key /\ NoHostLine(lines, d + 1, n)
    BY <2>1, <2>2 DEF OptionsTo
  <2>4. \A k \in d + 1..n : k \in OptionsTo(lines, n + 1, d, o) <=> k \in OptionsTo(lines, n, d, o)
    BY <2>1 DEF OptionsTo
  <2>5. OptionsTo(lines, n + 1, d, o) \subseteq d + 1..n + 1 /\ OptionsTo(lines, n, d, o) \subseteq d + 1..n
    BY DEF OptionsTo
  <2>6. n + 1 \notin OptionsTo(lines, n + 1, d, o) => OptionsTo(lines, n + 1, d, o) = OptionsTo(lines, n, d, o)
    BY <2>1, <2>4, <2>5
  <2>7. \A k \in OptionsTo(lines, n + 1, d, o) : k <= n + 1
    BY <2>5
  <2> HIDE DEF key
  <2> QED
    BY <2>3, <2>6, <2>7, Zenon
<1>11. Configured(lines, n + 1, new)
  <2> SUFFICES ASSUME NEW i \in 1..Len(new), NEW d \in 1..n + 1, IsLast(lines, n + 1, d, new[i].pattern),
                      NEW o \in Options
               PROVE  IsValue(lines, n + 1, d, o, new[i].config[o])
    BY DEF Configured
  <2> DEFINE p == new[i].pattern
  <2>1. d \in 1..n /\ IsLast(lines, n, d, p) /\ p = old[i].pattern /\ i \in 1..Len(old)
    <3>1. Declares(lines, d, p) /\ \A m \in d + 1..n + 1 : ~Declares(lines, m, p)
      BY DEF IsLast
    <3>2. d \in 1..n
      BY <1>7, <3>1
    <3>3. \A m \in d + 1..n : m \in d + 1..n + 1
      OBVIOUS
    <3> QED
      BY <1>5, <3>1, <3>2, <3>3 DEF IsLast
  <2>2. IsValue(lines, n, d, o, old[i].config[o])
    BY <1>1, <2>1 DEF Configured
  <2>3. p \in parse.current <=> NoHostLine(lines, d + 1, n)
    <3>1. ASSUME NEW m \in 1..n, Declares(lines, m, p), NoHostLine(lines, m + 1, n) PROVE m = d
      <4>1. ~(m < d)
        <5>1. m < d => d \in m + 1..n
          BY <2>1
        <5>2. lines[d].key = "host"
          BY <2>1 DEF IsLast, Declares, DeclaresAt
        <5> QED
          BY <3>1, <5>1, <5>2 DEF NoHostLine
      <4>2. ~(d < m)
        <5>1. d < m => m \in d + 1..n
          BY <2>1
        <5> QED
          BY <2>1, <3>1, <5>1 DEF IsLast
      <4> QED
        BY <2>1, <4>1, <4>2
    <3>2. p \in parse.current <=> \E m \in 1..n : Declares(lines, m, p) /\ NoHostLine(lines, m + 1, n)
      BY <1>1 DEF IsCurrent
    <3> QED
      BY <2>1, <3>1, <3>2 DEF IsLast
  <2>4. CASE p \in parse.current /\ o = key
    <3>1. new[i].config[o] = value
      BY <1>5, <2>1, <2>4
    <3>2. n + 1 \in OptionsTo(lines, n + 1, d, o) /\ \A k \in OptionsTo(lines, n + 1, d, o) : k <= n + 1
      BY <1>10, <2>1, <2>3, <2>4
    <3> QED
      BY <3>1, <3>2 DEF IsValue
  <2>5. CASE ~(p \in parse.current /\ o = key)
    <3>1. new[i].config[o] = old[i].config[o]
      BY <1>5, <2>1, <2>5
    <3>2. OptionsTo(lines, n + 1, d, o) = OptionsTo(lines, n, d, o)
      BY <1>10, <2>1, <2>3, <2>5
    <3> QED
      BY <2>2, <3>1, <3>2 DEF IsValue
  <2> QED
    BY <2>4, <2>5
<1>12. IsCurrent(lines, n + 1, parse.current)
  <2>1. \A d \in 1..n : NoHostLine(lines, d + 1, n + 1) <=> NoHostLine(lines, d + 1, n)
    <3> TAKE d \in 1..n
    <3>1. d + 1..n + 1 = (d + 1..n) \cup {n + 1}
      OBVIOUS
    <3> QED
      BY <3>1 DEF NoHostLine
  <2> QED
    BY <1>1, <1>7, <2>1 DEF IsCurrent
<1>13. ParsedTo(lines, n + 1, after, V)
  BY <1>3, <1>5, <1>6, <1>8, <1>9, <1>11, <1>12 DEF ParsedTo
<1> QED
  BY <1>13 DEF after

\* A declaration: its patterns start again, in their places or at the end.
LEMMA HostRead ==
  ASSUME NEW lines, WellFormed(lines), NEW V, Unset \in V, NEW n \in Nat, n + 1 <= Len(lines),
         lines[n + 1].key = "host", NEW parse, ParsedTo(lines, n, parse, V)
  PROVE  ParsedTo(lines, n + 1, ParseLine(parse, lines[n + 1]), V)
<1> DEFINE names == lines[n + 1].value
           old == parse.hosts
           new == SetHosts(old, names)
           current == {names[i] : i \in 1..Len(names)}
           after == ParseLine(parse, lines[n + 1])
<1>1. /\ old \in Seq(Entries(V)) /\ OnePlaceEach(old)
      /\ AllDeclared(lines, n, old) /\ InOrder(lines, n, old) /\ Configured(lines, n, old)
  BY DEF ParsedTo
<1>2. after = [hosts |-> new, current |-> current]
  BY DEF ParseLine
<1>3. after.hosts = new /\ after.current = current /\ after = [hosts |-> after.hosts, current |-> after.current]
  <2> HIDE DEF new, current, after
  <2> QED
    BY <1>2
<1>4. names \in Seq(Patterns)
  <2>1. n + 1 \in 1..Len(lines)
    BY DEF WellFormed
  <2> QED
    BY <2>1 DEF WellFormed
<1>5. AreSet(old, names, Len(names), new, V)
  BY <1>1, <1>4, HostsAreSet
<1> HIDE DEF old, new, after
<1>6. /\ new \in Seq(Entries(V)) /\ OnePlaceEach(new)
      /\ PlacesKept(old, new) /\ MadeNew(old, names, Len(names), new)
      /\ AllThere(names, Len(names), new) /\ NewInOrder(old, names, Len(names), new)
  BY <1>5 DEF AreSet
<1>7. Len(old) \in Nat /\ Len(new) \in Nat /\ Len(old) <= Len(new) /\ Len(names) \in Nat
  BY <1>1, <1>4, <1>6 DEF PlacesKept
<1>8. /\ \A x, p : DeclaresAt(lines, n + 1, x, p) <=> x \in 1..Len(names) /\ names[x] = p
      /\ \A p : Declares(lines, n + 1, p) <=> Among(names, Len(names), p)
      /\ \A p : p \in current <=> Among(names, Len(names), p)
  BY DEF DeclaresAt, Declares, Among
<1>9. \A d : d \in 1..n + 1 <=> d \in 1..n \/ d = n + 1
  OBVIOUS
<1> HIDE DEF names, current
<1>10. AllDeclared(lines, n + 1, new)
  <2>1. ASSUME NEW i \in 1..Len(new) PROVE \E d \in 1..n + 1 : Declares(lines, d, new[i].pattern)
    <3>1. CASE Among(names, Len(names), new[i].pattern)
      BY <1>8, <1>9, <3>1
    <3>2. CASE ~Among(names, Len(names), new[i].pattern)
      <4>1. i \in 1..Len(old)
        BY <1>6, <1>7, <3>2 DEF MadeNew
      <4>2. new[i].pattern = old[i].pattern
        BY <1>6, <4>1 DEF PlacesKept
      <4> QED
        BY <1>1, <1>9, <4>1, <4>2 DEF AllDeclared
    <3> QED
      BY <3>1, <3>2
  <2>2. ASSUME NEW d \in 1..n + 1, NEW p, Declares(lines, d, p) PROVE \E i \in 1..Len(new) : new[i].pattern = p
    <3>1. CASE d = n + 1
      <4>1. Among(names, Len(names), p)
        BY <1>8, <2>2, <3>1
      <4> QED
        BY <1>6, <4>1 DEF AllThere, Among
    <3>2. CASE d \in 1..n
      <4>1. PICK i \in 1..Len(old) : old[i].pattern = p
        BY <1>1, <2>2, <3>2 DEF AllDeclared
      <4>2. i \in 1..Len(new) /\ new[i].pattern = p
        BY <1>6, <1>7, <4>1 DEF PlacesKept
      <4> QED
        BY <4>2
    <3> QED
      BY <1>9, <3>1, <3>2
  <2> QED
    BY <2>1, <2>2 DEF AllDeclared
<1>11. InOrder(lines, n + 1, new)
  <2> SUFFICES ASSUME NEW i \in 1..Len(new), NEW j \in 1..Len(new), i < j
               PROVE  FirstBefore(lines, n + 1, new[i].pattern, new[j].pattern)
    BY DEF InOrder
  <2>1. \A a \in 1..n : a \in 1..n + 1 /\ a < n + 1
    OBVIOUS
  <2>2. CASE i \in 1..Len(old) /\ j \in 1..Len(old)
    <3>1. FirstBefore(lines, n, old[i].pattern, old[j].pattern)
      BY <1>1, <2>2 DEF InOrder
    <3>2. new[i].pattern = old[i].pattern /\ new[j].pattern = old[j].pattern
      BY <1>6, <2>2 DEF PlacesKept
    <3>3. PICK a \in 1..n : \E x :
            /\ DeclaresAt(lines, a, x, new[i].pattern)
            /\ \A b \in 1..n : \A y : DeclaresAt(lines, b, y, new[j].pattern) => a < b \/ (a = b /\ x < y)
      BY <3>1, <3>2 DEF FirstBefore
    <3>4. PICK x :
            /\ DeclaresAt(lines, a, x, new[i].pattern)
            /\ \A b \in 1..n : \A y : DeclaresAt(lines, b, y, new[j].pattern) => a < b \/ (a = b /\ x < y)
      BY <3>3
    <3> QED
      BY <1>9, <2>1, <3>4 DEF FirstBefore
  <2>3. CASE i \in 1..Len(old) /\ j \notin 1..Len(old)
    <3>1. new[i].pattern = old[i].pattern
      BY <1>6, <2>3 DEF PlacesKept
    <3>2. PICK a \in 1..n : \E x : DeclaresAt(lines, a, x, new[i].pattern)
      BY <1>1, <2>3, <3>1 DEF AllDeclared, Declares
    <3>3. ASSUME NEW b \in 1..n, NEW y, DeclaresAt(lines, b, y, new[j].pattern) PROVE FALSE
      <4>1. PICK k \in 1..Len(old) : old[k].pattern = new[j].pattern
        BY <1>1, <3>3 DEF AllDeclared, Declares
      <4>2. k \in 1..Len(new) /\ new[k].pattern = new[j].pattern
        BY <1>6, <1>7, <4>1 DEF PlacesKept
      <4> QED
        BY <1>6, <2>3, <4>1, <4>2 DEF OnePlaceEach
    <3>4. \A b \in 1..n + 1 : \A y : DeclaresAt(lines, b, y, new[j].pattern) => a < b
      BY <1>9, <2>1, <3>3
    <3> QED
      BY <2>1, <3>2, <3>4 DEF FirstBefore
  <2>4. CASE i \notin 1..Len(old)
    <3>1. Len(old) < i
      BY <1>7, <2>4
    <3>2. PICK a \in 1..Len(names) : /\ names[a] = new[i].pattern
                                     /\ \A b \in 1..Len(names) : names[b] = new[j].pattern => a < b
      BY <1>6, <3>1 DEF NewInOrder
    <3>3. j \notin 1..Len(old)
      BY <1>7, <3>1
    <3>4. ASSUME NEW b \in 1..n, NEW y, DeclaresAt(lines, b, y, new[j].pattern) PROVE FALSE
      <4>1. PICK k \in 1..Len(old) : old[k].pattern = new[j].pattern
        BY <1>1, <3>4 DEF AllDeclared, Declares
      <4>2. k \in 1..Len(new) /\ new[k].pattern = new[j].pattern
        BY <1>6, <1>7, <4>1 DEF PlacesKept
      <4> QED
        BY <1>6, <3>3, <4>1, <4>2 DEF OnePlaceEach
    <3>5. DeclaresAt(lines, n + 1, a, new[i].pattern)
      BY <1>8, <3>2
    <3>6. \A b \in 1..n + 1 : \A y : DeclaresAt(lines, b, y, new[j].pattern) => b = n + 1 /\ a < y
      BY <1>8, <1>9, <3>2, <3>4
    <3>7. n + 1 \in 1..n + 1
      OBVIOUS
    <3> QED
      BY <3>5, <3>6, <3>7 DEF FirstBefore
  <2>5. i \in 1..Len(old) \/ i \notin 1..Len(old)
    OBVIOUS
  <2> QED
    BY <2>2, <2>3, <2>4
<1>12. Configured(lines, n + 1, new)
  <2> SUFFICES ASSUME NEW i \in 1..Len(new), NEW d \in 1..n + 1, IsLast(lines, n + 1, d, new[i].pattern),
                      NEW o \in Options
               PROVE  IsValue(lines, n + 1, d, o, new[i].config[o])
    BY DEF Configured
  <2>1. Declares(lines, d, new[i].pattern) /\ \A m \in d + 1..n + 1 : ~Declares(lines, m, new[i].pattern)
    BY DEF IsLast
  <2>2. CASE Among(names, Len(names), new[i].pattern)
    <3>1. d = n + 1
      <4>1. d # n + 1 => n + 1 \in d + 1..n + 1
        OBVIOUS
      <4> QED
        BY <1>8, <2>1, <2>2, <4>1
    <3>2. OptionsTo(lines, n + 1, d, o) = {}
      <4>1. d + 1..n + 1 = {}
        BY <3>1
      <4> QED
        BY <4>1 DEF OptionsTo
    <3>3. new[i].config[o] = Unset
      BY <1>6, <2>2 DEF MadeNew, NoOptions
    <3> QED
      BY <3>2, <3>3 DEF IsValue
  <2>3. CASE ~Among(names, Len(names), new[i].pattern)
    <3>1. i \in 1..Len(old) /\ new[i].config = old[i].config
      BY <1>6, <1>7, <2>3 DEF MadeNew
    <3>2. new[i].pattern = old[i].pattern
      BY <1>6, <3>1 DEF PlacesKept
    <3>3. d \in 1..n
      BY <1>8, <1>9, <2>1, <2>3
    <3>4. \A m \in d + 1..n : m \in d + 1..n + 1
      OBVIOUS
    <3>5. IsLast(lines, n, d, old[i].pattern)
      BY <2>1, <3>2, <3>3, <3>4 DEF IsLast
    <3>6. IsValue(lines, n, d, o, new[i].config[o])
      BY <1>1, <3>1, <3>3, <3>5 DEF Configured
    <3>7. OptionsTo(lines, n + 1, d, o) = OptionsTo(lines, n, d, o)
      <4>1. d + 1..n + 1 = (d + 1..n) \cup {n + 1}
        BY <3>3
      <4>2. lines[n + 1].key # o
        BY ConfigAssumption
      <4> QED
        BY <4>1, <4>2 DEF OptionsTo
    <3> QED
      BY <3>6, <3>7 DEF IsValue
  <2> QED
    BY <2>2, <2>3
<1>13. IsCurrent(lines, n + 1, current)
  <2>1. ASSUME NEW d \in 1..n PROVE ~NoHostLine(lines, d + 1, n + 1)
    <3>1. n + 1 \in d + 1..n + 1
      OBVIOUS
    <3> QED
      BY <3>1 DEF NoHostLine
  <2>2. NoHostLine(lines, (n + 1) + 1, n + 1)
    BY DEF NoHostLine
  <2>3. n + 1 \in 1..n + 1
    OBVIOUS
  <2> QED
    BY <1>8, <1>9, <2>1, <2>2, <2>3 DEF IsCurrent
<1>14. ParsedTo(lines, n + 1, after, V)
  BY <1>3, <1>6, <1>10, <1>11, <1>12, <1>13 DEF ParsedTo
<1> QED
  BY <1>14 DEF after

\* parseContent: the whole file.
LEMMA FileParsed ==
  ASSUME NEW lines, WellFormed(lines)
  PROVE  \E parse, V : ParsedTo(lines, Len(lines), parse, V) /\ ParseContent(lines) = parse.hosts
<1> DEFINE V == {Unset} \cup {lines[k].value : k \in 1..Len(lines)}
<1>1. Len(lines) \in Nat
  BY DEF WellFormed
<1>2. PICK w : IsReading(w, lines, Len(lines)) /\ ParseContent(lines) = w[Len(lines)].hosts
  BY <1>1, ReadingLeads
<1>3. \A k \in 0..Len(lines) : w[k] = IF k = 0 THEN NothingParsed ELSE ParseLine(w[k - 1], lines[k])
  BY <1>2 DEF IsReading
<1>4. Unset \in V /\ \A k \in 1..Len(lines) : lines[k].value \in V
  OBVIOUS
<1> HIDE DEF V
<1> DEFINE S == {k \in 0..Len(lines) : ParsedTo(lines, k, w[k], V)}
<1>5. 0 \in S
  <2>1. w[0] = NothingParsed
    BY <1>1, <1>3
  <2>2. /\ NothingParsed.hosts = <<>> /\ NothingParsed.current = {}
        /\ NothingParsed = [hosts |-> NothingParsed.hosts, current |-> NothingParsed.current]
    BY DEF NothingParsed
  <2>3. <<>> \in Seq(Entries(V)) /\ 1..Len(<<>>) = {}
    OBVIOUS
  <2>4. 1..0 = {}
    OBVIOUS
  <2>5. ParsedTo(lines, 0, NothingParsed, V)
    BY <2>2, <2>3, <2>4 DEF ParsedTo, OnePlaceEach, AllDeclared, InOrder, Configured, IsCurrent
  <2> QED
    BY <1>1, <2>1, <2>5
<1>6. ASSUME NEW k \in 0..Len(lines), k < Len(lines), k \in S PROVE k + 1 \in S
  <2>1. ParsedTo(lines, k, w[k], V)
    BY <1>6
  <2>2. /\ k \in Nat /\ k + 1 \in 1..Len(lines) /\ k + 1 \in 0..Len(lines) /\ k + 1 # 0 /\ (k + 1) - 1 = k
        /\ k + 1 <= Len(lines)
    BY <1>1, <1>6
  <2>3. w[k + 1] = ParseLine(w[k], lines[k + 1])
    BY <1>3, <2>2
  <2>4. lines[k + 1].value \in V
    BY <1>4, <2>2
  <2>5. ParsedTo(lines, k + 1, w[k + 1], V)
    <3>1. CASE lines[k + 1].key = "host"
      BY <1>4, <2>1, <2>2, <2>3, <3>1, HostRead
    <3>2. CASE lines[k + 1].key # "host"
      BY <2>1, <2>2, <2>3, <2>4, <3>2, OptionRead
    <3> QED
      BY <3>1, <3>2
  <2> QED
    BY <2>2, <2>5
<1> HIDE DEF S
<1>7. 0..Len(lines) \subseteq S
  BY <1>1, <1>5, <1>6, UpTo
<1>8. Len(lines) \in S
  BY <1>1, <1>7
<1> QED
  BY <1>2, <1>8 DEF S

LEMMA FirstAndLast ==
  ASSUME NEW n \in Nat, NEW S \in SUBSET (1..n), S # {}
  PROVE  /\ Min(S) \in S /\ \A y \in S : Min(S) <= y
         /\ Max(S) \in S /\ \A y \in S : y <= Max(S)
<1>1. IsWellFoundedOn(Below, Nat)
  BY NatLessThanWellFounded DEF OpToRel, Below
<1>2. \E x \in S : \A y \in S : x <= y
  <2>1. S \subseteq Nat
    OBVIOUS
  <2>2. PICK x \in S : \A y \in S : <<y, x>> \notin Below
    BY <1>1, <2>1, WFMin
  <2>3. ASSUME NEW y \in S PROVE x <= y
    <3>1. x \in Nat /\ y \in Nat
      BY <2>1
    <3>2. y < x => <<y, x>> \in Below
      BY <3>1 DEF Below
    <3> QED
      BY <2>2, <3>1, <3>2
  <2> QED
    BY <2>3
<1>3. \E x \in S : \A y \in S : y <= x
  <2> DEFINE T == {n - y : y \in S}
  <2>1. \A y \in S : y \in Nat /\ n - y \in Nat /\ n - y \in T
    OBVIOUS
  <2>2. T \subseteq Nat /\ T # {}
    BY <2>1
  <2>3. \A t \in T : \E y \in S : t = n - y
    OBVIOUS
  <2> HIDE DEF T
  <2>4. PICK t \in T : \A u \in T : <<u, t>> \notin Below
    BY <1>1, <2>2, WFMin
  <2>5. PICK x \in S : t = n - x
    BY <2>3
  <2>6. ASSUME NEW y \in S PROVE y <= x
    <3>1. n - y \in Nat /\ t \in Nat /\ x \in Nat /\ y \in Nat
      BY <2>1, <2>2
    <3>2. n - y < t => <<n - y, t>> \in Below
      BY <3>1 DEF Below
    <3>3. ~(n - y < t)
      BY <2>1, <2>4, <3>2
    <3> QED
      BY <2>5, <3>1, <3>3
  <2> QED
    BY <2>6
<1> QED
  BY <1>2, <1>3 DEF Min, Max

LEMMA DeclaringLines ==
  ASSUME NEW lines, NEW p, NEW d
  PROVE  d \in Declaring(lines, p) <=> d \in 1..Len(lines) /\ Declares(lines, d, p)
BY DEF Declaring, HostLines, Declares, DeclaresAt

PlaceIn(names, p) == SelectInSeq(names, LAMBDA m : m = p)

LEMMA PlaceInNames ==
  ASSUME NEW names, Len(names) \in Nat, NEW x \in 1..Len(names)
  PROVE  /\ PlaceIn(names, names[x]) \in 1..Len(names) /\ names[PlaceIn(names, names[x])] = names[x]
         /\ PlaceIn(names, names[x]) <= x
<1> DEFINE I == {i \in 1..Len(names) : names[i] = names[x]}
<1>1. I \in SUBSET (1..Len(names)) /\ I # {} /\ x \in I
  OBVIOUS
<1>2. PlaceIn(names, names[x]) = Min(I)
  BY <1>1 DEF PlaceIn, SelectInSeq
<1> HIDE DEF I
<1>3. Min(I) \in I /\ \A y \in I : Min(I) <= y
  BY <1>1, FirstAndLast
<1> QED
  BY <1>1, <1>2, <1>3 DEF I

\* The place of a pattern in a file: the line and the position in it.
LEMMA EarlierPlace ==
  ASSUME NEW lines, WellFormed(lines), NEW p, NEW q, FirstBefore(lines, Len(lines), p, q), Declaring(lines, q) # {}
  PROVE  LET a == Min(Declaring(lines, p))
             b == Min(Declaring(lines, q))
         IN  \/ a < b
             \/ a = b /\ PlaceIn(lines[a].value, p) < PlaceIn(lines[b].value, q)
<1> DEFINE n == Len(lines)
<1>1. n \in Nat /\ Declaring(lines, p) \in SUBSET (1..n) /\ Declaring(lines, q) \in SUBSET (1..n)
  BY DEF WellFormed, Declaring, HostLines
<1>pick. PICK a \in 1..n : \E x :
           /\ DeclaresAt(lines, a, x, p)
           /\ \A b \in 1..n : \A y : DeclaresAt(lines, b, y, q) => a < b \/ (a = b /\ x < y)
  BY DEF FirstBefore
<1>2. PICK x : /\ DeclaresAt(lines, a, x, p)
               /\ \A b \in 1..n : \A y : DeclaresAt(lines, b, y, q) => a < b \/ (a = b /\ x < y)
  BY <1>pick
<1>3. a \in Declaring(lines, p)
  BY <1>2, DeclaringLines DEF Declares
<1>4. PICK c : c = Min(Declaring(lines, p))
  OBVIOUS
<1>5. PICK b : b = Min(Declaring(lines, q))
  OBVIOUS
<1>6. c \in 1..n /\ c <= a
  BY <1>1, <1>3, <1>4, FirstAndLast
<1>7. b \in Declaring(lines, q) /\ b \in 1..n
  BY <1>1, <1>5, FirstAndLast
<1>8. PICK y : DeclaresAt(lines, b, y, q)
  BY <1>7, DeclaringLines DEF Declares
<1>9. /\ y \in 1..Len(lines[b].value) /\ lines[b].value[y] = q /\ lines[b].key = "host"
      /\ x \in 1..Len(lines[a].value) /\ lines[a].value[x] = p /\ lines[a].key = "host"
  BY <1>2, <1>8 DEF DeclaresAt
<1>10. Len(lines[a].value) \in Nat /\ Len(lines[b].value) \in Nat
  BY <1>2, <1>7, <1>9 DEF WellFormed
<1>11. CASE a < b
  BY <1>4, <1>5, <1>6, <1>7, <1>11
<1>12. CASE a = b
  <2>1. c < b \/ c = a
    BY <1>6, <1>12
  <2>2. PlaceIn(lines[a].value, p) \in 1..Len(lines[a].value) /\ PlaceIn(lines[a].value, p) <= x
    BY <1>9, <1>10, PlaceInNames
  <2>3. PICK z : z = PlaceIn(lines[b].value, q)
    OBVIOUS
  <2>4. z \in 1..Len(lines[b].value) /\ lines[b].value[z] = q
    BY <1>9, <1>10, <2>3, PlaceInNames
  <2>5. DeclaresAt(lines, b, z, q)
    BY <1>9, <2>4 DEF DeclaresAt
  <2>6. x < z
    BY <1>2, <1>7, <1>12, <2>5
  <2>7. PlaceIn(lines[a].value, p) < z
    BY <1>9, <1>10, <2>2, <2>4, <2>6
  <2> QED
    BY <1>4, <1>5, <1>12, <2>1, <2>3, <2>7
<1>13. a < b \/ a = b
  BY <1>2, <1>7, <1>8
<1> QED
  BY <1>11, <1>12, <1>13

\* Facts about the parsed hosts of a whole file.
ParsedFile(lines, hosts) ==
  /\ Len(hosts) \in Nat
  /\ \A i \in 1..Len(hosts) : hosts[i].pattern \in Patterns /\ hosts[i].config = [o \in Options |-> hosts[i].config[o]]
  /\ \A i \in 1..Len(hosts) : Declaring(lines, hosts[i].pattern) # {}
  /\ \A p : Declaring(lines, p) # {} => \E i \in 1..Len(hosts) : hosts[i].pattern = p
  /\ OnePlaceEach(hosts) /\ InOrder(lines, Len(lines), hosts) /\ Configured(lines, Len(lines), hosts)

LEMMA HostsOfFile ==
  ASSUME NEW lines, WellFormed(lines)
  PROVE  ParsedFile(lines, ParseContent(lines))
<1>1. PICK parse, V : ParsedTo(lines, Len(lines), parse, V) /\ ParseContent(lines) = parse.hosts
  BY FileParsed
<1>2. PICK hosts : hosts = parse.hosts
  OBVIOUS
<1>3. /\ hosts \in Seq(Entries(V)) /\ OnePlaceEach(hosts)
      /\ AllDeclared(lines, Len(lines), hosts) /\ InOrder(lines, Len(lines), hosts)
      /\ Configured(lines, Len(lines), hosts)
  BY <1>1, <1>2 DEF ParsedTo
<1>4. Len(hosts) \in Nat
  BY <1>3
<1>5. ASSUME NEW i \in 1..Len(hosts)
      PROVE  hosts[i].pattern \in Patterns /\ hosts[i].config = [o \in Options |-> hosts[i].config[o]]
  <2>1. hosts[i] \in Entries(V)
    BY <1>3
  <2> QED
    BY <2>1 DEF Entries
<1>6. \A i \in 1..Len(hosts) : Declaring(lines, hosts[i].pattern) # {}
  BY <1>3, DeclaringLines DEF AllDeclared
<1>7. ASSUME NEW p, Declaring(lines, p) # {} PROVE \E i \in 1..Len(hosts) : hosts[i].pattern = p
  <2>1. PICK d : d \in Declaring(lines, p)
    BY <1>7
  <2>2. d \in 1..Len(lines) /\ Declares(lines, d, p)
    BY <2>1, DeclaringLines
  <2> QED
    BY <1>3, <2>2 DEF AllDeclared
<1> QED
  BY <1>1, <1>2, <1>3, <1>4, <1>5, <1>6, <1>7 DEF ParsedFile

\* The pattern that is declared before all others of a set has no rival.
Earlier(lines, p, q) ==
  LET a == Min(Declaring(lines, p))
      b == Min(Declaring(lines, q))
  IN  \/ a < b
      \/ a = b /\ PlaceIn(lines[a].value, p) <= PlaceIn(lines[a].value, q)

LEMMA EarlierFacts ==
  ASSUME NEW lines, WellFormed(lines), NEW p, NEW q, Declaring(lines, p) # {}, Declaring(lines, q) # {}
  PROVE  /\ Earlier(lines, p, p)
         /\ FirstBefore(lines, Len(lines), p, q) => Earlier(lines, p, q) /\ ~Earlier(lines, q, p)
<1> DEFINE n == Len(lines)
           a == Min(Declaring(lines, p))
           b == Min(Declaring(lines, q))
<1>1. n \in Nat /\ Declaring(lines, p) \in SUBSET (1..n) /\ Declaring(lines, q) \in SUBSET (1..n)
  BY DEF WellFormed, Declaring, HostLines
<1>2. a \in Declaring(lines, p) /\ a \in 1..n /\ b \in Declaring(lines, q) /\ b \in 1..n
  BY <1>1, FirstAndLast
<1> HIDE DEF a, b
<1>3. ASSUME NEW c \in 1..n, NEW r, c \in Declaring(lines, r)
      PROVE  PlaceIn(lines[c].value, r) \in Nat
  <2>1. PICK x : DeclaresAt(lines, c, x, r)
    BY <1>3, DeclaringLines DEF Declares
  <2>2. x \in 1..Len(lines[c].value) /\ lines[c].value[x] = r /\ Len(lines[c].value) \in Nat
    BY <2>1 DEF DeclaresAt, WellFormed
  <2>3. PlaceIn(lines[c].value, r) \in 1..Len(lines[c].value)
    BY <2>2, PlaceInNames
  <2> QED
    BY <2>2, <2>3
<1>4. PlaceIn(lines[a].value, p) \in Nat /\ PlaceIn(lines[b].value, q) \in Nat
  BY <1>2, <1>3
<1>5. Earlier(lines, p, p)
  BY <1>4 DEF Earlier, a
<1>6. ASSUME FirstBefore(lines, n, p, q) PROVE Earlier(lines, p, q) /\ ~Earlier(lines, q, p)
  <2>1. a < b \/ (a = b /\ PlaceIn(lines[a].value, p) < PlaceIn(lines[b].value, q))
    BY <1>6, EarlierPlace DEF a, b
  <2>2. /\ Earlier(lines, p, q) <=> a < b \/ (a = b /\ PlaceIn(lines[a].value, p) <= PlaceIn(lines[a].value, q))
        /\ Earlier(lines, q, p) <=> b < a \/ (b = a /\ PlaceIn(lines[b].value, q) <= PlaceIn(lines[b].value, p))
    BY DEF Earlier, a, b
  <2>3. CASE a < b
    BY <1>2, <2>2, <2>3
  <2>4. CASE a = b /\ PlaceIn(lines[a].value, p) < PlaceIn(lines[b].value, q)
    <3>1. lines[a].value = lines[b].value /\ ~(b < a)
      BY <1>2, <2>4
    <3> QED
      BY <1>4, <2>2, <2>4, <3>1
  <2> QED
    BY <2>1, <2>3, <2>4
<1> QED
  BY <1>5, <1>6

\* getHostConfig: the alias itself, or the pattern declared first that matches.
LEMMA PatternFound ==
  ASSUME NEW lines, WellFormed(lines), NEW hosts, ParsedFile(lines, hosts), NEW alias
  PROVE  LET g == GetHostConfig(hosts, alias)
         IN  \/ g = 0 /\ PatternFor(lines, alias) = NoLookup
             \/ g \in 1..Len(hosts) /\ PatternFor(lines, alias) = hosts[g].pattern
<1> DEFINE named == {i \in 1..Len(hosts) : hosts[i].pattern = alias}
           matched == {i \in 1..Len(hosts) : MatchPattern(hosts[i].pattern, alias)}
           g == GetHostConfig(hosts, alias)
           matching == {p \in Patterns : Declaring(lines, p) # {} /\ MatchPattern(p, alias)}
<1>1. named \in SUBSET (1..Len(hosts)) /\ matched \in SUBSET (1..Len(hosts)) /\ Len(hosts) \in Nat
  BY DEF ParsedFile
<1>2. g = IF named # {} /\ Min(named) # 0 THEN Min(named) ELSE IF matched # {} THEN Min(matched) ELSE 0
  BY DEF GetHostConfig, SelectInSeq
<1>3. named # {} => Min(named) \in named /\ Min(named) # 0
  <2> HIDE DEF named
  <2>1. named # {} => Min(named) \in named
    BY <1>1, FirstAndLast
  <2> QED
    BY <1>1, <2>1
<1>4. PatternFor(lines, alias) =
        IF Declaring(lines, alias) # {} THEN alias
        ELSE IF matching = {} THEN NoLookup
        ELSE CHOOSE p \in matching : \A q \in matching : Earlier(lines, p, q)
  BY DEF PatternFor, Earlier, PlaceIn
<1>5. named # {} <=> Declaring(lines, alias) # {}
  BY DEF ParsedFile
<1>6. CASE named # {}
  <2>1. g = Min(named) /\ PatternFor(lines, alias) = alias
    BY <1>2, <1>3, <1>4, <1>5, <1>6
  <2>2. g \in named
    BY <1>3, <1>6, <2>1
  <2> QED
    BY <2>1, <2>2
<1>7. CASE named = {} /\ matched = {}
  <2>1. matching = {}
    BY <1>7 DEF ParsedFile
  <2> HIDE DEF matching, named, matched
  <2> QED
    BY <1>2, <1>4, <1>5, <1>7, <2>1
<1>8. CASE named = {} /\ matched # {}
  <2>1. g = Min(matched)
    <3> HIDE DEF named, matched
    <3> QED
      BY <1>2, <1>8
  <2>2. g \in matched /\ \A i \in matched : g <= i
    <3> HIDE DEF matched, g
    <3>1. Min(matched) \in matched /\ \A i \in matched : Min(matched) <= i
      BY <1>1, <1>8, FirstAndLast
    <3> QED
      BY <2>1, <3>1
  <2> HIDE DEF g
  <2>3. g \in 1..Len(hosts) /\ hosts[g].pattern \in matching
    BY <2>2 DEF ParsedFile
  <2>4. PICK p : p = hosts[g].pattern
    OBVIOUS
  <2>5. ASSUME NEW q \in matching, q # p
        PROVE  Earlier(lines, p, q) /\ ~Earlier(lines, q, p)
    <3>1. PICK j \in 1..Len(hosts) : hosts[j].pattern = q
      BY DEF ParsedFile
    <3>2. j \in matched
      BY <3>1
    <3>3. g < j
      BY <1>1, <2>2, <2>3, <2>4, <2>5, <3>1, <3>2
    <3>4. FirstBefore(lines, Len(lines), p, q)
      BY <2>3, <2>4, <3>1, <3>3 DEF ParsedFile, InOrder
    <3>5. Declaring(lines, p) # {} /\ Declaring(lines, q) # {}
      BY <2>3, <2>4
    <3> QED
      BY <3>4, <3>5, EarlierFacts
  <2>6. Earlier(lines, p, p)
    BY <2>3, <2>4, EarlierFacts
  <2>7. p \in matching /\ \A q \in matching : Earlier(lines, p, q)
    BY <2>3, <2>4, <2>5, <2>6
  <2>8. \A r \in matching : (\A q \in matching : Earlier(lines, r, q)) => r = p
    BY <2>3, <2>4, <2>5
  <2> HIDE DEF matching
  <2>9. (CHOOSE r \in matching : \A q \in matching : Earlier(lines, r, q)) = p
    BY <2>7, <2>8
  <2>10. matching # {}
    BY <2>7
  <2>11. PatternFor(lines, alias) = p
    <3> HIDE DEF named
    <3> QED
      BY <1>4, <1>5, <1>8, <2>9, <2>10
  <2> QED
    BY <2>3, <2>4, <2>11 DEF g
<1> QED
  BY <1>6, <1>7, <1>8

\* resolveHost: the options of the last declaration of that pattern.
LEMMA ParserFollowsFile ==
  ASSUME NEW lines, WellFormed(lines), NEW alias
  PROVE  ResolveHost(ParseContent(lines), alias) = ConfiguredBy(lines, alias)
<1>1. PICK hosts : hosts = ParseContent(lines) /\ ParsedFile(lines, hosts)
  BY HostsOfFile
<1>2. PICK g : g = GetHostConfig(hosts, alias)
  OBVIOUS
<1>3. PICK p : p = PatternFor(lines, alias)
  OBVIOUS
<1> DEFINE OptionOf(o) ==
      IF p = NoLookup THEN Unset
      ELSE LET S == OptionLines(lines, Max(Declaring(lines, p)), o)
           IN IF S = {} THEN Unset ELSE lines[Max(S)].value
    config == IF g = 0 THEN [o \in Options |-> Unset] ELSE hosts[g].config
<1>4. ConfiguredBy(lines, alias) = [o \in Options |-> IF o = "hostname" /\ OptionOf(o) = Unset THEN alias ELSE OptionOf(o)]
  BY <1>3 DEF ConfiguredBy
<1>5. ResolveHost(hosts, alias) = [config EXCEPT !["hostname"] = IF @ = Unset THEN alias ELSE @]
  BY <1>2 DEF ResolveHost
<1>6. \/ g = 0 /\ p = NoLookup
      \/ g \in 1..Len(hosts) /\ p = hosts[g].pattern
  BY <1>1, <1>2, <1>3, PatternFound
<1>7. config = [o \in Options |-> OptionOf(o)]
  <2>1. CASE g = 0 /\ p = NoLookup
    BY <2>1
  <2>2. CASE g \in 1..Len(hosts) /\ p = hosts[g].pattern
    <3> DEFINE d == Max(Declaring(lines, p))
               n == Len(lines)
    <3>1. n \in Nat /\ Declaring(lines, p) \in SUBSET (1..n) /\ Declaring(lines, p) # {}
      BY <1>1, <2>2 DEF WellFormed, Declaring, HostLines, ParsedFile
    <3>2. d \in Declaring(lines, p) /\ \A m \in Declaring(lines, p) : m <= d
      <4> HIDE DEF n
      <4> QED
        BY <3>1, FirstAndLast
    <3> HIDE DEF d
    <3>3. d \in 1..n /\ IsLast(lines, n, d, p)
      <4>1. d \in 1..n /\ Declares(lines, d, p)
        BY <3>2, DeclaringLines
      <4>2. ASSUME NEW m \in d + 1..n, Declares(lines, m, p) PROVE FALSE
        <5>1. m \in 1..n /\ d < m
          BY <3>1, <4>1
        <5>2. m <= d
          BY <3>2, <4>2, <5>1, DeclaringLines
        <5> QED
          BY <4>1, <5>1, <5>2
      <4> QED
        BY <4>1, <4>2 DEF IsLast
    <3>4. p # NoLookup
      BY <1>1, <2>2, ConfigAssumption DEF ParsedFile
    <3>5. ASSUME NEW o \in Options PROVE hosts[g].config[o] = OptionOf(o)
      <4> DEFINE S == OptionLines(lines, d, o)
      <4>1. S = OptionsTo(lines, n, d, o)
        BY DEF OptionLines, OptionsTo, NoHostLine
      <4>2. IsValue(lines, n, d, o, hosts[g].config[o])
        BY <1>1, <2>2, <3>3, <3>5 DEF ParsedFile, Configured
      <4>3. S \in SUBSET (1..n)
        BY <3>1, <3>3 DEF OptionLines
      <4>4. OptionOf(o) = IF S = {} THEN Unset ELSE lines[Max(S)].value
        BY <3>4 DEF d
      <4> HIDE DEF S, OptionOf
      <4>5. CASE S = {}
        BY <4>1, <4>2, <4>4, <4>5 DEF IsValue
      <4>6. CASE S # {}
        <5>1. PICK k \in S : hosts[g].config[o] = lines[k].value /\ \A m \in S : m <= k
          BY <4>1, <4>2, <4>6 DEF IsValue
        <5>2. Max(S) \in S /\ \A m \in S : m <= Max(S)
          BY <3>1, <4>3, <4>6, FirstAndLast
        <5>3. PICK m \in S : m = Max(S)
          BY <5>2
        <5>4. m \in Nat /\ k \in Nat
          BY <3>1, <4>3
        <5>5. m <= k /\ k <= m
          BY <5>1, <5>2, <5>3
        <5>6. m = k
          BY <5>4, <5>5
        <5> QED
          BY <4>4, <4>6, <5>1, <5>3, <5>6
      <4> QED
        BY <4>5, <4>6
    <3>6. g # 0
      BY <2>2
    <3>7. hosts[g].config = [o \in Options |-> hosts[g].config[o]]
      BY <1>1, <2>2 DEF ParsedFile
    <3> HIDE DEF OptionOf
    <3> QED
      BY <3>5, <3>6, <3>7
  <2> QED
    BY <1>6, <2>1, <2>2
<1>8. "hostname" \in Options
  BY ConfigAssumption
<1> HIDE DEF config, OptionOf
<1>9. ResolveHost(hosts, alias) = ConfiguredBy(lines, alias)
  BY <1>4, <1>5, <1>7, <1>8
<1> QED
  BY <1>1, <1>9

\* A lookup, with the fields an action may change.
LookupTypes ==
  /\ DOMAIN lookup = Lookups /\ DOMAIN configHosts = Lookups /\ DOMAIN configRead = Lookups
  /\ \A l \in Lookups :
       /\ DOMAIN lookup[l] = {"state", "alias", "now", "answer"}
       /\ lookup[l].state \in {"idle", "reading", "answered"}
       /\ lookup[l].now \in Nat /\ lookup[l].now <= configClock
       /\ configRead[l].at \in Nat
  /\ configClock \in Nat /\ parsedAt \in Nat /\ parsedAt <= configClock
  /\ configFile \in ConfigFiles
  /\ configParser \in Lookups \cup {NoLookup}

\* What a parser that has returned holds is the file as it read it.
HasParsed(l) ==
  /\ configRead[l].outcome \in {"read", "failed"} /\ configRead[l].lines \in ConfigFiles
  /\ lookup[l].now <= configRead[l].at /\ configRead[l].at <= configClock
  /\ configHosts[l] = IF configRead[l].outcome = "read" THEN ParseContent(configRead[l].lines) ELSE <<>>

\* The parser in place is the last one made; before it has parsed it has no hosts.
ParsersInOrder ==
  /\ \A l \in Lookups :
       /\ lookup[l].state # "answered" => configHosts[l] = <<>>
       /\ lookup[l].state = "reading" => configParser # NoLookup /\ lookup[l].now <= lookup[configParser].now
  /\ configParser # NoLookup =>
       /\ lookup[configParser].state # "idle"
       /\ parsedAt <= lookup[configParser].now
       /\ lookup[configParser].state = "answered" => HasParsed(configParser)

\* What lookup l answers of a parser that was being read, and of one that had.
Unparsed(l, a) == a.from \in a.while \ {l} /\ a.hosts = {}

ByParser(l, a) ==
  LET r == configRead[a.from]
  IN /\ a.from \notin a.while \ {l}
     /\ lookup[a.from].state = "answered"
     /\ r.outcome \in {"read", "failed"}
     /\ r.at <= a.at /\ lookup[l].now <= r.at + ConfigTtl
     /\ r.outcome = "read" =>
          r.lines \in ConfigFiles /\ a.host = ResolveHost(ParseContent(r.lines), lookup[l].alias)
     /\ r.outcome = "failed" => a.hosts = {}

AnswerHolds(l) ==
  /\ lookup[l].answer.from \in Lookups
  /\ Unparsed(l, lookup[l].answer) \/ ByParser(l, lookup[l].answer)

AnswersHold == \A l \in Lookups : lookup[l].state = "answered" => AnswerHolds(l)

ParserInv == LookupTypes /\ ParsersInOrder /\ AnswersHold

LEMMA AnswersFollow == ParserInv => LookupsFollowTheFile
<1> SUFFICES ASSUME ParserInv, NEW l \in Lookups, lookup[l].state = "answered"
             PROVE  LET a == lookup[l].answer
                        r == configRead[a.from]
                    IN IF r.outcome = "read" /\ r.at <= a.at /\ a.from \notin a.while \ {l}
                         THEN a.host = ConfiguredBy(r.lines, lookup[l].alias) /\ lookup[l].now <= r.at + ConfigTtl
                         ELSE a.hosts = {} /\ (r.outcome = "failed" \/ a.from \in a.while \ {l})
  BY DEF LookupsFollowTheFile
<1>1. PICK a : a = lookup[l].answer
  OBVIOUS
<1>2. PICK r : r = configRead[a.from]
  OBVIOUS
<1>3. Unparsed(l, a) \/ ByParser(l, a)
  BY <1>1 DEF ParserInv, AnswersHold, AnswerHolds
<1>4. CASE Unparsed(l, a)
  BY <1>1, <1>4 DEF Unparsed
<1>5. CASE ByParser(l, a) /\ r.outcome = "failed"
  BY <1>1, <1>2, <1>5 DEF ByParser
<1>6. CASE ByParser(l, a) /\ r.outcome = "read"
  <2>1. r.lines \in ConfigFiles /\ a.host = ResolveHost(ParseContent(r.lines), lookup[l].alias)
    BY <1>2, <1>6 DEF ByParser
  <2>2. WellFormed(r.lines)
    BY <2>1, ConfigAssumption DEF WellFormed
  <2>3. a.host = ConfiguredBy(r.lines, lookup[l].alias)
    BY <2>1, <2>2, ParserFollowsFile
  <2> QED
    BY <1>1, <1>2, <1>6, <2>3 DEF ByParser
<1> QED
  BY <1>2, <1>3, <1>4, <1>5, <1>6 DEF ByParser

LEMMA NoHosts == GetAllHosts(<<>>) = {}
  BY DEF GetAllHosts

\* An answer that was given stays true: parsers that have returned keep what they read.
LEMMA AnswersStay ==
  ASSUME AnswersHold, NEW k \in Lookups, lookup[k].state = "answered",
         \A l \in Lookups : lookup[l].state = "answered" =>
           lookup'[l] = lookup[l] /\ configRead'[l] = configRead[l]
  PROVE  AnswerHolds(k)'
<1>1. PICK a : a = lookup[k].answer
  OBVIOUS
<1>2. lookup'[k] = lookup[k] /\ lookup'[k].answer = a
  BY <1>1
<1>3. a.from \in Lookups
  BY <1>1 DEF AnswersHold, AnswerHolds
<1>4. CASE Unparsed(k, a)
  BY <1>2, <1>3, <1>4 DEF AnswerHolds, Unparsed
<1>5. CASE ByParser(k, a)
  <2>1. lookup'[a.from] = lookup[a.from] /\ configRead'[a.from] = configRead[a.from]
    BY <1>3, <1>5 DEF ByParser
  <2>2. ByParser(k, a)'
    BY <1>2, <1>3, <1>5, <2>1 DEF ByParser
  <2> QED
    BY <1>2, <1>3, <2>2 DEF AnswerHolds
<1> QED
  BY <1>1, <1>4, <1>5 DEF AnswersHold, AnswerHolds

LEMMA CachedKeepsParser ==
  ASSUME ParserInv, NEW l \in Lookups, NEW alias \in HostAliases, LookupCached(l, alias)
  PROVE  ParserInv'
<1>1. PICK p : p = configParser
  OBVIOUS
<1>2. PICK answer : answer = AnswerBy(alias, configParser, configHosts[configParser])
  OBVIOUS
<1>3. p \in Lookups /\ p # NoLookup /\ ~(configClock > parsedAt + ConfigTtl)
  BY <1>1 DEF LookupCached, ParserStale, ParserInv, LookupTypes
<1>4. /\ lookup[l].state = "idle" /\ l # p
      /\ lookup' = [lookup EXCEPT ![l].state = "answered", ![l].alias = alias, ![l].now = configClock,
                                  ![l].answer = answer]
      /\ UNCHANGED <<configFile, configParser, parsedAt, configHosts, configClock, configRead>>
  BY <1>1, <1>2, <1>3 DEF LookupCached, ParserInv, ParsersInOrder
<1>5. /\ DOMAIN lookup' = Lookups /\ \A k \in Lookups \ {l} : lookup'[k] = lookup[k]
      /\ DOMAIN lookup'[l] = {"state", "alias", "now", "answer"}
      /\ lookup'[l].state = "answered" /\ lookup'[l].alias = alias /\ lookup'[l].now = configClock
      /\ lookup'[l].answer = answer
  BY <1>4 DEF ParserInv, LookupTypes
<1>6. LookupTypes'
  BY <1>4, <1>5 DEF ParserInv, LookupTypes
<1>7. ParsersInOrder'
  BY <1>1, <1>3, <1>4, <1>5 DEF ParserInv, ParsersInOrder, HasParsed
<1>8. answer.from = p /\ answer.at = configClock /\ answer.while = Reading
  BY <1>1, <1>2 DEF AnswerBy
<1>9. answer.hosts = GetAllHosts(configHosts[p]) /\ answer.host = ResolveHost(configHosts[p], alias)
  BY <1>1, <1>2 DEF AnswerBy
<1>10. lookup[p].state \in {"reading", "answered"}
  BY <1>1, <1>3 DEF ParserInv, ParsersInOrder, LookupTypes
<1>11. Unparsed(l, answer) \/ ByParser(l, answer)'
  <2>1. CASE lookup[p].state = "reading"
    <3>1. configHosts[p] = <<>>
      BY <1>3, <2>1 DEF ParserInv, ParsersInOrder
    <3> QED
      BY <1>3, <1>4, <1>8, <1>9, <2>1, <3>1, NoHosts DEF Unparsed, Reading
  <2>2. CASE lookup[p].state = "answered"
    <3>1. HasParsed(p) /\ parsedAt <= lookup[p].now
      BY <1>1, <1>3, <2>2 DEF ParserInv, ParsersInOrder
    <3>2. PICK r : r = configRead[p] /\ r = configRead'[p]
      BY <1>4
    <3>3. r.at \in Nat /\ r.at <= configClock /\ configClock <= r.at + ConfigTtl
      <4>1. configClock \in Nat /\ parsedAt \in Nat /\ r.at \in Nat /\ lookup[p].now \in Nat
        BY <1>3, <3>2 DEF ParserInv, LookupTypes
      <4>2. lookup[p].now <= r.at /\ r.at <= configClock
        BY <3>1, <3>2 DEF HasParsed
      <4> QED
        BY <1>3, <3>1, <4>1, <4>2, ConfigAssumption
    <3>4. p \notin answer.while /\ lookup'[p].state = "answered"
      BY <1>4, <1>5, <1>8, <1>3, <2>2 DEF Reading
    <3>5. /\ r.outcome \in {"read", "failed"}
          /\ r.outcome = "read" => r.lines \in ConfigFiles /\ answer.host = ResolveHost(ParseContent(r.lines), alias)
          /\ r.outcome = "failed" => answer.hosts = {}
      BY <1>9, <3>1, <3>2, NoHosts DEF HasParsed
    <3> QED
      BY <1>5, <1>8, <3>2, <3>3, <3>4, <3>5 DEF ByParser
  <2> QED
    BY <1>10, <2>1, <2>2
<1>12. ASSUME NEW k \in Lookups, lookup'[k].state = "answered"
       PROVE  AnswerHolds(k)'
  <2>1. CASE k = l
    BY <1>3, <1>5, <1>8, <1>11, <2>1 DEF AnswerHolds, Unparsed
  <2>2. CASE k # l
    <3>1. lookup[k].state = "answered"
      BY <1>5, <1>12, <2>2
    <3>2. \A m \in Lookups : lookup[m].state = "answered" =>
            lookup'[m] = lookup[m] /\ configRead'[m] = configRead[m]
      BY <1>4, <1>5
    <3> QED
      BY <3>1, <3>2, AnswersStay DEF ParserInv
  <2> QED
    BY <2>1, <2>2
<1>13. AnswersHold'
  BY <1>12 DEF AnswersHold
<1> QED
  BY <1>6, <1>7, <1>13 DEF ParserInv

LEMMA NewParserKeepsParser ==
  ASSUME ParserInv, NEW l \in Lookups, NEW alias \in HostAliases, LookupParses(l, alias), configHosts[l] = <<>>
  PROVE  ParserInv'
<1>1. /\ lookup[l].state = "idle"
      /\ configParser' = l
      /\ lookup' = [lookup EXCEPT ![l].state = "reading", ![l].alias = alias, ![l].now = configClock]
      /\ UNCHANGED <<configFile, parsedAt, configHosts, configClock, configRead>>
  BY DEF LookupParses
<1>2. /\ DOMAIN lookup' = Lookups /\ \A k \in Lookups \ {l} : lookup'[k] = lookup[k]
      /\ DOMAIN lookup'[l] = {"state", "alias", "now", "answer"}
      /\ lookup'[l].state = "reading" /\ lookup'[l].now = configClock
  BY <1>1 DEF ParserInv, LookupTypes
<1>3. l # NoLookup
  BY ConfigAssumption
<1>4. LookupTypes'
  BY <1>1, <1>2 DEF ParserInv, LookupTypes
<1>5. ParsersInOrder'
  BY <1>1, <1>2, <1>3 DEF ParserInv, ParsersInOrder, HasParsed, LookupTypes
<1>6. ASSUME NEW k \in Lookups, lookup'[k].state = "answered"
      PROVE  AnswerHolds(k)'
  <2>1. lookup[k].state = "answered"
    BY <1>2, <1>6
  <2>2. \A m \in Lookups : lookup[m].state = "answered" =>
          lookup'[m] = lookup[m] /\ configRead'[m] = configRead[m]
    BY <1>1, <1>2
  <2> QED
    BY <2>1, <2>2, AnswersStay DEF ParserInv
<1>7. AnswersHold'
  BY <1>6 DEF AnswersHold
<1> QED
  BY <1>4, <1>5, <1>7 DEF ParserInv

LEMMA ParsedKeepsParser ==
  ASSUME ParserInv, NEW l \in Lookups, NEW outcome \in {"read", "failed"}, ParseReturns(l, outcome)
  PROVE  ParserInv'
<1>1. PICK p : p = configParser
  OBVIOUS
<1>2. PICK answer : answer = AnswerBy(lookup[l].alias, configParser, configHosts'[configParser])
  OBVIOUS
<1>3. p \in Lookups /\ p # NoLookup /\ lookup[l].state = "reading" /\ lookup[l].now <= lookup[p].now
  BY <1>1 DEF ParseReturns, ParserInv, ParsersInOrder, LookupTypes
<1>4. PICK old : old = lookup[l]
  OBVIOUS
<1>5. /\ lookup' = [lookup EXCEPT ![l].state = "answered", ![l].answer = answer]
      /\ configHosts' = [configHosts EXCEPT ![l] = IF outcome = "failed" THEN <<>> ELSE ParseContent(configFile)]
      /\ configRead' = [configRead EXCEPT ![l] = [lines |-> configFile, at |-> configClock, outcome |-> outcome]]
      /\ parsedAt' = old.now
      /\ UNCHANGED <<configFile, configParser, configClock>>
  BY <1>2, <1>4 DEF ParseReturns
<1>6. /\ DOMAIN lookup' = Lookups /\ \A k \in Lookups \ {l} : lookup'[k] = lookup[k]
      /\ DOMAIN lookup'[l] = {"state", "alias", "now", "answer"}
      /\ lookup'[l].state = "answered" /\ lookup'[l].alias = old.alias /\ lookup'[l].now = old.now
      /\ lookup'[l].answer = answer
  BY <1>4, <1>5 DEF ParserInv, LookupTypes
<1>7. /\ DOMAIN configHosts' = Lookups /\ \A k \in Lookups \ {l} : configHosts'[k] = configHosts[k]
      /\ configHosts'[l] = IF outcome = "failed" THEN <<>> ELSE ParseContent(configFile)
  BY <1>5 DEF ParserInv, LookupTypes
<1>8. /\ DOMAIN configRead' = Lookups /\ \A k \in Lookups \ {l} : configRead'[k] = configRead[k]
      /\ configRead'[l].lines = configFile /\ configRead'[l].at = configClock /\ configRead'[l].outcome = outcome
  BY <1>5 DEF ParserInv, LookupTypes
<1>9. old.now \in Nat /\ old.now <= configClock
  BY <1>4 DEF ParserInv, LookupTypes
<1>10. LookupTypes'
  BY <1>5, <1>6, <1>7, <1>8, <1>9 DEF ParserInv, LookupTypes
<1>11. HasParsed(l)'
  <2>1. configFile \in ConfigFiles /\ configClock \in Nat
    BY DEF ParserInv, LookupTypes
  <2> QED
    BY <1>5, <1>6, <1>7, <1>8, <1>9, <2>1 DEF HasParsed
<1>12. ASSUME NEW k \in Lookups, k # l, HasParsed(k) PROVE HasParsed(k)'
  BY <1>5, <1>6, <1>7, <1>8, <1>12 DEF HasParsed
<1>13. ParsersInOrder'
  <2>1. p = configParser' /\ lookup'[p].state # "idle" /\ lookup'[p].now = lookup[p].now
    BY <1>1, <1>3, <1>4, <1>5, <1>6 DEF ParserInv, ParsersInOrder
  <2>2. parsedAt' <= lookup'[p].now
    BY <1>3, <1>4, <1>5, <2>1
  <2>3. lookup'[p].state = "answered" => HasParsed(p)'
    BY <1>1, <1>3, <1>6, <1>11, <1>12 DEF ParserInv, ParsersInOrder
  <2>4. ASSUME NEW k \in Lookups, lookup'[k].state # "answered"
        PROVE  /\ configHosts'[k] = <<>>
               /\ lookup'[k].state = "reading" => lookup'[k].now <= lookup'[p].now
    <3>1. k # l
      BY <1>6, <2>4
    <3>2. lookup'[k] = lookup[k] /\ configHosts'[k] = configHosts[k]
      BY <1>6, <1>7, <3>1
    <3> QED
      BY <1>1, <2>1, <2>4, <3>2 DEF ParserInv, ParsersInOrder
  <2> QED
    BY <1>3, <2>1, <2>2, <2>3, <2>4 DEF ParsersInOrder
<1>14. PICK hosts : hosts = configHosts'[p]
  OBVIOUS
<1>15. /\ answer.from = p /\ answer.at = configClock /\ answer.while = Reading
       /\ answer.hosts = GetAllHosts(hosts) /\ answer.host = ResolveHost(hosts, old.alias)
  BY <1>1, <1>2, <1>4, <1>14 DEF AnswerBy
<1>16. Unparsed(l, answer) \/ ByParser(l, answer)'
  <2>1. CASE lookup[p].state = "reading" /\ p # l
    <3>1. hosts = <<>>
      BY <1>3, <1>7, <1>14, <2>1 DEF ParserInv, ParsersInOrder
    <3> QED
      BY <1>3, <1>15, <2>1, <3>1, NoHosts DEF Unparsed, Reading
  <2>2. CASE lookup[p].state = "answered" \/ p = l
    <3>1. HasParsed(p)' /\ lookup'[p].state = "answered"
      BY <1>1, <1>3, <1>6, <1>11, <1>12, <2>2 DEF ParserInv, ParsersInOrder
    <3>2. PICK r : r = configRead'[p]
      OBVIOUS
    <3>3. r.at \in Nat /\ r.at <= configClock /\ old.now <= r.at + ConfigTtl
      <4>1. configClock \in Nat /\ r.at \in Nat /\ lookup[p].now \in Nat /\ ConfigTtl \in Nat
        BY <1>3, <1>5, <1>10, <3>2, ConfigAssumption DEF ParserInv, LookupTypes
      <4>2. lookup[p].now <= r.at /\ r.at <= configClock
        BY <1>3, <1>4, <1>5, <1>6, <3>1, <3>2 DEF HasParsed
      <4> QED
        BY <1>3, <1>4, <1>9, <4>1, <4>2
    <3>4. p \notin answer.while \ {l}
      BY <1>15, <2>2 DEF Reading
    <3>5. /\ r.outcome \in {"read", "failed"}
          /\ r.outcome = "read" =>
               r.lines \in ConfigFiles /\ answer.host = ResolveHost(ParseContent(r.lines), old.alias)
          /\ r.outcome = "failed" => answer.hosts = {}
      BY <1>14, <1>15, <3>1, <3>2, NoHosts DEF HasParsed
    <3> QED
      BY <1>6, <1>15, <3>1, <3>2, <3>3, <3>4, <3>5 DEF ByParser
  <2> QED
    BY <1>1, <1>3, <2>1, <2>2 DEF ParserInv, ParsersInOrder, LookupTypes
<1>17. ASSUME NEW k \in Lookups, lookup'[k].state = "answered"
       PROVE  AnswerHolds(k)'
  <2>1. CASE k = l
    BY <1>3, <1>6, <1>15, <1>16, <2>1 DEF AnswerHolds, Unparsed
  <2>2. CASE k # l
    <3>1. lookup[k].state = "answered"
      BY <1>6, <1>17, <2>2
    <3>2. \A m \in Lookups : lookup[m].state = "answered" =>
            lookup'[m] = lookup[m] /\ configRead'[m] = configRead[m]
      BY <1>3, <1>6, <1>8
    <3> QED
      BY <3>1, <3>2, AnswersStay DEF ParserInv
  <2> QED
    BY <2>1, <2>2
<1>18. AnswersHold'
  BY <1>17 DEF AnswersHold
<1> QED
  BY <1>10, <1>13, <1>18 DEF ParserInv

\* getSSHConfigParser, resolveSSHHost: however lookups, edits of the file and
\* returns of its reads interleave, and whatever the file declares.
THEOREM LookupsCorrect == ConfigSpec => []LookupsFollowTheFile
<1>1. ConfigInit => ParserInv
  BY ConfigAssumption DEF ConfigInit, ParserInv, LookupTypes, ParsersInOrder, AnswersHold, NotRead, NoAnswer
<1>2. ParserInv /\ [ConfigNext]_configVars => ParserInv'
  <2> SUFFICES ASSUME ParserInv, [ConfigNext]_configVars PROVE ParserInv'
    OBVIOUS
  <2>1. ASSUME NEW l \in Lookups, NEW a \in HostAliases, LookupCached(l, a) PROVE ParserInv'
    BY <2>1, CachedKeepsParser
  <2>2. ASSUME NEW l \in Lookups, NEW a \in HostAliases, LookupParses(l, a) PROVE ParserInv'
    <3>1. configHosts[l] = <<>>
      BY <2>2 DEF LookupParses, ParserInv, ParsersInOrder
    <3> QED
      BY <2>2, <3>1, NewParserKeepsParser
  <2>3. ASSUME NEW l \in Lookups, NEW outcome \in {"read", "failed"}, ParseReturns(l, outcome) PROVE ParserInv'
    BY <2>3, ParsedKeepsParser
  <2>4. CASE EditConfig
    <3>1. LookupTypes'
      BY <2>4 DEF EditConfig, ParserInv, LookupTypes
    <3>2. ParsersInOrder'
      BY <2>4 DEF EditConfig, ParserInv, ParsersInOrder, HasParsed
    <3>3. AnswersHold'
      BY <2>4 DEF EditConfig, ParserInv, AnswersHold, AnswerHolds, Unparsed, ByParser
    <3> QED
      BY <3>1, <3>2, <3>3 DEF ParserInv
  <2>5. CASE ConfigTick
    <3>1. LookupTypes'
      BY <2>5 DEF ConfigTick, ParserInv, LookupTypes
    <3>2. ParsersInOrder'
      BY <2>5 DEF ConfigTick, ParserInv, ParsersInOrder, HasParsed, LookupTypes
    <3>3. AnswersHold'
      BY <2>5 DEF ConfigTick, ParserInv, AnswersHold, AnswerHolds, Unparsed, ByParser
    <3> QED
      BY <3>1, <3>2, <3>3 DEF ParserInv
  <2>6. CASE UNCHANGED configVars
    <3>1. LookupTypes'
      BY <2>6 DEF configVars, ParserInv, LookupTypes
    <3>2. ParsersInOrder'
      BY <2>6 DEF configVars, ParserInv, ParsersInOrder, HasParsed
    <3>3. AnswersHold'
      BY <2>6 DEF configVars, ParserInv, AnswersHold, AnswerHolds, Unparsed, ByParser
    <3> QED
      BY <3>1, <3>2, <3>3 DEF ParserInv
  <2> QED
    BY <2>1, <2>2, <2>3, <2>4, <2>5, <2>6 DEF ConfigNext
<1>3. ParserInv => LookupsFollowTheFile
  BY AnswersFollow
<1> QED
  BY <1>1, <1>2, <1>3, PTL DEF ConfigSpec

=============================================================================
