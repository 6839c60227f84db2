----------------------------- MODULE HttpServer -----------------------------
(***************************************************************************)
(* The HTTP server of the MCP endpoint: the registry of MCP sessions       *)
(* (src/src/http-session-registry.ts), the handlers that fill it           *)
(* (http-server-runtime.ts, http-server-router.ts) and start() and close() *)
(* (http-server-lifecycle.ts).                                             *)
(*                                                                         *)
(* A handshake makes room in the registry first and takes its place after  *)
(* the awaits in between; close() runs between any two awaits of start()   *)
(* and of the handlers.                                                    *)
(***************************************************************************)
EXTENDS Naturals, FiniteSets

CONSTANTS
  HttpIds,        \* requests that open a session, named by the session id they draw
  HttpMax,        \* maxSessions
  HttpIdleTtl,    \* sessionIdleTtlMs
  HttpMaxClock    \* bound on the clock

ASSUME HttpAssumption ==
  /\ IsFiniteSet(HttpIds)
  /\ HttpMax \in Nat \ {0}
  /\ HttpIdleTtl \in Nat
  /\ HttpMaxClock \in Nat

VARIABLES
  \* the registry and its transports
  httpSessions,   \* keys of HttpSessionRegistry.sessions
  lastSeenAt,
  conn,           \* how far the request of an id, and then its transport, has come
  streams,        \* transports with a response stream open
  httpClock,
  peak,           \* history: most handshakes that were under way at once
  late,           \* history: ids registered after close() was called
  \* the lifecycle
  startCall,      \* where start() stands
  closeCall,      \* state of closePromise, and what it waits for
  server,         \* node's Server
  held,           \* what start() has taken: the signal handlers, the interval
  cleanup         \* where the cleanup callback stands

registryVars == <<httpSessions, lastSeenAt, conn, streams, httpClock, peak, late>>
lifecycleVars == <<startCall, closeCall, server, held, cleanup>>
httpVars == <<registryVars, lifecycleVars>>

CleanupSteps == {"queued", "transports", "modernMcp", "sessionManager", "remote", "telemetry"}

HttpTypeOK ==
  /\ httpSessions \subseteq HttpIds
  /\ lastSeenAt \in [HttpIds -> Nat]
  /\ conn \in [HttpIds -> {"none", "arrived", "connecting", "open", "closed", "failed"}]
  /\ streams \subseteq HttpIds
  /\ httpClock \in Nat
  /\ peak \in Nat
  /\ late \subseteq HttpIds
  /\ startCall \in {"idle", "preparing", "listening", "listened", "stopping", "failing", "failed", "started"}
  /\ closeCall \in {"none", "awaitsCleanup", "awaitsBoth", "resolved", "rejected"}
  /\ server \in {"down", "resolving", "listening", "draining", "closed"}
  /\ held \subseteq {"signals", "interval"}
  /\ cleanup \in CleanupSteps \cup {"none", "done", "failed"}

HttpInit ==
  /\ httpSessions = {}
  /\ lastSeenAt = [i \in HttpIds |-> 0]
  /\ conn = [i \in HttpIds |-> "none"]
  /\ streams = {}
  /\ httpClock = 0
  /\ peak = 0
  /\ late = {}
  /\ startCall = "idle"
  /\ closeCall = "none"
  /\ server = "down"
  /\ held = {}
  /\ cleanup = "none"

\* closed is set in the turn that makes closePromise.
closed == closeCall # "none"

----------------------------------------------------------------------------
(* The registry *)

Handshakes == {i \in HttpIds : conn[i] = "connecting"}

ExpiredSessions == {i \in httpSessions : httpClock - lastSeenAt[i] > HttpIdleTtl}
LiveSessions == httpSessions \ ExpiredSessions

\* Slip: the registry evicts when it is over the limit, not when it is full.
EvictionsWhenOver(kept) ==
  IF Cardinality(kept) <= HttpMax THEN {{}}
  ELSE {{v} : v \in {w \in kept : \A u \in kept : lastSeenAt[w] <= lastSeenAt[u]}}

\* evictOldest, asked for when there is no room: the sets it may remove.  (Of
\* sessions seen last at the same time it takes the one inserted first.)
Evictions(kept) ==
  IF Cardinality(kept) < HttpMax THEN {{}}
  ELSE {{v} : v \in {w \in kept : \A u \in kept : lastSeenAt[w] <= lastSeenAt[u]}}

\* onClose of the registry: the transport of each removed session is closed.
WithClosed(gone) == [i \in HttpIds |-> IF i \in gone THEN "closed" ELSE conn[i]]

\* A request passed the router, and its authorization or body is awaited.
Arrive(i) ==
  /\ conn[i] = "none"
  /\ server = "listening"
  /\ conn' = [conn EXCEPT ![i] = "arrived"]
  /\ UNCHANGED <<httpSessions, lastSeenAt, streams, httpClock, peak, late, lifecycleVars>>

\* rejectIfUnauthorized, readJsonBody and the router's refusals.
Reject(i) ==
  /\ conn[i] = "arrived"
  /\ conn' = [conn EXCEPT ![i] = "failed"]
  /\ UNCHANGED <<httpSessions, lastSeenAt, streams, httpClock, peak, late, lifecycleVars>>

\* reserveCapacity: what it removes, and the number of handshakes it is among.
ReserveCapacity(gone) ==
  /\ \E evicted \in Evictions(LiveSessions) : gone = ExpiredSessions \cup evicted
  /\ peak' = IF Cardinality(Handshakes) < peak THEN peak ELSE Cardinality(Handshakes) + 1

\* handleStreamableRequest with initialize, up to its await of server.connect:
\* room is made, but the session is not in the registry yet.
OpenStreamable(i) ==
  /\ conn[i] = "arrived"
  /\ \E gone \in SUBSET httpSessions :
       /\ ReserveCapacity(gone)
       /\ httpSessions' = httpSessions \ gone
       /\ conn' = [WithClosed(gone) EXCEPT ![i] = "connecting"]
       /\ streams' = streams \ gone
  /\ UNCHANGED <<lastSeenAt, httpClock, late, lifecycleVars>>

\* onsessioninitialized, in handleRequest.
SessionInitialized(i) ==
  /\ conn[i] = "connecting"
  /\ conn' = [conn EXCEPT ![i] = "open"]
  /\ httpSessions' = httpSessions \cup {i}
  /\ lastSeenAt' = [lastSeenAt EXCEPT ![i] = httpClock]
  /\ late' = IF closed THEN late \cup {i} ELSE late
  /\ UNCHANGED <<streams, httpClock, peak, lifecycleVars>>

HandshakeFails(i) ==
  /\ conn[i] = "connecting"
  /\ conn' = [conn EXCEPT ![i] = "failed"]
  /\ UNCHANGED <<httpSessions, lastSeenAt, streams, httpClock, peak, late, lifecycleVars>>

\* handleLegacySseConnection registers the session in the turn that made room.
OpenLegacySse(i) ==
  /\ conn[i] = "arrived"
  /\ \E gone \in SUBSET httpSessions :
       /\ ReserveCapacity(gone)
       /\ httpSessions' = (httpSessions \ gone) \cup {i}
       /\ conn' = [WithClosed(gone) EXCEPT ![i] = "open"]
       /\ streams' = (streams \ gone) \cup {i}
  /\ lastSeenAt' = [lastSeenAt EXCEPT ![i] = httpClock]
  /\ late' = IF closed THEN late \cup {i} ELSE late
  /\ UNCHANGED <<httpClock, lifecycleVars>>

\* A request for a session: cleanupExpiredHttpSessions, which a message of the
\* legacy transport skips, then getActive.  A GET leaves its response open as a
\* stream.
UseSession(i) ==
  /\ server = "listening"
  /\ i \in LiveSessions
  /\ \E gone \in {ExpiredSessions, {}} :
       /\ httpSessions' = httpSessions \ gone
       /\ conn' = WithClosed(gone)
       /\ streams' \in {streams \ gone, (streams \ gone) \cup {i}}
  /\ lastSeenAt' = [lastSeenAt EXCEPT ![i] = httpClock]
  /\ UNCHANGED <<httpClock, peak, late, lifecycleVars>>

\* A DELETE, or the end of the connection: transport.onclose, removeHttpSession.
TransportCloses(i) ==
  /\ conn[i] = "open"
  /\ conn' = [conn EXCEPT ![i] = "closed"]
  /\ httpSessions' = httpSessions \ {i}
  /\ streams' = streams \ {i}
  /\ UNCHANGED <<lastSeenAt, httpClock, peak, late, lifecycleVars>>

\* The interval, and any request for a session that is gone: cleanupExpired.
CleanupExpired ==
  /\ "interval" \in held \/ server = "listening"
  /\ ExpiredSessions # {}
  /\ httpSessions' = LiveSessions
  /\ conn' = WithClosed(ExpiredSessions)
  /\ streams' = streams \ ExpiredSessions
  /\ UNCHANGED <<lastSeenAt, httpClock, peak, late, lifecycleVars>>

HttpTick ==
  /\ httpClock < HttpMaxClock
  /\ httpClock' = httpClock + 1
  /\ UNCHANGED <<httpSessions, lastSeenAt, conn, streams, peak, late, lifecycleVars>>

----------------------------------------------------------------------------
(* close() *)

\* The first call of close(), in its first turn: server.close of a server that
\* listens, and the cleanup callback as a microtask.
BeginShutdown ==
  /\ closeCall' = IF server = "listening" THEN "awaitsBoth" ELSE "awaitsCleanup"
  /\ server' = IF server = "listening" THEN "draining" ELSE server
  /\ held' = held \ {"signals"}
  /\ cleanup' = "queued"

\* close() by its owner or by a signal handler.  Later calls return the promise
\* of the first.
CloseServer ==
  /\ ~closed
  /\ BeginShutdown
  /\ UNCHANGED <<registryVars, startCall>>

\* Responses that keep the callback of server.close waiting.
OpenResponses == streams \cup {i \in HttpIds : conn[i] \in {"arrived", "connecting"}}

ServerDrained ==
  /\ server = "draining"
  /\ OpenResponses = {}
  /\ server' = "closed"
  /\ UNCHANGED <<registryVars, startCall, closeCall, held, cleanup>>

\* The transports of the sessions it finds are closed, and take themselves out
\* of the registry.
CloseAllTransports ==
  /\ cleanup = "queued"
  /\ cleanup' = "transports"
  /\ conn' = WithClosed(httpSessions)
  /\ httpSessions' = {}
  /\ streams' = streams \ httpSessions
  /\ UNCHANGED <<lastSeenAt, httpClock, peak, late, startCall, closeCall, server>>

\* Slip: the interval is left running.
CloseTransportsOnly == CloseAllTransports /\ UNCHANGED held

\* Slip: cleanup begins when the server has called back, and not beside it.
CloseTransportsAfterServer ==
  /\ server \in {"down", "resolving", "closed"}
  /\ CloseAllTransports
  /\ held' = held \ {"interval"}

\* The first step of cleanup.
CloseTransports ==
  /\ CloseAllTransports
  /\ held' = held \ {"interval"}

\* sessions.clear(), and the start of modernMcp.close().
ClearSessions ==
  /\ cleanup = "transports"
  /\ cleanup' = "modernMcp"
  /\ httpSessions' = {}
  /\ UNCHANGED <<lastSeenAt, conn, streams, httpClock, peak, late, startCall, closeCall, server, held>>

AfterStep == [modernMcp |-> "sessionManager", sessionManager |-> "remote",
              remote |-> "telemetry", telemetry |-> "done"]

\* The rest of cleanup, an await at a time; a step that rejects ends it.
CleanupStep ==
  /\ cleanup \in DOMAIN AfterStep
  /\ cleanup' \in {AfterStep[cleanup], "failed"}
  /\ UNCHANGED <<registryVars, startCall, closeCall, server, held>>

\* allSettled of the two parts.
CloseSettles ==
  /\ closeCall \in {"awaitsCleanup", "awaitsBoth"}
  /\ cleanup \in {"done", "failed"}
  /\ closeCall = "awaitsBoth" => server = "closed"
  /\ closeCall' = IF cleanup = "done" THEN "resolved" ELSE "rejected"
  /\ UNCHANGED <<registryVars, startCall, server, held, cleanup>>

----------------------------------------------------------------------------
(* start() *)

\* The catch of start(): close("startup-failed"), unless that is done already.
FailStart ==
  /\ startCall' = "failing"
  /\ IF closed THEN UNCHANGED <<closeCall, server, held, cleanup>> ELSE BeginShutdown

\* beforeListen reads the token file and validates the configuration, and may
\* throw before it sets the interval.
StartServer ==
  /\ startCall = "idle"
  /\ ~closed
  /\ \/ /\ startCall' = "preparing"
        /\ held' = held \cup {"interval"}
        /\ UNCHANGED <<closeCall, server, cleanup>>
     \/ FailStart
  /\ UNCHANGED registryVars

Listen ==
  /\ startCall = "preparing"
  /\ IF closed THEN FailStart
     ELSE /\ startCall' = "listening"
          /\ server' = "resolving"
          /\ UNCHANGED <<closeCall, held, cleanup>>
  /\ UNCHANGED registryVars

\* The host is resolved and the port bound; close() does not stop this.
ListeningEvent ==
  /\ server = "resolving"
  /\ server' = "listening"
  /\ startCall' = "listened"
  /\ UNCHANGED <<registryVars, closeCall, held, cleanup>>

ListenFails ==
  /\ server = "resolving"
  /\ server' = "down"
  /\ startCall' = "failing"
  /\ IF closed THEN UNCHANGED <<closeCall, held, cleanup>>
     ELSE closeCall' = "awaitsCleanup" /\ cleanup' = "queued" /\ UNCHANGED held
  /\ UNCHANGED registryVars

\* The continuation of listen(): a server closed meanwhile is stopped again.
Started ==
  /\ startCall = "listened"
  /\ IF closed
       THEN /\ startCall' = IF server = "listening" THEN "stopping" ELSE "failing"
            /\ server' = IF server = "listening" THEN "draining" ELSE server
            /\ UNCHANGED held
       ELSE /\ startCall' = "started"
            /\ held' = held \cup {"signals"}
            /\ UNCHANGED server
  /\ UNCHANGED <<registryVars, closeCall, cleanup>>

ServerStopped ==
  /\ startCall = "stopping"
  /\ server = "closed"
  /\ startCall' = "failing"
  /\ UNCHANGED <<registryVars, closeCall, server, held, cleanup>>

StartFails ==
  /\ startCall = "failing"
  /\ closeCall \in {"resolved", "rejected"}
  /\ startCall' = "failed"
  /\ UNCHANGED <<registryVars, closeCall, server, held, cleanup>>

----------------------------------------------------------------------------

HttpRequest(i) ==
  \/ Arrive(i)
  \/ Reject(i)
  \/ OpenStreamable(i)
  \/ SessionInitialized(i)
  \/ HandshakeFails(i)
  \/ OpenLegacySse(i)
  \/ UseSession(i)
  \/ TransportCloses(i)

Lifecycle ==
  \/ CloseServer
  \/ ServerDrained
  \/ CloseTransports
  \/ ClearSessions
  \/ CleanupStep
  \/ CloseSettles
  \/ StartServer
  \/ Listen
  \/ ListenFails
  \/ ListeningEvent
  \/ Started
  \/ ServerStopped
  \/ StartFails

HttpNext == (\E i \in HttpIds : HttpRequest(i)) \/ CleanupExpired \/ HttpTick \/ Lifecycle

\* Continuations run, the services settle, a listen succeeds or fails, and a
\* request that is being handled ends (Node's request timeout, and the handlers'
\* own awaits).
HttpFairness ==
  /\ WF_httpVars(ServerDrained)
  /\ WF_httpVars(CloseTransports \/ ClearSessions \/ CleanupStep)
  /\ WF_httpVars(CloseSettles)
  /\ WF_httpVars(Listen \/ ListeningEvent \/ ListenFails \/ Started \/ ServerStopped)
  /\ \A i \in HttpIds :
       WF_httpVars(Reject(i) \/ OpenStreamable(i) \/ OpenLegacySse(i) \/ SessionInitialized(i) \/ HandshakeFails(i))

HttpSpec == HttpInit /\ [][HttpNext]_httpVars
FairHttpSpec == HttpSpec /\ HttpFairness

----------------------------------------------------------------------------
(* Properties *)

\* What reserveCapacity does promise: n handshakes at once can take the registry
\* n - 1 over its limit, and no sequence of opens, evictions, expiries and
\* closes takes it further.  Without overlap the limit holds.
OvershootBounded ==
  /\ HttpTypeOK
  /\ Cardinality(httpSessions) + Cardinality(Handshakes)
       <= HttpMax + (IF peak = 0 THEN 0 ELSE peak - 1)

\* A transport that is open can be reached for expiry, eviction and shutdown,
\* unless its handshake ended after close() was called: no removal from the
\* registry forgets to close its transport (onClose, transport.onclose).
OpenIsRegistered ==
  /\ \A i \in HttpIds : conn[i] = "open" => i \in httpSessions \cup late
  /\ \A i \in httpSessions : conn[i] = "open"

RegistryMatches == OvershootBounded /\ OpenIsRegistered

\* Once close() has settled, in whatever order it and start() ran, no signal
\* handler and no timer is left, and the server is down or, when start() found
\* out only after listen(), on its way down (the checks of closed in start).
ClosedStaysDown ==
  closeCall \in {"resolved", "rejected"} =>
    /\ held = {}
    /\ startCall \in {"idle", "started", "failing", "failed"} => server \in {"down", "closed"}

\* close() settles, although streams were open and requests under way, unless
\* one of these opened a session behind its back.
CloseReturns == closed ~> closeCall \in {"resolved", "rejected"} \/ late # {}
=============================================================================
