--------------------------- MODULE SessionTunnels ---------------------------
(***************************************************************************)
(* Port forwards over the sessions of SessionManager: src/src/tunnel.ts,   *)
(* and the close listener by which src/src/container.ts closes the tunnels *)
(* of a session that closes.                                               *)
(*                                                                         *)
(* A closeTunnel call is made by a tool call (Tools) or by the listener of *)
(* a closing session, named by the session.  Closing a local tunnel is     *)
(* net.Server.close: the first call settles when the last client is gone,  *)
(* a second one rejects after that.  Closing a remote tunnel is a request  *)
(* to the SSH server, which may accept, refuse or never answer each call.  *)
(***************************************************************************)
EXTENDS SessionManager

CONSTANTS
  TunnelIds,   \* ids drawn by createLocalTunnel and createRemoteTunnel, one per call
  NoTunnel,    \* "no tunnel": the value of closing[c] when c closes nothing
  Tools,       \* tool calls that close a tunnel
  Kinds        \* the kinds of tunnel opened: "local", "remote"

ASSUME TunnelAssumption ==
  /\ NoTunnel \notin TunnelIds
  /\ Tools \cap (SessionIds \cup {NoSession}) = {}
  /\ Kinds \subseteq {"local", "remote"}

VARIABLES
  tunnels,        \* keys of the `tunnels` map, and of `handles`, which changes with it
  active,         \* info.active
  kind,           \* info.type
  tunnelSession,  \* info.sessionId
  creator,        \* where the create call of a tunnel stands
  firstCloser,    \* of a local tunnel: who called server.close first
  closing,        \* what each closer awaits the close of
  listener,       \* the close listener of a session
  sessionTunnels, \* its snapshot of the session's tunnels
  todo,           \* the tunnels of the snapshot its loop has not reached
  metrics         \* tunnels.opened, closed and active of the metrics collector

creationVars == <<kind, tunnelSession, creator>>
listenerVars == <<listener, sessionTunnels, todo>>
tunnelVars == <<tunnels, active, creationVars, firstCloser, closing, listenerVars, metrics>>
systemVars == <<vars, tunnelVars>>

CloserIds == Tools \cup SessionIds

TunnelTypeOK ==
  /\ TypeOK
  /\ tunnels \subseteq TunnelIds
  /\ active \in [TunnelIds -> BOOLEAN]
  /\ kind \in [TunnelIds -> {"local", "remote"}]
  /\ tunnelSession \in [TunnelIds -> SessionIds \cup {NoSession}]
  /\ creator \in [TunnelIds -> {"idle", "binding", "created", "failed"}]
  /\ firstCloser \in [TunnelIds -> CloserIds \cup {NoSession}]
  /\ closing \in [CloserIds -> TunnelIds \cup {NoTunnel}]
  /\ listener \in [SessionIds -> {"idle", "running", "done", "failed"}]
  /\ sessionTunnels \in [SessionIds -> SUBSET TunnelIds]
  /\ todo \in [SessionIds -> SUBSET TunnelIds]
  /\ metrics \in [opened : Nat, closed : Nat, active : Nat]

SystemInit ==
  /\ Init
  /\ tunnels = {}
  /\ active = [t \in TunnelIds |-> FALSE]
  /\ kind = [t \in TunnelIds |-> "local"]
  /\ tunnelSession = [t \in TunnelIds |-> NoSession]
  /\ creator = [t \in TunnelIds |-> "idle"]
  /\ firstCloser = [t \in TunnelIds |-> NoSession]
  /\ closing = [c \in CloserIds |-> NoTunnel]
  /\ listener = [s \in SessionIds |-> "idle"]
  /\ sessionTunnels = [s \in SessionIds |-> {}]
  /\ todo = [s \in SessionIds |-> {}]
  /\ metrics = [opened |-> 0, closed |-> 0, active |-> 0]

----------------------------------------------------------------------------
(* Creating *)

\* createLocalTunnel / createRemoteTunnel up to the await of server.listen /
\* ssh.forwardIn: getSession gave a session, and policy allows the forward.
CreateTunnel(t, s) ==
  /\ creator[t] = "idle"
  /\ GetSession(s)
  /\ \E k \in Kinds : kind' = [kind EXCEPT ![t] = k]
  /\ tunnelSession' = [tunnelSession EXCEPT ![t] = s]
  /\ creator' = [creator EXCEPT ![t] = "binding"]
  /\ UNCHANGED <<tableVars, openVars, useVars, lifeVars, clock>>
  /\ UNCHANGED <<tunnels, active, firstCloser, closing, listenerVars, metrics>>

\* The listening socket, or the forward, is up.  A forward needs the session's
\* connection; a listening socket does not.  The session is not looked up again.
TunnelCreated(t) ==
  /\ creator[t] = "binding"
  /\ kind[t] = "remote" => tunnelSession[t] \in sessions
  /\ creator' = [creator EXCEPT ![t] = "created"]
  /\ tunnels' = tunnels \cup {t}
  /\ active' = [active EXCEPT ![t] = TRUE]
  /\ metrics' = [metrics EXCEPT !.opened = @ + 1, !.active = @ + 1]
  /\ UNCHANGED <<vars, kind, tunnelSession, firstCloser, closing, listenerVars>>

\* The port is taken, the server refuses the forward, or the connection is gone.
TunnelFailed(t) ==
  /\ creator[t] = "binding"
  /\ creator' = [creator EXCEPT ![t] = "failed"]
  /\ UNCHANGED <<vars, tunnels, active, kind, tunnelSession, firstCloser, closing,
                 listenerVars, metrics>>

----------------------------------------------------------------------------
(* Closing *)

\* closeTunnel(t) by c, up to the await of handle.close().
StartCloseTunnel(c, t) ==
  /\ t \in tunnels
  /\ closing[c] = NoTunnel
  /\ active' = [active EXCEPT ![t] = FALSE]
  /\ closing' = [closing EXCEPT ![c] = t]
  /\ firstCloser' = IF firstCloser[t] = NoSession THEN [firstCloser EXCEPT ![t] = c] ELSE firstCloser
  /\ UNCHANGED <<tunnels, creationVars, metrics>>

CloseTunnel(c, t) ==
  /\ StartCloseTunnel(c, t)
  /\ UNCHANGED <<vars, listenerVars>>

\* Slip: the error of a second server.close is ignored.
CloseMayResolveAgain(c) == closing[c] # NoTunnel

\* handle.close() may settle well: of a local tunnel, only for the first closer.
CloseMayResolve(c) ==
  /\ closing[c] # NoTunnel
  /\ kind[closing[c]] = "local" => firstCloser[closing[c]] = c

\* ... or reject: of a local tunnel, for a later closer, once the first is done.
CloseMayReject(c) ==
  /\ closing[c] # NoTunnel
  /\ kind[closing[c]] = "local" => firstCloser[closing[c]] # c /\ closing[c] \notin tunnels

\* recordTunnelClosed of the metrics collector.
RecordTunnelClosed ==
  [metrics EXCEPT !.closed = @ + 1, !.active = IF @ > 0 THEN @ - 1 ELSE 0]

\* The rest of closeTunnel.  Nothing asks whether another closer was faster.
HandleClosed(c) ==
  /\ CloseMayResolve(c)
  /\ tunnels' = tunnels \ {closing[c]}
  /\ metrics' = RecordTunnelClosed
  /\ closing' = [closing EXCEPT ![c] = NoTunnel]
  /\ UNCHANGED <<vars, active, creationVars, firstCloser, listenerVars>>

\* closeTunnel rejects; in closeSessionTunnels that ends the loop.
HandleCloseFailed(c) ==
  /\ CloseMayReject(c)
  /\ closing' = [closing EXCEPT ![c] = NoTunnel]
  /\ IF c \in SessionIds
       THEN /\ listener' = [listener EXCEPT ![c] = "failed"]
            /\ todo' = [todo EXCEPT ![c] = {}]
       ELSE UNCHANGED <<listener, todo>>
  /\ UNCHANGED <<vars, tunnels, active, creationVars, firstCloser, sessionTunnels, metrics>>

----------------------------------------------------------------------------
(* The close listener of container.ts: closeSessionTunnels *)

ListenerStart(s) ==
  /\ s \in closingSessions
  /\ listener[s] = "idle"
  /\ LET mine == {t \in tunnels : tunnelSession[t] = s} IN
       /\ sessionTunnels' = [sessionTunnels EXCEPT ![s] = mine]
       /\ todo' = [todo EXCEPT ![s] = mine]
  /\ listener' = [listener EXCEPT ![s] = "running"]
  /\ UNCHANGED <<vars, tunnels, active, creationVars, firstCloser, closing, metrics>>

\* Slip: a tunnel that is marked inactive is passed over.
ListenerSkipsInactive(s) ==
  /\ listener[s] = "running"
  /\ closing[s] = NoTunnel
  /\ \E t \in todo[s] :
       /\ todo' = [todo EXCEPT ![s] = @ \ {t}]
       /\ IF t \in tunnels /\ active[t]
            THEN StartCloseTunnel(s, t)
            ELSE UNCHANGED <<tunnels, active, creationVars, firstCloser, closing, metrics>>
  /\ UNCHANGED <<vars, listener, sessionTunnels>>

\* One turn of the loop; a tunnel that another closer removed is passed over.
ListenerNext(s) ==
  /\ listener[s] = "running"
  /\ closing[s] = NoTunnel
  /\ \E t \in todo[s] :
       /\ todo' = [todo EXCEPT ![s] = @ \ {t}]
       /\ IF t \in tunnels
            THEN StartCloseTunnel(s, t)
            ELSE UNCHANGED <<tunnels, active, creationVars, firstCloser, closing, metrics>>
  /\ UNCHANGED <<vars, listener, sessionTunnels>>

ListenerDone(s) ==
  /\ listener[s] = "running"
  /\ closing[s] = NoTunnel
  /\ todo[s] = {}
  /\ listener' = [listener EXCEPT ![s] = "done"]
  /\ UNCHANGED <<vars, tunnels, active, creationVars, firstCloser, closing,
                 sessionTunnels, todo, metrics>>

\* closeSession goes on when its listener has settled, or when the listener has
\* awaited a tunnel for five seconds: then the listener goes on too.
ListenerSettled(s) == listener[s] \in {"done", "failed"}

\* Slip: listeners are awaited without a timeout.
ListenerNeverTimesOut(s) == FALSE

ListenerTimesOut(s) == listener[s] = "running" /\ closing[s] # NoTunnel

\* A step of the session manager.
SessionStep ==
  /\ Next
  /\ \A s \in closingSessions \ closingSessions' : ListenerSettled(s) \/ ListenerTimesOut(s)
  /\ UNCHANGED tunnelVars

DisposeSession(s) ==
  /\ ListenerSettled(s) \/ ListenerTimesOut(s)
  /\ FinishClose(s)
  /\ UNCHANGED tunnelVars

SystemNext ==
  \/ SessionStep
  \/ \E t \in TunnelIds :
       \/ \E s \in SessionIds : CreateTunnel(t, s)
       \/ TunnelCreated(t)
       \/ TunnelFailed(t)
       \/ \E c \in Tools : CloseTunnel(c, t)
  \/ \E c \in CloserIds : HandleClosed(c) \/ HandleCloseFailed(c)
  \/ \E s \in SessionIds : ListenerStart(s) \/ ListenerNext(s) \/ ListenerDone(s)

\* The session manager's scheduling, and the listener's own turns.  Nothing is
\* assumed of sockets, of the SSH server, or of the tool calls.
SystemFairness ==
  /\ \A s \in SessionIds :
       /\ WF_systemVars(SessionStep /\ ReserveConnectionSlot(s))
       /\ WF_systemVars(SessionStep /\ ReserveAfterEviction(s))
       /\ WF_systemVars(SessionStep /\ OpenAfterClose(s))
       /\ WF_systemVars(DisposeSession(s))
       /\ WF_systemVars(ListenerStart(s))
       /\ WF_systemVars(ListenerNext(s))
       /\ WF_systemVars(ListenerDone(s))
  /\ WF_systemVars(SessionStep /\ CleanupExpiredSessions)
  /\ WF_systemVars(SessionStep /\ DestroyDone)

SystemSpec == SystemInit /\ [][SystemNext]_systemVars
FairSystemSpec == SystemSpec /\ SystemFairness

----------------------------------------------------------------------------
(* Properties *)

\* A closeSessionTunnels that ran to its end left none of the tunnels it found.
ListenerDoneMeansClosed ==
  \A s \in SessionIds : listener[s] = "done" => sessionTunnels[s] \cap tunnels = {}

\* The gauge of active tunnels never claims more tunnels than the map holds.
GaugeNeverOver == metrics.active <= Cardinality(tunnels)

\* Of local tunnels alone the gauge and the counters are exact: of two closers
\* of one tunnel only the first is counted.
LocalGaugeExact ==
  (\A t \in TunnelIds : kind[t] = "local")
    => /\ metrics.active = Cardinality(tunnels)
       /\ metrics.opened = metrics.closed + metrics.active

\* A tunnel is not marked inactive behind its back: an inactive tunnel in the
\* map is one a closer is working on, or one whose (remote) close has failed.
InactiveHasCloser ==
  \A t \in tunnels : ~active[t] =>
    \/ \E c \in CloserIds : closing[c] = t
    \/ kind[t] = "remote"

\* The metrics may miss a remote tunnel that was closed twice, and nothing else,
\* and no tunnel is inactive without a reason.
GaugeRight == TunnelTypeOK /\ GaugeNeverOver /\ LocalGaugeExact /\ InactiveHasCloser

\* With its tunnels, the session manager is still the one SessionManager
\* describes, its fairness included: every close ends, although the close of one
\* of the session's tunnels may hang for ever (the listener's five seconds).
ImplementsSessionManager == FairSpec

\* container.test.ts "closes tunnels when production sessions close":
\* an active tunnel has a live session.
NoOrphanTunnel == \A t \in tunnels : active[t] => tunnelSession[t] \in sessions
=============================================================================
