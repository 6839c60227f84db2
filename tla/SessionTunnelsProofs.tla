------------------------ MODULE SessionTunnelsProofs ------------------------
(***************************************************************************)
(* Proofs about SessionTunnels, for any sets of sessions, tunnels and tool *)
(* calls, local and remote tunnels mixed in any way.                       *)
(***************************************************************************)
EXTENDS SessionTunnels, SessionManagerProofs

(***************************************************************************)
(* Under its tunnels the session manager is still itself.                  *)
(***************************************************************************)
\* A step of the whole is a step of the session manager or leaves it alone; to
\* open a tunnel is, for the manager, a caller that takes a session.
LEMMA TunnelStepsAreSessionSteps == [SystemNext]_systemVars => [Next]_vars
<1> SUFFICES ASSUME [SystemNext]_systemVars PROVE Next \/ UNCHANGED vars
  OBVIOUS
<1>1. ASSUME NEW t \in TunnelIds, NEW s \in SessionIds, CreateTunnel(t, s) PROVE Next
  <2>1. TakeSession(s) /\ s \in SessionIds
    BY <1>1 DEF CreateTunnel, TakeSession
  <2> QED BY <2>1 DEF Next, Using
<1>2. CASE SessionStep
  BY <1>2 DEF SessionStep
<1>3. ASSUME NEW t \in TunnelIds,
             \/ TunnelCreated(t) \/ TunnelFailed(t)
             \/ \E c \in Tools : CloseTunnel(c, t)
      PROVE  UNCHANGED vars
  BY <1>3 DEF TunnelCreated, TunnelFailed, CloseTunnel
<1>4. ASSUME NEW c \in CloserIds, HandleClosed(c) \/ HandleCloseFailed(c)
      PROVE  UNCHANGED vars
  BY <1>4 DEF HandleClosed, HandleCloseFailed
<1>5. ASSUME NEW s \in SessionIds, ListenerStart(s) \/ ListenerNext(s) \/ ListenerDone(s)
      PROVE  UNCHANGED vars
  BY <1>5 DEF ListenerStart, ListenerNext, ListenerDone
<1>6. CASE UNCHANGED systemVars
  BY <1>6 DEF systemVars
<1> QED BY <1>1, <1>2, <1>3, <1>4, <1>5, <1>6 DEF SystemNext

\* The tunnels and the close listener take nothing from what the session
\* manager promises: its theorems hold of the whole.
THEOREM TunnelsKeepSessions == SystemSpec => Spec
<1>1. SystemInit => Init
  BY DEF SystemInit
<1> QED BY <1>1, TunnelStepsAreSessionSteps, PTL DEF SystemSpec, Spec

(***************************************************************************)
(* The inductive invariant.                                                *)
(***************************************************************************)
TunnelTypes ==
  /\ tunnels \subseteq TunnelIds
  /\ active \in [TunnelIds -> BOOLEAN]
  /\ kind \in [TunnelIds -> {"local", "remote"}]
  /\ tunnelSession \in [TunnelIds -> SessionIds \cup {NoSession}]
  /\ creator \in [TunnelIds -> {"idle", "binding", "created", "failed"}]
  /\ firstCloser \in [TunnelIds -> CloserIds \cup {NoSession}]
  /\ closing \in [CloserIds -> TunnelIds \cup {NoTunnel}]
  /\ listener \in [SessionIds -> {"idle", "running", "done", "failed"}]
  /\ sessionTunnels \in [SessionIds -> SUBSET TunnelIds]
  /\ todo \in [SessionIds -> SUBSET TunnelIds]
  /\ metrics \in [opened : Nat, closed : Nat, active : Nat]

\* A tunnel enters the map once, when it is created, and no close precedes it:
\* a tunnel that left the map does not come back to be found by a listener.
CreatedFirst ==
  /\ \A t \in tunnels : creator[t] = "created"
  /\ \A t \in TunnelIds : creator[t] = "idle" => kind[t] = "local"
  /\ \A t \in TunnelIds : creator[t] # "created" => firstCloser[t] = NoSession
  /\ \A c \in CloserIds : closing[c] # NoTunnel =>
       creator[closing[c]] = "created" /\ firstCloser[closing[c]] # NoSession

\* What a listener found and has not reached, or is closing, is all of its
\* snapshot that may still be in the map.
ListenerCovers ==
  \A s \in SessionIds :
    /\ \A t \in sessionTunnels[s] : creator[t] = "created"
    /\ todo[s] \subseteq sessionTunnels[s]
    /\ listener[s] \in {"running", "done"} =>
         sessionTunnels[s] \cap tunnels \subseteq todo[s] \cup {closing[s]}
    /\ listener[s] # "running" => todo[s] = {} /\ closing[s] = NoTunnel

\* A local tunnel stays in the map while its first closer waits, and its first
\* closer waits while it stays there.
FirstCloserWaits ==
  /\ \A c \in CloserIds :
       closing[c] # NoTunnel /\ kind[closing[c]] = "local" /\ firstCloser[closing[c]] = c
         => closing[c] \in tunnels
  /\ \A t \in tunnels :
       kind[t] = "local" /\ firstCloser[t] # NoSession => closing[firstCloser[t]] = t
  /\ \A t \in tunnels : ~active[t] => firstCloser[t] # NoSession

\* The counters; the map is finite, or its cardinality would count nothing.
Counted == IsFiniteSet(tunnels) /\ GaugeNeverOver /\ LocalGaugeExact

TunnelInv == TunnelTypes /\ CreatedFirst /\ ListenerCovers /\ FirstCloserWaits /\ Counted

\* No tunnel, no closer.
LEMMA InitTunnelInv == SystemInit => TunnelInv
<1> SUFFICES ASSUME SystemInit PROVE TunnelInv
  OBVIOUS
<1> USE DEF SystemInit
<1>1. TunnelTypes
  BY DEF TunnelTypes
<1>2. CreatedFirst /\ ListenerCovers /\ FirstCloserWaits
  BY TunnelAssumption DEF CreatedFirst, ListenerCovers, FirstCloserWaits, CloserIds
<1>3. Counted
  BY FS_EmptySet DEF Counted, GaugeNeverOver, LocalGaugeExact
<1> QED BY <1>1, <1>2, <1>3 DEF TunnelInv

\* A closer other than the one that moves waits for what it waited for.
LEMMA StartCloseKeeps ==
  ASSUME TunnelInv, NEW c \in CloserIds, NEW t \in TunnelIds, StartCloseTunnel(c, t),
         c \in SessionIds => listener[c] = "running",
         UNCHANGED <<listener, sessionTunnels>>,
         \/ c \notin SessionIds /\ todo' = todo
         \/ c \in SessionIds /\ t \in todo[c] /\ todo' = [todo EXCEPT ![c] = @ \ {t}]
  PROVE  TunnelInv'
<1> USE DEF TunnelInv, StartCloseTunnel, creationVars
<1>0. t # NoTunnel /\ c # NoSession
  BY TunnelAssumption, NoSessionAssumption DEF CloserIds
<1>1. TunnelTypes'
  BY DEF TunnelTypes
<1>2. CreatedFirst'
  BY <1>0 DEF CreatedFirst, TunnelTypes
<1>3. ListenerCovers'
  <2> SUFFICES ASSUME NEW s \in SessionIds
               PROVE  /\ \A u \in sessionTunnels'[s] : creator'[u] = "created"
                      /\ todo'[s] \subseteq sessionTunnels'[s]
                      /\ listener'[s] \in {"running", "done"} =>
                           sessionTunnels'[s] \cap tunnels' \subseteq todo'[s] \cup {closing'[s]}
                      /\ listener'[s] # "running" => todo'[s] = {} /\ closing'[s] = NoTunnel
    BY DEF ListenerCovers
  <2>1. CASE s = c
    <3>1. /\ listener'[s] = "running" /\ closing'[s] = t /\ todo'[s] = todo[s] \ {t}
          /\ UNCHANGED <<sessionTunnels, tunnels, creator>>
      BY <2>1 DEF TunnelTypes
    <3>2. /\ todo[s] \subseteq sessionTunnels[s]
          /\ \A u \in sessionTunnels[s] : creator[u] = "created"
          /\ sessionTunnels[s] \cap tunnels \subseteq todo[s]
      BY <2>1, TunnelAssumption DEF ListenerCovers, TunnelTypes
    <3> QED BY <3>1, <3>2
  <2>2. CASE s # c
    BY <2>2 DEF ListenerCovers, TunnelTypes, CloserIds
  <2> QED BY <2>1, <2>2
<1>4. FirstCloserWaits'
  <2>1. /\ closing' = [closing EXCEPT ![c] = t]
        /\ closing[c] = NoTunnel
        /\ closing \in [CloserIds -> TunnelIds \cup {NoTunnel}]
        /\ firstCloser \in [TunnelIds -> CloserIds \cup {NoSession}]
        /\ tunnels \subseteq TunnelIds /\ t \in tunnels
        /\ UNCHANGED <<tunnels, kind>>
    BY DEF TunnelTypes
  <2>2. \A u \in TunnelIds \ {t} : firstCloser'[u] = firstCloser[u]
    <3>1. CASE firstCloser[t] = NoSession
      BY <2>1, <3>1
    <3>2. CASE firstCloser[t] # NoSession
      BY <3>2
    <3> QED BY <3>1, <3>2
  <2>3. firstCloser'[t] # NoSession
    BY <1>0, <2>1
  \* A closer of t was there before, or c is the first.
  <2>4. firstCloser'[t] = c \/ (firstCloser'[t] = firstCloser[t] /\ firstCloser[t] # NoSession)
    BY <2>1
  <2>5. ASSUME NEW d \in CloserIds, closing'[d] # NoTunnel, kind'[closing'[d]] = "local",
               firstCloser'[closing'[d]] = d
        PROVE  closing'[d] \in tunnels'
    <3>1. CASE d = c
      BY <2>1, <3>1
    <3>2. CASE d # c /\ closing[d] = t
      BY <2>1, <3>2
    <3>3. CASE d # c /\ closing[d] # t
      BY <2>1, <2>2, <2>5, <3>3 DEF FirstCloserWaits
    <3> QED BY <3>1, <3>2, <3>3
  <2>6. ASSUME NEW u \in tunnels', kind'[u] = "local", firstCloser'[u] # NoSession
        PROVE  closing'[firstCloser'[u]] = u
    <3>0. u \in TunnelIds /\ u # NoTunnel /\ u \in tunnels
      BY <2>1, TunnelAssumption
    <3>1. CASE u = t /\ firstCloser'[t] = c
      BY <2>1, <3>1
    <3>2. CASE firstCloser'[u] = firstCloser[u]
      <4>1. closing[firstCloser[u]] = u /\ firstCloser[u] \in CloserIds
        BY <2>1, <2>6, <3>0, <3>2 DEF FirstCloserWaits
      <4> QED BY <2>1, <3>0, <3>2, <4>1
    <3> QED BY <2>2, <2>4, <3>0, <3>1, <3>2
  <2>7. \A u \in tunnels' : ~active'[u] => firstCloser'[u] # NoSession
    BY <2>1, <2>2, <2>3 DEF FirstCloserWaits, TunnelTypes
  <2> QED BY <2>5, <2>6, <2>7 DEF FirstCloserWaits
<1>5. Counted'
  BY DEF Counted, GaugeNeverOver, LocalGaugeExact
<1> QED BY <1>1, <1>2, <1>3, <1>4, <1>5

\* A closer is done with its tunnel, well or not; `gone` says whether the
\* tunnel is out of the map.
LEMMA CloserLeaves ==
  ASSUME TunnelInv, NEW c \in CloserIds, closing[c] # NoTunnel,
         NEW gone \in BOOLEAN,
         gone => tunnels' = tunnels \ {closing[c]},
         ~gone => tunnels' = tunnels,
         ~gone /\ kind[closing[c]] = "local" => closing[c] \notin tunnels,
         gone /\ kind[closing[c]] = "local" => firstCloser[closing[c]] = c,
         closing' = [closing EXCEPT ![c] = NoTunnel],
         UNCHANGED <<active, creationVars, firstCloser>>
  PROVE  CreatedFirst' /\ FirstCloserWaits'
<1> DEFINE u == closing[c]
<1>1. /\ u \in TunnelIds /\ u # NoTunnel
      /\ closing \in [CloserIds -> TunnelIds \cup {NoTunnel}]
      /\ firstCloser \in [TunnelIds -> CloserIds \cup {NoSession}]
      /\ tunnels' \subseteq tunnels /\ tunnels \subseteq TunnelIds
      /\ UNCHANGED <<active, kind, creator, firstCloser>>
  BY DEF TunnelInv, TunnelTypes, creationVars
<1> HIDE DEF u
<1>2. closing'[c] = NoTunnel /\ \A d \in CloserIds \ {c} : closing'[d] = closing[d]
  BY <1>1
<1>3. CreatedFirst'
  BY <1>1, <1>2 DEF TunnelInv, CreatedFirst
\* Another closer that is the first of its local tunnel closes another tunnel.
<1>4. ASSUME NEW d \in CloserIds, closing'[d] # NoTunnel, kind'[closing'[d]] = "local",
             firstCloser'[closing'[d]] = d
      PROVE  closing'[d] \in tunnels'
  <2>1. d # c /\ closing'[d] = closing[d] /\ closing[d] \in tunnels
    BY <1>1, <1>2, <1>4 DEF TunnelInv, FirstCloserWaits
  <2>2. gone => closing[d] # u
    BY <1>1, <1>4, <2>1 DEF u
  <2> QED BY <2>1, <2>2 DEF u
<1>5. ASSUME NEW t \in tunnels', kind'[t] = "local", firstCloser'[t] # NoSession
      PROVE  closing'[firstCloser'[t]] = t
  <2>1. closing[firstCloser[t]] = t /\ firstCloser[t] \in CloserIds /\ t \in tunnels
    BY <1>1, <1>5 DEF TunnelInv, FirstCloserWaits
  <2>2. t # u
    BY <1>1, <1>5, <2>1 DEF u
  <2>3. firstCloser[t] # c
    BY <2>1, <2>2 DEF u
  <2> QED BY <1>1, <1>2, <2>1, <2>3
<1>6. \A t \in tunnels' : ~active'[t] => firstCloser'[t] # NoSession
  BY <1>1 DEF TunnelInv, FirstCloserWaits
<1> QED BY <1>3, <1>4, <1>5, <1>6 DEF FirstCloserWaits

\* The counters when a close is recorded: of a local tunnel it is the only one.
LEMMA CloseCounted ==
  ASSUME TunnelInv, NEW u \in TunnelIds,
         kind[u] = "local" => u \in tunnels,
         tunnels' = tunnels \ {u},
         metrics' = RecordTunnelClosed,
         kind' = kind
  PROVE  Counted' /\ metrics' \in [opened : Nat, closed : Nat, active : Nat]
<1>1. /\ metrics \in [opened : Nat, closed : Nat, active : Nat]
      /\ IsFiniteSet(tunnels) /\ GaugeNeverOver /\ LocalGaugeExact
  BY DEF TunnelInv, TunnelTypes, Counted
<1>2. PICK after \in Nat : after = IF metrics.active > 0 THEN metrics.active - 1 ELSE 0
  BY <1>1
<1>3. metrics' = [metrics EXCEPT !.closed = @ + 1, !.active = after]
  BY <1>2 DEF RecordTunnelClosed
<1>4. /\ metrics'.active = after /\ metrics'.closed = metrics.closed + 1
      /\ metrics'.opened = metrics.opened
      /\ metrics' \in [opened : Nat, closed : Nat, active : Nat]
  <2>1. PICK count \in Nat : count = metrics.closed + 1
    BY <1>1
  <2>2. metrics' = [metrics EXCEPT !.closed = count, !.active = after]
    BY <1>3, <2>1
  <2> QED BY <1>1, <2>1, <2>2
<1>5. /\ IsFiniteSet(tunnels') /\ Cardinality(tunnels) \in Nat
      /\ Cardinality(tunnels')
           = IF u \in tunnels THEN Cardinality(tunnels) - 1 ELSE Cardinality(tunnels)
  <2>1. /\ IsFiniteSet(tunnels \ {u})
        /\ u \in tunnels => Cardinality(tunnels \ {u}) = Cardinality(tunnels) - 1
    BY <1>1, FS_RemoveElement
  <2>2. u \notin tunnels => tunnels \ {u} = tunnels
    OBVIOUS
  <2>3. Cardinality(tunnels) \in Nat
    BY <1>1, FS_CardinalityType
  <2> QED BY <2>1, <2>2, <2>3
<1>6. Cardinality(tunnels') \in Nat
  BY <1>5, FS_CardinalityType
<1>7. GaugeNeverOver'
  BY <1>1, <1>2, <1>4, <1>5, <1>6 DEF GaugeNeverOver
<1>8. LocalGaugeExact'
  <2> SUFFICES ASSUME \A t \in TunnelIds : kind'[t] = "local"
               PROVE  /\ metrics'.active = Cardinality(tunnels')
                      /\ metrics'.opened = metrics'.closed + metrics'.active
    BY DEF LocalGaugeExact
  <2>1. /\ metrics.active = Cardinality(tunnels)
        /\ metrics.opened = metrics.closed + metrics.active
        /\ u \in tunnels
    BY <1>1 DEF LocalGaugeExact
  <2> QED BY <1>1, <1>2, <1>4, <1>5, <1>6, <2>1
<1> QED BY <1>4, <1>5, <1>7, <1>8 DEF Counted

\* Steps that leave what the listeners see alone.
LEMMA ListenersUndisturbed ==
  ASSUME ListenerCovers, TunnelTypes,
         UNCHANGED <<sessionTunnels, todo, listener, closing>>,
         \A t \in TunnelIds : creator[t] = "created" => creator'[t] = "created",
         \A t \in tunnels' \ tunnels : creator[t] # "created"
  PROVE  ListenerCovers'
  BY DEF ListenerCovers, TunnelTypes

\* A step that creates no tunnel and closes none.
LEMMA FirstClosersUndisturbed ==
  ASSUME FirstCloserWaits, UNCHANGED <<tunnels, active, kind, firstCloser, closing>>
  PROVE  FirstCloserWaits'
  BY DEF FirstCloserWaits

\* Every step of the tunnels keeps the invariant.
LEMMA NextTunnelInv == TunnelInv /\ [SystemNext]_systemVars => TunnelInv'
<1> SUFFICES ASSUME TunnelInv, [SystemNext]_systemVars PROVE TunnelInv'
  OBVIOUS
<1> USE DEF creationVars, listenerVars
<1>0. /\ TunnelTypes /\ CreatedFirst /\ ListenerCovers /\ FirstCloserWaits /\ Counted
      /\ NoTunnel \notin TunnelIds /\ tunnels \subseteq TunnelIds
  BY TunnelAssumption DEF TunnelInv, TunnelTypes
<1>1. ASSUME NEW t \in TunnelIds, NEW s \in SessionIds, CreateTunnel(t, s) PROVE TunnelInv'
  <2> USE DEF CreateTunnel
  <2>1. PICK k \in Kinds : kind' = [kind EXCEPT ![t] = k]
    BY <1>1
  <2>2. k \in {"local", "remote"} /\ creator[t] = "idle" /\ kind[t] = "local" /\ t \notin tunnels
    BY <1>0, <1>1, TunnelAssumption DEF CreatedFirst
  <2>3. TunnelTypes'
    BY <1>0, <1>1, <2>1, <2>2 DEF TunnelTypes
  <2>4. /\ creator'[t] = "binding"
        /\ \A u \in TunnelIds \ {t} : kind'[u] = kind[u] /\ creator'[u] = creator[u]
        /\ UNCHANGED <<tunnels, active, firstCloser, closing, listenerVars, metrics>>
    BY <1>0, <1>1, <2>1 DEF TunnelTypes
  <2>5. CreatedFirst'
    BY <1>0, <2>2, <2>4 DEF CreatedFirst, TunnelTypes
  <2>6. ListenerCovers'
    BY <1>0, <2>2, <2>4, ListenersUndisturbed
  \* No closer waits for a tunnel that does not exist yet.
  <2>7. FirstCloserWaits'
    <3>1. \A c \in CloserIds : closing[c] # NoTunnel => closing[c] \in TunnelIds \ {t}
      BY <1>0, <2>2 DEF CreatedFirst, TunnelTypes
    <3>2. \A u \in tunnels : u \in TunnelIds \ {t}
      BY <1>0, <2>2
    <3> QED BY <1>0, <2>4, <3>1, <3>2 DEF FirstCloserWaits
  <2>8. Counted'
    <3>1. (\A u \in TunnelIds : kind'[u] = "local") => \A u \in TunnelIds : kind[u] = "local"
      BY <2>2, <2>4
    <3> QED BY <1>0, <2>4, <3>1 DEF Counted, GaugeNeverOver, LocalGaugeExact
  <2> QED BY <2>3, <2>5, <2>6, <2>7, <2>8 DEF TunnelInv
<1>2. ASSUME NEW t \in TunnelIds, TunnelCreated(t) PROVE TunnelInv'
  <2> USE DEF TunnelCreated
  <2>1. t \notin tunnels /\ firstCloser[t] = NoSession /\ creator[t] = "binding"
    BY <1>0, <1>2 DEF CreatedFirst
  <2>2. PICK opened \in Nat, now \in Nat :
          opened = metrics.opened + 1 /\ now = metrics.active + 1
    BY <1>0 DEF TunnelTypes
  <2>3. metrics' = [metrics EXCEPT !.opened = opened, !.active = now]
    BY <1>2, <2>2
  <2>4. /\ metrics'.opened = opened /\ metrics'.active = now
        /\ metrics'.closed = metrics.closed
        /\ metrics' \in [opened : Nat, closed : Nat, active : Nat]
    BY <1>0, <2>3 DEF TunnelTypes
  <2>5. TunnelTypes'
    BY <1>0, <1>2, <2>4 DEF TunnelTypes
  <2>6. /\ \A u \in TunnelIds \ {t} : creator'[u] = creator[u] /\ active'[u] = active[u]
        /\ creator'[t] = "created" /\ active'[t] = TRUE
        /\ tunnels' = tunnels \cup {t}
        /\ UNCHANGED <<kind, tunnelSession, firstCloser, closing, listenerVars>>
    BY <1>0, <1>2 DEF TunnelTypes
  <2>7. CreatedFirst'
    BY <1>0, <2>6 DEF CreatedFirst, TunnelTypes
  <2>8. ListenerCovers'
    BY <1>0, <2>1, <2>6, ListenersUndisturbed
  <2>9. FirstCloserWaits'
    BY <1>0, <2>1, <2>6 DEF FirstCloserWaits, TunnelTypes
  <2>10. Counted'
    <3>1. /\ IsFiniteSet(tunnels') /\ Cardinality(tunnels') = Cardinality(tunnels) + 1
          /\ Cardinality(tunnels) \in Nat
      BY <1>0, <2>1, <2>6, FS_AddElement, FS_CardinalityType DEF Counted
    <3>2. metrics \in [opened : Nat, closed : Nat, active : Nat]
      BY <1>0 DEF TunnelTypes
    <3>3. GaugeNeverOver'
      BY <1>0, <2>2, <2>4, <3>1, <3>2 DEF Counted, GaugeNeverOver
    <3>4. LocalGaugeExact'
      BY <1>0, <2>2, <2>4, <2>6, <3>1, <3>2 DEF Counted, LocalGaugeExact
    <3> QED BY <3>1, <3>3, <3>4 DEF Counted
  <2> QED BY <2>5, <2>7, <2>8, <2>9, <2>10 DEF TunnelInv
<1>3. ASSUME NEW t \in TunnelIds, TunnelFailed(t) PROVE TunnelInv'
  <2> USE DEF TunnelFailed
  <2>1. /\ \A u \in TunnelIds \ {t} : creator'[u] = creator[u]
        /\ creator'[t] = "failed" /\ creator[t] = "binding"
        /\ UNCHANGED <<tunnels, active, kind, tunnelSession, firstCloser, closing, listenerVars, metrics>>
    BY <1>0, <1>3 DEF TunnelTypes
  <2>2. TunnelTypes'
    BY <1>0, <1>3 DEF TunnelTypes
  <2>3. CreatedFirst'
    BY <1>0, <2>1 DEF CreatedFirst, TunnelTypes
  <2>4. ListenerCovers' /\ FirstCloserWaits'
    BY <1>0, <2>1, ListenersUndisturbed, FirstClosersUndisturbed
  <2>5. Counted'
    BY <1>0, <2>1 DEF Counted, GaugeNeverOver, LocalGaugeExact
  <2> QED BY <2>2, <2>3, <2>4, <2>5 DEF TunnelInv
<1>4. ASSUME NEW c \in Tools, NEW t \in TunnelIds, CloseTunnel(c, t) PROVE TunnelInv'
  <2>1. c \in CloserIds /\ c \notin SessionIds
    BY TunnelAssumption DEF CloserIds
  <2> QED BY <1>4, <2>1, StartCloseKeeps DEF CloseTunnel
<1>5. ASSUME NEW c \in CloserIds, HandleClosed(c) PROVE TunnelInv'
  <2> USE DEF HandleClosed, CloseMayResolve
  <2>1. /\ closing[c] # NoTunnel /\ closing[c] \in TunnelIds
        /\ kind[closing[c]] = "local" =>
             firstCloser[closing[c]] = c /\ closing[c] \in tunnels
    BY <1>0, <1>5 DEF FirstCloserWaits, TunnelTypes
  <2>2. CreatedFirst' /\ FirstCloserWaits'
    <3>1. TRUE \in BOOLEAN
      OBVIOUS
    <3> QED BY <1>5, <2>1, <3>1, CloserLeaves
  <2>3. Counted' /\ metrics' \in [opened : Nat, closed : Nat, active : Nat]
    BY <1>5, <2>1, CloseCounted
  <2>4. TunnelTypes'
    BY <1>0, <1>5, <2>3 DEF TunnelTypes
  <2>5. ListenerCovers'
    <3>1. /\ tunnels' = tunnels \ {closing[c]}
          /\ closing'[c] = NoTunnel /\ \A d \in CloserIds \ {c} : closing'[d] = closing[d]
          /\ UNCHANGED <<sessionTunnels, todo, listener, creator>>
      BY <1>0, <1>5 DEF TunnelTypes
    <3>2. SessionIds \subseteq CloserIds
      BY DEF CloserIds
    <3> QED BY <1>0, <3>1, <3>2 DEF ListenerCovers
  <2> QED BY <2>2, <2>3, <2>4, <2>5 DEF TunnelInv
<1>6. ASSUME NEW c \in CloserIds, HandleCloseFailed(c) PROVE TunnelInv'
  <2> USE DEF HandleCloseFailed, CloseMayReject
  <2>1. /\ closing[c] # NoTunnel
        /\ kind[closing[c]] = "local" => closing[c] \notin tunnels
    BY <1>6
  <2>2. CreatedFirst' /\ FirstCloserWaits'
    <3>1. FALSE \in BOOLEAN
      OBVIOUS
    <3> QED BY <1>6, <2>1, <3>1, CloserLeaves
  <2>3. Counted'
    BY <1>0, <1>6 DEF Counted, GaugeNeverOver, LocalGaugeExact
  <2>4. TunnelTypes'
    BY <1>0, <1>6 DEF TunnelTypes
  <2>5. ListenerCovers'
    <3>1. /\ closing'[c] = NoTunnel /\ \A d \in CloserIds \ {c} : closing'[d] = closing[d]
          /\ UNCHANGED <<tunnels, sessionTunnels, creator>>
      BY <1>0, <1>6 DEF TunnelTypes
    <3>2. SessionIds \subseteq CloserIds
      BY DEF CloserIds
    <3>3. ASSUME NEW s \in SessionIds, s = c
          PROVE  listener'[s] = "failed" /\ todo'[s] = {}
      BY <1>0, <1>6, <3>3 DEF TunnelTypes
    <3>4. ASSUME NEW s \in SessionIds, s # c
          PROVE  listener'[s] = listener[s] /\ todo'[s] = todo[s]
      BY <1>0, <1>6, <3>4 DEF TunnelTypes
    <3> QED BY <1>0, <3>1, <3>2, <3>3, <3>4 DEF ListenerCovers
  <2> QED BY <2>2, <2>3, <2>4, <2>5 DEF TunnelInv
<1>7. ASSUME NEW s \in SessionIds, ListenerStart(s) PROVE TunnelInv'
  <2> DEFINE mine == {t \in tunnels : tunnelSession[t] = s}
  <2>1. /\ sessionTunnels' = [sessionTunnels EXCEPT ![s] = mine]
        /\ todo' = [todo EXCEPT ![s] = mine]
        /\ listener' = [listener EXCEPT ![s] = "running"]
        /\ UNCHANGED <<tunnels, active, kind, tunnelSession, creator, firstCloser, closing, metrics>>
    BY <1>7 DEF ListenerStart
  <2>2. mine \subseteq tunnels
    OBVIOUS
  <2> HIDE DEF mine
  <2>3. TunnelTypes'
    BY <1>0, <2>1, <2>2 DEF TunnelTypes
  <2>4. CreatedFirst' /\ FirstCloserWaits' /\ Counted'
    BY <1>0, <2>1, FirstClosersUndisturbed DEF CreatedFirst, Counted, GaugeNeverOver, LocalGaugeExact
  <2>5. ListenerCovers'
    <3>1. ASSUME NEW u \in SessionIds, u # s
          PROVE  /\ sessionTunnels'[u] = sessionTunnels[u] /\ todo'[u] = todo[u]
                 /\ listener'[u] = listener[u]
      BY <1>0, <2>1, <3>1 DEF TunnelTypes
    <3>2. sessionTunnels'[s] = mine /\ todo'[s] = mine /\ listener'[s] = "running"
      BY <1>0, <2>1 DEF TunnelTypes
    <3> QED BY <1>0, <2>1, <2>2, <3>1, <3>2 DEF ListenerCovers, CreatedFirst
  <2> QED BY <2>3, <2>4, <2>5 DEF TunnelInv
<1>8. ASSUME NEW s \in SessionIds, ListenerNext(s) PROVE TunnelInv'
  <2>1. PICK t \in todo[s] :
          /\ todo' = [todo EXCEPT ![s] = @ \ {t}]
          /\ IF t \in tunnels
               THEN StartCloseTunnel(s, t)
               ELSE UNCHANGED <<tunnels, active, creationVars, firstCloser, closing, metrics>>
    BY <1>8 DEF ListenerNext
  <2>2. /\ listener[s] = "running" /\ UNCHANGED <<listener, sessionTunnels>>
        /\ t \in TunnelIds /\ s \in CloserIds
    BY <1>0, <1>8 DEF ListenerNext, TunnelTypes, CloserIds
  <2>3. CASE t \in tunnels
    BY <2>1, <2>2, <2>3, StartCloseKeeps
  <2>4. CASE t \notin tunnels
    <3>1. UNCHANGED <<tunnels, active, kind, tunnelSession, creator, firstCloser, closing, metrics>>
      BY <2>1, <2>4
    <3>2. TunnelTypes'
      BY <1>0, <2>1, <2>2, <3>1 DEF TunnelTypes
    <3>3. CreatedFirst' /\ FirstCloserWaits' /\ Counted'
      BY <1>0, <3>1, FirstClosersUndisturbed DEF CreatedFirst, Counted, GaugeNeverOver, LocalGaugeExact
    <3>4. ListenerCovers'
      <4>1. todo'[s] = todo[s] \ {t} /\ \A u \in SessionIds \ {s} : todo'[u] = todo[u]
        BY <1>0, <2>1 DEF TunnelTypes
      <4> QED BY <1>0, <2>2, <2>4, <3>1, <4>1 DEF ListenerCovers
    <3> QED BY <3>2, <3>3, <3>4 DEF TunnelInv
  <2> QED BY <2>3, <2>4
<1>9. ASSUME NEW s \in SessionIds, ListenerDone(s) PROVE TunnelInv'
  <2> USE DEF ListenerDone
  <2>1. TunnelTypes'
    BY <1>0, <1>9 DEF TunnelTypes
  <2>2. CreatedFirst' /\ FirstCloserWaits' /\ Counted'
    BY <1>0, <1>9, FirstClosersUndisturbed DEF CreatedFirst, Counted, GaugeNeverOver, LocalGaugeExact
  <2>3. ListenerCovers'
    <3>1. /\ listener'[s] = "done" /\ listener[s] = "running" /\ closing[s] = NoTunnel
          /\ todo[s] = {}
          /\ \A u \in SessionIds \ {s} : listener'[u] = listener[u]
      BY <1>0, <1>9 DEF TunnelTypes
    <3> QED BY <1>0, <1>9, <3>1 DEF ListenerCovers
  <2> QED BY <2>1, <2>2, <2>3 DEF TunnelInv
<1>10. ASSUME UNCHANGED tunnelVars PROVE TunnelInv'
  BY <1>10 DEF tunnelVars, TunnelInv, TunnelTypes, CreatedFirst, ListenerCovers, FirstCloserWaits,
     Counted, GaugeNeverOver, LocalGaugeExact
<1>11. CASE SessionStep \/ UNCHANGED systemVars
  BY <1>10, <1>11 DEF SessionStep, systemVars
<1> QED
  BY <1>1, <1>2, <1>3, <1>4, <1>5, <1>6, <1>7, <1>8, <1>9, <1>11 DEF SystemNext

LEMMA TunnelInvariance == SystemSpec => [](TypeInv /\ TunnelInv)
<1>1. SystemSpec => []TypeInv
  BY TunnelsKeepSessions, Invariance, PTL
<1>2. SystemSpec => []TunnelInv
  BY InitTunnelInv, NextTunnelInv, PTL DEF SystemSpec
<1> QED BY <1>1, <1>2, PTL

(***************************************************************************)
(* The properties.                                                         *)
(***************************************************************************)
\* closeSessionTunnels, run to its end, left none of the tunnels it found,
\* whichever of them other closers removed or failed to close meanwhile.
THEOREM ListenerCorrect == SystemSpec => []ListenerDoneMeansClosed
<1>1. TunnelInv => ListenerDoneMeansClosed
  <2> SUFFICES ASSUME TunnelInv, NEW s \in SessionIds, listener[s] = "done"
               PROVE  sessionTunnels[s] \cap tunnels = {}
    BY DEF ListenerDoneMeansClosed
  <2>1. sessionTunnels[s] \cap tunnels \subseteq {NoTunnel}
    BY DEF TunnelInv, ListenerCovers
  <2>2. NoTunnel \notin tunnels
    BY TunnelAssumption DEF TunnelInv, TunnelTypes
  <2> QED BY <2>1, <2>2
<1> QED BY TunnelInvariance, <1>1, PTL

\* The gauge of active tunnels claims no more than the map holds, is exact when
\* every tunnel is local, and an inactive tunnel in the map has its reason.
THEOREM GaugeCorrect == SystemSpec => []GaugeRight
<1>1. TypeInv /\ TunnelInv => GaugeRight
  <2> SUFFICES ASSUME TypeInv, TunnelInv PROVE GaugeRight
    OBVIOUS
  <2>1. TunnelTypeOK
    BY DEF TunnelTypeOK, TypeInv, TunnelInv, TunnelTypes
  <2>2. InactiveHasCloser
    BY DEF InactiveHasCloser, TunnelInv, TunnelTypes, FirstCloserWaits
  <2> QED BY <2>1, <2>2 DEF GaugeRight, TunnelInv, Counted
<1> QED BY TunnelInvariance, <1>1, PTL
=============================================================================
