------------------- MODULE SessionManagerRefinementProofs -------------------
(***************************************************************************)
(* Proof that SessionManager implements the safety part of SessionPool,    *)
(* for any set of ids and any limit: every step is one step of the pool or *)
(* leaves it alone.  That retired sessions are released (the fairness of   *)
(* SessionPool) is checked by TLC.                                         *)
(***************************************************************************)
EXTENDS SessionManagerRefinement, SessionManagerProofs

Consistent == TypeInv /\ CapacityInv

\* What the mapping reads off, given that closing sessions are in the table and
\* that an id of the table has been opened.
LEMMA SlotOfId ==
  ASSUME Consistent, NEW s \in SessionIds
  PROVE  /\ s \in closingSessions => SlotOf(s) = "retiring"
         /\ s \in sessions \ closingSessions => SlotOf(s) = "live"
         /\ s \notin sessions =>
              /\ opener[s] = "connecting" => SlotOf(s) = "reserved"
              /\ opener[s] = "failed" => SlotOf(s) = "refused"
              /\ opener[s] = "opened" => SlotOf(s) = "released"
              /\ opener[s] \in {"idle", "reconnecting", "queued", "evicting"} => SlotOf(s) = "none"
         /\ s \in sessions => opener[s] = "opened"
         /\ opener[s] \in OpenerStates
         /\ closingSessions \subseteq sessions
  BY DEF Consistent, TypeInv, TypeOK, CapacityInv, TableInv, SlotOf

\* A step that leaves the table and the opener of an id alone leaves its slot.
LEMMA SlotKept ==
  ASSUME NEW t \in SessionIds, opener'[t] = opener[t],
         t \in sessions' <=> t \in sessions,
         t \in closingSessions' <=> t \in closingSessions
  PROVE  SlotOf(t)' = SlotOf(t)
  BY DEF SlotOf

LEMMA PoolMove ==
  ASSUME NEW s \in SessionIds, NEW from, NEW to,
         SlotOf(s) = from, SlotOf(s)' = to,
         \A t \in SessionIds \ {s} : SlotOf(t)' = SlotOf(t)
  PROVE  Pool!Move(s, from, to)
  BY DEF Pool!Move, poolSlot

LEMMA PoolKept ==
  ASSUME \A t \in SessionIds : SlotOf(t)' = SlotOf(t)
  PROVE  poolSlot' = poolSlot
  BY DEF poolSlot

\* FiniteSets means the same in both modules.
LEMMA SameCardinality == \A S : Pool!Cardinality(S) = Cardinality(S)
  BY DEF Pool!Cardinality, Cardinality

\* The pool counts what the manager counts.
LEMMA HoldersOccupy ==
  ASSUME Consistent
  PROVE  Pool!Cardinality(Pool!Holders) = Occupied
<1>1. Pool!Holders = sessions \cup Connecting
  <2>1. ASSUME NEW s \in SessionIds
        PROVE  s \in Pool!Holders <=> s \in sessions \cup Connecting
    <3>1. s \in Pool!Holders <=> SlotOf(s) \in {"reserved", "live", "retiring"}
      BY DEF Pool!Holders, poolSlot
    <3> QED BY <3>1, SlotOfId DEF Connecting, OpenerStates
  <2>2. sessions \subseteq SessionIds
    BY DEF Consistent, TypeInv, TypeOK
  <2> QED BY <2>1, <2>2 DEF Pool!Holders, Connecting
<1>2. sessions \cap Connecting = {}
  BY DEF Consistent, CapacityInv, TableInv, Connecting
<1>3. /\ IsFiniteSet(sessions) /\ IsFiniteSet(Connecting)
      /\ pendingConnections = Cardinality(Connecting)
  BY DEF Consistent, CapacityInv, TableInv, TypeInv, SlotInv, SlotsAccounted
<1>4. Cardinality(sessions \cup Connecting)
        = Cardinality(sessions) + Cardinality(Connecting) - Cardinality(sessions \cap Connecting)
  BY <1>3, FS_Union
<1>5. Cardinality({}) = 0 /\ Cardinality(sessions) \in Nat /\ Cardinality(Connecting) \in Nat
  BY <1>3, FS_EmptySet, FS_CardinalityType
<1>6. Cardinality(sessions \cup Connecting) = Occupied
  BY <1>2, <1>3, <1>4, <1>5 DEF Occupied
<1> QED BY <1>1, <1>6, SameCardinality

\* A call takes a free slot, or is refused one.
LEMMA TakeSlotReserves ==
  ASSUME Consistent, Consistent', NEW s \in SessionIds,
         opener[s] \in {"queued", "evicting"}, ~Full, TakeSlot(s), UNCHANGED tableVars
  PROVE  Pool!Reserve(s)
<1>1. Pool!Cardinality(Pool!Holders) < MaxSessions
  BY HoldersOccupy, TableCardinality, MaxSessionsAssumption DEF Full, Occupied, Consistent
<1>2. s \notin sessions /\ opener'[s] = "connecting" /\ SlotOf(s) = "none"
  BY SlotOfId DEF TakeSlot, Consistent, TypeInv, TypeOK
<1>3. SlotOf(s)' = "reserved"
  BY <1>2 DEF SlotOf, tableVars, Consistent, CapacityInv, TableInv
<1>4. \A t \in SessionIds \ {s} : SlotOf(t)' = SlotOf(t)
  BY SlotKept DEF TakeSlot, tableVars, Consistent, TypeInv, TypeOK
<1> QED BY <1>1, <1>2, <1>3, <1>4, PoolMove DEF Pool!Reserve

LEMMA RefuseSlotRefuses ==
  ASSUME Consistent, Consistent', NEW s \in SessionIds,
         opener[s] \in {"queued", "evicting"}, RefuseSlot(s), UNCHANGED tableVars
  PROVE  Pool!Refuse(s)
<1>1. s \notin sessions /\ opener'[s] = "failed" /\ SlotOf(s) = "none"
  BY SlotOfId DEF RefuseSlot, Consistent, TypeInv, TypeOK
<1>2. SlotOf(s)' = "refused"
  BY <1>1 DEF SlotOf, tableVars, Consistent, CapacityInv, TableInv
<1>3. \A t \in SessionIds \ {s} : SlotOf(t)' = SlotOf(t)
  BY SlotKept DEF RefuseSlot, tableVars, Consistent, TypeInv, TypeOK
<1> QED BY <1>1, <1>2, <1>3, PoolMove DEF Pool!Refuse

\* The beginning of a close retires its sessions, while an opening that holds
\* no slot may move on.
LEMMA BeginCloseRetires ==
  ASSUME Consistent, Consistent', NEW S, S \subseteq sessions \ closingSessions, NEW who,
         BeginClose(S, who),
         \A t \in SessionIds : SlotOf(t) = "none" \/ opener'[t] = opener[t],
         \A t \in SessionIds :
           opener'[t] = opener[t] \/ opener'[t] \in {"reconnecting", "queued", "evicting"}
  PROVE  Pool!Retire(S) /\ S \in SUBSET SessionIds
<1>1. S \subseteq SessionIds /\ sessions' = sessions /\ closingSessions' = closingSessions \cup S
  BY DEF BeginClose, Consistent, TypeInv, TypeOK
<1>2. ASSUME NEW t \in S PROVE SlotOf(t) = "live" /\ SlotOf(t)' = "retiring"
  BY <1>1, <1>2, SlotOfId DEF SlotOf
<1>3. ASSUME NEW t \in SessionIds \ S PROVE SlotOf(t)' = SlotOf(t)
  <2>1. CASE opener'[t] = opener[t]
    BY <1>1, <1>3, <2>1, SlotKept
  <2>2. CASE SlotOf(t) = "none" /\ opener'[t] \in {"reconnecting", "queued", "evicting"}
    <3>1. t \notin sessions
      BY <2>2, SlotOfId
    <3>2. t \notin sessions' /\ t \notin closingSessions'
      BY <1>1, <1>3, <3>1, SlotOfId
    <3> QED BY <2>2, <3>2 DEF SlotOf
  <2> QED BY <2>1, <2>2
<1> QED BY <1>1, <1>2, <1>3 DEF Pool!Retire, poolSlot

\* A step in which only openings that hold no slot move, and do not get one.
LEMMA OpeningWaits ==
  ASSUME Consistent, Consistent', NEW s \in SessionIds, UNCHANGED tableVars,
         opener[s] \in {"idle", "reconnecting"},
         opener' = [opener EXCEPT ![s] = "queued"]
  PROVE  poolSlot' = poolSlot
<1>1. s \notin sessions /\ SlotOf(s) = "none" /\ opener'[s] = "queued"
  BY SlotOfId DEF Consistent, TypeInv, TypeOK
<1>2. SlotOf(s)' = "none"
  BY <1>1, SlotOfId DEF SlotOf, tableVars
<1>3. \A t \in SessionIds \ {s} : SlotOf(t)' = SlotOf(t)
  BY SlotKept DEF tableVars, Consistent, TypeInv, TypeOK
<1> QED BY <1>1, <1>2, <1>3, PoolKept

\* The initial state is the empty pool.
LEMMA InitPool == Init => Pool!Init
  BY DEF Init, Pool!Init, poolSlot, SlotOf

\* Every step of the session manager is a step of the pool, or leaves it alone.
LEMMA StepPool ==
  Consistent /\ Consistent' /\ [Next]_vars => [Pool!Next]_poolSlot
<1> SUFFICES ASSUME Consistent, Consistent', [Next]_vars
             PROVE  Pool!Next \/ poolSlot' = poolSlot
  OBVIOUS
<1> USE DEF tableVars, openVars, useVars, infoVars, lifeVars
<1>0. /\ opener \in [SessionIds -> OpenerStates]
      /\ closingSessions \subseteq sessions /\ sessions \subseteq SessionIds
      /\ \A t \in sessions : opener[t] = "opened"
  BY DEF Consistent, TypeInv, TypeOK, CapacityInv, TableInv
<1>a. ASSUME UNCHANGED <<sessions, closingSessions, opener>> PROVE poolSlot' = poolSlot
  BY <1>a, SlotKept, PoolKept
<1>b. ASSUME NEW S, S \subseteq sessions \ closingSessions, NEW who,
             BeginClose(S, who), opener' = opener
      PROVE  Pool!Next
  BY <1>b, BeginCloseRetires DEF Pool!Next
<1>1. ASSUME NEW s \in SessionIds, OpenSession(s) \/ OpenAfterClose(s)
      PROVE  poolSlot' = poolSlot
  BY <1>1, OpeningWaits DEF OpenSession, OpenAfterClose, StartOpening
<1>2. ASSUME NEW s \in SessionIds, ReserveConnectionSlot(s) PROVE Pool!Next
  <2>1. CASE ~Full /\ TakeSlot(s) /\ UNCHANGED tableVars
    BY <1>2, <2>1, TakeSlotReserves DEF ReserveConnectionSlot, Pool!Next
  <2>2. CASE RefuseSlot(s) /\ UNCHANGED tableVars
    BY <1>2, <2>2, RefuseSlotRefuses DEF ReserveConnectionSlot, Pool!Next
  <2>3. ASSUME NEW victim \in Oldest,
               BeginClose({victim}, "eviction"),
               opener' = [opener EXCEPT ![s] = "evicting"]
        PROVE  Pool!Next
    <3>1. {victim} \subseteq sessions \ closingSessions
      BY DEF Oldest, Idle
    <3>2. opener[s] = "queued" /\ SlotOf(s) = "none"
      BY <1>0, <1>2, SlotOfId DEF ReserveConnectionSlot
    <3>3. \A t \in SessionIds : SlotOf(t) = "none" \/ opener'[t] = opener[t]
      BY <1>0, <2>3, <3>2
    <3>4. \A t \in SessionIds :
            opener'[t] = opener[t] \/ opener'[t] \in {"reconnecting", "queued", "evicting"}
      BY <1>0, <2>3
    <3> QED BY <2>3, <3>1, <3>3, <3>4, BeginCloseRetires DEF Pool!Next
  <2> QED BY <1>2, <2>1, <2>2, <2>3 DEF ReserveConnectionSlot
<1>3. ASSUME NEW s \in SessionIds, ReserveAfterEviction(s) PROVE Pool!Next
  BY <1>3, TakeSlotReserves, RefuseSlotRefuses DEF ReserveAfterEviction, Pool!Next
\* The connection is up, or has failed.
<1>4. ASSUME NEW s \in SessionIds, Connected(s) PROVE Pool!Next
  <2>1. s \notin sessions /\ s \notin closingSessions /\ SlotOf(s) = "reserved"
    BY <1>0, <1>4, SlotOfId DEF Connected
  <2>2. SlotOf(s)' = "live"
    BY <1>0, <1>4, <2>1 DEF Connected, SlotOf
  <2>3. \A t \in SessionIds \ {s} : SlotOf(t)' = SlotOf(t)
    BY <1>0, <1>4, SlotKept DEF Connected
  <2>4. Pool!Establish(s)
    BY <2>1, <2>2, <2>3, PoolMove DEF Pool!Establish
  <2> QED BY <2>4 DEF Pool!Next
<1>5. ASSUME NEW s \in SessionIds, ConnectFailed(s) PROVE Pool!Next
  <2>1. s \notin sessions /\ s \notin closingSessions /\ SlotOf(s) = "reserved"
    BY <1>0, <1>5, SlotOfId DEF ConnectFailed
  <2>2. SlotOf(s)' = "refused"
    BY <1>0, <1>5, <2>1 DEF ConnectFailed, SlotOf
  <2>3. \A t \in SessionIds \ {s} : SlotOf(t)' = SlotOf(t)
    BY <1>0, <1>5, SlotKept DEF ConnectFailed
  <2>4. Pool!GiveUp(s)
    BY <2>1, <2>2, <2>3, PoolMove DEF Pool!GiveUp
  <2> QED BY <2>4 DEF Pool!Next
<1>6. ASSUME NEW s \in SessionIds, CloseSession(s) \/ GetExpired(s) PROVE Pool!Next
  BY <1>6, <1>b DEF CloseSession, GetExpired
<1>7. ASSUME NEW s \in SessionIds, FinishClose(s) PROVE Pool!Next
  <2>1. s \in closingSessions /\ SlotOf(s) = "retiring" /\ opener[s] = "opened"
    BY <1>0, <1>7, SlotOfId DEF FinishClose
  <2>2. SlotOf(s)' = "released"
    BY <1>7, <2>1 DEF FinishClose, SlotOf
  <2>3. \A t \in SessionIds \ {s} : SlotOf(t)' = SlotOf(t)
    BY <1>7, SlotKept DEF FinishClose
  <2>4. Pool!Release(s)
    BY <2>1, <2>2, <2>3, PoolMove DEF Pool!Release
  <2> QED BY <2>4 DEF Pool!Next
<1>8. ASSUME NEW s \in SessionIds, Using(s) PROVE poolSlot' = poolSlot
  BY <1>8, <1>a DEF Using, RunCommand, TakeSession, CommandDone, BeginOperation, EndOperation
\* A reconnect either retires the old session or starts an opening at once.
<1>9. ASSUME NEW old \in SessionIds, NEW s \in SessionIds, ReconnectSession(old, s)
      PROVE  Pool!Next \/ poolSlot' = poolSlot
  <2>1. CASE StartOpening(s) /\ UNCHANGED tableVars
    BY <1>9, <2>1, OpeningWaits DEF ReconnectSession, StartOpening
  <2>2. CASE /\ old \notin closingSessions
             /\ BeginClose({old}, "request")
             /\ opener' = [opener EXCEPT ![s] = "reconnecting"]
    <3>1. {old} \subseteq sessions \ closingSessions /\ opener[s] = "idle"
      BY <1>9, <2>2 DEF ReconnectSession
    <3>2. SlotOf(s) = "none"
      BY <1>0, <3>1, SlotOfId
    <3>3. \A t \in SessionIds : SlotOf(t) = "none" \/ opener'[t] = opener[t]
      BY <1>0, <2>2, <3>2
    <3>4. \A t \in SessionIds :
            opener'[t] = opener[t] \/ opener'[t] \in {"reconnecting", "queued", "evicting"}
      BY <1>0, <2>2
    <3> QED BY <2>2, <3>1, <3>3, <3>4, BeginCloseRetires DEF Pool!Next
  <2> QED BY <1>9, <2>1, <2>2 DEF ReconnectSession
<1>10. CASE CleanupExpiredSessions
  BY <1>10, <1>b DEF CleanupExpiredSessions, Stale, Idle
<1>11. CASE Destroy
  BY <1>11, <1>b DEF Destroy
<1>12. CASE DestroyDone \/ Tick \/ UNCHANGED vars
  BY <1>12, <1>a DEF DestroyDone, Tick, vars
<1> QED
  BY <1>1, <1>2, <1>3, <1>4, <1>5, <1>6, <1>7, <1>8, <1>9, <1>10, <1>11, <1>12
     DEF Next, Opening, Closing

\* The session manager is a pool of MaxSessions slots: whatever opens,
\* evictions, reconnects, expiry and destroy overlap, a slot is taken only
\* while one is free, kept while the session lives or closes, and released once.
THEOREM Refinement == Spec => ImplementsPoolSafely
<1>1. Consistent <=> TypeInv /\ CapacityInv
  BY DEF Consistent
<1> QED
  BY Invariance, InitPool, StepPool, <1>1, PTL DEF Spec, ImplementsPoolSafely, Pool!SafeSpec
=============================================================================
