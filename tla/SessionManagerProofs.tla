------------------------ MODULE SessionManagerProofs ------------------------
(***************************************************************************)
(* Proofs about SessionManager, for any set of session ids, any limit, any *)
(* times to live and any bounds.                                           *)
(***************************************************************************)
EXTENDS SessionManager, FiniteSetTheorems, SequenceTheorems, TLAPS

(***************************************************************************)
(* Types.  Two facts are needed beside them: the call that evicts holds    *)
(* `admission`, without which Tail would be applied to an empty queue; and *)
(* the counter of reserved slots counts the connecting calls, without      *)
(* which the release of a reservation could take it below zero.            *)
(***************************************************************************)
EvictorHoldsAdmission ==
  \A s \in SessionIds : opener[s] = "evicting" => HoldsAdmission(s)

SlotInv == IsFiniteSet(Connecting) /\ SlotsAccounted

TypeInv == TypeOK /\ EvictorHoldsAdmission /\ SlotInv

USE DEF OpenerStates, Closers

\* The initial state is well typed.
LEMMA InitTypeInv == Init => TypeInv
<1> SUFFICES ASSUME Init PROVE TypeInv
  OBVIOUS
<1>1. Connecting = {}
  BY DEF Init, Connecting
<1>2. SlotInv
  BY <1>1, FS_EmptySet DEF Init, SlotInv, SlotsAccounted
<1> QED BY <1>2 DEF Init, TypeInv, TypeOK, EvictorHoldsAdmission

\* The reservation counter through one change of an opener's state: a call
\* takes a slot, gives it up, or moves between states that hold none.
LEMMA SlotTaken ==
  ASSUME TypeInv, NEW s \in SessionIds, opener[s] # "connecting",
         opener' = [opener EXCEPT ![s] = "connecting"],
         pendingConnections' = pendingConnections + 1
  PROVE  SlotInv' /\ pendingConnections' \in Nat
<1>1. Connecting' = Connecting \cup {s} /\ s \notin Connecting
  BY DEF Connecting, TypeInv, TypeOK
<1>2. IsFiniteSet(Connecting') /\ Cardinality(Connecting') = Cardinality(Connecting) + 1
  BY <1>1, FS_AddElement DEF TypeInv, SlotInv
<1> QED BY <1>2 DEF TypeInv, TypeOK, SlotInv, SlotsAccounted

LEMMA SlotReleased ==
  ASSUME TypeInv, NEW s \in SessionIds, opener[s] = "connecting",
         NEW state, state # "connecting",
         opener' = [opener EXCEPT ![s] = state],
         pendingConnections' = pendingConnections - 1
  PROVE  SlotInv' /\ pendingConnections' \in Nat
<1>1. Connecting' = Connecting \ {s} /\ s \in Connecting
  BY DEF Connecting, TypeInv, TypeOK
<1>2. /\ IsFiniteSet(Connecting')
      /\ Cardinality(Connecting') = Cardinality(Connecting) - 1
      /\ Cardinality(Connecting') \in Nat
  BY <1>1, FS_RemoveElement, FS_CardinalityType DEF TypeInv, SlotInv
<1> QED BY <1>2 DEF TypeInv, TypeOK, SlotInv, SlotsAccounted

LEMMA SlotUntouched ==
  ASSUME TypeInv, NEW s \in SessionIds, opener[s] # "connecting",
         NEW state, state # "connecting",
         opener' = [opener EXCEPT ![s] = state],
         pendingConnections' = pendingConnections
  PROVE  SlotInv'
<1>1. Connecting' = Connecting
  BY DEF Connecting, TypeInv, TypeOK
<1> QED BY <1>1 DEF TypeInv, SlotInv, SlotsAccounted

LEMMA SlotsUnchanged ==
  ASSUME TypeInv, UNCHANGED <<opener, pendingConnections>>
  PROVE  SlotInv'
  BY DEF TypeInv, SlotInv, SlotsAccounted, Connecting

\* What StartOpening, TakeSlot and RefuseSlot do to the variables of an
\* opening is well typed, and leaves the evicting call at the head.
LEMMA StartOpeningType ==
  ASSUME TypeInv, NEW s \in SessionIds, opener[s] # "connecting", StartOpening(s)
  PROVE  /\ expiresAt' \in [SessionIds -> Nat]
         /\ lastUsed' \in [SessionIds -> Nat]
         /\ opener' \in [SessionIds -> OpenerStates]
         /\ admission' \in Seq(SessionIds)
         /\ awaits' \in [SessionIds -> SessionIds \cup {NoSession}]
         /\ pendingConnections' = pendingConnections
         /\ EvictorHoldsAdmission'
         /\ SlotInv'
<1>1. /\ lastUsed' \in [SessionIds -> Nat]
      /\ opener' \in [SessionIds -> OpenerStates]
      /\ admission' \in Seq(SessionIds)
      /\ awaits' \in [SessionIds -> SessionIds \cup {NoSession}]
      /\ pendingConnections' = pendingConnections
  BY DEF TypeInv, TypeOK, StartOpening
<1>2. expiresAt' \in [SessionIds -> Nat]
  <2>1. PICK ttl \in Ttls : expiresAt' = [expiresAt EXCEPT ![s] = clock + ttl]
    BY DEF StartOpening
  <2>2. clock + ttl \in Nat
    BY TtlsAssumption DEF TypeInv, TypeOK
  <2> QED BY <2>1, <2>2 DEF TypeInv, TypeOK
<1>3. EvictorHoldsAdmission'
  <2> SUFFICES ASSUME NEW t \in SessionIds, opener'[t] = "evicting"
               PROVE  HoldsAdmission(t)'
    BY DEF EvictorHoldsAdmission
  <2>1. opener[t] = "evicting"
    BY DEF StartOpening, TypeInv, TypeOK
  <2>2. admission # << >> /\ Head(admission) = t
    BY <2>1 DEF TypeInv, EvictorHoldsAdmission, HoldsAdmission
  <2>3. admission \in Seq(SessionIds) /\ admission' = Append(admission, s)
    BY DEF StartOpening, TypeInv, TypeOK
  <2>4. admission' # << >> /\ Head(admission') = Head(admission)
    BY <2>2, <2>3, AppendProperties, HeadTailAppend
  <2> QED BY <2>2, <2>4 DEF HoldsAdmission
<1>4. SlotInv'
  BY SlotUntouched DEF StartOpening
<1> QED BY <1>1, <1>2, <1>3, <1>4

LEMMA SlotAnswerType ==
  ASSUME TypeInv, NEW s \in SessionIds, opener[s] # "connecting", HoldsAdmission(s),
         TakeSlot(s) \/ RefuseSlot(s)
  PROVE  /\ opener' \in [SessionIds -> OpenerStates]
         /\ admission' \in Seq(SessionIds)
         /\ awaits' \in [SessionIds -> SessionIds \cup {NoSession}]
         /\ pendingConnections' \in Nat
         /\ EvictorHoldsAdmission'
         /\ SlotInv'
<1>1. admission' = Tail(admission) /\ admission' \in Seq(SessionIds)
  <2>1. admission \in Seq(SessionIds) /\ admission # << >>
    BY DEF TypeInv, TypeOK, HoldsAdmission
  <2>2. admission' = Tail(admission)
    BY DEF TakeSlot, RefuseSlot
  <2> QED BY <2>1, <2>2, HeadTailProperties
<1>3. /\ opener' \in [SessionIds -> OpenerStates]
      /\ awaits' \in [SessionIds -> SessionIds \cup {NoSession}]
  BY DEF TypeInv, TypeOK, TakeSlot, RefuseSlot
<1>4. SlotInv' /\ pendingConnections' \in Nat
  <2>1. CASE TakeSlot(s)
    BY <2>1, SlotTaken DEF TakeSlot
  <2>2. CASE RefuseSlot(s)
    BY <2>2, SlotUntouched DEF RefuseSlot, TypeInv, TypeOK
  <2> QED BY <2>1, <2>2
<1>2. \A t \in SessionIds : opener'[t] # "evicting"
  BY DEF TypeInv, TypeOK, EvictorHoldsAdmission, TakeSlot, RefuseSlot, HoldsAdmission
<1> QED BY <1>1, <1>2, <1>3, <1>4 DEF EvictorHoldsAdmission

LEMMA BeginCloseType ==
  ASSUME TypeInv, NEW S, S \subseteq SessionIds, NEW who \in Closers, BeginClose(S, who)
  PROVE  /\ sessions' \subseteq SessionIds
         /\ closingSessions' \subseteq SessionIds
         /\ closer' \in [SessionIds -> Closers]
  BY DEF TypeInv, TypeOK, BeginClose

\* Every step keeps the state well typed.
LEMMA NextTypeInv == TypeInv /\ [Next]_vars => TypeInv'
<1> SUFFICES ASSUME TypeInv, [Next]_vars PROVE TypeInv'
  OBVIOUS
<1> USE DEF tableVars, openVars, useVars, infoVars, lifeVars
<1>1. ASSUME NEW s \in SessionIds, OpenSession(s) PROVE TypeInv'
  BY <1>1, StartOpeningType DEF OpenSession, TypeInv, TypeOK
<1>2. ASSUME NEW s \in SessionIds, ReserveConnectionSlot(s) PROVE TypeInv'
  <2>1. CASE TakeSlot(s) /\ UNCHANGED tableVars
    BY <1>2, <2>1, SlotAnswerType DEF ReserveConnectionSlot, TypeInv, TypeOK
  <2>2. CASE RefuseSlot(s) /\ UNCHANGED tableVars
    BY <1>2, <2>2, SlotAnswerType DEF ReserveConnectionSlot, TypeInv, TypeOK
  <2>3. ASSUME NEW victim \in Oldest,
               BeginClose({victim}, "eviction"),
               opener' = [opener EXCEPT ![s] = "evicting"],
               awaits' = [awaits EXCEPT ![s] = victim],
               UNCHANGED <<pendingConnections, admission>>
        PROVE  TypeInv'
    <3>1. victim \in SessionIds
      BY DEF Oldest, Idle, TypeInv, TypeOK
    <3>2. TypeOK'
      <4>1. UNCHANGED <<useVars, infoVars, lifeVars, clock>>
        BY <1>2 DEF ReserveConnectionSlot
      <4>2. /\ sessions' \subseteq SessionIds
            /\ closingSessions' \subseteq SessionIds
            /\ closer' \in [SessionIds -> Closers]
        BY <2>3, <3>1, BeginCloseType
      <4>3. /\ opener' \in [SessionIds -> OpenerStates]
            /\ awaits' \in [SessionIds -> SessionIds \cup {NoSession}]
        BY <2>3, <3>1 DEF TypeInv, TypeOK
      <4> QED BY <2>3, <4>1, <4>2, <4>3 DEF TypeInv, TypeOK
    <3>3. EvictorHoldsAdmission'
      BY <1>2, <2>3 DEF ReserveConnectionSlot, TypeInv, TypeOK, EvictorHoldsAdmission, HoldsAdmission
    <3>4. SlotInv'
      BY <1>2, <2>3, SlotUntouched DEF ReserveConnectionSlot
    <3> QED BY <3>2, <3>3, <3>4 DEF TypeInv
  <2> QED BY <1>2, <2>1, <2>2, <2>3 DEF ReserveConnectionSlot
<1>3. ASSUME NEW s \in SessionIds, ReserveAfterEviction(s) PROVE TypeInv'
  <2>1. HoldsAdmission(s)
    BY <1>3 DEF ReserveAfterEviction, TypeInv, EvictorHoldsAdmission
  <2>2. TakeSlot(s) \/ RefuseSlot(s)
    BY <1>3 DEF ReserveAfterEviction
  <2> QED BY <1>3, <2>1, <2>2, SlotAnswerType DEF ReserveAfterEviction, TypeInv, TypeOK
<1>4. ASSUME NEW s \in SessionIds, Connected(s) \/ ConnectFailed(s) PROVE TypeInv'
  <2>1. pendingConnections' \in Nat /\ SlotInv'
    <3>1. CASE Connected(s)
      BY <3>1, SlotReleased DEF Connected
    <3>2. CASE ConnectFailed(s)
      BY <3>2, SlotReleased DEF ConnectFailed
    <3> QED BY <1>4, <3>1, <3>2
  <2> QED
    BY <1>4, <2>1 DEF Connected, ConnectFailed, TypeInv, TypeOK, EvictorHoldsAdmission, HoldsAdmission
<1>5. ASSUME NEW s \in SessionIds, OpenAfterClose(s) PROVE TypeInv'
  BY <1>5, StartOpeningType DEF OpenAfterClose, TypeInv, TypeOK
<1>6. ASSUME NEW s \in SessionIds, Closing(s) PROVE TypeInv'
  <2>1. EvictorHoldsAdmission' /\ SlotInv'
    BY <1>6, SlotsUnchanged
       DEF Closing, CloseSession, FinishClose, GetExpired, TypeInv, EvictorHoldsAdmission, HoldsAdmission
  <2>2. CASE FinishClose(s)
    BY <2>1, <2>2 DEF FinishClose, TypeInv, TypeOK
  <2>3. CASE CloseSession(s)
    BY <2>1, <2>3, BeginCloseType DEF CloseSession, TypeInv, TypeOK
  <2>4. CASE GetExpired(s)
    BY <2>1, <2>4, BeginCloseType DEF GetExpired, TypeInv, TypeOK
  <2> QED BY <1>6, <2>2, <2>3, <2>4 DEF Closing
<1>7. ASSUME NEW s \in SessionIds, Using(s) PROVE TypeInv'
  <2>1. EvictorHoldsAdmission' /\ SlotInv'
    BY <1>7, SlotsUnchanged
       DEF Using, RunCommand, TakeSession, CommandDone, BeginOperation, EndOperation,
           TypeInv, EvictorHoldsAdmission, HoldsAdmission
  <2>2. CASE RunCommand(s) \/ TakeSession(s) \/ BeginOperation(s)
    <3>1. UNCHANGED expiresAt /\ lastUsed' \in [SessionIds -> Nat]
      <4>1. GetSession(s) \/ UNCHANGED infoVars
        BY <2>2 DEF RunCommand, TakeSession, BeginOperation
      <4>2. lastUsed \in [SessionIds -> Nat] /\ clock \in Nat
        BY DEF TypeInv, TypeOK
      <4> QED BY <4>1, <4>2 DEF GetSession, infoVars
    <3>2. /\ commands' \in [SessionIds -> Nat]
          /\ activeOperations' \in [SessionIds -> Nat]
      <4>1. CASE RunCommand(s)
        BY <4>1 DEF RunCommand, TypeInv, TypeOK
      <4>2. CASE BeginOperation(s)
        BY <4>2 DEF BeginOperation, TypeInv, TypeOK
      <4>3. CASE TakeSession(s)
        BY <4>3 DEF TakeSession, useVars, TypeInv, TypeOK
      <4> QED BY <2>2, <4>1, <4>2, <4>3
    <3> QED BY <2>1, <2>2, <3>1, <3>2 DEF RunCommand, TakeSession, BeginOperation, TypeInv, TypeOK
  <2>3. CASE CommandDone(s)
    BY <2>1, <2>3 DEF CommandDone, TypeInv, TypeOK
  <2>4. CASE EndOperation(s)
    BY <2>1, <2>4 DEF EndOperation, HasActiveOperations, TypeInv, TypeOK
  <2> QED BY <1>7, <2>2, <2>3, <2>4 DEF Using
<1>8. ASSUME NEW old \in SessionIds, NEW s \in SessionIds, ReconnectSession(old, s)
      PROVE  TypeInv'
  <2>1. CASE StartOpening(s) /\ UNCHANGED tableVars
    BY <1>8, <2>1, StartOpeningType DEF ReconnectSession, TypeInv, TypeOK
  <2>2. CASE /\ BeginClose({old}, "request")
             /\ opener' = [opener EXCEPT ![s] = "reconnecting"]
             /\ awaits' = [awaits EXCEPT ![s] = old]
             /\ UNCHANGED <<pendingConnections, admission, infoVars>>
    <3>1. TypeOK'
      BY <1>8, <2>2, BeginCloseType DEF ReconnectSession, TypeInv, TypeOK
    <3>2. EvictorHoldsAdmission'
      BY <1>8, <2>2 DEF ReconnectSession, TypeInv, TypeOK, EvictorHoldsAdmission, HoldsAdmission
    <3>3. SlotInv'
      BY <1>8, <2>2, SlotUntouched DEF ReconnectSession
    <3> QED BY <3>1, <3>2, <3>3 DEF TypeInv
  <2> QED BY <1>8, <2>1, <2>2 DEF ReconnectSession
<1>9. CASE CleanupExpiredSessions
  BY <1>9, BeginCloseType, SlotsUnchanged
     DEF CleanupExpiredSessions, Stale, Idle, TypeInv, TypeOK, EvictorHoldsAdmission, HoldsAdmission
<1>10. CASE Destroy \/ DestroyDone
  BY <1>10, BeginCloseType, SlotsUnchanged
     DEF Destroy, DestroyDone, TypeInv, TypeOK, EvictorHoldsAdmission, HoldsAdmission
<1>11. CASE Tick
  BY <1>11, SlotsUnchanged DEF Tick, TypeInv, TypeOK, EvictorHoldsAdmission, HoldsAdmission
<1>12. CASE UNCHANGED vars
  BY <1>12, SlotsUnchanged DEF vars, TypeInv, TypeOK, EvictorHoldsAdmission, HoldsAdmission
<1> QED
  BY <1>1, <1>2, <1>3, <1>4, <1>5, <1>6, <1>7, <1>8, <1>9, <1>10, <1>11, <1>12
     DEF Next, Opening

\* Every state of the session manager is well typed.
THEOREM TypeCorrect == Spec => []TypeOK
<1>1. TypeInv => TypeOK
  BY DEF TypeInv
<1> QED BY InitTypeInv, NextTypeInv, <1>1, PTL DEF Spec

(***************************************************************************)
(* Capacity and eviction.                                                  *)
(***************************************************************************)
\* The table is finite and holds ids whose opening has succeeded, and only
\* such an id can be marked as closing.
TableInv ==
  /\ IsFiniteSet(sessions)
  /\ closingSessions \subseteq sessions
  /\ \A s \in sessions : opener[s] = "opened"

\* While a call evicts, no slot is reserved: only the holder of `admission`
\* reserves one, and it is the call that waits.
NoSlotWhileEvicting ==
  \A s \in SessionIds : opener[s] = "evicting" => pendingConnections = 0

RoomAfterEviction ==
  \A s \in SessionIds :
    opener[s] = "evicting" /\ awaits[s] \notin sessions
      => Cardinality(sessions) < MaxSessions

CapacityInv ==
  TableInv /\ CapacityRespected /\ NoSlotWhileEvicting /\ RoomAfterEviction

LEMMA InitCapacityInv == Init => CapacityInv
  BY FS_EmptySet, MaxSessionsAssumption
     DEF Init, CapacityInv, TableInv, CapacityRespected, NoSlotWhileEvicting,
         RoomAfterEviction, Occupied

LEMMA TableCardinality ==
  ASSUME TypeInv, CapacityInv
  PROVE  Cardinality(sessions) \in Nat /\ pendingConnections \in Nat
  BY FS_CardinalityType DEF TypeInv, TypeOK, CapacityInv, TableInv

\* A step that moves neither the table, nor the counter, nor a call that
\* evicts, nor an id of the table, keeps the capacity invariant.
LEMMA CapacityUndisturbed ==
  ASSUME TypeInv, CapacityInv, TypeInv',
         UNCHANGED <<sessions, pendingConnections>>,
         closingSessions' \subseteq sessions,
         \A t \in sessions : opener'[t] = opener[t],
         \A t \in SessionIds :
           opener'[t] = "evicting" => opener[t] = "evicting" /\ awaits'[t] = awaits[t]
  PROVE  CapacityInv'
  BY DEF CapacityInv, TableInv, CapacityRespected, NoSlotWhileEvicting, RoomAfterEviction, Occupied

LEMMA NextCapacityInv ==
  TypeInv /\ TypeInv' /\ CapacityInv /\ [Next]_vars => CapacityInv'
<1> SUFFICES ASSUME TypeInv, TypeInv', CapacityInv, [Next]_vars PROVE CapacityInv'
  OBVIOUS
<1> USE DEF tableVars, openVars, useVars, infoVars, lifeVars
<1>0. /\ Cardinality(sessions) \in Nat /\ pendingConnections \in Nat
      /\ closingSessions \subseteq sessions /\ sessions \subseteq SessionIds
      /\ \A t \in sessions : opener[t] = "opened"
      /\ opener \in [SessionIds -> OpenerStates]
      /\ awaits \in [SessionIds -> SessionIds \cup {NoSession}]
  BY TableCardinality DEF TypeInv, TypeOK, CapacityInv, TableInv
<1>1. ASSUME NEW s \in SessionIds, OpenSession(s) \/ OpenAfterClose(s) PROVE CapacityInv'
  BY <1>0, <1>1, CapacityUndisturbed DEF OpenSession, OpenAfterClose, StartOpening
\* A slot is granted, to the holder of `admission`, only below the limit.
<1>2. ASSUME NEW s \in SessionIds, opener[s] \in {"queued", "evicting"},
             HoldsAdmission(s), ~Full, TakeSlot(s), UNCHANGED tableVars
      PROVE  CapacityInv'
  <2>1. \A t \in SessionIds : opener'[t] # "evicting"
    BY <1>0, <1>2 DEF TakeSlot, TypeInv, EvictorHoldsAdmission, HoldsAdmission
  <2>2. CapacityRespected'
    BY <1>0, <1>2, MaxSessionsAssumption DEF TakeSlot, Full, Occupied, CapacityRespected
  <2>3. TableInv'
    BY <1>0, <1>2 DEF TakeSlot, CapacityInv, TableInv
  <2> QED BY <2>1, <2>2, <2>3 DEF CapacityInv, NoSlotWhileEvicting, RoomAfterEviction
<1>3. ASSUME NEW s \in SessionIds, opener[s] \in {"queued", "evicting"},
             RefuseSlot(s), UNCHANGED tableVars
      PROVE  CapacityInv'
  BY <1>0, <1>3, CapacityUndisturbed DEF RefuseSlot
<1>4. ASSUME NEW s \in SessionIds, ReserveConnectionSlot(s) PROVE CapacityInv'
  <2>1. opener[s] = "queued" /\ HoldsAdmission(s)
    BY <1>4 DEF ReserveConnectionSlot
  <2>2. CASE ~Full /\ TakeSlot(s) /\ UNCHANGED tableVars
    BY <1>2, <2>1, <2>2
  <2>3. CASE RefuseSlot(s) /\ UNCHANGED tableVars
    BY <1>3, <2>1, <2>3
  <2>4. ASSUME pendingConnections = 0,
               NEW victim \in Oldest,
               BeginClose({victim}, "eviction"),
               opener' = [opener EXCEPT ![s] = "evicting"],
               awaits' = [awaits EXCEPT ![s] = victim],
               UNCHANGED <<pendingConnections, admission>>
        PROVE  CapacityInv'
    <3>1. victim \in sessions
      BY DEF Oldest, Idle
    <3>2. TableInv'
      BY <1>0, <2>1, <2>4, <3>1 DEF BeginClose, CapacityInv, TableInv
    <3>3. CapacityRespected'
      BY <2>4 DEF BeginClose, CapacityInv, CapacityRespected, Occupied
    <3>4. RoomAfterEviction'
      BY <1>0, <2>4, <3>1 DEF BeginClose, CapacityInv, RoomAfterEviction
    <3>5. NoSlotWhileEvicting'
      BY <2>4 DEF NoSlotWhileEvicting
    <3> QED BY <3>2, <3>3, <3>4, <3>5 DEF CapacityInv
  <2> QED BY <1>4, <2>2, <2>3, <2>4 DEF MayEvict, ReserveConnectionSlot
<1>5. ASSUME NEW s \in SessionIds, ReserveAfterEviction(s) PROVE CapacityInv'
  <2>1. opener[s] = "evicting" /\ HoldsAdmission(s)
    BY <1>5 DEF ReserveAfterEviction, TypeInv, EvictorHoldsAdmission
  <2> QED BY <1>2, <1>3, <1>5, <2>1 DEF ReserveAfterEviction
\* The entry of a new session replaces its reservation.
<1>6. ASSUME NEW s \in SessionIds, Connected(s) PROVE CapacityInv'
  <2>1. /\ sessions' = sessions \cup {s}
        /\ s \notin sessions
        /\ pendingConnections' = pendingConnections - 1
        /\ opener' = [opener EXCEPT ![s] = "opened"]
        /\ UNCHANGED <<closingSessions, awaits>>
    BY <1>0, <1>6 DEF Connected
  <2>2. IsFiniteSet(sessions') /\ Cardinality(sessions') = Cardinality(sessions) + 1
    BY <2>1, FS_AddElement DEF CapacityInv, TableInv
  <2>3. Connecting # {}
    BY <1>6 DEF Connected, Connecting
  <2>4. pendingConnections # 0
    BY <2>3, FS_EmptySet DEF TypeInv, SlotInv, SlotsAccounted
  <2>5. \A t \in SessionIds : opener'[t] # "evicting"
    BY <1>0, <2>1, <2>4 DEF CapacityInv, NoSlotWhileEvicting
  <2>6. CapacityRespected'
    BY <1>0, <2>1, <2>2, MaxSessionsAssumption DEF CapacityInv, CapacityRespected, Occupied
  <2>7. TableInv'
    BY <1>0, <2>1, <2>2 DEF TableInv
  <2> QED BY <2>5, <2>6, <2>7 DEF CapacityInv, NoSlotWhileEvicting, RoomAfterEviction
<1>7. ASSUME NEW s \in SessionIds, ConnectFailed(s) PROVE CapacityInv'
  <2>1. Connecting # {}
    BY <1>7 DEF ConnectFailed, Connecting
  <2>2. pendingConnections # 0
    BY <2>1, FS_EmptySet DEF TypeInv, SlotInv, SlotsAccounted
  <2>3. \A t \in SessionIds : opener'[t] # "evicting"
    BY <1>0, <1>7, <2>2 DEF ConnectFailed, CapacityInv, NoSlotWhileEvicting
  <2>4. TableInv' /\ CapacityRespected'
    BY <1>0, <1>7, MaxSessionsAssumption
       DEF ConnectFailed, CapacityInv, TableInv, CapacityRespected, Occupied
  <2> QED BY <2>3, <2>4 DEF CapacityInv, NoSlotWhileEvicting, RoomAfterEviction
\* The disposal of a session makes the room an evicting call waits for.
<1>8. ASSUME NEW s \in SessionIds, FinishClose(s) PROVE CapacityInv'
  <2>1. /\ s \in sessions
        /\ sessions' = sessions \ {s}
        /\ closingSessions' = closingSessions \ {s}
        /\ UNCHANGED <<pendingConnections, opener, awaits>>
    BY <1>0, <1>8 DEF FinishClose
  <2>2. IsFiniteSet(sessions') /\ Cardinality(sessions') = Cardinality(sessions) - 1
    BY <2>1, FS_RemoveElement DEF CapacityInv, TableInv
  <2>3. CapacityRespected' /\ Cardinality(sessions') < MaxSessions
    BY <1>0, <2>1, <2>2, MaxSessionsAssumption DEF CapacityInv, CapacityRespected, Occupied
  <2> QED
    BY <1>0, <2>1, <2>2, <2>3 DEF CapacityInv, TableInv, NoSlotWhileEvicting, RoomAfterEviction
<1>9. ASSUME NEW s \in SessionIds, CloseSession(s) \/ GetExpired(s) PROVE CapacityInv'
  BY <1>0, <1>9, CapacityUndisturbed DEF CloseSession, GetExpired, BeginClose
<1>10. ASSUME NEW s \in SessionIds, Using(s) PROVE CapacityInv'
  BY <1>0, <1>10, CapacityUndisturbed
     DEF Using, RunCommand, TakeSession, CommandDone, BeginOperation, EndOperation
<1>11. ASSUME NEW old \in SessionIds, NEW s \in SessionIds, ReconnectSession(old, s)
       PROVE  CapacityInv'
  BY <1>0, <1>11, CapacityUndisturbed DEF ReconnectSession, StartOpening, BeginClose
<1>12. CASE CleanupExpiredSessions \/ Destroy \/ DestroyDone \/ Tick
  BY <1>0, <1>12, CapacityUndisturbed
     DEF CleanupExpiredSessions, Stale, Idle, Destroy, DestroyDone, Tick, BeginClose
<1>13. CASE UNCHANGED vars
  BY <1>0, <1>13, CapacityUndisturbed DEF vars
<1> QED
  BY <1>1, <1>4, <1>5, <1>6, <1>7, <1>8, <1>9, <1>10, <1>11, <1>12, <1>13
     DEF Next, Opening, Closing

LEMMA Invariance == Spec => [](TypeInv /\ CapacityInv)
  BY InitTypeInv, InitCapacityInv, NextTypeInv, NextCapacityInv, PTL DEF Spec

\* Sessions and reservations together never exceed maxSessions, whatever
\* openings, evictions, cleanups and closes overlap.
THEOREM CapacityCorrect == Spec => []CapacityRespected
<1>1. CapacityInv => CapacityRespected
  BY DEF CapacityInv
<1> QED BY Invariance, <1>1, PTL

\* The counter of reserved slots is the number of calls that hold one.
THEOREM SlotsCorrect == Spec => []SlotsAccounted
<1>1. TypeInv => SlotsAccounted
  BY DEF TypeInv, SlotInv
<1> QED BY Invariance, <1>1, PTL

\* One call evicts at a time, and no connection is in flight meanwhile.
THEOREM EvictionIsExclusive == Spec => []EvictionExclusive
<1>1. TypeInv /\ CapacityInv => EvictionExclusive
  <2> SUFFICES ASSUME TypeInv, CapacityInv, NEW s \in SessionIds, opener[s] = "evicting"
               PROVE  /\ Connecting = {}
                      /\ \A t \in SessionIds : opener[t] = "evicting" => t = s
    BY DEF EvictionExclusive
  <2>1. pendingConnections = 0
    BY DEF CapacityInv, NoSlotWhileEvicting
  <2>2. Connecting = {}
    BY <2>1, FS_EmptySet DEF TypeInv, SlotInv, SlotsAccounted
  <2>3. ASSUME NEW t \in SessionIds, opener[t] = "evicting" PROVE t = s
    BY <2>3 DEF TypeInv, EvictorHoldsAdmission, HoldsAdmission
  <2> QED BY <2>2, <2>3
<1> QED BY Invariance, <1>1, PTL

\* A call that evicted a session finds a free slot when the session is gone.
THEOREM EvictionPaysOff == Spec => []EvictionNotWasted
<1>1. TypeInv /\ CapacityInv => EvictionNotWasted
  BY TableCardinality, MaxSessionsAssumption
     DEF CapacityInv, NoSlotWhileEvicting, RoomAfterEviction, EvictionNotWasted, Full, Occupied
<1> QED BY Invariance, <1>1, PTL

\* A live session is evicted for one call alone, and never in vain.
THEOREM EvictionCorrect == Spec => []EvictionSound
<1>1. EvictionExclusive /\ EvictionNotWasted => EvictionSound
  BY DEF EvictionSound
<1> QED BY EvictionIsExclusive, EvictionPaysOff, <1>1, PTL

(***************************************************************************)
(* Closing.                                                                *)
(***************************************************************************)
\* Every step that changes the table, its closing marks or the running closes
\* begins closes, finishes one, or adds a session.
LEMMA TableSteps ==
  ASSUME TypeInv, [Next]_vars
  PROVE  \/ UNCHANGED <<sessions, closingSessions, closer>>
         \/ \E S \in SUBSET (sessions \ closingSessions), who \in Closers : BeginClose(S, who)
         \/ \E s \in SessionIds : FinishClose(s)
         \/ \E s \in SessionIds : Connected(s)
<1> USE DEF tableVars
<1>1. ASSUME NEW s \in SessionIds, ReserveConnectionSlot(s)
      PROVE  \/ UNCHANGED <<sessions, closingSessions, closer>>
             \/ \E S \in SUBSET (sessions \ closingSessions), who \in Closers : BeginClose(S, who)
  <2>1. ASSUME NEW victim \in Oldest, BeginClose({victim}, "eviction")
        PROVE  \E S \in SUBSET (sessions \ closingSessions), who \in Closers : BeginClose(S, who)
    <3>1. {victim} \in SUBSET (sessions \ closingSessions) /\ "eviction" \in Closers
      BY DEF Oldest, Idle
    <3> QED BY <2>1, <3>1
  <2> QED BY <1>1, <2>1 DEF ReserveConnectionSlot
<1>2. ASSUME NEW s \in SessionIds, CloseSession(s) \/ GetExpired(s)
      PROVE  \E S \in SUBSET (sessions \ closingSessions), who \in Closers : BeginClose(S, who)
  <2>1. {s} \in SUBSET (sessions \ closingSessions) /\ "request" \in Closers /\ "expiry" \in Closers
    BY <1>2 DEF CloseSession, GetExpired
  <2> QED BY <1>2, <2>1 DEF CloseSession, GetExpired
<1>3. ASSUME NEW old \in SessionIds, NEW s \in SessionIds, ReconnectSession(old, s)
      PROVE  \/ UNCHANGED <<sessions, closingSessions, closer>>
             \/ \E S \in SUBSET (sessions \ closingSessions), who \in Closers : BeginClose(S, who)
  <2>1. CASE old \notin closingSessions /\ BeginClose({old}, "request")
    <3>1. {old} \in SUBSET (sessions \ closingSessions) /\ "request" \in Closers
      BY <1>3, <2>1 DEF ReconnectSession
    <3> QED BY <2>1, <3>1
  <2> QED BY <1>3, <2>1 DEF ReconnectSession
<1>4. CASE CleanupExpiredSessions
  <2>1. Stale \in SUBSET (sessions \ closingSessions) /\ "expiry" \in Closers
    BY DEF Stale, Idle
  <2> QED BY <1>4, <2>1 DEF CleanupExpiredSessions
<1>5. CASE Destroy
  BY <1>5 DEF Destroy
<1>6. ASSUME NEW s \in SessionIds, Using(s)
      PROVE  UNCHANGED <<sessions, closingSessions, closer>>
  BY <1>6 DEF Using, RunCommand, TakeSession, CommandDone, BeginOperation, EndOperation
<1>7. ASSUME NEW s \in SessionIds,
             \/ OpenSession(s)
             \/ OpenAfterClose(s)
             \/ ReserveAfterEviction(s)
             \/ ConnectFailed(s)
      PROVE  UNCHANGED <<sessions, closingSessions, closer>>
  BY <1>7 DEF OpenSession, OpenAfterClose, ReserveAfterEviction, ConnectFailed
<1>8. CASE DestroyDone \/ Tick \/ UNCHANGED vars
  BY <1>8 DEF DestroyDone, Tick, vars
<1> QED
  BY <1>1, <1>2, <1>3, <1>4, <1>5, <1>6, <1>7, <1>8 DEF Next, Opening, Closing

\* A close, once begun, is not begun again by another caller.
THEOREM ClosesOnce == Spec => ClosedOnce
<1>1. ASSUME TypeInv, [Next]_vars, NEW s \in closingSessions, s \in closingSessions'
      PROVE  closer'[s] = closer[s]
  <2>1. s \in SessionIds /\ closer \in [SessionIds -> Closers]
    BY <1>1 DEF TypeInv, TypeOK
  <2>2. ASSUME NEW S \in SUBSET (sessions \ closingSessions), NEW who, BeginClose(S, who)
        PROVE  closer'[s] = closer[s]
    BY <1>1, <2>1, <2>2 DEF BeginClose
  <2>3. ASSUME NEW t \in SessionIds, FinishClose(t) PROVE closer'[s] = closer[s]
    BY <1>1, <2>1, <2>3 DEF FinishClose
  <2>4. ASSUME NEW t \in SessionIds, Connected(t) PROVE closer'[s] = closer[s]
    BY <2>4 DEF Connected
  <2> QED BY <1>1, <2>2, <2>3, <2>4, TableSteps
<1>2. TypeInv /\ [Next]_vars =>
        [\A s \in closingSessions : s \in closingSessions' => closer'[s] = closer[s]]_vars
  BY <1>1
<1> QED BY Invariance, <1>2, PTL DEF Spec, ClosedOnce

\* A step that counts an operation counts it on a session of the table.
LEMMA OperationSteps ==
  ASSUME TypeInv, [Next]_vars, NEW s \in SessionIds, s \notin sessions, ~HasActiveOperations(s)
  PROVE  ~HasActiveOperations(s)'
<1> USE DEF useVars
<1>1. activeOperations \in [SessionIds -> Nat]
  BY DEF TypeInv, TypeOK
<1>2. ASSUME NEW t \in SessionIds, BeginOperation(t) PROVE ~HasActiveOperations(s)'
  <2>1. t # s
    BY <1>2 DEF BeginOperation
  <2> QED BY <1>1, <1>2, <2>1 DEF BeginOperation, HasActiveOperations
<1>3. ASSUME NEW t \in SessionIds, EndOperation(t) PROVE ~HasActiveOperations(s)'
  <2>1. t # s
    BY <1>3 DEF EndOperation
  <2> QED BY <1>1, <1>3, <2>1 DEF EndOperation, HasActiveOperations
<1>4. ASSUME NEW t \in SessionIds, FinishClose(t) PROVE ~HasActiveOperations(s)'
  BY <1>1, <1>4 DEF FinishClose, HasActiveOperations
<1>5. ASSUME UNCHANGED activeOperations PROVE ~HasActiveOperations(s)'
  BY <1>5 DEF HasActiveOperations
<1>6. ASSUME NEW t \in SessionIds, Opening(t) PROVE UNCHANGED activeOperations
  BY <1>6 DEF Opening, OpenSession, OpenAfterClose, ReserveConnectionSlot,
              ReserveAfterEviction, Connected, ConnectFailed
<1>7. ASSUME NEW t \in SessionIds,
             \/ CloseSession(t) \/ GetExpired(t)
             \/ RunCommand(t) \/ TakeSession(t) \/ CommandDone(t)
      PROVE  UNCHANGED activeOperations
  BY <1>7 DEF CloseSession, GetExpired, RunCommand, TakeSession, CommandDone
<1>8. ASSUME NEW old \in SessionIds, NEW t \in SessionIds, ReconnectSession(old, t)
      PROVE  UNCHANGED activeOperations
  BY <1>8 DEF ReconnectSession
<1>9. CASE CleanupExpiredSessions \/ Destroy \/ DestroyDone \/ Tick \/ UNCHANGED vars
  BY <1>5, <1>9 DEF CleanupExpiredSessions, Destroy, DestroyDone, Tick, vars
<1> QED
  BY <1>2, <1>3, <1>4, <1>5, <1>6, <1>7, <1>8, <1>9 DEF Next, Closing, Using

\* The closing mark, the operation count and the running close of a session die
\* with its table entry.
THEOREM NothingIsLeftBehind == Spec => []NothingOutlivesSession
<1>1. Init => NothingOutlivesSession
  BY DEF Init, NothingOutlivesSession, HasActiveOperations
<1>2. TypeInv /\ CapacityInv /\ NothingOutlivesSession /\ [Next]_vars => NothingOutlivesSession'
  <2> SUFFICES ASSUME TypeInv, CapacityInv, NothingOutlivesSession, [Next]_vars,
                      NEW s \in SessionIds, s \notin sessions'
               PROVE  s \notin closingSessions' /\ ~HasActiveOperations(s)' /\ closer'[s] = "none"
    BY DEF NothingOutlivesSession
  <2>0. s \notin sessions =>
          s \notin closingSessions /\ ~HasActiveOperations(s) /\ closer[s] = "none"
    BY DEF NothingOutlivesSession
  <2>1. CASE s \notin sessions
    <3>1. ~HasActiveOperations(s)'
      BY <2>0, <2>1, OperationSteps
    <3>2. s \notin closingSessions' /\ closer'[s] = "none"
      <4>1. ASSUME NEW S \in SUBSET (sessions \ closingSessions), NEW who, BeginClose(S, who)
            PROVE  s \notin closingSessions' /\ closer'[s] = "none"
        BY <2>0, <2>1, <4>1 DEF BeginClose, TypeInv, TypeOK
      <4>2. ASSUME NEW t \in SessionIds, FinishClose(t)
            PROVE  s \notin closingSessions' /\ closer'[s] = "none"
        BY <2>0, <2>1, <4>2 DEF FinishClose, TypeInv, TypeOK
      <4>3. ASSUME NEW t \in SessionIds, Connected(t)
            PROVE  s \notin closingSessions' /\ closer'[s] = "none"
        BY <2>0, <2>1, <4>3 DEF Connected
      <4> QED BY <2>0, <2>1, <4>1, <4>2, <4>3, TableSteps
    <3> QED BY <3>1, <3>2
  \* Only the end of a close takes an entry out of the table.
  <2>2. CASE s \in sessions
    <3>1. FinishClose(s)
      <4>1. ASSUME NEW S \in SUBSET (sessions \ closingSessions), NEW who, BeginClose(S, who)
            PROVE  FALSE
        BY <2>2, <4>1 DEF BeginClose
      <4>2. ASSUME NEW t \in SessionIds, FinishClose(t) PROVE t = s
        BY <2>2, <4>2 DEF FinishClose
      <4>3. ASSUME NEW t \in SessionIds, Connected(t) PROVE FALSE
        BY <2>2, <4>3 DEF Connected
      <4> QED BY <2>2, <4>1, <4>2, <4>3, TableSteps
    <3> QED BY <3>1 DEF FinishClose, HasActiveOperations, TypeInv, TypeOK
  <2> QED BY <2>1, <2>2
<1> QED BY Invariance, <1>1, <1>2, PTL DEF Spec
=============================================================================
