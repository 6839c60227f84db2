---------------------- MODULE SessionManagerRefinement ----------------------
(***************************************************************************)
(* SessionManager implements SessionPool: the slot an id holds is read off *)
(* the table, the closing set and the state of its openSession call.       *)
(***************************************************************************)
EXTENDS SessionManager

SlotOf(s) ==
  CASE s \in closingSessions -> "retiring"
    [] s \in sessions \ closingSessions -> "live"
    [] opener[s] = "connecting" -> "reserved"
    [] opener[s] = "failed" -> "refused"
    [] opener[s] = "opened" /\ s \notin sessions -> "released"
    [] OTHER -> "none"

poolSlot == [s \in SessionIds |-> SlotOf(s)]

Pool == INSTANCE SessionPool WITH
          Ids <- SessionIds,
          Slots <- MaxSessions,
          slot <- poolSlot

\* The session manager is a pool of MaxSessions slots: no interleaving of
\* opens, evictions, cleanups, reconnects and closes takes a slot that is not
\* free, or releases a session that was not retired, and every retired session
\* is released (openSession, reserveConnectionSlot, closeSession).
ImplementsPool == Pool!Spec

ImplementsPoolSafely == Pool!SafeSpec
=============================================================================
