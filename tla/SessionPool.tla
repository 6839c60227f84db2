---------------------------- MODULE SessionPool ----------------------------
(***************************************************************************)
(* What the SSH session manager promises to its callers: a pool of         *)
(* MaxSessions slots.  An opening takes a slot before it connects, keeps   *)
(* it while the session lives, and gives it back when the connection       *)
(* fails or when the session has been retired and released.  Sessions may  *)
(* be retired several at a time; a retired session is released, once, and  *)
(* its id never lives again.                                               *)
(***************************************************************************)
EXTENDS Naturals, FiniteSets

CONSTANTS Ids, Slots

VARIABLE slot   \* what each id has of the pool

States == {"none", "reserved", "live", "retiring", "released", "refused"}

Holders == {i \in Ids : slot[i] \in {"reserved", "live", "retiring"}}

Init == slot = [i \in Ids |-> "none"]

Move(i, from, to) ==
  /\ slot[i] = from
  /\ slot' = [slot EXCEPT ![i] = to]

\* A slot is taken only while one is free ...
Reserve(i) ==
  /\ Cardinality(Holders) < Slots
  /\ Move(i, "none", "reserved")

\* ... and an opening may be refused at any time.
Refuse(i) == Move(i, "none", "refused")

Establish(i) == Move(i, "reserved", "live")

GiveUp(i) == Move(i, "reserved", "refused")

Retire(R) ==
  /\ \A i \in R : slot[i] = "live"
  /\ slot' = [i \in Ids |-> IF i \in R THEN "retiring" ELSE slot[i]]

Release(i) == Move(i, "retiring", "released")

Next ==
  \/ \E i \in Ids : Reserve(i) \/ Refuse(i) \/ Establish(i) \/ GiveUp(i) \/ Release(i)
  \/ \E R \in SUBSET Ids : Retire(R)

\* Whatever is retired is released.
Spec == Init /\ [][Next]_slot /\ \A i \in Ids : WF_slot(Release(i))

SafeSpec == Init /\ [][Next]_slot
=============================================================================
