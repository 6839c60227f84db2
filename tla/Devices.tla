------------------------------- MODULE Devices -------------------------------
(***************************************************************************)
(* The inventory of devices of a user: enrollment, policy updates,         *)
(* revocation and removal in src/src/remote/control-plane.ts, as the REST  *)
(* API, the remote tools and web-dashboard.ts call them, over the tables   *)
(* agents, agent_enrollment_tokens and actions of store.ts.                *)
(*                                                                         *)
(* Every handler works in one turn, but for a PATCH, which copies the row  *)
(* before it awaits its body, and for an action, whose row is updated when *)
(* its outcome is known.  The connections themselves are those of          *)
(* AgentConnections: here a device is linked, by the key it proved, or not.*)
(***************************************************************************)
EXTENDS Naturals, FiniteSets

CONSTANTS
  DeviceIds,      \* agent ids, never reused
  Aliases,        \* names a user gives devices
  DeviceKeys,     \* public keys devices enroll with
  NoKey,          \* no key, or no alias
  Edits,          \* PATCH requests
  Jobs            \* action ids

ASSUME DeviceAssumption ==
  NoKey \notin DeviceKeys \cup Aliases

VARIABLES
  device,        \* rows of agents
  enrollment,    \* rows of agent_enrollment_tokens, one per device
  linked,        \* agentConnections: the key of the live connection
  edit,          \* what a PATCH that awaits its body has copied
  job,           \* rows of actions, and whether pendingActions has an entry
  enrolledWith,  \* history: keys the token of a device was exchanged for
  putBack        \* history: linked devices whose row has an older status back from a PATCH

deviceVars == <<device, enrollment, linked, edit, job, enrolledWith, putBack>>

NoDevice == [status |-> "none", alias |-> NoKey, key |-> NoKey]
NoEdit == [of |-> "none", row |-> NoDevice]
NoJob == [of |-> "none", row |-> "none", pending |-> FALSE]

DevicesInit ==
  /\ device = [d \in DeviceIds |-> NoDevice]
  /\ enrollment = [d \in DeviceIds |-> "none"]
  /\ linked = [d \in DeviceIds |-> NoKey]
  /\ edit = [e \in Edits |-> NoEdit]
  /\ job = [j \in Jobs |-> NoJob]
  /\ enrolledWith = [d \in DeviceIds |-> {}]
  /\ putBack = {}

Present(d) == device[d].status \notin {"none", "removed"}

----------------------------------------------------------------------------
(* Enrollment *)

\* createEnrollmentToken.  A name of a row that is not revoked is refused; a
\* name of one that is passes that check and fails on UNIQUE(user_id, alias).
CreateEnrollmentToken(d, name) ==
  /\ device[d].status = "none"
  /\ \A o \in DeviceIds : Present(o) => device[o].alias # name
  /\ device' = [device EXCEPT ![d] = [status |-> "pending", alias |-> name, key |-> NoKey]]
  /\ enrollment' = [enrollment EXCEPT ![d] = "fresh"]
  /\ UNCHANGED <<linked, edit, job, enrolledWith, putBack>>

\* handleAgentEnroll, from its body on, with a token that is unused and in time;
\* markEnrollmentTokenUsed.
Enroll(d, k) ==
  /\ enrollment[d] = "fresh"
  /\ Present(d) /\ device[d].status # "revoked"
  /\ enrollment' = [enrollment EXCEPT ![d] = "used"]
  /\ device' = [device EXCEPT ![d].status = "offline", ![d].key = k]
  /\ enrolledWith' = [enrolledWith EXCEPT ![d] = @ \cup {k}]
  /\ UNCHANGED <<linked, edit, job, putBack>>

\* The time of a token is up: it is refused, and pruneExpiredTransientRecords,
\* every minute, deletes it.  When that is, is left open.
PruneEnrollment(d) ==
  /\ enrollment[d] \in {"fresh", "used"}
  /\ enrollment' = [enrollment EXCEPT ![d] = "gone"]
  /\ UNCHANGED <<device, linked, edit, job, enrolledWith, putBack>>

----------------------------------------------------------------------------
(* The row of a device *)

\* handleAgentApiRoute and findOwnedDashboardDevice resolve the row first.
StartEdit(e, d) ==
  /\ edit[e] = NoEdit
  /\ Present(d)
  /\ edit' = [edit EXCEPT ![e] = [of |-> d, row |-> device[d]]]
  /\ UNCHANGED <<device, enrollment, linked, job, enrolledWith, putBack>>

\* Slip: the row is inserted if there is none (INSERT OR REPLACE).
Upsert(d, row) == [device EXCEPT ![d] = row]

\* updateAgent: UPDATE ... WHERE id = ?
UpdateRow(d, row) == IF Present(d) THEN [device EXCEPT ![d] = row] ELSE device

\* updateAgentPolicy writes back the row that was copied.
FinishEdit(e) ==
  /\ edit[e] # NoEdit
  /\ device' = UpdateRow(edit[e].of, edit[e].row)
  /\ putBack' = putBack \cup {d \in DeviceIds : linked[d] # NoKey /\ device'[d].status # device[d].status}
  /\ edit' = [edit EXCEPT ![e] = NoEdit]
  /\ UNCHANGED <<enrollment, linked, job, enrolledWith>>

\* revokeAgent, for the REST API and the remote tool; the dashboard leaves a device
\* alone whose row says revoked.
RevokeDevice(d) ==
  /\ Present(d)
  /\ device' = [device EXCEPT ![d].status = "revoked"]
  /\ linked' = [linked EXCEPT ![d] = NoKey]
  /\ putBack' = putBack \ {d}
  /\ UNCHANGED <<enrollment, edit, job, enrolledWith>>

\* removeRevokedAgent, one transaction.
Removed(d) ==
  /\ device' = [device EXCEPT ![d].status = "removed"]
  /\ enrollment' = [enrollment EXCEPT ![d] = "gone"]
  /\ job' = [j \in Jobs |-> IF job[j].of = d THEN [job[j] EXCEPT !.row = "gone"] ELSE job[j]]

\* revokeAgent ends the service of a device, but is skipped where the row says
\* revoked.
EndService(d) == IF device[d].status = "revoked" THEN linked ELSE [linked EXCEPT ![d] = NoKey]

\* handleApiRemoveDevice revokes and removes in one turn.
RemoveDevice(d) ==
  /\ Present(d)
  /\ Removed(d)
  /\ linked' = EndService(d)
  /\ UNCHANGED <<edit, enrolledWith, putBack>>

----------------------------------------------------------------------------
(* Connections and actions *)

\* handleAgentHello of an agent that signs with key k.
Link(d, k) ==
  /\ Present(d) /\ device[d].status # "revoked"
  /\ device[d].key = k
  /\ linked' = [linked EXCEPT ![d] = k]
  /\ device' = [device EXCEPT ![d].status = "online"]
  /\ putBack' = putBack \ {d}
  /\ UNCHANGED <<enrollment, edit, job, enrolledWith>>

\* handleLiveConnectionClosedById: the table keeps the entry of a device that has
\* no row.
Unlink(d) ==
  /\ linked[d] # NoKey
  /\ Present(d)
  /\ linked' = [linked EXCEPT ![d] = NoKey]
  /\ device' = IF device[d].status # "revoked" THEN [device EXCEPT ![d].status = "offline"] ELSE device
  /\ putBack' = putBack \ {d}
  /\ UNCHANGED <<enrollment, edit, job, enrolledWith>>

\* callRemoteTool and dispatchAction, up to the await: insertAction.
StartJob(j, d) ==
  /\ job[j] = NoJob
  /\ Present(d) /\ device[d].status # "revoked" /\ linked[d] # NoKey
  /\ job' = [job EXCEPT ![j] = [of |-> d, row |-> "sent", pending |-> TRUE]]
  /\ UNCHANGED <<device, enrollment, linked, edit, enrolledWith, putBack>>

\* Its result or its timer, whichever is first: updateAction.
FinishJob(j) ==
  /\ job[j].pending
  /\ job' = [job EXCEPT ![j].pending = FALSE,
                        ![j].row = IF job[j].row = "gone" THEN "gone" ELSE "over"]
  /\ UNCHANGED <<device, enrollment, linked, edit, enrolledWith, putBack>>

\* A stop or crash, and a start: the tables stay as they are.
RestartDevices ==
  /\ linked' = [d \in DeviceIds |-> NoKey]
  /\ edit' = [e \in Edits |-> NoEdit]
  /\ job' = [j \in Jobs |-> [job[j] EXCEPT !.pending = FALSE]]
  /\ putBack' = {}
  /\ UNCHANGED <<device, enrollment, enrolledWith>>

DevicesNext ==
  \/ \E d \in DeviceIds :
       \/ \E name \in Aliases : CreateEnrollmentToken(d, name)
       \/ \E k \in DeviceKeys : Enroll(d, k) \/ Link(d, k)
       \/ \E e \in Edits : StartEdit(e, d)
       \/ \E j \in Jobs : StartJob(j, d)
       \/ PruneEnrollment(d)
       \/ RevokeDevice(d)
       \/ RemoveDevice(d)
       \/ Unlink(d)
  \/ \E e \in Edits : FinishEdit(e)
  \/ \E j \in Jobs : FinishJob(j)
  \/ RestartDevices

DevicesSpec == DevicesInit /\ [][DevicesNext]_deviceVars

----------------------------------------------------------------------------

\* Of a device that was removed nothing is left and nothing comes back, while
\* PATCHes, actions and hellos of it are under way: no row that its alias could
\* clash with, no token, no action ("Discard a revoked device and
\* enrollment/action data", store.ts), and no connection, but where a PATCH had put
\* an older status back in its row since it was linked.
RemovedLeavesNothing ==
  /\ \A d \in DeviceIds : device[d].status = "removed" =>
       /\ enrollment[d] = "gone"
       /\ linked[d] = NoKey \/ d \in putBack
       /\ \A j \in Jobs : job[j].of = d => job[j].row = "gone"
  /\ \A d, o \in DeviceIds :
       Present(d) /\ Present(o) /\ device[d].alias = device[o].alias => d = o

\* A token is exchanged once, and whoever is linked as a device holds the key it
\* was exchanged for, whatever PATCH wrote an older row back.
OneEnrollment ==
  \A d \in DeviceIds :
    /\ Cardinality(enrolledWith[d]) <= 1
    /\ {linked[d], device[d].key} \ {NoKey} \subseteq enrolledWith[d]

\* A device has one life, from one enrollment to its removal.
OneLife == OneEnrollment /\ RemovedLeavesNothing
=============================================================================
