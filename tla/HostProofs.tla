----------------------------- MODULE HostProofs -----------------------------
(***************************************************************************)
(* Proofs about what is done to files and hosts, for any number of calls:  *)
(* the key a host shows (SessionLogins), the states the ensure tools bring *)
(* a host to (HostState), the files that tools and transfers replace       *)
(* (RemoteFiles), those a remote agent writes (SafeFile), what a session   *)
(* finds out of its host's system (OsDetection), and the log of a remote   *)
(* agent under its follower (ActivityLog), and the output of a command     *)
(* that a call hands on (RemoteCommands).                                  *)
(***************************************************************************)
EXTENDS SessionLogins, HostState, RemoteFiles, SafeFile, OsDetection, ActivityLog,
        RemoteCommands, FiniteSetTheorems, WellFoundedInduction, TLAPS

(* Host keys *)

LoginStates == {"none", "called", "connecting", "verified"}

\* A call has the fields of NoOpen.
IsLogin(l) == DOMAIN l = {"state", "request", "with", "shown"}

LoginTypes ==
  /\ login = [o \in Opens |-> login[o]]
  /\ \A o \in Opens : IsLogin(login[o]) /\ login[o].state \in LoginStates

Sighting(r, key) == <<Endpoint(r), key>>

(***************************************************************************)
(* The inductive invariant: acceptedHostKeys has one key for an endpoint,  *)
(* and it has the keys of the handshakes that passed the verifier and of   *)
(* the sessions they became.                                               *)
(***************************************************************************)
LoginInv ==
  /\ LoginTypes
  /\ \A p, q \in acceptedHostKeys : p[1] = q[1] => p[2] = q[2]
  /\ \A o \in Opens : login[o].state = "verified" /\ OnFirstSight(login[o].request)
       => \A k \in login[o].shown : Sighting(login[o].request, k) \in acceptedHostKeys
  /\ \A m \in met : Sighting(m, m.key) \in acceptedHostKeys

\* A step of one call leaves the others alone.
LEMMA LoginTypesKept ==
  ASSUME LoginTypes, NEW o \in Opens, NEW l, IsLogin(l), l.state \in LoginStates,
         login' = [login EXCEPT ![o] = l]
  PROVE  LoginTypes' /\ login'[o] = l /\ \A p \in Opens \ {o} : login'[p] = login[p]
<1>1. /\ login' = [p \in Opens |-> IF p = o THEN l ELSE login[p]]
  BY DEF LoginTypes
<1> QED BY <1>1 DEF LoginTypes, IsLogin

\* Every step of openSession, of the user and of the process keeps it.
LEMMA LoginStep ==
  ASSUME LoginInv, SessionLoginsNext
  PROVE  LoginInv'
<1>types. LoginTypes /\ IsLogin(NoOpen) /\ NoOpen.state = "none"
  BY DEF LoginInv, NoOpen, IsLogin
<1> USE DEF LoginInv
<1>1. CASE EditFiles
  BY <1>1 DEF EditFiles, LoginTypes, IsLogin, LoginStates, OnFirstSight, HostKeyPolicy, Sighting, Endpoint
<1>2. CASE RestartLogins
  BY <1>2 DEF RestartLogins, NoOpen, LoginTypes, IsLogin, LoginStates
<1>idle. ASSUME NEW o \in Opens, login' = [login EXCEPT ![o] = NoOpen],
                acceptedHostKeys' = acceptedHostKeys,
                \A m \in met' : Sighting(m, m.key) \in acceptedHostKeys
         PROVE  LoginInv'
  <2>1. LoginTypes' /\ login'[o] = NoOpen /\ \A p \in Opens \ {o} : login'[p] = login[p]
    BY <1>idle, <1>types, LoginTypesKept DEF LoginStates
  <2> QED BY <1>idle, <1>types, <2>1 DEF OnFirstSight, HostKeyPolicy, Sighting, Endpoint
<1>3. ASSUME NEW o \in Opens, NEW r \in OpenRequests, CallOpen(o, r)
      PROVE  LoginInv'
  <2> DEFINE l == [NoOpen EXCEPT !.state = "called", !.request = r]
  <2>1. IsLogin(l) /\ l.state = "called"
    BY DEF NoOpen, IsLogin
  <2>2. login' = [login EXCEPT ![o] = l] /\ UNCHANGED <<acceptedHostKeys, met>>
    BY <1>3 DEF CallOpen
  <2> HIDE DEF l
  <2>3. LoginTypes' /\ login'[o] = l /\ \A p \in Opens \ {o} : login'[p] = login[p]
    BY <1>types, <2>1, <2>2, LoginTypesKept DEF LoginStates
  <2> QED BY <2>1, <2>2, <2>3
<1>4. ASSUME NEW o \in Opens, BuildAuth(o)
      PROVE  LoginInv'
  <2>1. CASE login' = [login EXCEPT ![o] = NoOpen]
    BY <1>4, <2>1, <1>idle DEF BuildAuth
  <2>2. ASSUME NEW c, login' = [login EXCEPT ![o].state = "connecting", ![o].with = c]
        PROVE  LoginInv'
    <3> DEFINE l == [login[o] EXCEPT !.state = "connecting", !.with = c]
    <3>1. IsLogin(login[o])
      BY <1>types DEF LoginTypes
    <3>2. IsLogin(l) /\ l.state = "connecting"
      BY <3>1 DEF IsLogin
    <3>3. login' = [login EXCEPT ![o] = l]
      BY <2>2, <1>types DEF LoginTypes
    <3> HIDE DEF l
    <3>4. LoginTypes' /\ login'[o] = l /\ \A p \in Opens \ {o} : login'[p] = login[p]
      BY <1>types, <3>2, <3>3, LoginTypesKept DEF LoginStates
    <3> QED BY <1>4, <3>2, <3>4 DEF BuildAuth
  <2> QED BY <1>4, <2>1, <2>2 DEF BuildAuth
<1>5. ASSUME NEW o \in Opens, NEW key \in HostKeys, VerifyHostKey(o, key)
      PROVE  LoginInv'
  <2>1. PICK r : r = login[o].request
    OBVIOUS
  <2>2. CASE ~Accepts(r, key)
    <3>1. login' = [login EXCEPT ![o] = NoOpen] /\ acceptedHostKeys' = acceptedHostKeys /\ met' = met
      BY <1>5, <2>1, <2>2 DEF VerifyHostKey
    <3> QED BY <3>1, <1>idle
  <2>3. CASE Accepts(r, key)
    <3> DEFINE l == [login[o] EXCEPT !.state = "verified", !.shown = {key}]
    <3>1. IsLogin(login[o])
      BY <1>types DEF LoginTypes
    <3>2. IsLogin(l) /\ l.state = "verified" /\ l.shown = {key} /\ l.request = r
      BY <2>1, <3>1 DEF IsLogin
    <3>3. login' = [login EXCEPT ![o] = l] /\ met' = met
      BY <1>5, <2>1, <2>3 DEF VerifyHostKey
    <3> HIDE DEF l
    <3>4. LoginTypes' /\ login'[o] = l /\ \A p \in Opens \ {o} : login'[p] = login[p]
      BY <1>types, <3>2, <3>3, LoginTypesKept DEF LoginStates
    <3>5. CASE ~OnFirstSight(r)
      <4>1. acceptedHostKeys' = acceptedHostKeys
        BY <1>5, <2>1, <3>5 DEF VerifyHostKey
      <4> QED BY <3>2, <3>3, <3>4, <3>5, <4>1
    <3>6. CASE OnFirstSight(r)
      <4>1. acceptedHostKeys' = acceptedHostKeys \cup {Sighting(r, key)}
        BY <1>5, <2>1, <2>3, <3>6 DEF VerifyHostKey, Sighting
      <4>2. \A p \in acceptedHostKeys : p[1] = Endpoint(r) => p[2] = key
        BY <2>3, <3>6 DEF OnFirstSight, Accepts, FirstSeenOrSame
      <4>3. Sighting(r, key)[1] = Endpoint(r) /\ Sighting(r, key)[2] = key
        BY DEF Sighting
      <4>4. \A p, q \in acceptedHostKeys' : p[1] = q[1] => p[2] = q[2]
        BY <4>1, <4>2, <4>3
      <4> QED BY <3>2, <3>3, <3>4, <4>1, <4>4
    <3> QED BY <3>5, <3>6
  <2> QED BY <2>2, <2>3
<1>6. ASSUME NEW o \in Opens, LoggedIn(o)
      PROVE  LoginInv'
  <2>1. PICK r : r = login[o].request
    OBVIOUS
  <2>2. \A m \in met' : Sighting(m, m.key) \in acceptedHostKeys
    <3>1. CASE OnFirstSight(r)
      <4>1. met' = met \cup {[host |-> r.host, port |-> r.port, key |-> k] : k \in login[o].shown}
        BY <1>6, <2>1, <3>1 DEF LoggedIn
      <4>2. \A k \in login[o].shown : Sighting(r, k) \in acceptedHostKeys
        BY <1>6, <2>1, <3>1 DEF LoggedIn
      <4>3. ASSUME NEW k \in login[o].shown, NEW m, m = [host |-> r.host, port |-> r.port, key |-> k]
            PROVE  Sighting(m, m.key) \in acceptedHostKeys
        <5>1. Sighting(m, m.key) = Sighting(r, k)
          BY <4>3 DEF Sighting, Endpoint
        <5> QED BY <4>2, <5>1
      <4> QED BY <4>1, <4>3
    <3>2. CASE ~OnFirstSight(r)
      BY <1>6, <2>1, <3>2 DEF LoggedIn
    <3> QED BY <3>1, <3>2
  <2> QED BY <1>6, <2>2, <1>idle DEF LoggedIn
<1>7. ASSUME NEW o \in Opens, LoginFails(o)
      PROVE  LoginInv'
  BY <1>7, <1>idle DEF LoginFails
<1> QED BY <1>1, <1>2, <1>3, <1>4, <1>5, <1>6, <1>7 DEF SessionLoginsNext

\* All "accept-new" sessions with an endpoint met one key, however the handshakes
\* of openSession overlap (verifyAcceptNewHostKey in session.ts).
THEOREM OneKeyCorrect == SessionLoginsSpec => []OneKeyPerEndpoint
<1>1. SessionLoginsInit => LoginInv
  BY DEF SessionLoginsInit, LoginInv, LoginTypes, IsLogin, LoginStates, NoOpen
<1>2. LoginInv /\ [SessionLoginsNext]_loginVars => LoginInv'
  BY LoginStep DEF loginVars, LoginInv, LoginTypes, IsLogin, LoginStates, OnFirstSight, HostKeyPolicy, Sighting, Endpoint
<1>3. LoginInv => OneKeyPerEndpoint
  BY DEF LoginInv, OneKeyPerEndpoint, Sighting, Endpoint
<1> QED BY <1>1, <1>2, <1>3, PTL DEF SessionLoginsSpec

----------------------------------------------------------------------------
(* The ensure tools *)

EnsureTasks ==
  [want : {"none", "present", "absent", "started", "stopped", "lines present", "lines absent", "patched"},
   lines : SUBSET FileLines, read : SUBSET FileLines, ok : BOOLEAN,
   state : {"idle", "started", "acting", "found", "writing", "staged", "tested", "answered", "failed"}]

HostTypes ==
  /\ installed \in BOOLEAN /\ serviceUp \in BOOLEAN
  /\ file \in {NoFile} \cup SUBSET FileLines
  /\ task \in [EnsureCalls -> EnsureTasks]

(***************************************************************************)
(* The inductive invariant: what is read of a file are lines, so that what *)
(* is written is a file; a patch adds the line of the patch; what is read  *)
(* or staged are lines, and what is staged is as the call wants it.        *)
(***************************************************************************)
HostInv ==
  /\ HostTypes
  /\ \A c \in EnsureCalls : /\ task[c].want = "patched" => task[c].lines = {PatchLine}
                            /\ task[c].state \in {"found", "staged"} => task[c].want \in LineTasks
                            /\ task[c].state = "staged" => Satisfied(task[c], task[c].read) \/ c \in misled
  /\ SuccessIsReal

\* The history: who has the host as wanted before or after a step has seen it.
LEMMA RecordSees ==
  ASSUME Record, NEW c \in EnsureCalls
  PROVE  /\ c \in sawWanted => c \in sawWanted'
         /\ Holds(c, installed, serviceUp, file) => c \in sawWanted'
         /\ Holds(c, installed', serviceUp', file') => c \in sawWanted'
BY DEF Record

\* What a step of one call must keep, apart from its task.
HostKept ==
  /\ installed' \in BOOLEAN /\ serviceUp' \in BOOLEAN /\ file' \in {NoFile} \cup SUBSET FileLines
  /\ \A p \in EnsureCalls : p \in misled => p \in misled'

\* A step of call c leaves the invariant to what it makes of its own task.
LEMMA HostInvKept ==
  ASSUME HostInv, Record, HostKept, NEW c \in EnsureCalls, NEW t \in EnsureTasks,
         task' = [task EXCEPT ![c] = t],
         t.want = "patched" => t.lines = {PatchLine},
         t.state \in {"found", "staged"} => t.want \in LineTasks,
         t.state = "staged" => Satisfied(t, t.read) \/ c \in misled',
         t.state = "answered" /\ t.ok => c \in sawWanted' \/ c \in misled'
  PROVE  HostInv'
<1>1. task' \in [EnsureCalls -> EnsureTasks] /\ task'[c] = t /\ \A p \in EnsureCalls \ {c} : task'[p] = task[p]
  BY DEF HostInv, HostTypes
<1> QED BY <1>1, RecordSees DEF HostInv, HostTypes, HostKept, SuccessIsReal

\* A call that goes on answers nothing.
LEMMA TaskStepKeeps ==
  ASSUME HostInv, Record, HostKept, NEW c \in EnsureCalls, NEW from,
         NEW to \in {"acting", "found", "tested", "failed"}, TaskStep(c, from, to),
         to = "found" => task[c].want \in LineTasks
  PROVE  HostInv'
<1>1. PICK t \in EnsureTasks : t = task[c]
  BY DEF HostInv, HostTypes
<1>2. PICK u \in EnsureTasks : u = [t EXCEPT !.state = to]
  BY DEF EnsureTasks
<1>3. u.want = t.want /\ u.lines = t.lines /\ u.state = to
  BY <1>2 DEF EnsureTasks
<1>4. task' = [task EXCEPT ![c] = u]
  BY <1>1, <1>2 DEF TaskStep, HostInv, HostTypes
<1> QED BY <1>1, <1>3, <1>4, HostInvKept DEF HostInv

\* A call that answers success has seen what it wants, or was misled.
LEMMA AnswerKeeps ==
  ASSUME HostInv, Record, HostKept, NEW c \in EnsureCalls, NEW from, NEW ok \in BOOLEAN, Answer(c, from, ok),
         ok => c \in sawWanted' \/ c \in misled'
  PROVE  HostInv'
<1>1. PICK t \in EnsureTasks : t = task[c]
  BY DEF HostInv, HostTypes
<1>2. PICK u \in EnsureTasks : u = [t EXCEPT !.state = "answered", !.ok = ok]
  BY DEF EnsureTasks
<1>3. u.want = t.want /\ u.lines = t.lines /\ u.ok = ok
  BY <1>2 DEF EnsureTasks
<1>answered. u.state = "answered"
  BY <1>2 DEF EnsureTasks
<1>4. task' = [task EXCEPT ![c] = u]
  BY <1>1, <1>2 DEF Answer, HostInv, HostTypes
<1> QED BY <1>1, <1>3, <1>answered, <1>4, HostInvKept DEF HostInv

\* Every step of the tools keeps the invariant.
LEMMA HostInvStep ==
  ASSUME HostInv, HostNext
  PROVE  HostInv'
<1>types. /\ HostTypes /\ Record
          /\ NoLine \notin FileLines /\ PatchLine \in FileLines
  BY HostAssumption DEF HostInv, HostNext
<1>1. ASSUME NEW c \in EnsureCalls,
             NEW want \in {"present", "absent", "started", "stopped", "lines present", "lines absent", "patched"},
             NEW lines \in SUBSET FileLines, want = "patched" => lines = {PatchLine}, StartTask(c, want, lines)
      PROVE  HostInv'
  <2>1. HostKept
    BY <1>1, <1>types DEF StartTask, HostKept, HostTypes, hostState
  <2>2. PICK t \in EnsureTasks : t = [NoTask EXCEPT !.want = want, !.lines = lines, !.state = "started"]
    BY DEF EnsureTasks, NoTask
  <2>3. t.want = want /\ t.lines = lines /\ t.state = "started"
    BY <2>2 DEF NoTask
  <2>4. task' = [task EXCEPT ![c] = t]
    BY <1>1, <2>2 DEF StartTask
  <2> QED BY <1>types, <1>1, <2>1, <2>3, <2>4, HostInvKept
<1>2. ASSUME NEW c \in EnsureCalls, TaskFails(c)
      PROVE  HostInv'
  <2>1. HostKept
    BY <1>2, <1>types DEF TaskFails, HostKept, HostTypes, hostState
  <2>2. TaskStep(c, task[c].state, "failed")
    BY <1>2 DEF TaskFails, TaskStep
  <2> QED BY <1>types, <2>1, <2>2, TaskStepKeeps
<1>heeds. ASSUME NEW c \in EnsureCalls, NEW code \in Codes, Heeds(c, code)
          PROVE  /\ \A p \in EnsureCalls : p \in misled => p \in misled'
                 /\ code = "none" => c \in misled'
  BY <1>heeds DEF Heeds
<1>command. ASSUME NEW c \in EnsureCalls, NEW from, NEW code \in Codes, NEW done \in BOOLEAN,
                   CommandAnswers(c, from, code, done), HostKept,
                   done => Holds(c, installed', serviceUp', file') \/ c \in misled'
            PROVE  HostInv'
  <2>1. PICK ok \in BOOLEAN : ok = (code # "other")
    OBVIOUS
  <2>2. Answer(c, from, ok) /\ Heeds(c, code)
    BY <1>command, <2>1 DEF CommandAnswers
  <2>3. ok => c \in sawWanted' \/ c \in misled'
    BY <1>types, <1>heeds, <1>command, <2>1, <2>2, RecordSees DEF CommandAnswers, Codes
  <2> QED BY <1>types, <1>command, <2>2, <2>3, AnswerKeeps
<1>3. ASSUME NEW c \in EnsureCalls, NEW found \in BOOLEAN, CheckPackage(c, found)
      PROVE  HostInv'
  <2>1. HostKept
    BY <1>3, <1>types DEF CheckPackage, HostKept, HostTypes, hostState
  <2>2. CASE found = (task[c].want = "present")
    <3>1. Answer(c, "started", TRUE)
      BY <1>3, <2>2 DEF CheckPackage
    <3>2. CASE found = installed
      <4>1. Holds(c, installed, serviceUp, file)
        BY <1>3, <1>types, <2>2, <3>2 DEF CheckPackage, Holds, HostTypes
      <4> QED BY <1>types, <2>1, <3>1, <4>1, RecordSees, AnswerKeeps
    <3>3. CASE found # installed
      BY <1>3, <1>types, <2>1, <3>1, <3>3, AnswerKeeps DEF CheckPackage
    <3> QED BY <3>2, <3>3
  <2>3. CASE found # (task[c].want = "present")
    BY <1>3, <1>types, <2>1, <2>3, TaskStepKeeps DEF CheckPackage
  <2> QED BY <2>2, <2>3
<1>4. ASSUME NEW c \in EnsureCalls, ChangePackage(c)
      PROVE  HostInv'
  <2>1. task[c].want \in {"present", "absent"} /\ UNCHANGED <<serviceUp, file>>
    BY <1>4 DEF ChangePackage
  <2>2. PICK code \in Codes, done \in BOOLEAN :
          /\ CommandAnswers(c, "acting", code, done)
          /\ installed' = IF done THEN task[c].want = "present" ELSE installed
    BY <1>4 DEF ChangePackage
  <2>3. installed' \in BOOLEAN
    BY <1>types, <2>2 DEF HostTypes
  <2>4. HostKept
    BY <1>types, <1>heeds, <2>1, <2>2, <2>3 DEF CommandAnswers, HostKept, HostTypes
  <2>5. done => Holds(c, installed', serviceUp', file')
    BY <2>1, <2>2 DEF Holds
  <2> QED BY <1>command, <2>2, <2>4, <2>5
<1>service. ASSUME NEW c \in EnsureCalls, ChangeService(c)
            PROVE  HostInv'
  <2>1. task[c].want \in {"started", "stopped"} /\ UNCHANGED <<installed, file>>
    BY <1>service DEF ChangeService
  <2>2. PICK code \in Codes, done \in BOOLEAN :
          /\ CommandAnswers(c, "started", code, done)
          /\ serviceUp' = IF done THEN task[c].want = "started" ELSE serviceUp
    BY <1>service DEF ChangeService
  <2>3. serviceUp' \in BOOLEAN
    BY <1>types, <2>2 DEF HostTypes
  <2>4. HostKept
    BY <1>types, <1>heeds, <2>1, <2>2, <2>3 DEF CommandAnswers, HostKept, HostTypes
  <2>5. done => Holds(c, installed', serviceUp', file')
    BY <2>1, <2>2 DEF Holds
  <2> QED BY <1>command, <2>2, <2>4, <2>5
<1>5. ASSUME NEW c \in EnsureCalls, NEW found \in BOOLEAN, FindFile(c, found)
      PROVE  HostInv'
  <2>1. HostKept
    BY <1>5, <1>types DEF FindFile, HostKept, HostTypes, hostState
  <2>2. CASE found
    BY <1>5, <1>types, <2>1, <2>2, TaskStepKeeps DEF FindFile
  <2>3. CASE ~found /\ task[c].want = "lines absent"
    <3>1. Answer(c, "started", TRUE)
      BY <1>5, <2>3 DEF FindFile
    <3>2. CASE file = NoFile
      <4>1. Holds(c, installed, serviceUp, file)
        BY <2>3, <3>2 DEF Holds
      <4> QED BY <1>types, <2>1, <3>1, <4>1, RecordSees, AnswerKeeps
    <3>3. CASE file # NoFile
      BY <1>5, <1>types, <2>1, <2>3, <3>1, <3>3, AnswerKeeps DEF FindFile
    <3> QED BY <3>2, <3>3
  <2>4. CASE ~found /\ task[c].want # "lines absent"
    <3>1. PICK t \in EnsureTasks : t = task[c]
      BY <1>types DEF HostTypes
    <3>2. PICK u \in EnsureTasks : u = [t EXCEPT !.state = "writing", !.read = {}]
      BY DEF EnsureTasks
    <3>3. u.want = t.want /\ u.lines = t.lines /\ u.state = "writing"
      BY <3>2 DEF EnsureTasks
    <3>4. task' = [task EXCEPT ![c] = u]
      BY <1>5, <1>types, <2>4, <3>1, <3>2 DEF FindFile, HostTypes
    <3> QED BY <1>types, <2>1, <3>1, <3>3, <3>4, HostInvKept DEF HostInv
  <2> QED BY <2>2, <2>3, <2>4
<1>6. ASSUME NEW c \in EnsureCalls, ReadLines(c)
      PROVE  HostInv'
  <2>1. PICK code \in {"zero", "none"}, lines \in SUBSET file :
          /\ NoLine \notin lines
          /\ code = "zero" => lines = file
          /\ Heeds(c, code)
          /\ task' = [task EXCEPT ![c].read = lines,
                      ![c].state = IF Satisfied(task[c], lines) THEN "answered" ELSE "writing",
                      ![c].ok = Satisfied(task[c], lines)]
    BY <1>6 DEF ReadLines
  <2>code. code \in Codes /\ UNCHANGED <<installed, serviceUp, file>>
    BY <1>6 DEF Codes, ReadLines, hostState
  <2>2. HostKept
    BY <1>types, <1>heeds, <2>1, <2>code DEF HostKept, HostTypes
  <2>3. PICK t \in EnsureTasks : t = task[c]
    BY <1>types DEF HostTypes
  <2>4. lines \in SUBSET FileLines
    BY <1>types, <2>1 DEF HostTypes, NoFile
  <2>5. PICK h \in BOOLEAN : h = Satisfied(task[c], lines)
    BY DEF Satisfied
  <2>6. PICK to \in {"answered", "writing"} : to = IF h THEN "answered" ELSE "writing"
    OBVIOUS
  <2>7. PICK u \in EnsureTasks : u = [t EXCEPT !.read = lines, !.state = to, !.ok = h]
    BY <2>4 DEF EnsureTasks
  <2>8. u.want = t.want /\ u.lines = t.lines /\ u.state = to /\ u.ok = h
    BY <2>7 DEF EnsureTasks
  <2>9. task' = [task EXCEPT ![c] = u]
    BY <1>types, <2>1, <2>3, <2>5, <2>6, <2>7 DEF HostTypes
  <2>10. h => c \in sawWanted' \/ c \in misled'
    <3>1. CASE code = "none"
      BY <1>heeds, <2>1, <2>code, <3>1
    <3>2. CASE code = "zero" /\ h
      <4>1. lines = file /\ file # NoFile
        BY <2>1, <3>2 DEF NoFile
      <4>2. task[c].want \in LineTasks
        BY <1>6 DEF ReadLines, HostInv
      <4>3. Holds(c, installed, serviceUp, file)
        BY <2>5, <3>2, <4>1, <4>2 DEF Holds, Satisfied, LineTasks
      <4> QED BY <1>types, <4>3, RecordSees
    <3> QED BY <3>1, <3>2
  <2>11. u.state = "answered" /\ u.ok => c \in sawWanted' \/ c \in misled'
    BY <2>8, <2>10
  <2>12. u.want = "patched" => u.lines = {PatchLine}
    BY <2>3, <2>8 DEF HostInv
  <2>13. u.state \notin {"staged", "found"}
    BY <2>6, <2>8
  <2> QED BY <1>types, <2>2, <2>9, <2>11, <2>12, <2>13, HostInvKept
<1>newlines. ASSUME NEW c \in EnsureCalls, task[c].want \in LineTasks
             PROVE  /\ NewLines(c) \in SUBSET FileLines /\ NewLines(c) # NoFile
                    /\ file' = NewLines(c) => Holds(c, installed', serviceUp', file')
                    /\ Satisfied(task[c], NewLines(c))
  <2>1. PICK t \in EnsureTasks : t = task[c]
    BY <1>types DEF HostTypes
  <2>2. t.read \subseteq FileLines /\ t.lines \subseteq FileLines
    BY <2>1 DEF EnsureTasks
  <2>3. NewLines(c) \in SUBSET FileLines /\ NewLines(c) # NoFile
    BY <1>types, <2>1, <2>2 DEF NewLines, NoFile
  <2>4. file' = NewLines(c) => Holds(c, installed', serviceUp', file')
    BY <1>newlines, <2>1, <2>2, <2>3 DEF Holds, NewLines, LineTasks
  <2>5. Satisfied(task[c], NewLines(c))
    BY <2>1, <2>2 DEF Satisfied, NewLines
  <2> QED BY <2>3, <2>4, <2>5
<1>7. ASSUME NEW c \in EnsureCalls, WriteLines(c)
      PROVE  HostInv'
  <2>1. task[c].want \in LineTasks /\ Answer(c, "writing", TRUE) /\ UNCHANGED <<installed, serviceUp>>
    BY <1>7 DEF WriteLines
  <2>2. \/ file' = NewLines(c) /\ misled' = misled
        \/ file' \in {file} \cup SUBSET NewLines(c) /\ misled' = misled \cup {c}
    BY <1>7 DEF WriteLines
  <2>3. HostKept
    BY <1>types, <1>newlines, <2>1, <2>2 DEF HostKept, HostTypes
  <2>4. c \in sawWanted' \/ c \in misled'
    BY <1>types, <1>newlines, <2>1, <2>2, RecordSees
  <2> QED BY <1>types, <2>1, <2>3, <2>4, AnswerKeeps
<1>move. ASSUME NEW c \in EnsureCalls, MoveLines(c)
         PROVE  HostInv'
  <2>1. PICK code \in {"zero", "none"}, done \in BOOLEAN :
          CommandAnswers(c, "staged", code, done) /\ file' = IF done THEN task[c].read ELSE file
    BY <1>move DEF MoveLines
  <2>2. code \in Codes /\ UNCHANGED <<installed, serviceUp>>
    BY <1>move DEF Codes, MoveLines
  <2>3. task[c].want \in LineTasks
    BY <2>1 DEF CommandAnswers, Answer, HostInv
  <2>read. task[c].read \in SUBSET FileLines /\ task[c].read # NoFile
    BY <1>types DEF HostTypes, EnsureTasks, NoFile
  <2>4. HostKept
    BY <1>types, <1>heeds, <2>1, <2>2, <2>read DEF CommandAnswers, HostKept, HostTypes
  <2>5. done => Holds(c, installed', serviceUp', file') \/ c \in misled'
    <3>1. SUFFICES ASSUME done, c \notin misled
                   PROVE  Holds(c, installed', serviceUp', file')
      BY <1>heeds, <2>1, <2>2 DEF CommandAnswers
    <3>2. Satisfied(task[c], task[c].read) /\ file' = task[c].read
      BY <2>1, <3>1 DEF CommandAnswers, Answer, HostInv
    <3> QED BY <2>3, <2>read, <3>2 DEF Holds, Satisfied, LineTasks
  <2> QED BY <1>command, <2>1, <2>2, <2>4, <2>5
<1>8. ASSUME NEW c \in EnsureCalls, StageLines(c)
      PROVE  HostInv'
  <2>1. HostKept
    BY <1>8, <1>types DEF StageLines, HostKept, HostTypes, hostState
  <2>2. PICK staged \in SUBSET NewLines(c) :
          /\ task' = [task EXCEPT ![c].state = "staged", ![c].read = staged]
          /\ misled' = misled \cup {b \in {c} : staged # NewLines(c)}
    BY <1>8 DEF StageLines
  <2>3. task[c].want \in LineTasks
    BY <1>8 DEF StageLines
  <2>4. PICK t \in EnsureTasks : t = task[c]
    BY <1>types DEF HostTypes
  <2>5. staged \in SUBSET FileLines
    BY <1>newlines, <2>3
  <2>6. PICK u \in EnsureTasks : u = [t EXCEPT !.state = "staged", !.read = staged]
    BY <2>5 DEF EnsureTasks
  <2>7. u.want = t.want /\ u.lines = t.lines /\ u.read = staged /\ u.state = "staged"
    BY <2>6 DEF EnsureTasks
  <2>8. task' = [task EXCEPT ![c] = u]
    BY <1>types, <2>2, <2>4, <2>6 DEF HostTypes
  <2>9. Satisfied(u, staged) \/ c \in misled'
    <3>1. CASE staged = NewLines(c)
      BY <1>newlines, <2>3, <2>4, <2>7, <3>1 DEF Satisfied
    <3>2. CASE staged # NewLines(c)
      BY <2>2, <3>2
    <3> QED BY <3>1, <3>2
  <2>10. u.want = "patched" => u.lines = {PatchLine}
    BY <2>4, <2>7 DEF HostInv
  <2> QED BY <1>types, <2>1, <2>3, <2>4, <2>7, <2>8, <2>9, <2>10, HostInvKept
<1>test. ASSUME NEW c \in EnsureCalls, TestPatch(c)
         PROVE  HostInv'
  <2>1. PICK code \in Codes : Heeds(c, code) /\ TaskStep(c, "started", IF code = "other" THEN "failed" ELSE "tested")
    BY <1>test DEF TestPatch
  <2>2. HostKept
    BY <1>test, <1>types, <1>heeds, <2>1 DEF TestPatch, HostKept, HostTypes, hostState
  <2> QED BY <1>types, <2>1, <2>2, TaskStepKeeps
<1>9. ASSUME NEW c \in EnsureCalls, ApplyPatch(c)
      PROVE  HostInv'
  <2>1. PICK code \in Codes, done \in BOOLEAN :
          /\ done => PatchFits
          /\ CommandAnswers(c, "tested", code, done)
          /\ file' = IF done THEN file \cup {PatchLine} ELSE file
    BY <1>9 DEF ApplyPatch
  <2>2. UNCHANGED <<installed, serviceUp>> /\ task[c].want = "patched" /\ task[c].lines = {PatchLine}
    BY <1>9 DEF ApplyPatch, HostInv
  <2>3. done => file' \in SUBSET FileLines /\ file' # NoFile /\ PatchLine \in file'
    BY <1>types, <2>1 DEF HostTypes, PatchFits, NoFile
  <2>4. HostKept
    BY <1>types, <1>heeds, <2>1, <2>2, <2>3 DEF CommandAnswers, HostKept, HostTypes
  <2>5. done => Holds(c, installed', serviceUp', file')
    BY <2>2, <2>3 DEF Holds
  <2> QED BY <1>command, <2>1, <2>4, <2>5
<1>10. ASSUME NEW c \in EnsureCalls,
              \/ \E want \in {"present", "absent", "started", "stopped"} : StartTask(c, want, {})
              \/ \E want \in LineTasks, l \in FileLines : StartTask(c, want, {l})
              \/ StartTask(c, "patched", {PatchLine})
       PROVE  HostInv'
  <2>1. CASE \E want \in {"present", "absent", "started", "stopped"} : StartTask(c, want, {})
    <3>1. PICK want \in {"present", "absent", "started", "stopped"} : StartTask(c, want, {})
      BY <2>1
    <3>2. {} \in SUBSET FileLines /\ want # "patched"
      OBVIOUS
    <3>3. want \in {"present", "absent", "started", "stopped", "lines present", "lines absent", "patched"}
      OBVIOUS
    <3> QED BY <1>1, <3>1, <3>2, <3>3
  <2>2. CASE \E want \in LineTasks, l \in FileLines : StartTask(c, want, {l})
    <3>1. PICK want \in LineTasks, l \in FileLines : StartTask(c, want, {l})
      BY <2>2
    <3>2. {l} \in SUBSET FileLines
      OBVIOUS
    <3>3. want \in {"lines present", "lines absent"}
      BY DEF LineTasks
    <3> QED BY <1>1, <3>1, <3>2, <3>3
  <2>3. CASE StartTask(c, "patched", {PatchLine})
    <3>1. {PatchLine} \in SUBSET FileLines
      BY <1>types
    <3> QED BY <1>1, <2>3, <3>1
  <2> QED BY <1>10, <2>1, <2>2, <2>3
<1> QED BY <1>2, <1>3, <1>4, <1>service, <1>5, <1>6, <1>7, <1>move, <1>8, <1>test, <1>9, <1>10 DEF HostNext, HostStep

\* A call of ensure_package, ensure_service, ensure_lines_in_file or patch_apply
\* that reports success had the host as it was asked for at some moment, whatever
\* the other calls do, unless a look was wrong, a command of it ended without an
\* exit code or the shell wrote its file in part (ensure.ts, process.ts).
THEOREM SuccessCorrect == HostSpec => []SuccessIsReal
<1>1. HostInit => HostInv
  BY HostAssumption DEF HostInit, HostInv, HostTypes, EnsureTasks, NoTask, SuccessIsReal
<1>2. HostInv /\ [HostNext]_hostVars => HostInv'
  BY HostInvStep DEF hostVars, HostInv, HostTypes, SuccessIsReal
<1>3. HostInv => SuccessIsReal
  BY DEF HostInv
<1> QED BY <1>1, <1>2, <1>3, PTL DEF HostSpec

----------------------------------------------------------------------------
(* Files of tools and transfers *)

Contents == [of : FileCalls \cup {"nobody", "host", "user"}, size : Nat, whole : BOOLEAN]

CallStates == {"none", "started", "writing", "written", "cleanup", "checked", "read", "verified", "done", "failed"}

Calls == [kind : {"none", "write", "shell_write", "upload", "read", "download", "remove"},
          state : CallStates, data : Contents, temp : TempNames \cup {"none"}]

FilesTypes ==
  /\ remoteFile \in Contents /\ localFile \in Contents
  /\ remoteTemp \in [FileCalls -> Contents] /\ localTemp \in [TempNames -> Contents]
  /\ call \in [FileCalls -> Calls]

\* A download that has a local temporary file, and one that has written it.
HasTemp(c) == call[c].kind = "download" /\ call[c].state \in {"writing", "written", "verified"}
HasWritten(c) == call[c].kind = "download" /\ call[c].state \in {"written", "verified"}

(***************************************************************************)
(* The inductive invariant.  What is renamed into place is whole: on the   *)
(* host, a temporary file that was written to its end; here, what one      *)
(* download read, in a temporary file that is its own as long as it is     *)
(* there, since the names of two that are there differ.                    *)
(***************************************************************************)
FilesInv ==
  /\ FilesTypes
  /\ \A c \in FileCalls :
       /\ call[c].kind = "write" /\ call[c].state = "written" => remoteTemp[c].whole
       /\ call[c].state \in {"none", "started", "checked"} => call[c].data = Absent
       /\ call[c].kind = "download" /\ call[c].state = "read" => call[c].data # Absent
       /\ HasTemp(c) => /\ call[c].temp \in TempNames /\ localTemp[call[c].temp] # Absent
                        /\ call[c].data # Absent
       /\ HasWritten(c) => localTemp[call[c].temp] = call[c].data
       /\ \A d \in FileCalls : HasTemp(c) /\ HasTemp(d) /\ c # d => call[c].temp # call[d].temp
  /\ FilesAreReplacedAtOnce

\* Whole files, halves and no file at all.
LEMMA ContentsTypes ==
  /\ Absent \in Contents /\ Absent.whole
  /\ \A who \in FileCalls \cup {"nobody", "host", "user"} :
       /\ Whole(who) \in Contents /\ Whole(who).whole /\ Whole(who).of = who
       /\ Half(who) \in Contents /\ ~Half(who).whole /\ Half(who).of = who
  /\ Half("nobody") # Absent
<1>1. SizeLimit \in Nat
  BY FilesAssumption
<1>2. Absent \in Contents /\ Absent.whole /\ Half("nobody") # Absent
  BY DEF Contents, Absent, Half
<1>3. ASSUME NEW who \in FileCalls \cup {"nobody", "host", "user"}
      PROVE  Whole(who) \in Contents /\ Half(who) \in Contents
  BY <1>1 DEF Contents, Whole, Half
<1> QED BY <1>2, <1>3 DEF Whole, Half

\* A step of call c leaves the other calls alone, and its own kind, name and data.
LEMMA CallStepUpdates ==
  ASSUME FilesTypes, NEW c \in FileCalls, NEW from, NEW to \in CallStates, NEW what, CallStep(c, what, from, to)
  PROVE  /\ call' \in [FileCalls -> Calls] /\ call[c].kind = what /\ call[c].state = from
         /\ call'[c].kind = call[c].kind /\ call'[c].data = call[c].data /\ call'[c].temp = call[c].temp
         /\ call'[c].state = to
         /\ \A d \in FileCalls \ {c} : call'[d] = call[d]
<1>1. PICK r \in Calls : r = call[c]
  BY DEF FilesTypes
<1>2. PICK u \in Calls : u = [r EXCEPT !.state = to]
  BY DEF Calls
<1>3. u.kind = r.kind /\ u.data = r.data /\ u.temp = r.temp /\ u.state = to
  BY <1>2 DEF Calls
<1>4. call' = [call EXCEPT ![c] = u]
  BY <1>1, <1>2 DEF CallStep, FilesTypes
<1> QED BY <1>1, <1>3, <1>4 DEF FilesTypes, CallStep

\* Half of a file on the host has someone who wrote it there.
LEMMA HalfStays ==
  ASSUME FilesInv, NEW c \in FileCalls, remoteFile' = remoteFile,
         \A d \in FileCalls \ {c} : call'[d] = call[d],
         call'[c].kind = call[c].kind \/ call[c].kind = "none"
  PROVE  ~remoteFile'.whole =>
           \E d \in FileCalls : remoteFile'.of = d /\ call'[d].kind \in {"upload", "shell_write"}
BY DEF FilesInv, FilesAreReplacedAtOnce

\* The local path keeps what one download read, which it reads once.
LEMMA LocalStays ==
  ASSUME FilesInv, NEW c \in FileCalls, localFile' = localFile,
         \A d \in FileCalls \ {c} : call'[d] = call[d],
         \/ call'[c].kind = call[c].kind /\ call'[c].data = call[c].data
         \/ call[c].data = Absent
  PROVE  localFile' \in {Absent, Whole("user")}
                        \cup {call'[d].data : d \in {e \in FileCalls : call'[e].kind = "download"}}
<1>1. CASE localFile \in {Absent, Whole("user")}
  BY <1>1
<1>2. ASSUME NEW d \in FileCalls, call[d].kind = "download", localFile = call[d].data, localFile # Absent
      PROVE  call'[d].kind = "download" /\ localFile' = call'[d].data
  BY <1>2
<1> QED BY <1>1, <1>2 DEF FilesInv, FilesAreReplacedAtOnce

\* Steps that touch no file.
LEMMA CallStepKeeps ==
  ASSUME FilesInv, NEW c \in FileCalls, UNCHANGED <<remoteFile, remoteTemp, localFile, localTemp>>,
         call' \in [FileCalls -> Calls], \A d \in FileCalls \ {c} : call'[d] = call[d],
         call'[c].data = call[c].data, call'[c].temp = call[c].temp,
         \/ call'[c].kind = call[c].kind
         \/ call[c].kind = "none" /\ call[c].data = Absent,
         \/ call'[c].state \in {"cleanup", "done", "failed"}
         \/ call'[c].state \in {"none", "started", "checked"} /\ call[c].data = Absent
         \/ call'[c].state = "verified" /\ HasWritten(c)
  PROVE  FilesInv'
<1>1. FilesAreReplacedAtOnce'
  BY HalfStays, LocalStays DEF FilesAreReplacedAtOnce
<1> QED BY <1>1 DEF FilesInv, FilesTypes, HasTemp, HasWritten

\* Every step of a tool, and of another program of the host, keeps the invariant.
LEMMA FilesInvStep ==
  ASSUME FilesInv, FilesNext
  PROVE  FilesInv'
<1>types. FilesTypes /\ FilesAreReplacedAtOnce
  BY DEF FilesInv
<1>1. ASSUME NEW c \in FileCalls,
             NEW what \in {"write", "shell_write", "upload", "read", "download", "remove"}, StartCall(c, what)
      PROVE  FilesInv'
  <2>1. PICK r \in Calls : r = NewCall /\ call[c] = r
    BY <1>1, <1>types, ContentsTypes DEF StartCall, FilesTypes, NewCall, Calls, CallStates
  <2>2. r.kind = "none" /\ r.data = Absent
    BY <2>1 DEF NewCall
  <2>3. PICK u \in Calls : u = [r EXCEPT !.kind = what, !.state = "started"]
    BY DEF Calls, CallStates
  <2>4. u.kind = what /\ u.state = "started" /\ u.data = r.data /\ u.temp = r.temp
    BY <2>3 DEF Calls
  <2>5. call' = [call EXCEPT ![c] = u]
    BY <1>1, <1>types, <2>1, <2>3 DEF StartCall, FilesTypes
  <2>6. call' \in [FileCalls -> Calls] /\ call'[c] = u /\ \A d \in FileCalls \ {c} : call'[d] = call[d]
    BY <1>types, <2>5 DEF FilesTypes
  <2>7. UNCHANGED <<remoteFile, remoteTemp, localFile, localTemp>>
    BY <1>1 DEF StartCall
  <2> QED BY <2>1, <2>2, <2>4, <2>6, <2>7, CallStepKeeps
<1>2. ASSUME NEW c \in FileCalls, ExplainOnly(c) \/ CallFails(c)
      PROVE  FilesInv'
  <2>1. PICK to \in {"cleanup", "done", "failed"} : CallStep(c, call[c].kind, call[c].state, to)
    BY <1>2 DEF ExplainOnly, CallFails, CallStep
  <2>2. to \in CallStates
    BY DEF CallStates
  <2> QED BY <1>2, <1>types, <2>1, <2>2, CallStepUpdates, CallStepKeeps DEF ExplainOnly, CallFails
<1>3. ASSUME NEW c \in FileCalls, WriteHalfTemp(c) \/ WriteWholeTemp(c) \/ CleanUpTemp(c)
      PROVE  FilesInv'
  <2>1. PICK from \in CallStates, to \in {"writing", "written", "failed"} : CallStep(c, "write", from, to)
    BY <1>3 DEF WriteHalfTemp, WriteWholeTemp, CleanUpTemp, CallStates
  <2>2. to \in CallStates
    BY DEF CallStates
  <2>call. /\ call' \in [FileCalls -> Calls] /\ call[c].kind = "write" /\ call'[c].state = to
           /\ call'[c].kind = call[c].kind /\ call'[c].data = call[c].data
           /\ \A d \in FileCalls \ {c} : call'[d] = call[d]
    <3>1. call[c].kind = "write"
      BY <2>1 DEF CallStep
    <3> QED BY <1>types, <2>1, <2>2, <3>1, CallStepUpdates
  <2>3. remoteTemp' \in [FileCalls -> Contents] /\ \A d \in FileCalls \ {c} : remoteTemp'[d] = remoteTemp[d]
    BY <1>3, <1>types, ContentsTypes DEF WriteHalfTemp, WriteWholeTemp, CleanUpTemp, FilesTypes
  <2>4. call'[c].state = "written" => remoteTemp'[c].whole
    <3>1. CASE WriteWholeTemp(c)
      BY <3>1, <1>types, ContentsTypes DEF WriteWholeTemp, FilesTypes
    <3>2. CASE WriteHalfTemp(c) \/ CleanUpTemp(c)
      <4>1. call'[c].state \in {"writing", "failed"}
        BY <3>2, <1>types, CallStepUpdates DEF WriteHalfTemp, CleanUpTemp, CallStates
      <4> QED BY <4>1
    <3> QED BY <1>3, <3>1, <3>2
  <2>5. UNCHANGED <<remoteFile, localFile, localTemp>>
    BY <1>3 DEF WriteHalfTemp, WriteWholeTemp, CleanUpTemp
  <2>6. FilesAreReplacedAtOnce'
    BY <2>call, <2>5, HalfStays, LocalStays DEF FilesAreReplacedAtOnce
  <2> QED BY <1>types, <2>call, <2>3, <2>4, <2>5, <2>6 DEF FilesInv, FilesTypes, HasTemp, HasWritten
<1>4. ASSUME NEW c \in FileCalls, RenameTemp(c) \/ ShellWrite(c) \/ UnlinkRemoved(c)
      PROVE  FilesInv'
  <2>1. PICK what \in {"write", "shell_write", "remove"}, from \in CallStates : CallStep(c, what, from, "done")
    BY <1>4 DEF RenameTemp, ShellWrite, UnlinkRemoved, CallStates
  <2>2. "done" \in CallStates
    BY DEF CallStates
  <2>3. /\ call' \in [FileCalls -> Calls] /\ call'[c].state = "done"
        /\ call'[c].kind = call[c].kind /\ call'[c].data = call[c].data
        /\ \A d \in FileCalls \ {c} : call'[d] = call[d]
    BY <1>types, <2>1, <2>2, CallStepUpdates
  <2>4. /\ remoteFile' \in Contents
        /\ remoteTemp' \in [FileCalls -> Contents] /\ \A d \in FileCalls \ {c} : remoteTemp'[d] = remoteTemp[d]
    BY <1>4, <1>types, ContentsTypes DEF RenameTemp, ShellWrite, UnlinkRemoved, FilesTypes
  <2>5. ~remoteFile'.whole => remoteFile'.of = c /\ call'[c].kind \in {"upload", "shell_write"}
    <3>1. CASE RenameTemp(c)
      BY <3>1 DEF RenameTemp, CallStep, FilesInv
    <3>2. CASE ShellWrite(c)
      BY <3>2, <2>3, ContentsTypes DEF ShellWrite, CallStep
    <3>3. CASE UnlinkRemoved(c)
      BY <3>3, ContentsTypes DEF UnlinkRemoved
    <3> QED BY <1>4, <3>1, <3>2, <3>3
  <2>6. UNCHANGED <<localFile, localTemp>>
    BY <1>4 DEF RenameTemp, ShellWrite, UnlinkRemoved
  <2>7. FilesAreReplacedAtOnce'
    BY <2>3, <2>5, <2>6, LocalStays DEF FilesAreReplacedAtOnce
  <2> QED BY <1>types, <2>3, <2>4, <2>6, <2>7 DEF FilesInv, FilesTypes, HasTemp, HasWritten
<1>5. ASSUME NEW c \in FileCalls, UploadHalf(c) \/ UploadWhole(c)
      PROVE  FilesInv'
  <2>1. PICK from \in CallStates, to \in {"writing", "written"} : CallStep(c, "upload", from, to)
    BY <1>5 DEF UploadHalf, UploadWhole, CallStates
  <2>2. to \in CallStates
    BY DEF CallStates
  <2>3. /\ call' \in [FileCalls -> Calls] /\ call'[c].state = to
        /\ call[c].kind = "upload" /\ call'[c].kind = call[c].kind /\ call'[c].data = call[c].data
        /\ \A d \in FileCalls \ {c} : call'[d] = call[d]
    <3>1. call[c].kind = "upload"
      BY <2>1 DEF CallStep
    <3> QED BY <1>types, <2>1, <2>2, <3>1, CallStepUpdates
  <2>4. remoteFile' \in {remoteFile, Half(c), Whole(c)} /\ UNCHANGED <<remoteTemp, localFile, localTemp>>
    BY <1>5 DEF UploadHalf, UploadWhole
  <2>5. remoteFile' \in Contents
    BY <1>types, <2>4, ContentsTypes DEF FilesTypes
  <2>6. ~remoteFile'.whole =>
          \E d \in FileCalls : remoteFile'.of = d /\ call'[d].kind \in {"upload", "shell_write"}
    <3>1. CASE remoteFile' = remoteFile
      BY <2>3, <3>1, HalfStays
    <3>2. CASE remoteFile' \in {Half(c), Whole(c)}
      BY <2>3, <3>2, ContentsTypes
    <3> QED BY <2>4, <3>1, <3>2
  <2>7. FilesAreReplacedAtOnce'
    BY <2>3, <2>4, <2>6, LocalStays DEF FilesAreReplacedAtOnce
  <2> QED BY <1>types, <2>3, <2>4, <2>5, <2>7 DEF FilesInv, FilesTypes, HasTemp, HasWritten
<1>6. ASSUME NEW c \in FileCalls, VerifyUpload(c) \/ StatRemoved(c) \/ StatRemote(c)
      PROVE  FilesInv'
  <2>1. PICK what \in {"upload", "remove", "read", "download"}, from \in CallStates,
             to \in {"done", "failed", "checked"} :
          CallStep(c, what, from, to) /\ (to = "checked" => from = "started")
    BY <1>6 DEF VerifyUpload, StatRemoved, StatRemote, Fetches, CallStates
  <2>2. to \in CallStates
    BY DEF CallStates
  <2>3. to = "checked" => call[c].data = Absent
    BY <2>1 DEF CallStep, FilesInv
  <2> QED BY <1>6, <1>types, <2>1, <2>2, <2>3, CallStepUpdates, CallStepKeeps DEF VerifyUpload, StatRemoved, StatRemote
<1>7. ASSUME NEW c \in FileCalls, ReadRemote(c)
      PROVE  FilesInv'
  <2>1. PICK r \in Calls : r = call[c]
    BY <1>types DEF FilesTypes
  <2>2. remoteFile \in Contents /\ remoteFile # Absent /\ r.state = "checked" /\ r.data = Absent
    BY <1>7, <1>types, <2>1 DEF ReadRemote, FilesTypes, FilesInv
  <2>3. PICK to \in {"done", "read"} : to = IF r.kind = "read" THEN "done" ELSE "read"
    OBVIOUS
  <2>4. PICK u \in Calls : u = [r EXCEPT !.data = remoteFile, !.state = to]
    BY <2>2 DEF Calls, CallStates
  <2>5. u.kind = r.kind /\ u.temp = r.temp /\ u.data = remoteFile /\ u.state = to
    BY <2>4 DEF Calls
  <2>6. call' = [call EXCEPT ![c] = u] /\ UNCHANGED <<remoteFile, remoteTemp, localFile, localTemp>>
    BY <1>7, <1>types, <2>1, <2>3, <2>4 DEF ReadRemote, FilesTypes
  <2>7. call' \in [FileCalls -> Calls] /\ call'[c] = u /\ \A d \in FileCalls \ {c} : call'[d] = call[d]
    BY <1>types, <2>6 DEF FilesTypes
  <2>8. FilesAreReplacedAtOnce'
    BY <2>1, <2>2, <2>5, <2>6, <2>7, HalfStays, LocalStays DEF FilesAreReplacedAtOnce
  <2> QED BY <1>types, <2>1, <2>2, <2>5, <2>6, <2>7, <2>8 DEF FilesInv, FilesTypes, HasTemp, HasWritten
<1>8. ASSUME NEW c \in FileCalls, NEW n \in TempNames, CreateLocalTemp(c, n)
      PROVE  FilesInv'
  <2>1. PICK r \in Calls : r = call[c]
    BY <1>types DEF FilesTypes
  <2>2. r.kind = "download" /\ r.state = "read" /\ r.data # Absent /\ localTemp[n] = Absent
    BY <1>8, <2>1 DEF CreateLocalTemp, TempIsFree, FilesInv
  <2>3. PICK u \in Calls : u = [r EXCEPT !.state = "writing", !.temp = n]
    BY DEF Calls, CallStates
  <2>4. u.kind = r.kind /\ u.temp = n /\ u.data = r.data /\ u.state = "writing"
    BY <2>3 DEF Calls
  <2>5. call' = [call EXCEPT ![c] = u] /\ UNCHANGED <<remoteFile, remoteTemp, localFile>>
    BY <1>8, <1>types, <2>1, <2>3 DEF CreateLocalTemp, FilesTypes
  <2>6. call' \in [FileCalls -> Calls] /\ call'[c] = u /\ \A d \in FileCalls \ {c} : call'[d] = call[d]
    BY <1>types, <2>5 DEF FilesTypes
  <2>7. /\ localTemp' \in [TempNames -> Contents] /\ localTemp'[n] # Absent
        /\ \A m \in TempNames \ {n} : localTemp'[m] = localTemp[m]
    BY <1>8, <1>types, ContentsTypes DEF CreateLocalTemp, FilesTypes
  <2>8. FilesAreReplacedAtOnce'
    BY <2>1, <2>2, <2>4, <2>5, <2>6, HalfStays, LocalStays DEF FilesAreReplacedAtOnce
  <2> QED BY <1>types, <2>1, <2>2, <2>4, <2>5, <2>6, <2>7, <2>8 DEF FilesInv, FilesTypes, HasTemp, HasWritten
<1>9. ASSUME NEW c \in FileCalls, WriteLocalTemp(c)
      PROVE  FilesInv'
  <2>1. "written" \in CallStates /\ CallStep(c, "download", "writing", "written")
    BY <1>9 DEF WriteLocalTemp, CallStates
  <2>2. /\ call' \in [FileCalls -> Calls] /\ call[c].kind = "download" /\ call[c].state = "writing"
        /\ call'[c].kind = "download" /\ call'[c].data = call[c].data /\ call'[c].temp = call[c].temp
        /\ call'[c].state = "written"
        /\ \A d \in FileCalls \ {c} : call'[d] = call[d]
    BY <1>types, <2>1, CallStepUpdates
  <2>3. PICK n \in TempNames : n = call[c].temp /\ call[c].data # Absent
    BY <2>2 DEF FilesInv, HasTemp
  <2>4. /\ localTemp' \in [TempNames -> Contents] /\ localTemp'[n] = call[c].data
        /\ \A m \in TempNames \ {n} : localTemp'[m] = localTemp[m]
    <3>1. call[c].data \in Contents
      BY <1>types DEF FilesTypes, Calls
    <3> QED BY <1>9, <1>types, <2>3, <3>1 DEF WriteLocalTemp, FilesTypes
  <2>5. UNCHANGED <<remoteFile, remoteTemp, localFile>>
    BY <1>9 DEF WriteLocalTemp
  <2>6. FilesAreReplacedAtOnce'
    BY <2>2, <2>5, HalfStays, LocalStays DEF FilesAreReplacedAtOnce
  <2>7. \A d \in FileCalls \ {c} : HasTemp(d) => call[d].temp # n
    BY <2>2, <2>3 DEF FilesInv, HasTemp
  <2> QED BY <1>types, <2>2, <2>3, <2>4, <2>5, <2>6, <2>7 DEF FilesInv, FilesTypes, HasTemp, HasWritten
<1>10. ASSUME NEW c \in FileCalls, VerifyDownload(c)
       PROVE  FilesInv'
  <2>1. HasWritten(c) /\ localTemp[call[c].temp] = call[c].data
    BY <1>10 DEF VerifyDownload, FilesInv, HasWritten
  <2>2. "verified" \in CallStates /\ CallStep(c, "download", "written", "verified")
    BY <1>10, <2>1 DEF VerifyDownload, CallStates
  <2> QED BY <1>10, <1>types, <2>1, <2>2, CallStepUpdates, CallStepKeeps DEF VerifyDownload
<1>11. ASSUME NEW c \in FileCalls, RenameLocalTemp(c)
       PROVE  FilesInv'
  <2>1. "done" \in CallStates /\ CallStep(c, "download", "verified", "done")
    BY <1>11 DEF RenameLocalTemp, CallStates
  <2>2. /\ call' \in [FileCalls -> Calls] /\ call[c].kind = "download" /\ call[c].state = "verified"
        /\ call'[c].kind = "download" /\ call'[c].data = call[c].data /\ call'[c].temp = call[c].temp
        /\ call'[c].state = "done"
        /\ \A d \in FileCalls \ {c} : call'[d] = call[d]
    BY <1>types, <2>1, CallStepUpdates
  <2>3. PICK n \in TempNames : n = call[c].temp /\ localTemp[n] = call[c].data
    BY <2>2 DEF FilesInv, HasTemp, HasWritten
  <2>4. /\ localTemp' \in [TempNames -> Contents] /\ \A m \in TempNames \ {n} : localTemp'[m] = localTemp[m]
    BY <1>11, <1>types, <2>3, ContentsTypes DEF RenameLocalTemp, FilesTypes
  <2>5. UNCHANGED <<remoteFile, remoteTemp>> /\ localFile' = call'[c].data /\ localFile' \in Contents
    BY <1>11, <1>types, <2>2, <2>3 DEF RenameLocalTemp, FilesTypes
  <2>6. FilesAreReplacedAtOnce'
    BY <2>2, <2>5, HalfStays DEF FilesAreReplacedAtOnce
  <2>7. \A d \in FileCalls \ {c} : HasTemp(d) => call[d].temp # n
    BY <2>2, <2>3 DEF FilesInv, HasTemp
  <2> QED BY <1>types, <2>2, <2>3, <2>4, <2>5, <2>6, <2>7 DEF FilesInv, FilesTypes, HasTemp, HasWritten
<1>12. ASSUME Grow
       PROVE  FilesInv'
  <2>1. PICK r \in Contents : r = remoteFile
    BY <1>types DEF FilesTypes
  <2>2. remoteFile' = [r EXCEPT !.size = r.size + 1] /\ UNCHANGED <<remoteTemp, localFile, localTemp, call>>
    BY <1>12, <2>1 DEF Grow
  <2>3. remoteFile' \in Contents /\ remoteFile'.whole = r.whole /\ remoteFile'.of = r.of
    BY <2>2 DEF Contents
  <2> QED BY <1>types, <2>1, <2>2, <2>3 DEF FilesInv, FilesTypes, FilesAreReplacedAtOnce, HasTemp, HasWritten
<1> QED BY <1>1, <1>2, <1>3, <1>4, <1>5, <1>6, <1>7, <1>8, <1>9, <1>10, <1>11, <1>12 DEF FilesNext

\* A file tool replaces a file at once: half a file is seen on the host only where
\* an upload or the shell wrote it, and the local path holds what it held or all
\* that one download read (fs-tools.ts, transfer.ts).
THEOREM FilesCorrect == FilesSpec => []FilesAreReplacedAtOnce
<1>1. FilesInit => FilesInv
  <2> SUFFICES ASSUME FilesInit PROVE FilesInv
    OBVIOUS
  <2>1. NewCall \in Calls /\ NewCall.state = "none" /\ NewCall.kind = "none" /\ NewCall.data = Absent
    BY ContentsTypes DEF NewCall, Calls, CallStates
  <2>2. FilesTypes
    BY <2>1, ContentsTypes DEF FilesInit, FilesTypes
  <2> QED BY <2>1, <2>2, ContentsTypes DEF FilesInit, FilesInv, FilesAreReplacedAtOnce, HasTemp, HasWritten
<1>2. FilesInv /\ [FilesNext]_filesVars => FilesInv'
  BY FilesInvStep DEF filesVars, FilesInv, FilesTypes, FilesAreReplacedAtOnce, HasTemp, HasWritten
<1>3. FilesInv => FilesAreReplacedAtOnce
  BY DEF FilesInv
<1> QED BY <1>1, <1>2, <1>3, PTL DEF FilesSpec

----------------------------------------------------------------------------
(* Files a remote agent writes *)

WriterStates == {"idle", "opened", "parent", "created", "written", "synced", "renamed", "acknowledged", "denied", "failed"}
ReaderStates == {"idle", "opened", "verified", "done", "denied", "failed"}

Data == Inodes \cup {Partial, Nothing}

FileTypes ==
  /\ seen \in [Inodes -> Data] /\ disk \in [Inodes -> Data]
  /\ entry \in Inodes \cup {Nothing} /\ entryDisk \in Inodes \cup {Nothing}
  /\ writing \in [Writers -> [state : WriterStates, inode : Data, content : Data]]
  /\ reading \in [Readers -> [state : ReaderStates, inode : Data, content : Data]]
  /\ renamed \in Seq(Writers)

\* An inode that a path may name: it has its content, here and on the disk, and
\* no writer is still at it.
Finished(i) ==
  /\ i \in Inodes /\ seen[i] = i /\ disk[i] = i
  /\ i \in Writers => writing[i].state \in {"renamed", "acknowledged", "failed"}

\* What a path names once w was renamed onto it.
NamesSince(i, w) == i = w \/ i \in After(w)

(***************************************************************************)
(* The inductive invariant: a temporary file is on the disk before it gets *)
(* the name of the file, and the name is on the disk before the write is   *)
(* acknowledged; a crash goes back to what is on the disk, and that is     *)
(* whole, and later than every acknowledged write.                         *)
(***************************************************************************)
FileInv ==
  /\ FileTypes
  /\ \A i \in {entry, entryDisk} \ {Nothing} : Finished(i)
  /\ \A r \in Readers : /\ reading[r].state \in {"opened", "verified"} => Finished(reading[r].inode)
                        /\ reading[r].state = "done" => reading[r].content \in Inodes
  /\ \A w \in Writers :
       /\ writing[w].state \in {"written", "synced"} => seen[w] = w
       /\ writing[w].state \in {"synced", "renamed", "acknowledged"} => seen[w] = w /\ disk[w] = w
       /\ writing[w].state \in {"renamed", "acknowledged"} =>
            (\E n \in DOMAIN renamed : renamed[n] = w) /\ NamesSince(entry, w)
       /\ writing[w].state = "acknowledged" => NamesSince(entryDisk, w)

\* A rename comes after all those before it.
LEMMA LaterRenames ==
  ASSUME NEW v \in Writers, renamed \in Seq(Writers), renamed' = Append(renamed, v)
  PROVE  /\ \A w \in Writers : After(w) \subseteq After(w)'
         /\ \A w \in Writers : (\E n \in DOMAIN renamed : renamed[n] = w) => v \in After(w)'
         /\ \A w \in Writers : (\E n \in DOMAIN renamed : renamed[n] = w) => \E n \in DOMAIN renamed' : renamed'[n] = w
         /\ \E n \in DOMAIN renamed' : renamed'[n] = v
<1>1. Len(renamed) \in Nat /\ DOMAIN renamed = 1..Len(renamed)
  OBVIOUS
<1>2. DOMAIN renamed' = 1..(Len(renamed) + 1) /\ renamed'[Len(renamed) + 1] = v
  BY <1>1
<1>3. \A n \in DOMAIN renamed : n \in DOMAIN renamed' /\ renamed'[n] = renamed[n] /\ n < Len(renamed) + 1
  BY <1>1, <1>2
<1>4. Len(renamed) + 1 \in DOMAIN renamed'
  BY <1>1, <1>2
<1> QED BY <1>2, <1>3, <1>4 DEF After

\* What is finished stays so in a step that changes no such file.
LEMMA FinishedStays ==
  ASSUME FileTypes, NEW i, Finished(i),
         \A j \in Inodes : seen[j] = j /\ disk[j] = j /\ Finished(j) => seen'[j] = j /\ disk'[j] = j,
         \A w \in Writers : writing[w].state \in {"renamed", "acknowledged", "failed"}
                              => writing'[w].state \in {"renamed", "acknowledged", "failed"}
  PROVE  Finished(i)'
BY DEF Finished

\* A step of writer w to a state leaves the other writers alone, and its own file.
LEMMA WriteStepUpdates ==
  ASSUME FileTypes, NEW w \in Writers, NEW from, NEW to \in WriterStates, WriteStep(w, from, to)
  PROVE  /\ writing' \in [Writers -> [state : WriterStates, inode : Data, content : Data]]
         /\ writing[w].state = from /\ writing'[w].state = to
         /\ \A v \in Writers \ {w} : writing'[v] = writing[v]
BY DEF FileTypes, WriteStep

\* A step in which calls only go on, or are lost, and files stay as they are.
LEMMA FilesStayPut ==
  ASSUME FileInv, UNCHANGED <<seen, disk, entry, entryDisk, renamed>>,
         writing' \in [Writers -> [state : WriterStates, inode : Data, content : Data]],
         \A w \in Writers : \/ writing'[w].state = writing[w].state
                            \/ writing'[w].state = "failed"
                            \/ /\ writing[w].state \in {"idle", "opened"}
                               /\ writing'[w].state \in {"opened", "parent", "denied"},
         reading' \in [Readers -> [state : ReaderStates, inode : Data, content : Data]],
         \A r \in Readers : \/ reading'[r] = reading[r]
                            \/ reading'[r].state \in {"denied", "failed"}
                            \/ reading'[r].state \in {"opened", "verified"} /\ Finished(reading'[r].inode)
                            \/ reading'[r].state = "done" /\ reading'[r].content \in Inodes
  PROVE  FileInv'
<1>1. \A w \in Writers : writing[w].state \in {"renamed", "acknowledged", "failed"}
                           => writing'[w].state \in {"renamed", "acknowledged", "failed"}
  OBVIOUS
<1>2. \A i : Finished(i) => Finished(i)'
  BY <1>1 DEF Finished
<1>3. FileTypes'
  BY DEF FileInv, FileTypes
<1>4. \A w, i : NamesSince(i, w)' <=> NamesSince(i', w)
  BY DEF NamesSince, After
<1>5. \A w \in Writers : writing'[w].state \in {"written", "synced", "renamed", "acknowledged"}
                           => writing'[w].state = writing[w].state
  OBVIOUS
<1>6. \A r \in Readers : /\ reading'[r].state \in {"opened", "verified"} => Finished(reading'[r].inode)
                         /\ reading'[r].state = "done" => reading'[r].content \in Inodes
  BY DEF FileInv
<1> QED BY <1>2, <1>3, <1>4, <1>5, <1>6 DEF FileInv

\* What a stop or a crash makes of the calls: they are failed, or as they were.
LEMMA LostCalls ==
  ASSUME FileTypes
  PROVE  /\ Lost(writing) \in [Writers -> [state : WriterStates, inode : Data, content : Data]]
         /\ \A w \in Writers : \/ Lost(writing)[w].state = "failed"
                               \/ /\ Lost(writing)[w] = writing[w]
                                  /\ writing[w].state \in {"idle", "acknowledged", "failed", "denied"}
         /\ Lost(reading) \in [Readers -> [state : ReaderStates, inode : Data, content : Data]]
         /\ \A r \in Readers : \/ Lost(reading)[r].state = "failed"
                               \/ /\ Lost(reading)[r] = reading[r]
                                  /\ reading[r].state \in {"idle", "done", "failed", "denied"}
BY DEF FileTypes, Lost, WriterStates, ReaderStates

\* Every step of a writer, a reader, the file system and the host keeps the
\* invariant.
LEMMA FileInvStep ==
  ASSUME FileInv, FileNext
  PROVE  FileInv'
<1>types. /\ FileTypes
          /\ OldFile \notin Writers /\ {Partial, Nothing} \cap Inodes = {}
          /\ \A w \in Writers : w \in Inodes
  BY FileAssumption DEF FileInv, Inodes
<1>1. ASSUME NEW w \in Writers, OpenTarget(w) \/ VerifyTarget(w) \/ WriteFails(w)
      PROVE  FileInv'
  <2>1. /\ writing' \in [Writers -> [state : WriterStates, inode : Data, content : Data]]
        /\ \A v \in Writers \ {w} : writing'[v] = writing[v]
        /\ \/ writing'[w].state = "failed"
           \/ /\ writing[w].state \in {"idle", "opened"}
              /\ writing'[w].state \in {"opened", "parent", "denied"}
    <3>1. CASE OpenTarget(w)
      <4>1. PICK t : t = writing[w] /\ t \in [state : WriterStates, inode : Data, content : Data] /\ t.state = "idle"
        BY <1>types, <3>1 DEF OpenTarget, Resting, FileTypes
      <4>2. PICK to \in {"parent", "opened"} : to = IF entry = Nothing THEN "parent" ELSE "opened"
        OBVIOUS
      <4>3. entry \in Data
        BY <1>types DEF FileTypes, Data
      <4>4. PICK u \in [state : WriterStates, inode : Data, content : Data] :
              u = [t EXCEPT !.state = to, !.inode = entry]
        BY <4>1, <4>3 DEF WriterStates
      <4>5. u.state = to
        BY <4>1, <4>4
      <4>6. writing' = [writing EXCEPT ![w] = u]
        BY <1>types, <3>1, <4>1, <4>2, <4>4 DEF OpenTarget, FileTypes
      <4> QED BY <1>types, <4>1, <4>5, <4>6 DEF FileTypes
    <3>2. CASE VerifyTarget(w)
      BY <1>types, <3>2 DEF VerifyTarget, FileTypes, WriterStates
    <3>3. CASE WriteFails(w)
      BY <1>types, <3>3 DEF WriteFails, FileTypes, WriterStates
    <3> QED BY <1>1, <3>1, <3>2, <3>3
  <2>2. UNCHANGED <<seen, disk, entry, entryDisk, reading, renamed>>
    BY <1>1 DEF OpenTarget, VerifyTarget, WriteFails
  <2> QED BY <1>types, <2>1, <2>2, FilesStayPut DEF FileTypes
<1>2. ASSUME NEW w \in Writers, CreateTemporary(w) \/ WriteTemporary(w)
      PROVE  FileInv'
  <2>1. PICK from \in {"parent", "created"}, to \in {"created", "written"} :
          /\ WriteStep(w, from, to)
          /\ to = "written" => seen'[w] = w
    BY <1>2, <1>types DEF CreateTemporary, WriteTemporary, FileTypes
  <2>2. to \in WriterStates
    BY DEF WriterStates
  <2>3. /\ writing' \in [Writers -> [state : WriterStates, inode : Data, content : Data]]
        /\ writing[w].state = from /\ writing'[w].state = to
        /\ \A v \in Writers \ {w} : writing'[v] = writing[v]
    BY <1>types, <2>1, <2>2, WriteStepUpdates
  <2>4. /\ seen' \in [Inodes -> Data] /\ \A i \in Inodes \ {w} : seen'[i] = seen[i]
        /\ UNCHANGED <<disk, entry, entryDisk, reading, renamed>>
    BY <1>2, <1>types DEF CreateTemporary, WriteTemporary, FileTypes, Data
  <2>5. FileTypes'
    BY <1>types, <2>3, <2>4 DEF FileTypes
  <2>6. \A i : Finished(i) => Finished(i)'
    BY <1>types, <2>3, <2>4 DEF Finished
  <2>7. \A v, i : NamesSince(i, v)' <=> NamesSince(i', v)
    BY <2>4 DEF NamesSince, After
  <2> QED BY <1>types, <2>1, <2>3, <2>4, <2>5, <2>6, <2>7 DEF FileInv
<1>3. ASSUME NEW w \in Writers, SyncTemporary(w)
      PROVE  FileInv'
  <2>1. "synced" \in WriterStates /\ WriteStep(w, "written", "synced")
    BY <1>3 DEF SyncTemporary, WriterStates
  <2>2. /\ writing' \in [Writers -> [state : WriterStates, inode : Data, content : Data]]
        /\ writing[w].state = "written" /\ writing'[w].state = "synced"
        /\ \A v \in Writers \ {w} : writing'[v] = writing[v]
    BY <1>types, <2>1, WriteStepUpdates
  <2>3. /\ disk' \in [Inodes -> Data] /\ disk'[w] = w /\ \A i \in Inodes \ {w} : disk'[i] = disk[i]
        /\ UNCHANGED <<seen, entry, entryDisk, reading, renamed>>
    BY <1>3, <1>types, <2>2 DEF SyncTemporary, FileTypes, FileInv, Data
  <2>4. FileTypes'
    BY <1>types, <2>2, <2>3 DEF FileTypes
  <2>5. \A i : Finished(i) => Finished(i)'
    BY <1>types, <2>2, <2>3 DEF Finished
  <2>6. \A v, i : NamesSince(i, v)' <=> NamesSince(i', v)
    BY <2>3 DEF NamesSince, After
  <2> QED BY <1>types, <2>2, <2>3, <2>4, <2>5, <2>6 DEF FileInv
<1>4. ASSUME NEW w \in Writers, RenameTemporary(w)
      PROVE  FileInv'
  <2>1. "renamed" \in WriterStates /\ WriteStep(w, "synced", "renamed")
    BY <1>4 DEF RenameTemporary, WriterStates
  <2>2. /\ writing' \in [Writers -> [state : WriterStates, inode : Data, content : Data]]
        /\ writing[w].state = "synced" /\ writing'[w].state = "renamed"
        /\ \A v \in Writers \ {w} : writing'[v] = writing[v]
    BY <1>types, <2>1, WriteStepUpdates
  <2>3. entry' = w /\ renamed' = Append(renamed, w) /\ UNCHANGED <<seen, disk, entryDisk, reading>>
    BY <1>4 DEF RenameTemporary
  <2>4. FileTypes'
    BY <1>types, <2>2, <2>3 DEF FileTypes
  <2>5. \A i : Finished(i) => Finished(i)'
    BY <1>types, <2>2, <2>3 DEF Finished
  <2>6. Finished(w)'
    BY <1>types, <2>2, <2>3 DEF Finished, FileInv
  <2>7. /\ \A v \in Writers : After(v) \subseteq After(v)'
        /\ \A v \in Writers : (\E n \in DOMAIN renamed : renamed[n] = v) => w \in After(v)'
        /\ \A v \in Writers : (\E n \in DOMAIN renamed : renamed[n] = v) => \E n \in DOMAIN renamed' : renamed'[n] = v
        /\ \E n \in DOMAIN renamed' : renamed'[n] = w
    BY <1>types, <2>3, LaterRenames DEF FileTypes
  <2>8. \A v \in Writers : /\ NamesSince(entryDisk, v) => NamesSince(entryDisk, v)'
                           /\ (\E n \in DOMAIN renamed : renamed[n] = v) => NamesSince(entry, v)'
    BY <2>3, <2>7 DEF NamesSince
  <2>9. NamesSince(entry, w)'
    BY <2>3 DEF NamesSince
  <2> QED BY <1>types, <2>2, <2>3, <2>4, <2>5, <2>6, <2>7, <2>8, <2>9 DEF FileInv
<1>5. ASSUME NEW w \in Writers, SyncParent(w)
      PROVE  FileInv'
  <2>1. "acknowledged" \in WriterStates /\ WriteStep(w, "renamed", "acknowledged")
    BY <1>5 DEF SyncParent, WriterStates
  <2>2. /\ writing' \in [Writers -> [state : WriterStates, inode : Data, content : Data]]
        /\ writing[w].state = "renamed" /\ writing'[w].state = "acknowledged"
        /\ \A v \in Writers \ {w} : writing'[v] = writing[v]
    BY <1>types, <2>1, WriteStepUpdates
  <2>3. entryDisk' = entry /\ UNCHANGED <<seen, disk, entry, reading, renamed>>
    BY <1>5 DEF SyncParent
  <2>4. FileTypes'
    BY <1>types, <2>2, <2>3 DEF FileTypes
  <2>5. \A i : Finished(i) => Finished(i)'
    BY <1>types, <2>2, <2>3 DEF Finished
  <2>6. \A v, i : NamesSince(i, v)' <=> NamesSince(i', v)
    BY <2>3 DEF NamesSince, After
  <2> QED BY <1>types, <2>2, <2>3, <2>4, <2>5, <2>6 DEF FileInv
<1>6. ASSUME NEW r \in Readers, OpenRead(r) \/ VerifyRead(r) \/ ReadFile(r)
      PROVE  FileInv'
  <2>1. /\ reading' \in [Readers -> [state : ReaderStates, inode : Data, content : Data]]
        /\ \A q \in Readers \ {r} : reading'[q] = reading[q]
    <3>1. PICK t \in [state : ReaderStates, inode : Data, content : Data] : t = reading[r]
      BY <1>types DEF FileTypes
    <3>2. t.state = "verified" => seen[t.inode] \in Data
      BY <1>types, <3>1 DEF FileInv, FileTypes, Finished
    <3>3. \E u \in [state : ReaderStates, inode : Data, content : Data] : reading' = [reading EXCEPT ![r] = u]
      <4>1. CASE OpenRead(r)
        <5>1. PICK to \in {"denied", "opened"} : to = IF entry = Nothing THEN "denied" ELSE "opened"
          OBVIOUS
        <5>2. entry \in Data
          BY <1>types DEF FileTypes, Data
        <5>3. [t EXCEPT !.state = to, !.inode = entry] \in [state : ReaderStates, inode : Data, content : Data]
          BY <5>2 DEF ReaderStates
        <5> QED BY <1>types, <3>1, <4>1, <5>1, <5>3 DEF OpenRead, FileTypes
      <4>2. CASE VerifyRead(r)
        <5>1. PICK to \in {"denied", "verified"} : to = IF entry = t.inode THEN "verified" ELSE "denied"
          OBVIOUS
        <5>2. [t EXCEPT !.state = to] \in [state : ReaderStates, inode : Data, content : Data]
          BY DEF ReaderStates
        <5> QED BY <1>types, <3>1, <4>2, <5>1, <5>2 DEF VerifyRead, FileTypes
      <4>3. CASE ReadFile(r)
        <5>1. seen[t.inode] \in Data
          BY <3>1, <3>2, <4>3 DEF ReadFile
        <5>2. [t EXCEPT !.state = "done", !.content = seen[t.inode]]
                \in [state : ReaderStates, inode : Data, content : Data]
          BY <5>1 DEF ReaderStates
        <5> QED BY <1>types, <3>1, <4>3, <5>2 DEF ReadFile, FileTypes
      <4> QED BY <1>6, <4>1, <4>2, <4>3
    <3> QED BY <1>types, <3>3 DEF FileTypes
  <2>2. \/ reading'[r].state = "denied"
        \/ reading'[r].state \in {"opened", "verified"} /\ Finished(reading'[r].inode)
        \/ reading'[r].state = "done" /\ reading'[r].content \in Inodes
    <3>1. CASE OpenRead(r)
      BY <3>1, <1>types DEF OpenRead, FileTypes, FileInv
    <3>2. CASE VerifyRead(r)
      BY <3>2, <1>types DEF VerifyRead, FileTypes, FileInv
    <3>3. CASE ReadFile(r)
      <4>1. Finished(reading[r].inode)
        BY <3>3 DEF ReadFile, FileInv
      <4> QED BY <3>3, <4>1, <1>types DEF ReadFile, FileTypes, Finished
    <3> QED BY <1>6, <3>1, <3>2, <3>3
  <2>3. UNCHANGED <<seen, disk, entry, entryDisk, writing, renamed>>
    BY <1>6 DEF OpenRead, VerifyRead, ReadFile
  <2> QED BY <1>types, <2>1, <2>2, <2>3, FilesStayPut DEF FileTypes
<1>7. ASSUME WriteBack
      PROVE  FileInv'
  <2>1. /\ disk' \in [Inodes -> Data] /\ \A i \in Inodes : disk'[i] \in {disk[i], seen[i]}
        /\ entryDisk' \in {entryDisk, entry}
        /\ UNCHANGED <<seen, entry, writing, reading, renamed>>
    BY <1>7, <1>types DEF WriteBack, FileTypes
  <2>2. FileTypes'
    BY <1>types, <2>1 DEF FileTypes
  <2>3. \A i : Finished(i) => Finished(i)'
    BY <1>types, <2>1 DEF Finished
  <2>4. \A v, i : NamesSince(i, v)' <=> NamesSince(i', v)
    BY <2>1 DEF NamesSince, After
  <2> QED BY <1>types, <2>1, <2>2, <2>3, <2>4 DEF FileInv
<1>8. CASE AgentStops
  BY <1>8, <1>types, LostCalls, FilesStayPut DEF AgentStops
<1>9. CASE HostCrashes
  <2>1. seen' = disk /\ entry' = entryDisk /\ writing' = Lost(writing) /\ reading' = Lost(reading)
        /\ UNCHANGED <<disk, entryDisk, renamed>>
    BY <1>9 DEF HostCrashes
  <2>2. FileTypes'
    BY <1>types, <2>1, LostCalls DEF FileTypes
  <2>3. \A w \in Writers : writing[w].state \in {"renamed", "acknowledged", "failed"}
                             => writing'[w].state \in {"renamed", "acknowledged", "failed"}
    BY <1>types, <2>1, LostCalls
  <2>4. \A i : Finished(i) => Finished(i)'
    BY <2>1, <2>3 DEF Finished
  <2>5. \A v, i : NamesSince(i, v)' <=> NamesSince(i', v)
    BY <2>1 DEF NamesSince, After
  <2>6. \A w \in Writers : writing'[w].state \in {"written", "synced", "renamed", "acknowledged"}
                             => writing[w].state = "acknowledged" /\ writing'[w].state = "acknowledged"
    BY <1>types, <2>1, LostCalls
  <2>7. \A r \in Readers : /\ reading'[r].state \notin {"opened", "verified"}
                           /\ reading'[r].state = "done" => reading'[r].content \in Inodes
    BY <1>types, <2>1, LostCalls DEF FileInv
  <2> QED BY <1>types, <2>1, <2>2, <2>4, <2>5, <2>6, <2>7 DEF FileInv
<1> QED BY <1>1, <1>2, <1>3, <1>4, <1>5, <1>6, <1>7, <1>8, <1>9 DEF FileNext

\* Whoever opens a path that the agent writes finds one whole content, also after
\* the host crashed, and an acknowledged write stays until a later one replaces it
\* (writeAuthorizedFileAtomic in safe-file.ts).
THEOREM WritesCorrect == FileSpec => []WritesAreWholeAndKept
<1>1. FileInit => FileInv
  <2> SUFFICES ASSUME FileInit PROVE FileInv
    OBVIOUS
  <2>1. FileTypes
    BY DEF FileInit, FileTypes, Inodes, Data, Resting, WriterStates, ReaderStates
  <2>2. Finished(OldFile)
    BY FileAssumption DEF FileInit, Finished, Inodes
  <2> QED BY <2>1, <2>2 DEF FileInit, FileInv, Resting
<1>2. FileInv /\ [FileNext]_fileVars => FileInv'
  <2> SUFFICES ASSUME FileInv, UNCHANGED fileVars PROVE FileInv'
    BY FileInvStep
  <2> QED BY FilesStayPut DEF fileVars, FileInv, FileTypes
<1>3. FileInv => WritesAreWholeAndKept
  BY DEF FileInv, FileTypes, Finished, NamesSince, WritesAreWholeAndKept
<1> QED BY <1>1, <1>2, <1>3, PTL DEF FileSpec

(* What a session knows of its host's system *)

OsFields == {"arch", "platform", "distro", "manager", "init"}
Platforms == {"linux", "darwin", "windows", "unknown"}

\* The fields that are settled when one is looked for.
Earlier(field) ==
  CASE field = "arch" -> {}
    [] field = "platform" -> {"arch"}
    [] field = "distro" -> {"arch", "platform"}
    [] field = "manager" -> {"arch", "platform", "distro"}
    [] field = "init" -> {"arch", "platform", "distro", "manager"}
    [] OTHER -> {}

\* What the property says of some of the fields.
Right(info, fields) ==
  /\ "platform" \in fields =>
       info.platform \in {system.platform, "unknown"} /\ (disturbed = {} => info.platform = system.platform)
  /\ \A f \in fields \ {"platform"} :
       /\ disturbed = {} => info[f] = Best(f, info.platform)
       /\ "cut" \notin disturbed => info[f] \in system.has \cup {Fallback(f, info.platform)}

Detecting(ask) ==
  /\ "platform" \notin Earlier(ask.field) => ask.info.platform = "unknown"
  /\ ask.info.platform \in Platforms
  /\ ask.at \in 1..Len(Candidates(ask.field, ask.info.platform)) + 1
  /\ Right(ask.info, Earlier(ask.field))
  /\ disturbed = {} =>
       \A i \in 1..ask.at - 1 : Candidates(ask.field, ask.info.platform)[i] \notin system.has

IsOsCall(ask) == DOMAIN ask = {"state", "field", "at", "info"} /\ DOMAIN ask.info = OsFields

(***************************************************************************)
(* The inductive invariant: the fields settled so far are right, and none  *)
(* of the commands of the row that were tried is one the host has.         *)
(***************************************************************************)
OsInv ==
  /\ system \in Systems
  /\ osCall = [c \in OsCalls |-> osCall[c]]
  /\ \A c \in OsCalls : IsOsCall(osCall[c]) /\ osCall[c].field \in OsFields
  /\ \A c \in OsCalls : osCall[c].state = "idle" => osCall[c] = IdleCall
  /\ \A c \in OsCalls : osCall[c].state = "detecting" => Detecting(osCall[c])
  /\ DOMAIN osInfo = OsFields
  /\ osInfo # NotDetected => Right(osInfo, OsFields)

\* The rows.
LEMMA Rows ==
  ASSUME NEW p \in Platforms
  PROVE  /\ Candidates("arch", p) = <<"uname_m", "PROCESSOR_ARCHITECTURE">>
         /\ Candidates("platform", p) = <<"uname_s", "ver", "sw_vers">>
         /\ Candidates("distro", "linux") = <<"os-release", "lsb-release", "redhat-release", "debian_version">>
         /\ Candidates("distro", "darwin") = <<"productName">>
         /\ Candidates("manager", "linux") = <<"apt", "dnf", "yum", "pacman", "apk", "zypper">>
         /\ Candidates("manager", "darwin") = <<"brew">>
         /\ Candidates("manager", "windows") = <<"winget", "choco">>
         /\ Candidates("init", "linux") = <<"systemd", "service">>
         /\ p \in {"windows", "unknown"} => Candidates("distro", p) = <<>>
         /\ Candidates("manager", "unknown") = <<>>
         /\ p # "linux" => Candidates("init", p) = <<>>
  BY DEF Candidates, Platforms

\* The commands that answer for a field of their own, the platform's apart.
FieldCommands ==
  {"uname_m", "PROCESSOR_ARCHITECTURE",
   "os-release", "lsb-release", "redhat-release", "debian_version", "productName",
   "apt", "dnf", "yum", "pacman", "apk", "zypper", "brew", "winget", "choco",
   "systemd", "service"}
IsRow(row) == row \in Seq(FieldCommands)

LEMMA Triple ==
  ASSUME NEW a, NEW b, NEW c
  PROVE  /\ Len(<<a, b, c>>) = 3
         /\ <<a, b, c>>[1] = a /\ <<a, b, c>>[2] = b /\ <<a, b, c>>[3] = c
  OBVIOUS

LEMMA Pair == ASSUME NEW S, NEW a \in S, NEW b \in S PROVE <<a, b>> \in Seq(S)
  OBVIOUS

\* The rows that are literals have no command of the platform in them.
LEMMA LiteralRow ==
  ASSUME NEW row,
         \/ row = <<>>
         \/ row = <<"uname_m", "PROCESSOR_ARCHITECTURE">>
         \/ row = <<"os-release", "lsb-release", "redhat-release", "debian_version">>
         \/ row = <<"productName">>
         \/ row = <<"apt", "dnf", "yum", "pacman", "apk", "zypper">>
         \/ row = <<"brew">>
         \/ row = <<"winget", "choco">>
         \/ row = <<"systemd", "service">>
  PROVE  IsRow(row)
<1>1. CASE row = <<>>
  BY <1>1 DEF IsRow, FieldCommands
<1>2. CASE row = <<"uname_m", "PROCESSOR_ARCHITECTURE">>
  <2>1. "uname_m" \in FieldCommands /\ "PROCESSOR_ARCHITECTURE" \in FieldCommands
    BY DEF FieldCommands
  <2>2. <<"uname_m", "PROCESSOR_ARCHITECTURE">> \in Seq(FieldCommands)
    BY <2>1, Pair
  <2> QED BY <1>2, <2>2 DEF IsRow
<1>3. CASE row = <<"os-release", "lsb-release", "redhat-release", "debian_version">>
  BY <1>3 DEF IsRow, FieldCommands
<1>4. CASE row = <<"productName">>
  BY <1>4 DEF IsRow, FieldCommands
<1>5. CASE row = <<"apt", "dnf", "yum", "pacman", "apk", "zypper">>
  BY <1>5 DEF IsRow, FieldCommands
<1>6. CASE row = <<"brew">>
  BY <1>6 DEF IsRow, FieldCommands
<1>7. CASE row = <<"winget", "choco">>
  BY <1>7 DEF IsRow, FieldCommands
<1>8. CASE row = <<"systemd", "service">>
  BY <1>8 DEF IsRow, FieldCommands
<1> QED BY <1>1, <1>2, <1>3, <1>4, <1>5, <1>6, <1>7, <1>8

LEMMA RowIsSeq ==
  ASSUME NEW f \in OsFields, NEW p \in Platforms
  PROVE  Len(Candidates(f, p)) \in Nat /\ (f # "platform" => IsRow(Candidates(f, p)))
<1> DEFINE row == Candidates(f, p)
<1>1. CASE f = "platform"
  <2>1. row = <<"uname_s", "ver", "sw_vers">>
    BY <1>1, Rows
  <2> HIDE DEF row
  <2>2. Len(row) \in Nat
    BY <2>1
  <2> QED BY <1>1, <2>2 DEF row
<1>2. CASE f # "platform"
  <2>1. \/ row = <<>>
        \/ row = <<"uname_m", "PROCESSOR_ARCHITECTURE">>
        \/ row = <<"os-release", "lsb-release", "redhat-release", "debian_version">>
        \/ row = <<"productName">>
        \/ row = <<"apt", "dnf", "yum", "pacman", "apk", "zypper">>
        \/ row = <<"brew">>
        \/ row = <<"winget", "choco">>
        \/ row = <<"systemd", "service">>
    BY <1>2, Rows DEF OsFields, Platforms
  <2> HIDE DEF row
  <2>2. IsRow(row)
    BY <2>1, LiteralRow
  <2> QED BY <2>2 DEF row, IsRow
<1> QED BY <1>1, <1>2

\* The row of "arch" is the same everywhere.
LEMMA ArchRow ==
  ASSUME NEW p, NEW q
  PROVE  Candidates("arch", p) = Candidates("arch", q) /\ Fallback("arch", p) = Fallback("arch", q)
  BY DEF Candidates, Fallback

\* The commands of the platform are tried for nothing else.
LEMMA SaysItself ==
  ASSUME NEW f \in OsFields \ {"platform"}, NEW p \in Platforms, NEW i \in 1..Len(Candidates(f, p))
  PROVE  Says(f, Candidates(f, p)[i]) = Candidates(f, p)[i]
<1>1. PICK c \in FieldCommands : c = Candidates(f, p)[i]
  BY RowIsSeq DEF IsRow
<1>2. c \notin {"uname_s", "ver", "sw_vers"}
  BY DEF FieldCommands
<1>3. Says(f, c) = c
  BY <1>2 DEF Says
<1> QED BY <1>1, <1>3

\* The first of a row that the host has is the best of the row.
LEMMA FirstIsBest ==
  ASSUME NEW f \in OsFields, NEW p \in Platforms, NEW i \in 1..Len(Candidates(f, p)),
         Candidates(f, p)[i] \in system.has,
         \A j \in 1..i - 1 : Candidates(f, p)[j] \notin system.has
  PROVE  Best(f, p) = Says(f, Candidates(f, p)[i])
<1> DEFINE row == Candidates(f, p)
           there == {k \in 1..Len(row) : row[k] \in system.has}
           first == CHOOSE k \in there : \A j \in there : k <= j
<1>0. Len(row) \in Nat
  BY RowIsSeq
<1>1. i \in there /\ i \in Nat
  BY <1>0
<1>2. \A j \in there : i <= j
  BY <1>0, <1>1
<1>3. first \in there /\ \A j \in there : first <= j
  BY <1>1, <1>2
<1>4. first = i
  BY <1>1, <1>2, <1>3
<1> HIDE DEF first
<1>5. Best(f, p) = IF there = {} THEN Fallback(f, p) ELSE Says(f, row[first])
  BY DEF Best, first
<1> QED BY <1>1, <1>4, <1>5

LEMMA NoneIsBest ==
  ASSUME NEW f \in OsFields, NEW p \in Platforms,
         \A j \in 1..Len(Candidates(f, p)) : Candidates(f, p)[j] \notin system.has
  PROVE  Best(f, p) = Fallback(f, p)
  BY DEF Best

\* "arch" is best whatever the platform turns out to be.
LEMMA ArchBest ==
  ASSUME NEW p \in Platforms, NEW q \in Platforms
  PROVE  Best("arch", p) = Best("arch", q)
<1> DEFINE row == Candidates("arch", p)
<1>0. row = <<"uname_m", "PROCESSOR_ARCHITECTURE">>
  BY Rows
<1>1. row = Candidates("arch", q) /\ Fallback("arch", p) = Fallback("arch", q)
  BY ArchRow
<1>2. "arch" \in OsFields
  BY DEF OsFields
<1> HIDE DEF row
<1>3. Len(row) = 2
  BY <1>0
<1>4. ASSUME NEW i \in 1..2, row[i] \in system.has, \A j \in 1..i - 1 : row[j] \notin system.has
      PROVE  Best("arch", p) = Best("arch", q)
  <2>1. Best("arch", p) = Says("arch", row[i])
    BY <1>2, <1>3, <1>4, FirstIsBest DEF row
  <2>2. Best("arch", q) = Says("arch", Candidates("arch", q)[i])
    BY <1>1, <1>2, <1>3, <1>4, FirstIsBest
  <2> QED BY <1>1, <2>1, <2>2
<1>5. CASE row[1] \in system.has
  BY <1>4, <1>5
<1>6. CASE row[1] \notin system.has /\ row[2] \in system.has
  BY <1>4, <1>6
<1>7. CASE row[1] \notin system.has /\ row[2] \notin system.has
  <2>1. \A j \in 1..Len(row) : row[j] \notin system.has
    BY <1>3, <1>7
  <2>2. Best("arch", p) = Fallback("arch", p)
    BY <1>2, <2>1, NoneIsBest DEF row
  <2>3. Best("arch", q) = Fallback("arch", q)
    BY <1>1, <1>2, <2>1, NoneIsBest
  <2> QED BY <1>1, <2>2, <2>3
<1> QED BY <1>5, <1>6, <1>7

\* A host keeps what it has, so what is best stays best.
LEMMA BestKept ==
  ASSUME system' = system, NEW f, NEW p
  PROVE  Best(f, p)' = Best(f, p)
  BY DEF Best, Says

\* Disturbances add up, so what is right stays right.
LEMMA RightKept ==
  ASSUME NEW info, NEW fields, Right(info, fields),
         system' = system, disturbed \subseteq disturbed'
  PROVE  Right(info, fields)'
  BY BestKept DEF Right

LEMMA DetectingKept ==
  ASSUME NEW ask, Detecting(ask), system' = system, disturbed \subseteq disturbed'
  PROVE  Detecting(ask)'
<1>1. Right(ask.info, Earlier(ask.field))'
  BY RightKept DEF Detecting
<1> QED BY <1>1 DEF Detecting

\* A value that a field may be given.
OsAnswer(field, platform, value) ==
  IF field = "platform"
    THEN value \in {system.platform, "unknown"} /\ (disturbed = {} => value = system.platform)
    ELSE /\ disturbed = {} => value = Best(field, platform)
         /\ "cut" \notin disturbed => value \in system.has \cup {Fallback(field, platform)}

\* With such a value one field more is right.
LEMMA OneMoreRight ==
  ASSUME NEW ask, NEW value, IsOsCall(ask), ask.field \in OsFields, Detecting(ask),
         system \in Systems, system' = system, disturbed \subseteq disturbed',
         OsAnswer(ask.field, ask.info.platform, value)'
  PROVE  Right([ask.info EXCEPT ![ask.field] = value], Earlier(ask.field) \cup {ask.field})'
<1> DEFINE info == [ask.info EXCEPT ![ask.field] = value]
           F == Earlier(ask.field) \cup {ask.field}
           p == ask.info.platform
<1>1. info[ask.field] = value /\ \A f \in OsFields \ {ask.field} : info[f] = ask.info[f]
  BY DEF IsOsCall
<1>2. Earlier(ask.field) \subseteq OsFields /\ ask.field \notin Earlier(ask.field)
  BY DEF Earlier, OsFields
<1>3. Right(ask.info, Earlier(ask.field))'
  BY RightKept DEF Detecting
<1>4. CASE ask.field = "platform"
  <2>1. F = {"arch", "platform"} /\ Earlier(ask.field) = {"arch"}
    BY <1>4 DEF Earlier
  <2>2. info.platform = value /\ info["arch"] = ask.info["arch"]
    BY <1>1, <1>4 DEF OsFields
  <2>3. value \in Platforms /\ p \in Platforms
    BY <1>4, SystemsAssumption DEF OsAnswer, Platforms, Detecting
  <2>4. Best("arch", value) = Best("arch", p) /\ Fallback("arch", value) = Fallback("arch", p)
    BY <2>3, ArchBest, ArchRow
  <2>5. Best("arch", value)' = Best("arch", p)'
    BY <2>4, BestKept
  <2>6. /\ disturbed' = {} => ask.info["arch"] = Best("arch", p)'
        /\ "cut" \notin disturbed' => ask.info["arch"] \in system.has \cup {Fallback("arch", p)}
    BY <1>3, <2>1 DEF Right
  <2> HIDE DEF info, p, F
  <2>7. Right(info, F)'
    BY <1>4, <2>1, <2>2, <2>4, <2>5, <2>6 DEF Right, OsAnswer
  <2> QED BY <2>7 DEF info, F
<1>5. CASE ask.field # "platform"
  <2>1. info.platform = p
    BY <1>1, <1>5 DEF OsFields
  <2>2. /\ "platform" \in F => "platform" \in Earlier(ask.field)
        /\ \A f \in F \ {"platform"} : f \in Earlier(ask.field) \ {"platform"} \/ f = ask.field
    BY <1>5
  <2>3. \A f \in Earlier(ask.field) : info[f] = ask.info[f]
    BY <1>1, <1>2
  <2> HIDE DEF info, F
  <2>4. Right(info, F)'
    BY <1>1, <1>3, <1>5, <2>1, <2>2, <2>3 DEF Right, OsAnswer, p
  <2> QED BY <2>4 DEF info, F
<1> QED BY <1>4, <1>5

\* After a field comes the one for which it and the earlier ones are settled.
LEMMA FieldOrder ==
  ASSUME NEW f \in OsFields
  PROVE  /\ FieldAfter(f) = "done" => Earlier(f) \cup {f} = OsFields
         /\ FieldAfter(f) # "done" =>
              FieldAfter(f) \in OsFields /\ Earlier(FieldAfter(f)) = Earlier(f) \cup {f}
         /\ "platform" \notin Earlier(FieldAfter(f)) /\ FieldAfter(f) # "done" => f = "arch"
  BY DEF FieldAfter, Earlier, OsFields

\* A settled field leaves the invariant true, whatever the answer is.
LEMMA SettledKeeps ==
  ASSUME OsInv, NEW c \in OsCalls, NEW ask, ask = osCall[c], ask.state = "detecting",
         NEW value, OsAnswer(ask.field, ask.info.platform, value)',
         Settled(c, value), system' = system, disturbed \subseteq disturbed'
  PROVE  OsInv'
<1> DEFINE info == [ask.info EXCEPT ![ask.field] = value]
           next == FieldAfter(ask.field)
<1>1. IsOsCall(ask) /\ ask.field \in OsFields /\ Detecting(ask) /\ ask.state = "detecting"
  BY DEF OsInv
<1>2. Right(info, Earlier(ask.field) \cup {ask.field})'
  BY <1>1, OneMoreRight DEF OsInv
<1>3. DOMAIN info = OsFields
  BY <1>1 DEF IsOsCall
<1>4. \A b \in OsCalls \ {c} : osCall'[b] = osCall[b]
  BY DEF OsInv, Settled
<1>5. ASSUME NEW b \in OsCalls \ {c}
      PROVE  /\ IsOsCall(osCall[b])' /\ osCall'[b].field \in OsFields
             /\ osCall'[b].state = "idle" => osCall'[b] = IdleCall
             /\ osCall'[b].state = "detecting" => Detecting(osCall[b])'
  <2>1. PICK o : o = osCall[b]
    OBVIOUS
  <2>2. Detecting(o) => Detecting(o)'
    BY DetectingKept
  <2>3. osCall'[b] = o
    BY <1>4, <2>1
  <2>4. Detecting(osCall[b])' <=> Detecting(o)'
    BY <2>3 DEF Detecting, Right
  <2> QED BY <2>1, <2>2, <2>3, <2>4 DEF OsInv, IsOsCall
<1>6. /\ ask.field = "arch" => info.platform = "unknown"
      /\ info.platform \in Platforms
  <2>1. CASE ask.field = "platform"
    <3>1. value \in Platforms
      BY <2>1, SystemsAssumption DEF OsInv, OsAnswer, Platforms
    <3> QED BY <1>1, <2>1, <3>1 DEF IsOsCall, OsFields
  <2>2. CASE ask.field # "platform"
    <3>1. info.platform = ask.info.platform
      BY <1>1, <2>2 DEF IsOsCall, OsFields
    <3>2. ask.field = "arch" => "platform" \notin Earlier(ask.field)
      BY DEF Earlier
    <3> HIDE DEF info
    <3> QED BY <1>1, <3>1, <3>2 DEF Detecting
  <2> QED BY <2>1, <2>2
<1>7. ASSUME NEW mine, osCall'[c] = mine, IsOsCall(mine), mine.field \in OsFields,
             mine.state \in {"detecting", "answered"},
             mine.state = "detecting" => Detecting(mine)',
             osCall' = [osCall EXCEPT ![c] = mine],
             DOMAIN osInfo' = OsFields, osInfo' # NotDetected => Right(osInfo, OsFields)'
      PROVE  OsInv'
  <2>1. Detecting(mine)' <=> Detecting(osCall[c])'
    BY <1>7 DEF Detecting, Right
  <2> QED BY <1>5, <1>7, <2>1 DEF OsInv, IsOsCall
<1> HIDE DEF info
<1>8. CASE next = "done"
  <2> DEFINE mine == [ask EXCEPT !.state = "answered", !.info = info]
  <2>1. mine.state = "answered" /\ IsOsCall(mine) /\ mine.field = ask.field
    BY <1>1, <1>3 DEF IsOsCall
  <2>2. osInfo' = info /\ osCall' = [osCall EXCEPT ![c] = mine]
    BY <1>8 DEF Settled, info
  <2>3. Earlier(ask.field) \cup {ask.field} = OsFields
    BY <1>1, <1>8, FieldOrder
  <2>4. Right(osInfo, OsFields)'
    BY <1>2, <2>2, <2>3 DEF Right
  <2>5. osCall'[c] = mine
    BY <2>2 DEF OsInv
  <2> HIDE DEF mine
  <2> QED BY <1>1, <1>3, <1>7, <2>1, <2>2, <2>4, <2>5
<1>9. CASE next # "done"
  <2> DEFINE mine == [ask EXCEPT !.field = next, !.at = 1, !.info = info]
  <2>1. /\ mine.state = "detecting" /\ IsOsCall(mine)
        /\ mine.field = next /\ mine.at = 1 /\ mine.info = info
    BY <1>1, <1>3 DEF IsOsCall
  <2>2. osInfo' = osInfo /\ osCall' = [osCall EXCEPT ![c] = mine]
    BY <1>9 DEF Settled, info
  <2>3. next \in OsFields /\ Earlier(next) = Earlier(ask.field) \cup {ask.field}
        /\ ("platform" \notin Earlier(next) => ask.field = "arch")
    BY <1>1, <1>9, FieldOrder
  <2>4. osCall'[c] = mine
    BY <2>2 DEF OsInv
  <2> HIDE DEF mine
  <2>5. Len(Candidates(mine.field, mine.info.platform)) \in Nat
    BY <1>6, <2>1, <2>3, RowIsSeq
  <2>6. Detecting(mine)'
    BY <1>2, <1>6, <2>1, <2>3, <2>5 DEF Detecting
  <2>7. osInfo # NotDetected => Right(osInfo, OsFields)'
    <3>1. PICK o : o = osInfo
      OBVIOUS
    <3>2. Right(o, OsFields) => Right(o, OsFields)'
      BY RightKept
    <3> QED BY <2>2, <3>1, <3>2 DEF OsInv, Right
  <2> QED BY <1>7, <2>1, <2>2, <2>3, <2>4, <2>6, <2>7 DEF OsInv
<1> QED BY <1>8, <1>9

LEMMA OsInit_Inv == OsInit => OsInv
<1> SUFFICES ASSUME OsInit PROVE OsInv
  OBVIOUS
<1>1. IdleCall.state = "idle" /\ IdleCall.field \in OsFields /\ IsOsCall(IdleCall)
  BY DEF IdleCall, IsOsCall, OsFields, NoInfo
<1>2. DOMAIN NotDetected = OsFields
  BY DEF NotDetected, NoInfo, OsFields
<1> QED BY <1>1, <1>2 DEF OsInit, OsInv

LEMMA AskOs_Inv == ASSUME OsInv, NEW c \in OsCalls, AskOs(c) PROVE OsInv'
<1>1. PICK mine : mine = osCall'[c]
  OBVIOUS
<1>2. system' = system /\ disturbed' = disturbed /\ osInfo' = osInfo
  BY DEF AskOs
<1>3. Right(osInfo, OsFields)' <=> Right(osInfo, OsFields)
  BY <1>2, BestKept DEF Right
<1>4. \A b \in OsCalls \ {c} : osCall'[b] = osCall[b]
  BY DEF AskOs, OsInv
<1>5. \A o : Detecting(o)' <=> Detecting(o)
  BY <1>2, BestKept DEF Detecting, Right
<1>6. osCall[c] = IdleCall /\ IsOsCall(IdleCall) /\ IdleCall.field = "arch"
  BY DEF AskOs, OsInv, IdleCall, IsOsCall, OsFields, NoInfo
<1>7. /\ IsOsCall(mine) /\ mine.field = "arch" /\ mine.state # "idle"
      /\ mine.state = "detecting" => mine.info = NoInfo /\ mine.at = 1
      /\ osCall' = [osCall EXCEPT ![c] = mine]
  <2>1. CASE osInfo = NotDetected
    <3>1. osCall' = [osCall EXCEPT ![c] = [IdleCall EXCEPT !.state = "detecting"]]
      BY <1>6, <2>1 DEF AskOs
    <3>2. mine = [IdleCall EXCEPT !.state = "detecting"]
      BY <1>1, <3>1 DEF OsInv
    <3> QED BY <3>1, <3>2 DEF IdleCall, IsOsCall, OsFields, NoInfo
  <2>2. CASE osInfo # NotDetected
    <3>1. osCall' = [osCall EXCEPT ![c] = [IdleCall EXCEPT !.state = "answered", !.info = osInfo]]
      BY <1>6, <2>2 DEF AskOs
    <3>2. mine = [IdleCall EXCEPT !.state = "answered", !.info = osInfo]
      BY <1>1, <3>1 DEF OsInv
    <3> QED BY <3>1, <3>2 DEF IdleCall, IsOsCall, OsFields, NoInfo, OsInv
  <2> QED BY <2>1, <2>2
<1>8. mine.state = "detecting" => Detecting(mine)
  <2>1. SUFFICES ASSUME mine.state = "detecting" PROVE Detecting(mine)
    OBVIOUS
  <2>2. mine.info.platform = "unknown" /\ Earlier(mine.field) = {}
    BY <1>7, <2>1 DEF NoInfo, Earlier
  <2>3. Len(Candidates(mine.field, mine.info.platform)) \in Nat
    BY <1>7, <2>2, RowIsSeq DEF OsFields, Platforms
  <2> QED BY <1>7, <2>1, <2>2, <2>3 DEF Detecting, Right, Platforms
<1>9. Detecting(osCall[c])' <=> Detecting(mine)'
  BY <1>1 DEF Detecting, Right
<1>10. ASSUME NEW b \in OsCalls \ {c}
       PROVE  /\ IsOsCall(osCall[b])' /\ osCall'[b].field \in OsFields
              /\ osCall'[b].state = "idle" => osCall'[b] = IdleCall
              /\ osCall'[b].state = "detecting" => Detecting(osCall[b])'
  <2>1. PICK o : o = osCall[b]
    OBVIOUS
  <2>2. osCall'[b] = o /\ (Detecting(osCall[b])' <=> Detecting(o)')
    BY <1>4, <2>1 DEF Detecting, Right
  <2> QED BY <1>5, <2>1, <2>2 DEF OsInv, IsOsCall
<1>11. "arch" \in OsFields
  BY DEF OsFields
<1> QED BY <1>1, <1>2, <1>3, <1>5, <1>7, <1>8, <1>9, <1>10, <1>11 DEF OsInv, IsOsCall

\* A command that succeeds gives an answer.
LEMMA ProbeAnswers ==
  ASSUME NEW f \in OsFields, NEW p \in Platforms, NEW i \in 1..Len(Candidates(f, p)), NEW ending,
         ending \in Endings(Candidates(f, p)[i]), Succeeds(f, Candidates(f, p)[i], ending),
         disturbed = {} => \A j \in 1..i - 1 : Candidates(f, p)[j] \notin system.has,
         system \in Systems, system' = system,
         disturbed' = disturbed \cup ({ending} \cap {"lost", "cut"})
  PROVE  OsAnswer(f, p, Says(f, Candidates(f, p)[i]))'
<1> DEFINE row == Candidates(f, p)
           value == Says(f, row[i])
<1>1. ending # "lost"
  BY DEF Succeeds
<1>2. CASE f = "platform"
  <2>1. ending = "found" /\ row[i] \in system.has
    BY <1>2 DEF Succeeds, NeedsOutput, Endings
  <2>2. row = <<"uname_s", "ver", "sw_vers">>
    BY <1>2, Rows
  <2>3. value = system.platform
    <3>1. /\ Len(row) = 3
          /\ row[1] = "uname_s" /\ row[2] = "ver" /\ row[3] = "sw_vers"
      BY <2>2, Triple
    <3>2. i \in 1..3
      BY <3>1
    <3>3. row[i] \in {"uname_s", "ver", "sw_vers"}
      BY <3>1, <3>2
    <3> QED BY <2>1, <3>3, SystemsAssumption DEF Says
  <2>4. value' = value
    BY DEF Says
  <2> QED BY <1>2, <2>3, <2>4 DEF OsAnswer
<1>3. CASE f # "platform"
  <2>1. value = row[i]
    BY <1>3, SaysItself
  <2>2. value' = value
    BY DEF Says
  <2>3. ending = "found" => row[i] \in system.has
    BY DEF Endings
  <2>4. ending = "found" \/ (ending = "cut" /\ "cut" \in disturbed')
    BY DEF Succeeds
  <2>5. ASSUME disturbed' = {} PROVE value = Best(f, p)
    <3>1. disturbed = {} /\ row[i] \in system.has
      BY <2>3, <2>4, <2>5
    <3> QED BY <3>1, FirstIsBest
  <2>6. Best(f, p)' = Best(f, p)
    BY BestKept
  <2> QED BY <1>3, <2>1, <2>2, <2>3, <2>4, <2>5, <2>6 DEF OsAnswer
<1> QED BY <1>2, <1>3

\* The fallback is an answer when none of the row succeeded.
LEMMA FallbackAnswers ==
  ASSUME NEW f \in OsFields, NEW p \in Platforms,
         disturbed = {} => \A j \in 1..Len(Candidates(f, p)) : Candidates(f, p)[j] \notin system.has,
         system \in Systems, system' = system, disturbed' = disturbed
  PROVE  OsAnswer(f, p, Fallback(f, p))'
<1>1. CASE f = "platform"
  <2>1. Fallback(f, p) = "unknown"
    BY <1>1 DEF Fallback
  <2>2. PICK row : row = Candidates(f, p) /\ row = <<"uname_s", "ver", "sw_vers">>
    BY <1>1, Rows
  <2>3. Len(row) = 3 /\ row[1] = "uname_s" /\ row[2] = "ver" /\ row[3] = "sw_vers"
    BY <2>2, Triple
  <2>4. \E probe \in {"uname_s", "ver", "sw_vers"} : probe \in system.has
    BY SystemsAssumption
  <2>5. disturbed # {}
    BY <2>2, <2>3, <2>4
  <2> QED BY <1>1, <2>1, <2>5 DEF OsAnswer
<1>2. CASE f # "platform"
  <2>1. Best(f, p)' = Best(f, p)
    BY BestKept
  <2>2. disturbed = {} => Best(f, p) = Fallback(f, p)
    BY NoneIsBest
  <2> QED BY <1>2, <2>1, <2>2 DEF OsAnswer
<1> QED BY <1>1, <1>2

LEMMA Probe_Inv == ASSUME OsInv, NEW c \in OsCalls, NEW ending, Probe(c, ending) PROVE OsInv'
<1>1. PICK ask : ask = osCall[c]
  OBVIOUS
<1>2. /\ ask.state = "detecting" /\ IsOsCall(ask) /\ ask.field \in OsFields /\ Detecting(ask)
      /\ system \in Systems /\ system' = system
      /\ disturbed' = disturbed \cup ({ending} \cap {"lost", "cut"})
  BY <1>1 DEF Probe, OsInv
<1>3. PICK g, q, k : g = ask.field /\ q = ask.info.platform /\ k = ask.at
  OBVIOUS
<1>4. g \in OsFields /\ q \in Platforms /\ Len(Candidates(g, q)) \in Nat
  BY <1>2, <1>3, RowIsSeq DEF Detecting
<1>5. /\ k \in 1..Len(Candidates(g, q)) /\ ending \in Endings(Candidates(g, q)[k])
      /\ disturbed = {} => \A j \in 1..k - 1 : Candidates(g, q)[j] \notin system.has
  BY <1>1, <1>2, <1>3, <1>4 DEF Probe, Detecting
<1>6. CASE Succeeds(g, Candidates(g, q)[k], ending)
  <2>1. OsAnswer(g, q, Says(g, Candidates(g, q)[k]))'
    BY <1>2, <1>4, <1>5, <1>6, ProbeAnswers
  <2>2. PICK value : value = Says(g, Candidates(g, q)[k])
    OBVIOUS
  <2>3. value = Says(g, Candidates(g, q)[k])'
    BY <1>2, <2>2 DEF Says
  <2>4. OsAnswer(ask.field, ask.info.platform, value)'
    BY <1>3, <2>1, <2>3 DEF OsAnswer
  <2>5. Settled(c, value)
    BY <1>1, <1>3, <1>6, <2>2 DEF Probe
  <2> QED BY <1>1, <1>2, <2>4, <2>5, SettledKeeps
<1>7. CASE ~Succeeds(g, Candidates(g, q)[k], ending)
  <2> DEFINE mine == [ask EXCEPT !.at = k + 1]
  <2>1. osCall' = [osCall EXCEPT ![c] = mine] /\ osInfo' = osInfo
    BY <1>1, <1>3, <1>7 DEF Probe
  <2>2. /\ IsOsCall(mine) /\ mine.state = "detecting" /\ mine.at = k + 1
        /\ mine.field = g /\ mine.info = ask.info
    BY <1>2, <1>3 DEF IsOsCall
  <2> HIDE DEF mine
  <2>3. disturbed' = {} => disturbed = {} /\ Candidates(g, q)[k] \notin system.has
    BY <1>2, <1>5, <1>7 DEF Endings, Succeeds
  <2>4. Right(ask.info, Earlier(ask.field))'
    BY <1>2, RightKept DEF Detecting
  <2>5. Detecting(mine)'
    BY <1>2, <1>3, <1>4, <1>5, <2>2, <2>3, <2>4 DEF Detecting, Right
  <2>6. osCall'[c] = mine /\ (Detecting(osCall[c])' <=> Detecting(mine)')
    BY <2>1 DEF OsInv, Detecting, Right
  <2>7. ASSUME NEW b \in OsCalls \ {c}
        PROVE  /\ IsOsCall(osCall[b])' /\ osCall'[b].field \in OsFields
               /\ osCall'[b].state = "idle" => osCall'[b] = IdleCall
               /\ osCall'[b].state = "detecting" => Detecting(osCall[b])'
    <3>1. PICK o : o = osCall[b]
      OBVIOUS
    <3>2. osCall'[b] = o /\ (Detecting(osCall[b])' <=> Detecting(o)')
      BY <2>1, <3>1 DEF OsInv, Detecting, Right
    <3>3. Detecting(o) => Detecting(o)'
      BY <1>2, DetectingKept
    <3> QED BY <3>1, <3>2, <3>3 DEF OsInv, IsOsCall
  <2>8. osInfo' # NotDetected => Right(osInfo, OsFields)'
    <3>1. PICK o : o = osInfo
      OBVIOUS
    <3>2. Right(o, OsFields) => Right(o, OsFields)'
      BY <1>2, RightKept
    <3> QED BY <2>1, <3>1, <3>2 DEF OsInv, Right
  <2> QED BY <1>2, <1>4, <2>1, <2>2, <2>5, <2>6, <2>7, <2>8 DEF OsInv, IsOsCall
<1> QED BY <1>6, <1>7

LEMMA RowEnds_Inv == ASSUME OsInv, NEW c \in OsCalls, RowEnds(c) PROVE OsInv'
<1>1. PICK ask : ask = osCall[c]
  OBVIOUS
<1>2. /\ ask.state = "detecting" /\ IsOsCall(ask) /\ ask.field \in OsFields /\ Detecting(ask)
      /\ system \in Systems /\ system' = system /\ disturbed' = disturbed
  BY <1>1 DEF RowEnds, OsInv
<1>3. PICK g, q : g = ask.field /\ q = ask.info.platform
  OBVIOUS
<1>4. g \in OsFields /\ q \in Platforms /\ Len(Candidates(g, q)) \in Nat
  BY <1>2, <1>3, RowIsSeq DEF Detecting
<1>5. ask.at = Len(Candidates(g, q)) + 1
  BY <1>1, <1>2, <1>3, <1>4 DEF RowEnds, Detecting
<1>6. disturbed = {} => \A j \in 1..Len(Candidates(g, q)) : Candidates(g, q)[j] \notin system.has
  BY <1>2, <1>3, <1>4, <1>5 DEF Detecting
<1>7. PICK value : value = Fallback(g, q)
  OBVIOUS
<1>8. OsAnswer(g, q, Fallback(g, q))'
  BY <1>2, <1>4, <1>6, FallbackAnswers
<1>9. OsAnswer(ask.field, ask.info.platform, value)'
  BY <1>3, <1>7, <1>8 DEF OsAnswer
<1>10. Settled(c, value)
  BY <1>1, <1>3, <1>7 DEF RowEnds
<1> QED BY <1>1, <1>2, <1>9, <1>10, SettledKeeps

LEMMA OsInv_Right == OsInv => OsIsTheHosts
  BY DEF OsInv, OsIsTheHosts, Right, OsFields

LEMMA OsInv_Stutter == OsInv /\ UNCHANGED osVars => OsInv'
<1> SUFFICES ASSUME OsInv, UNCHANGED osVars PROVE OsInv'
  OBVIOUS
<1>1. \A f, p : Best(f, p)' = Best(f, p)
  BY BestKept DEF osVars
<1> QED BY <1>1 DEF OsInv, osVars, Detecting, Right, IsOsCall

\* What a session knows of its host is the host's, for any hosts and any calls:
\* each field is settled by the first of its row that answers, however the
\* commands end.
THEOREM OsCorrect == OsSpec => []OsIsTheHosts
<1>1. OsInv /\ [OsNext]_osVars => OsInv'
  BY AskOs_Inv, Probe_Inv, RowEnds_Inv, OsInv_Stutter DEF OsNext
<1> QED BY OsInit_Inv, OsInv_Right, <1>1, PTL DEF OsSpec

----------------------------------------------------------------------------
(* The activity log *)

LastShown == IF shown = <<>> THEN 0 ELSE shown[Len(shown)]

\* All events of file n are later than what the follower showed last.
Later(n) == \A e \in EventsIn(n) : e > LastShown

LogTypes ==
  /\ logFile \in [0..MaxArchives -> Seq(Nat)]
  /\ written \in Nat
  /\ rotating \in 0..MaxArchives
  /\ removed \in BOOLEAN
  /\ shown \in Seq(Nat)
  /\ previous \in Nat

InRange == \A n \in 0..MaxArchives : \A e \in EventsIn(n) : e \in 1..written

Unbroken ==
  \A n \in 0..MaxArchives : \A i, j \in DOMAIN Lines(n) : Lines(n)[j] - Lines(n)[i] = j - i

OlderAreHigher ==
  \A n, k \in 0..MaxArchives : k < n => \A e \in EventsIn(n), f \in EventsIn(k) : e < f

\* The event after one that is kept is in the same file or in a newer one.
NoneMissing ==
  \A n \in 0..MaxArchives : \A e \in EventsIn(n) :
    e = written \/ \E k \in 0..n : e + 1 \in EventsIn(k)

\* rotate moves a file only where it made room.
RoomToMove ==
  /\ rotating # 0 /\ rotating < MaxArchives => logFile[rotating] = Missing
  /\ removed => rotating # 0 /\ logFile[rotating] = Missing

LogOrder == InRange /\ Unbroken /\ OlderAreHigher /\ NoneMissing /\ RoomToMove

ShownRising == \A i, j \in DOMAIN shown : i < j => shown[i] < shown[j]

\* A follower that found no active file, or forgot what it showed since it read
\* an empty one, has nothing older before it than what it showed.
NothingOldAhead ==
  /\ following = "archive" => Later(0)
  /\ previous = 0 => /\ Later(0)
                     /\ following = "archive" \/ logFile[0] = Missing => Later(1)

FollowerOrder ==
  /\ ShownRising
  /\ LastShown <= written
  /\ previous \in {LastShown, 0}
  /\ NothingOldAhead

LogInv == LogTypes /\ LogOrder /\ FollowerOrder

LEMMA LogInitInv == LogInit => LogInv
<1> SUFFICES ASSUME LogInit PROVE LogInv
  OBVIOUS
<1> USE LogAssumption
<1>1. \A n \in 0..MaxArchives : Lines(n) = <<>> /\ EventsIn(n) = {}
  BY DEF LogInit, Lines, EventsIn, Missing
<1>2. 0 \in 0..MaxArchives /\ 1 \in 0..MaxArchives
  OBVIOUS
<1>3. LogTypes
  BY DEF LogInit, LogTypes, Missing
<1>4. LogOrder
  BY <1>1 DEF LogInit, LogOrder, InRange, Unbroken, OlderAreHigher, NoneMissing, RoomToMove
<1>5. LastShown = 0
  BY DEF LogInit, LastShown
<1>6. FollowerOrder
  BY <1>1, <1>2, <1>5 DEF LogInit, FollowerOrder, ShownRising, NothingOldAhead, Later
<1> QED
  BY <1>3, <1>4, <1>6 DEF LogInv

\* What the files hold, as facts about one of them.
LEMMA LinesAreEvents ==
  ASSUME LogTypes, InRange, Unbroken, NEW n \in 0..MaxArchives
  PROVE  /\ Lines(n) \in Seq(Nat)
         /\ DOMAIN Lines(n) = 1..Len(Lines(n))
         /\ \A i \in 1..Len(Lines(n)) : Lines(n)[i] \in EventsIn(n) /\ Lines(n)[i] \in 1..written
         /\ \A e \in EventsIn(n) : \E i \in 1..Len(Lines(n)) : e = Lines(n)[i]
<1>1. Lines(n) \in Seq(Nat) /\ DOMAIN Lines(n) = 1..Len(Lines(n))
  BY DEF LogTypes, Lines
<1>2. \A i \in 1..Len(Lines(n)) : Lines(n)[i] \in EventsIn(n)
  BY <1>1 DEF EventsIn
<1>3. \A e \in EventsIn(n) : \E i \in 1..Len(Lines(n)) : e = Lines(n)[i]
  BY <1>1 DEF EventsIn
<1>4. \A i \in 1..Len(Lines(n)) : Lines(n)[i] \in 1..written
  BY <1>2 DEF InRange
<1> QED
  BY <1>1, <1>2, <1>3, <1>4

\* While there is an active file with events, the last one is its last.
LEMMA LastOfActive ==
  ASSUME LogTypes, LogOrder, Lines(0) # <<>>
  PROVE  Lines(0)[Len(Lines(0))] = written
<1> DEFINE s == Lines(0)
<1>0. 0 \in 0..MaxArchives
  BY LogAssumption
<1>1. /\ s \in Seq(Nat) /\ DOMAIN s = 1..Len(s)
      /\ \A i \in 1..Len(s) : s[i] \in EventsIn(0) /\ s[i] \in 1..written
      /\ \A e \in EventsIn(0) : \E i \in 1..Len(s) : e = s[i]
  BY <1>0, LinesAreEvents DEF LogOrder
<1>2. \A i, j \in 1..Len(s) : s[j] - s[i] = j - i
  BY <1>0, <1>1 DEF LogOrder, Unbroken
<1>3. Len(s) \in Nat \ {0}
  BY <1>1
<1>4. s[Len(s)] + 1 \notin EventsIn(0)
  <2> SUFFICES ASSUME NEW i \in 1..Len(s), s[Len(s)] + 1 = s[i] PROVE FALSE
    BY <1>1
  <2>1. Len(s) \in 1..Len(s)
    BY <1>3
  <2>2. s[i] \in 1..written /\ s[Len(s)] \in 1..written
    BY <1>1, <2>1
  <2>3. s[i] - s[Len(s)] = i - Len(s)
    BY <1>2, <2>1
  <2> QED
    BY <1>3, <2>2, <2>3
<1>5. \A k \in 0..0 : k = 0
  OBVIOUS
<1> QED
  BY <1>0, <1>1, <1>3, <1>4, <1>5 DEF LogOrder, NoneMissing

\* An archive the follower reads ends with what it showed, or later.
LEMMA LastOfArchive ==
  ASSUME LogTypes, LogOrder, FollowerOrder, following = "archive", Lines(1) # <<>>
  PROVE  Lines(1)[Len(Lines(1))] >= LastShown
<1> DEFINE s == Lines(1)
<1>0. 0 \in 0..MaxArchives /\ 1 \in 0..MaxArchives
  BY LogAssumption
<1>1. /\ s \in Seq(Nat) /\ DOMAIN s = 1..Len(s)
      /\ \A i \in 1..Len(s) : s[i] \in EventsIn(1) /\ s[i] \in 1..written
      /\ \A e \in EventsIn(1) : \E i \in 1..Len(s) : e = s[i]
  BY <1>0, LinesAreEvents DEF LogOrder
<1>2. \A i, j \in 1..Len(s) : s[j] - s[i] = j - i
  BY <1>0, <1>1 DEF LogOrder, Unbroken
<1>3. Len(s) \in Nat \ {0}
  BY <1>1
<1>4. s[Len(s)] + 1 \notin EventsIn(1)
  <2> SUFFICES ASSUME NEW i \in 1..Len(s), s[Len(s)] + 1 = s[i] PROVE FALSE
    BY <1>1
  <2>1. Len(s) \in 1..Len(s)
    BY <1>3
  <2>2. s[i] \in 1..written /\ s[Len(s)] \in 1..written
    BY <1>1, <2>1
  <2>3. s[i] - s[Len(s)] = i - Len(s)
    BY <1>2, <2>1
  <2> QED
    BY <1>3, <2>2, <2>3
<1>5. s[Len(s)] = written \/ s[Len(s)] + 1 \in EventsIn(0)
  <2>1. \A k \in 0..1 : k = 0 \/ k = 1
    OBVIOUS
  <2> QED
    BY <2>1, <1>0, <1>1, <1>3, <1>4 DEF LogOrder, NoneMissing
<1>6. LastShown \in Nat /\ s[Len(s)] \in Nat
  BY <1>1, <1>3 DEF LogTypes, LastShown
<1>7. CASE s[Len(s)] = written
  BY <1>7 DEF FollowerOrder
<1>8. CASE s[Len(s)] + 1 \in EventsIn(0)
  BY <1>6, <1>8 DEF FollowerOrder, NothingOldAhead, Later
<1> QED
  BY <1>5, <1>7, <1>8

\* What NewFrom points at is new, and reaches to the end of the lines read.
LEMMA NewIsLater ==
  ASSUME LogTypes, LogOrder, FollowerOrder, NEW n \in 0..MaxArchives,
         Lines(n) # <<>> => Lines(n)[Len(Lines(n))] >= LastShown,
         previous = 0 => Later(n)
  PROVE  LET s == Lines(n) m == NewFrom(s)
         IN /\ m \in 1..Len(s) + 1
            /\ \A i \in m..Len(s) : s[i] > LastShown
            /\ s # <<>> => m <= Len(s) \/ s[Len(s)] = LastShown
<1> DEFINE s == Lines(n)
           m == NewFrom(s)
           known == {i \in DOMAIN s : s[i] = previous}
           latest == CHOOSE i \in known : \A j \in known : j <= i
<1>1. /\ s \in Seq(Nat) /\ DOMAIN s = 1..Len(s)
      /\ \A i \in 1..Len(s) : s[i] \in EventsIn(n) /\ s[i] \in 1..written
  BY LinesAreEvents DEF LogOrder
<1>2. \A i, j \in 1..Len(s) : s[j] - s[i] = j - i
  BY <1>1 DEF LogOrder, Unbroken
<1>3. Len(s) \in Nat /\ (s # <<>> <=> Len(s) > 0)
  BY <1>1
<1>4. LastShown \in Nat /\ previous \in {LastShown, 0} /\ written \in Nat
  BY DEF LogTypes, LastShown, FollowerOrder
<1>5. m = IF known # {} THEN 1 + latest
          ELSE IF Len(s) > LogTail THEN Len(s) - LogTail + 1 ELSE 1
  BY DEF NewFrom
<1>6. s # <<>> => s[Len(s)] >= LastShown
  OBVIOUS
<1>7. previous = 0 => \A i \in 1..Len(s) : s[i] > LastShown
  BY <1>1 DEF Later
<1>1a. \A i \in 1..Len(s) : s[i] \in Nat
  BY <1>1
<1>7a. \A i : i \in known <=> i \in 1..Len(s) /\ s[i] = previous
  BY <1>1
<1> HIDE DEF s, m, known
<1>8. CASE known # {}
  <2>1. PICK i \in 1..Len(s) : s[i] = previous
    BY <1>7a, <1>8
  <2>2. \A j \in known : j = i
    <3> SUFFICES ASSUME NEW j \in 1..Len(s), s[j] = previous PROVE j = i
      BY <1>7a
    <3>1. s[i] \in Nat
      BY <1>1a
    <3>2. s[j] - s[i] = j - i
      BY <1>2
    <3> QED
      BY <1>3, <2>1, <3>1, <3>2
  <2>3. i \in known
    BY <1>7a, <2>1
  <2>4. latest = i
    <3>1. \A j \in known : j <= i
      BY <1>3, <2>1, <2>2
    <3>2. latest \in known
      BY <2>3, <3>1
    <3> QED
      BY <2>2, <3>2
  <2> HIDE DEF latest
  <2>5. m = i + 1
    BY <1>5, <1>8, <2>1, <2>4
  <2>6. previous = LastShown
    BY <1>1, <1>4, <2>1
  <2>7. \A j \in m..Len(s) : s[j] > LastShown
    <3> SUFFICES ASSUME NEW j \in m..Len(s) PROVE s[j] > LastShown
      OBVIOUS
    <3>1. j \in 1..Len(s) /\ j > i
      BY <1>3, <2>5
    <3>2. s[i] \in Nat /\ s[j] \in Nat
      BY <1>1a, <3>1
    <3>3. s[j] - s[i] = j - i
      BY <1>2, <3>1
    <3> QED
      BY <1>3, <1>4, <2>1, <2>6, <3>1, <3>2, <3>3
  <2>8. m \in 1..Len(s) + 1 /\ (m <= Len(s) \/ s[Len(s)] = LastShown)
    BY <1>3, <2>1, <2>5, <2>6
  <2> QED
    BY <2>7, <2>8 DEF s, m
<1>9. CASE known = {}
  <2>1. m \in 1..Len(s) + 1 /\ (s # <<>> => m <= Len(s))
    BY <1>3, <1>5, <1>9, LogAssumption
  <2>2. \A i \in 1..Len(s) : s[i] > LastShown
    <3> SUFFICES ASSUME NEW i \in 1..Len(s), previous # 0 PROVE s[i] > LastShown
      BY <1>7
    <3>1. LastShown = previous
      BY <1>4
    <3>2. /\ s[i] \in Nat /\ s[Len(s)] \in Nat /\ s[Len(s)] >= LastShown
          /\ s[Len(s)] - s[i] = Len(s) - i
      <4>1. Len(s) \in 1..Len(s) /\ s # <<>>
        BY <1>3
      <4>2. s[i] \in 1..written /\ s[Len(s)] \in 1..written
        BY <1>1, <4>1
      <4>3. s[Len(s)] - s[i] = Len(s) - i
        BY <1>2, <4>1
      <4> QED
        BY <1>4, <1>6, <4>1, <4>2, <4>3
    <3>3. SUFFICES ASSUME s[i] <= LastShown PROVE FALSE
      BY <1>4, <3>2
    <3> DEFINE j == i + (LastShown - s[i])
    <3>4. j \in 1..Len(s)
      BY <1>3, <1>4, <3>2, <3>3
    <3>5. s[j] - s[i] = j - i
      BY <1>2, <3>4
    <3>6. s[j] \in Nat
      BY <1>1a, <3>4
    <3>7. s[j] = LastShown
      BY <1>4, <3>2, <3>5, <3>6
    <3> QED
      BY <1>7a, <1>9, <3>1, <3>4, <3>7
  <2>3. \A i \in m..Len(s) : i \in 1..Len(s)
    BY <1>3, <2>1
  <2> QED
    BY <2>1, <2>2, <2>3 DEF s, m
<1> QED
  BY <1>8, <1>9

LEMMA EmptyOrNot ==
  ASSUME NEW a \in Seq(Nat)
  PROVE  Len(a) \in Nat /\ (a # <<>> <=> Len(a) > 0)
OBVIOUS

LEMMA Concat ==
  ASSUME NEW a \in Seq(Nat), NEW b \in Seq(Nat)
  PROVE  /\ a \o b \in Seq(Nat) /\ Len(a \o b) = Len(a) + Len(b)
         /\ \A i \in 1..Len(a) : (a \o b)[i] = a[i]
         /\ \A i \in Len(a) + 1..Len(a) + Len(b) : (a \o b)[i] = b[i - Len(a)]
OBVIOUS

\* A read by the follower.
LEMMA ShowKeeps ==
  ASSUME LogInv, NEW n \in 0..1, Show(Lines(n)),
         n = 0 => logFile[0] # Missing, n = 1 => following = "archive",
         UNCHANGED <<logFile, written, rotating, removed>>
  PROVE  LogInv'
<1> DEFINE s == Lines(n)
           m == NewFrom(s)
           tail == SubSeq(s, m, Len(s))
           N == Len(shown)
<1> USE DEF LogInv
<1>0. n \in 0..MaxArchives /\ 0 \in 0..MaxArchives /\ 1 \in 0..MaxArchives
  BY LogAssumption
<1>1. /\ s \in Seq(Nat) /\ DOMAIN s = 1..Len(s)
      /\ \A i \in 1..Len(s) : s[i] \in EventsIn(n) /\ s[i] \in 1..written
  BY <1>0, LinesAreEvents DEF LogOrder
<1>2. s # <<>> => s[Len(s)] >= LastShown
  <2>1. CASE n = 0
    <3>1. LastShown <= written
      BY DEF FollowerOrder
    <3> QED
      BY <2>1, <3>1, LastOfActive
  <2>2. CASE n = 1
    BY <2>2, LastOfArchive
  <2> QED
    BY <2>1, <2>2
<1>3. previous = 0 => Later(n)
  <2>1. CASE n = 0
    BY <2>1 DEF FollowerOrder, NothingOldAhead
  <2>2. CASE n = 1
    BY <2>2 DEF FollowerOrder, NothingOldAhead
  <2> QED
    BY <2>1, <2>2
<1>4. /\ m \in 1..Len(s) + 1
      /\ \A i \in m..Len(s) : s[i] > LastShown
      /\ s # <<>> => m <= Len(s) \/ s[Len(s)] = LastShown
  BY <1>0, <1>2, <1>3, NewIsLater
<1>5. /\ shown' = shown \o tail
      /\ previous' = IF s = <<>> THEN 0 ELSE s[Len(s)]
      /\ following' = "waiting"
  BY DEF Show
<1>6. /\ shown \in Seq(Nat) /\ LastShown = IF shown = <<>> THEN 0 ELSE shown[N]
      /\ LastShown' = IF shown' = <<>> THEN 0 ELSE shown'[Len(shown')]
      /\ written \in Nat
  BY DEF LogTypes, LastShown
<1>6a. \A i, j \in 1..Len(s) : s[j] - s[i] = j - i
  BY <1>0, <1>1 DEF LogOrder, Unbroken
<1>7. LogOrder'
  <2>1. \A k : Lines(k)' = Lines(k)
    BY DEF Lines
  <2>2. \A k : EventsIn(k)' = EventsIn(k)
    BY <2>1 DEF EventsIn
  <2>3. (rotating = rotating' /\ removed = removed' /\ logFile = logFile' /\ written = written')
    OBVIOUS
  <2> QED
    BY <2>1, <2>2, <2>3 DEF LogOrder, InRange, Unbroken, OlderAreHigher, NoneMissing, RoomToMove
<1>8. s = Lines(n) /\ (s = <<>> => EventsIn(n) = {})
  BY DEF EventsIn
<1> HIDE DEF s, m, LogInv
<1>9. /\ tail \in Seq(Nat) /\ Len(tail) = Len(s) + 1 - m
      /\ \A i \in 1..Len(tail) : tail[i] = s[m + i - 1]
  BY <1>1, <1>4
<1> HIDE DEF tail
<1>10. /\ shown' \in Seq(Nat) /\ Len(shown') = N + Len(tail)
       /\ \A i \in 1..N : shown'[i] = shown[i]
       /\ \A i \in N + 1..N + Len(tail) : shown'[i] = tail[i - N]
  BY <1>5, <1>6, <1>9, Concat
<1>11. LogTypes'
  <2>1. previous' \in Nat
    BY <1>1, <1>5
  <2> QED
    BY <2>1, <1>10 DEF LogTypes, LogInv
<1>12. N \in Nat /\ Len(tail) \in Nat /\ Len(s) \in Nat /\ LastShown \in Nat
       /\ (shown # <<>> <=> N > 0) /\ (shown' # <<>> <=> N + Len(tail) > 0) /\ (s # <<>> <=> Len(s) > 0)
  <2>1. N \in Nat /\ (shown # <<>> <=> N > 0)
    BY <1>6, EmptyOrNot
  <2>2. Len(s) \in Nat /\ (s # <<>> <=> Len(s) > 0)
    BY <1>1, EmptyOrNot
  <2>3. Len(tail) \in Nat
    BY <1>9, EmptyOrNot
  <2>4. shown' # <<>> <=> N + Len(tail) > 0
    BY <1>10, EmptyOrNot
  <2>5. LastShown \in Nat
    BY <1>6, <2>1
  <2> QED
    BY <2>1, <2>2, <2>3, <2>4, <2>5
<1> HIDE DEF N
<1>13. \A i \in 1..N : shown[i] \in Nat /\ shown[i] <= LastShown
  <2> SUFFICES ASSUME NEW i \in 1..N PROVE shown[i] \in Nat /\ shown[i] <= LastShown
    OBVIOUS
  <2>1. shown[i] \in Nat /\ DOMAIN shown = 1..N /\ N \in 1..N
    BY <1>6, <1>12 DEF N
  <2>2. i = N \/ shown[i] < shown[N]
    BY <1>12, <2>1 DEF LogInv, FollowerOrder, ShownRising
  <2> QED
    BY <1>6, <1>12, <2>1, <2>2
<1>14. \A i \in 1..Len(tail) : tail[i] \in Nat /\ tail[i] > LastShown
  <2> SUFFICES ASSUME NEW i \in 1..Len(tail) PROVE tail[i] \in Nat /\ tail[i] > LastShown
    OBVIOUS
  <2> DEFINE p == m + i - 1
  <2>1. p \in m..Len(s) /\ p \in 1..Len(s)
    BY <1>4, <1>9, <1>12
  <2>2. tail[i] = s[p]
    BY <1>9
  <2> HIDE DEF p
  <2>3. s[p] \in 1..written /\ s[p] > LastShown
    BY <1>1, <1>4, <2>1
  <2> QED
    BY <1>6, <2>2, <2>3
<1>15. ShownRising'
  <2> SUFFICES ASSUME NEW i \in 1..N + Len(tail), NEW j \in 1..N + Len(tail), i < j
               PROVE  shown'[i] < shown'[j]
    BY <1>10 DEF ShownRising
  <2>1. CASE j <= N
    <3>1. i \in 1..N /\ j \in 1..N
      BY <1>12, <2>1
    <3>2. DOMAIN shown = 1..N
      BY <1>6 DEF N
    <3> QED
      BY <1>10, <3>1, <3>2 DEF LogInv, FollowerOrder, ShownRising
  <2>2. CASE i <= N /\ j > N
    <3>1. i \in 1..N /\ j - N \in 1..Len(tail) /\ j \in N + 1..N + Len(tail)
      BY <1>12, <2>2
    <3>2. shown'[i] = shown[i] /\ shown'[j] = tail[j - N]
      BY <1>10, <3>1
    <3> QED
      BY <1>12, <1>13, <1>14, <3>1, <3>2
  <2>3. CASE i > N
    <3>1. /\ i - N \in 1..Len(tail) /\ i \in N + 1..N + Len(tail)
          /\ j - N \in 1..Len(tail) /\ j \in N + 1..N + Len(tail)
      BY <1>12, <2>3
    <3>2. shown'[i] = s[m + (i - N) - 1] /\ shown'[j] = s[m + (j - N) - 1]
      BY <1>9, <1>10, <3>1
    <3> DEFINE p == m + (i - N) - 1
               q == m + (j - N) - 1
    <3>3. p \in 1..Len(s) /\ q \in 1..Len(s) /\ p < q
      BY <1>4, <1>9, <1>12, <3>1
    <3> HIDE DEF p, q
    <3>4. s[q] - s[p] = q - p /\ s[p] \in Nat /\ s[q] \in Nat
      <4>1. s[p] \in 1..written /\ s[q] \in 1..written
        BY <1>1, <3>3
      <4>2. s[q] - s[p] = q - p
        BY <1>6a, <3>3
      <4> QED
        BY <1>6, <4>1, <4>2
    <3>5. s[p] < s[q]
      BY <1>12, <3>3, <3>4
    <3> QED
      BY <3>2, <3>5 DEF p, q
  <2> QED
    BY <1>12, <2>1, <2>2, <2>3
<1>16. IF s = <<>> THEN LastShown' = LastShown ELSE LastShown' = s[Len(s)]
  <2>1. CASE Len(tail) = 0
    <3>1. LastShown' = LastShown
      BY <1>6, <1>10, <1>12, <2>1 DEF N
    <3>2. m > Len(s)
      BY <1>4, <1>9, <1>12, <2>1
    <3> QED
      BY <1>4, <1>12, <3>1, <3>2
  <2>2. CASE Len(tail) > 0
    <3>1. /\ LastShown' = shown'[N + Len(tail)] /\ N + Len(tail) \in N + 1..N + Len(tail)
          /\ Len(tail) \in 1..Len(tail) /\ N + Len(tail) - N = Len(tail)
      BY <1>6, <1>10, <1>12, <2>2
    <3> DEFINE q == N + Len(tail)
    <3>2. LastShown' = tail[Len(tail)]
      <4>1. q \in N + 1..N + Len(tail) /\ q - N = Len(tail) /\ LastShown' = shown'[q]
        BY <1>12, <3>1
      <4> HIDE DEF q
      <4>2. shown'[q] = tail[q - N]
        BY <1>10, <4>1
      <4> QED
        BY <4>1, <4>2
    <3>3. tail[Len(tail)] = s[m + Len(tail) - 1]
      BY <1>9, <3>1
    <3>4. m + Len(tail) - 1 = Len(s) /\ Len(s) > 0
      BY <1>4, <1>9, <1>12, <2>2
    <3> QED
      BY <1>12, <3>2, <3>3, <3>4
  <2> QED
    BY <1>12, <2>1, <2>2
<1>17. LastShown' <= written' /\ previous' \in {LastShown', 0}
  <2>1. CASE s = <<>>
    BY <1>5, <1>16, <2>1 DEF LogInv, FollowerOrder
  <2>2. CASE s # <<>>
    <3>1. s[Len(s)] \in 1..written
      BY <1>1, <1>12, <2>2
    <3> QED
      BY <1>5, <1>6, <1>16, <2>2, <3>1
  <2> QED
    BY <2>1, <2>2
<1>18. NothingOldAhead'
  <2>1. \A k : EventsIn(k)' = EventsIn(k)
    BY DEF Lines, EventsIn
  <2>2. SUFFICES ASSUME previous' = 0 PROVE Later(0)' /\ (logFile[0] = Missing => Later(1)')
    BY <1>5 DEF NothingOldAhead
  <2>3. s = <<>>
    <3> SUFFICES ASSUME s # <<>> PROVE FALSE
      OBVIOUS
    <3>1. s[Len(s)] \in 1..written
      BY <1>1, <1>12
    <3> QED
      BY <1>5, <1>6, <2>2, <3>1
  <2>4. EventsIn(n)' = {} /\ LastShown' = LastShown
    BY <1>8, <1>16, <2>1, <2>3
  <2>5. CASE n = 0
    BY <2>4, <2>5 DEF Later
  <2>6. CASE n = 1
    BY <2>1, <2>4, <2>6 DEF Later, LogInv, FollowerOrder, NothingOldAhead
  <2> QED
    BY <2>5, <2>6
<1> QED
  BY <1>7, <1>11, <1>15, <1>17, <1>18 DEF LogInv, FollowerOrder

\* A step that leaves what the files hold.
LEMMA SameLines ==
  ASSUME LogInv, LogTypes', RoomToMove',
         \A k \in 0..MaxArchives : Lines(k)' = Lines(k),
         logFile'[0] = Missing => logFile[0] = Missing,
         UNCHANGED <<written, following, previous, shown>>
  PROVE  LogInv'
<1>0. 0 \in 0..MaxArchives /\ 1 \in 0..MaxArchives
  BY LogAssumption
<1>1. \A k \in 0..MaxArchives : EventsIn(k)' = EventsIn(k)
  BY DEF EventsIn
<1>2. \A n \in 0..MaxArchives : \A k \in 0..n : k \in 0..MaxArchives
  BY LogAssumption
<1>3. LogOrder'
  BY <1>1, <1>2 DEF LogInv, LogOrder, InRange, Unbroken, OlderAreHigher, NoneMissing
<1>4. LastShown' = LastShown
  BY DEF LastShown
<1>5. FollowerOrder'
  BY <1>0, <1>1, <1>4 DEF LogInv, FollowerOrder, ShownRising, NothingOldAhead, Later
<1> QED
  BY <1>3, <1>5 DEF LogInv

LEMMA OpenActiveKeeps == LogInv /\ OpenActive => LogInv'
<1> SUFFICES ASSUME LogInv, OpenActive PROVE LogInv'
  OBVIOUS
<1> USE DEF OpenActive
<1>0. 0 \in 0..MaxArchives
  BY LogAssumption
<1>1. LogTypes'
  BY DEF LogInv, LogTypes
<1>2. RoomToMove'
  BY DEF LogInv, LogOrder, RoomToMove
<1>3. \A k \in 0..MaxArchives : Lines(k)' = Lines(k)
  BY <1>0 DEF LogInv, LogTypes, Lines
<1> QED
  BY <1>1, <1>2, <1>3, SameLines

LEMMA RotationAbandonedKeeps == LogInv /\ RotationAbandoned => LogInv'
<1> SUFFICES ASSUME LogInv, RotationAbandoned PROVE LogInv'
  OBVIOUS
<1> USE DEF RotationAbandoned
<1>0. 0 \in 0..MaxArchives
  BY LogAssumption
<1>1. LogTypes'
  <2>1. rotating' = 0 /\ removed' \in BOOLEAN
    OBVIOUS
  <2> QED
    BY <1>0, <2>1 DEF LogInv, LogTypes
<1>2. RoomToMove'
  BY DEF RoomToMove
<1>3. \A k \in 0..MaxArchives : Lines(k)' = Lines(k)
  BY DEF Lines
<1> QED
  BY <1>1, <1>2, <1>3, SameLines

LEMMA AppendOne ==
  ASSUME NEW a \in Seq(Nat), NEW e \in Nat
  PROVE  /\ Append(a, e) \in Seq(Nat) /\ Len(Append(a, e)) = Len(a) + 1
         /\ \A i \in 1..Len(a) : Append(a, e)[i] = a[i]
         /\ Append(a, e)[Len(a) + 1] = e
OBVIOUS

LEMMA AppendEventKeeps == LogInv /\ AppendEvent => LogInv'
<1> SUFFICES ASSUME LogInv, AppendEvent PROVE LogInv'
  OBVIOUS
<1> DEFINE s == Lines(0)
           t == Lines(0)'
           w == written + 1
<1>0. 0 \in 0..MaxArchives /\ 1 \in 0..MaxArchives /\ MaxArchives \in Nat \ {0}
  BY LogAssumption
<1>1. /\ rotating = 0 /\ written' = w /\ w \in Nat /\ written \in Nat
      /\ UNCHANGED <<removed, following, previous, shown>>
  BY DEF AppendEvent, LogInv, LogTypes
<1>2. /\ s = logFile[0] /\ logFile' = [logFile EXCEPT ![0] = Append(s, w)]
      /\ logFile' \in [0..MaxArchives -> Seq(Nat)]
      /\ logFile'[0] = Append(s, w)
  <2>1. s = logFile[0] /\ s \in Seq(Nat) /\ logFile' = [logFile EXCEPT ![0] = Append(s, w)]
    BY <1>0 DEF AppendEvent, LogInv, LogTypes, Lines
  <2>2. Append(s, w) \in Seq(Nat)
    BY <1>1, <2>1, AppendOne
  <2> QED
    BY <1>0, <2>1, <2>2 DEF LogInv, LogTypes
<1>3. /\ s \in Seq(Nat) /\ DOMAIN s = 1..Len(s) /\ Len(s) \in Nat
      /\ \A i \in 1..Len(s) : s[i] \in EventsIn(0) /\ s[i] \in 1..written
      /\ \A e \in EventsIn(0) : \E i \in 1..Len(s) : e = s[i]
  BY <1>0, LinesAreEvents DEF LogInv, LogOrder
<1>4. logFile'[0] # Missing
  <2>0. Missing[1] = 0
    BY DEF Missing
  <2>1. CASE s = <<>>
    <3>1. Append(s, w)[1] = w /\ w # 0
      BY <1>1, <2>1
    <3> QED
      BY <1>2, <2>0, <3>1
  <2>2. CASE s # <<>>
    <3>1. Len(s) > 0
      BY <1>3, <2>2, EmptyOrNot
    <3>2. Append(s, w)[1] = s[1] /\ s[1] # 0
      BY <1>1, <1>3, <3>1, AppendOne
    <3> QED
      BY <1>2, <2>0, <3>2
  <2> QED
    BY <2>1, <2>2
<1>5. t = Append(s, w) /\ \A k \in 1..MaxArchives : Lines(k)' = Lines(k)
  <2>1. \A k \in 1..MaxArchives : logFile'[k] = logFile[k]
    BY <1>0, <1>2 DEF LogInv, LogTypes
  <2> QED
    BY <1>2, <1>4, <2>1 DEF Lines
<1> HIDE DEF s, t, w
<1>6. /\ t \in Seq(Nat) /\ Len(t) = Len(s) + 1 /\ DOMAIN t = 1..Len(s) + 1
      /\ \A i \in 1..Len(s) : t[i] = s[i]
      /\ t[Len(s) + 1] = w
  BY <1>1, <1>3, <1>5, AppendOne
<1>7. /\ EventsIn(0)' = EventsIn(0) \cup {w}
      /\ \A k \in 1..MaxArchives : EventsIn(k)' = EventsIn(k)
  <2>1. EventsIn(0)' = {t[i] : i \in 1..Len(s) + 1}
    BY <1>6 DEF EventsIn, t
  <2>2. EventsIn(0) = {s[i] : i \in 1..Len(s)}
    BY <1>3 DEF EventsIn, s
  <2>3. \A i \in 1..Len(s) + 1 : i \in 1..Len(s) \/ i = Len(s) + 1
    BY <1>3
  <2>4. \A i \in 1..Len(s) : i \in 1..Len(s) + 1
    BY <1>3
  <2>5. Len(s) + 1 \in 1..Len(s) + 1
    BY <1>3
  <2>6. EventsIn(0)' = EventsIn(0) \cup {w}
    BY <1>6, <2>1, <2>2, <2>3, <2>4, <2>5
  <2> QED
    BY <1>5, <2>6 DEF EventsIn
<1>8. LogTypes'
  <2>1. rotating' \in 0..MaxArchives
    BY <1>0 DEF AppendEvent, RotationOrder
  <2> QED
    BY <1>1, <1>2, <2>1 DEF LogInv, LogTypes
<1>9. RoomToMove'
  <2>1. rotating' = 0 \/ rotating' = MaxArchives
    BY DEF AppendEvent, RotationOrder
  <2> QED
    BY <1>0, <1>1, <2>1 DEF LogInv, LogOrder, RoomToMove
<1>10. \A k \in 0..MaxArchives : k = 0 \/ k \in 1..MaxArchives
  BY <1>0
<1>11. \A k \in 0..MaxArchives : \A e \in EventsIn(k) : e \in Nat /\ e < w
  <2> SUFFICES ASSUME NEW k \in 0..MaxArchives, NEW e \in EventsIn(k) PROVE e \in Nat /\ e < w
    OBVIOUS
  <2>1. e \in 1..written
    BY DEF LogInv, LogOrder, InRange
  <2> QED
    BY <1>1, <2>1 DEF w
<1>12. InRange'
  <2> SUFFICES ASSUME NEW k \in 0..MaxArchives, NEW e \in EventsIn(k)' PROVE e \in 1..w
    BY <1>1 DEF InRange
  <2>1. e \in EventsIn(k) \/ e = w
    BY <1>7, <1>10
  <2>2. CASE e \in EventsIn(k)
    <3>1. e \in 1..written
      BY <2>2 DEF LogInv, LogOrder, InRange
    <3> QED
      BY <1>1, <3>1 DEF w
  <2>3. CASE e = w
    BY <1>1, <2>3 DEF w
  <2> QED
    BY <2>1, <2>2, <2>3
<1>13. Unbroken'
  <2>1. \A k \in 1..MaxArchives : \A i, j \in (DOMAIN Lines(k))' : Lines(k)'[j] - Lines(k)'[i] = j - i
    <3>1. \A k \in 1..MaxArchives : k \in 0..MaxArchives
      OBVIOUS
    <3> QED
      BY <1>5, <3>1 DEF LogInv, LogOrder, Unbroken
  <2>2. ASSUME NEW i \in 1..Len(s) + 1, NEW j \in 1..Len(s) + 1
        PROVE  t[j] - t[i] = j - i
    <3>1. \A a, b \in 1..Len(s) : s[b] - s[a] = b - a
      BY <1>0, <1>3 DEF LogInv, LogOrder, Unbroken, s
    <3>2. \A a \in 1..Len(s) : s[a] \in Nat /\ s[a] = w - (Len(s) + 1 - a)
      <4> SUFFICES ASSUME NEW a \in 1..Len(s) PROVE s[a] \in Nat /\ s[a] = w - (Len(s) + 1 - a)
        OBVIOUS
      <4>1. s # <<>> /\ Len(s) \in 1..Len(s)
        BY <1>3, EmptyOrNot
      <4>2. s[Len(s)] = written
        BY <4>1, LastOfActive DEF s, LogInv
      <4>3. s[Len(s)] - s[a] = Len(s) - a /\ s[a] \in 1..written
        BY <1>3, <3>1, <4>1
      <4> QED
        BY <1>1, <1>3, <4>2, <4>3 DEF w
    <3>3. \A a \in 1..Len(s) + 1 : t[a] = w - (Len(s) + 1 - a)
      <4> SUFFICES ASSUME NEW a \in 1..Len(s) + 1 PROVE t[a] = w - (Len(s) + 1 - a)
        OBVIOUS
      <4>1. a \in 1..Len(s) \/ a = Len(s) + 1
        BY <1>3
      <4> QED
        BY <1>1, <1>3, <1>6, <3>2, <4>1
    <3>4. t[i] = w - (Len(s) + 1 - i) /\ t[j] = w - (Len(s) + 1 - j)
      BY <3>3
    <3> QED
      BY <1>1, <1>3, <3>4
  <2>3. \A i, j \in (DOMAIN Lines(0))' : Lines(0)'[j] - Lines(0)'[i] = j - i
    BY <1>6, <2>2 DEF t
  <2> QED
    BY <1>10, <2>1, <2>3 DEF Unbroken
<1>14. OlderAreHigher'
  <2> SUFFICES ASSUME NEW n \in 0..MaxArchives, NEW k \in 0..MaxArchives, k < n,
                      NEW e \in EventsIn(n)', NEW f \in EventsIn(k)'
               PROVE  e < f
    BY DEF OlderAreHigher
  <2>1. n \in 1..MaxArchives /\ e \in EventsIn(n)
    BY <1>7, <1>10
  <2>2. f \in EventsIn(k) \/ f = w
    BY <1>7, <1>10
  <2>3. CASE f \in EventsIn(k)
    BY <2>1, <2>3 DEF LogInv, LogOrder, OlderAreHigher
  <2>4. CASE f = w
    BY <1>11, <2>1, <2>4
  <2> QED
    BY <2>2, <2>3, <2>4
<1>15. NoneMissing'
  <2> SUFFICES ASSUME NEW n \in 0..MaxArchives, NEW e \in EventsIn(n)', e # w
               PROVE  \E k \in 0..n : e + 1 \in EventsIn(k)'
    BY <1>1 DEF NoneMissing
  <2>1. e \in EventsIn(n)
    BY <1>7, <1>10
  <2>2. CASE e = written
    BY <1>0, <1>7, <2>2 DEF w
  <2>3. CASE e # written
    <3>1. PICK k \in 0..n : e + 1 \in EventsIn(k)
      BY <2>1, <2>3 DEF LogInv, LogOrder, NoneMissing
    <3>2. k \in 0..MaxArchives
      BY <1>0
    <3> QED
      BY <1>7, <1>10, <3>1, <3>2
  <2> QED
    BY <2>2, <2>3
<1>16. LastShown' = LastShown /\ LastShown \in Nat /\ LastShown < w
  <2>1. LastShown \in Nat /\ LastShown <= written
    BY DEF LogInv, LogTypes, LastShown, FollowerOrder
  <2> QED
    BY <1>1, <2>1 DEF LastShown, w
<1>17. NothingOldAhead'
  <2>1. Later(0) => Later(0)'
    BY <1>7, <1>16 DEF Later
  <2>2. 1 \in 1..MaxArchives
    BY <1>0
  <2>3. Later(1) => Later(1)'
    BY <1>7, <1>16, <2>2 DEF Later
  <2> QED
    BY <1>1, <1>4, <2>1, <2>3 DEF LogInv, FollowerOrder, NothingOldAhead
<1>18. FollowerOrder'
  <2>1. LastShown' <= written'
    BY <1>1, <1>16
  <2> QED
    BY <1>1, <1>16, <1>17, <2>1 DEF LogInv, FollowerOrder, ShownRising
<1> QED
  BY <1>8, <1>9, <1>12, <1>13, <1>14, <1>15, <1>18 DEF LogInv, LogOrder

LEMMA RemoveArchiveKeeps == LogInv /\ RemoveArchive => LogInv'
<1> SUFFICES ASSUME LogInv, RemoveArchive PROVE LogInv'
  OBVIOUS
<1>0. /\ 0 \in 0..MaxArchives /\ 1 \in 0..MaxArchives /\ MaxArchives \in Nat \ {0}
      /\ rotating \in 1..MaxArchives /\ rotating \in 0..MaxArchives
  BY LogAssumption DEF RemoveArchive, LogInv, LogTypes
<1>1. /\ UNCHANGED <<written, rotating, following, previous, shown>>
      /\ removed' = TRUE
      /\ logFile' \in [0..MaxArchives -> Seq(Nat)]
      /\ Lines(rotating)' = <<>> /\ logFile'[rotating] = Missing
      /\ \A k \in 0..MaxArchives : k # rotating => logFile'[k] = logFile[k] /\ Lines(k)' = Lines(k)
  <2>1. logFile' = [logFile EXCEPT ![rotating] = Missing] /\ Missing \in Seq(Nat)
    BY DEF RemoveArchive, Missing
  <2>2. logFile' \in [0..MaxArchives -> Seq(Nat)]
    BY <2>1 DEF LogInv, LogTypes
  <2>3. logFile'[rotating] = Missing /\ \A k \in 0..MaxArchives : k # rotating => logFile'[k] = logFile[k]
    BY <1>0, <2>1 DEF LogInv, LogTypes
  <2> QED
    BY <2>2, <2>3 DEF RemoveArchive, Lines
<1>2. LogTypes'
  <2>1. removed' \in BOOLEAN
    BY <1>1
  <2> QED
    BY <1>1, <2>1 DEF LogInv, LogTypes
<1>3. RoomToMove'
  BY <1>0, <1>1 DEF RoomToMove
<1>4. CASE rotating # MaxArchives
  <2>1. logFile[rotating] = Missing
    BY <1>0, <1>4 DEF LogInv, LogOrder, RoomToMove
  <2>2. Lines(rotating) = <<>>
    BY <2>1 DEF Lines
  <2>3. \A k \in 0..MaxArchives : Lines(k)' = Lines(k)
    BY <1>1, <2>2
  <2>4. logFile'[0] = Missing => logFile[0] = Missing
    BY <1>0, <1>1
  <2> QED
    BY <1>1, <1>2, <1>3, <2>3, <2>4, SameLines
<1>5. CASE rotating = MaxArchives
  <2>1. /\ EventsIn(MaxArchives)' = {}
        /\ \A k \in 0..MaxArchives : k # MaxArchives => EventsIn(k)' = EventsIn(k)
    BY <1>1, <1>5 DEF EventsIn
  <2>2. \A k \in 0..MaxArchives : k # MaxArchives => k < MaxArchives /\ \A j \in 0..k : j # MaxArchives /\ j \in 0..MaxArchives
    BY <1>0
  <2>3. InRange'
    BY <1>1, <2>1 DEF LogInv, LogOrder, InRange
  <2>4. Unbroken'
    <3> SUFFICES ASSUME NEW k \in 0..MaxArchives, NEW i \in (DOMAIN Lines(k))', NEW j \in (DOMAIN Lines(k))'
                 PROVE  Lines(k)'[j] - Lines(k)'[i] = j - i
      BY DEF Unbroken
    <3>1. k # MaxArchives
      BY <1>1, <1>5
    <3> QED
      BY <1>1, <1>5, <3>1 DEF LogInv, LogOrder, Unbroken
  <2>5. OlderAreHigher'
    BY <2>1 DEF LogInv, LogOrder, OlderAreHigher
  <2>6. NoneMissing'
    <3> SUFFICES ASSUME NEW n \in 0..MaxArchives, NEW e \in EventsIn(n)', e # written
                 PROVE  \E k \in 0..n : e + 1 \in EventsIn(k)'
      BY <1>1 DEF NoneMissing
    <3>1. n # MaxArchives /\ e \in EventsIn(n)
      BY <2>1
    <3>2. PICK k \in 0..n : e + 1 \in EventsIn(k)
      BY <3>1 DEF LogInv, LogOrder, NoneMissing
    <3> QED
      BY <2>1, <2>2, <3>1, <3>2
  <2>7. LastShown' = LastShown
    BY <1>1 DEF LastShown
  <2>8. NothingOldAhead'
    <3>1. (Later(0) => Later(0)') /\ (Later(1) => Later(1)')
      BY <1>0, <2>1, <2>7 DEF Later
    <3>2. logFile'[0] = logFile[0]
      BY <1>0, <1>1
    <3> QED
      BY <1>1, <3>1, <3>2 DEF LogInv, FollowerOrder, NothingOldAhead
  <2>9. FollowerOrder'
    BY <1>1, <2>7, <2>8 DEF LogInv, FollowerOrder, ShownRising
  <2> QED
    BY <1>2, <1>3, <2>3, <2>4, <2>5, <2>6, <2>9 DEF LogInv, LogOrder
<1> QED
  BY <1>4, <1>5

LEMMA RenameArchiveKeeps == LogInv /\ RenameArchive => LogInv'
<1> SUFFICES ASSUME LogInv, RenameArchive PROVE LogInv'
  OBVIOUS
<1>a. PICK to \in 1..MaxArchives : to = rotating
  BY LogAssumption DEF RenameArchive, LogInv, LogTypes
<1> DEFINE from == to - 1
<1>0. /\ 0 \in 0..MaxArchives /\ 1 \in 0..MaxArchives /\ MaxArchives \in Nat \ {0}
      /\ to \in Nat /\ to \in 0..MaxArchives
      /\ from \in 0..MaxArchives /\ from < to /\ from + 1 = to /\ from # to
  BY LogAssumption
<1>1. /\ UNCHANGED <<written, following, previous, shown>>
      /\ removed' = FALSE /\ rotating' = from
      /\ logFile' = [logFile EXCEPT ![to] = logFile[from], ![from] = Missing]
  BY <1>a, <1>0 DEF RenameArchive, RotationOrder
<1>2. logFile[to] = Missing /\ Lines(to) = <<>>
  BY <1>a DEF RenameArchive, LogInv, LogOrder, RoomToMove, Lines
<1> HIDE DEF from
<1>3. /\ logFile' \in [0..MaxArchives -> Seq(Nat)]
      /\ logFile'[to] = logFile[from] /\ logFile'[from] = Missing
      /\ \A k \in 0..MaxArchives : k # to /\ k # from => logFile'[k] = logFile[k]
  <2>1. Missing \in Seq(Nat)
    BY DEF Missing
  <2> QED
    BY <1>0, <1>1, <2>1 DEF LogInv, LogTypes
<1>4. /\ Lines(to)' = Lines(from) /\ Lines(from)' = <<>>
      /\ \A k \in 0..MaxArchives : k # to /\ k # from => Lines(k)' = Lines(k)
  BY <1>3 DEF Lines
<1>5. /\ EventsIn(to)' = EventsIn(from) /\ EventsIn(from)' = {}
      /\ \A k \in 0..MaxArchives : k # to /\ k # from => EventsIn(k)' = EventsIn(k)
  BY <1>4 DEF EventsIn
<1>6. LogTypes'
  <2>1. removed' \in BOOLEAN
    BY <1>1
  <2> QED
    BY <1>0, <1>1, <1>3, <2>1 DEF LogInv, LogTypes
<1>7. RoomToMove'
  BY <1>1, <1>3 DEF RoomToMove
\* Where the events of a file were before.
<1>8. \A n \in 0..MaxArchives : \A e \in EventsIn(n)' :
        n # from /\ e \in EventsIn(IF n = to THEN from ELSE n)
  BY <1>5
<1>9. InRange'
  <2> SUFFICES ASSUME NEW n \in 0..MaxArchives, NEW e \in EventsIn(n)' PROVE e \in 1..written
    BY <1>1 DEF InRange
  <2> QED
    BY <1>0, <1>8 DEF LogInv, LogOrder, InRange
<1>10. Unbroken'
  <2> SUFFICES ASSUME NEW k \in 0..MaxArchives, NEW i \in (DOMAIN Lines(k))', NEW j \in (DOMAIN Lines(k))'
               PROVE  Lines(k)'[j] - Lines(k)'[i] = j - i
    BY DEF Unbroken
  <2>1. CASE k = to
    BY <1>0, <1>4, <2>1 DEF LogInv, LogOrder, Unbroken
  <2>2. CASE k = from
    BY <1>4, <2>2
  <2>3. CASE k # to /\ k # from
    BY <1>4, <2>3 DEF LogInv, LogOrder, Unbroken
  <2> QED
    BY <2>1, <2>2, <2>3
<1>11. OlderAreHigher'
  <2> SUFFICES ASSUME NEW n \in 0..MaxArchives, NEW k \in 0..MaxArchives, k < n,
                      NEW e \in EventsIn(n)', NEW f \in EventsIn(k)'
               PROVE  e < f
    BY DEF OlderAreHigher
  <2> DEFINE a == IF n = to THEN from ELSE n
             b == IF k = to THEN from ELSE k
  <2>1. e \in EventsIn(a) /\ f \in EventsIn(b) /\ k # from /\ n # from
    BY <1>8
  <2>2. a \in 0..MaxArchives /\ b \in 0..MaxArchives /\ b < a
    BY <1>0, <2>1
  <2> HIDE DEF a, b
  <2> QED
    BY <2>1, <2>2 DEF LogInv, LogOrder, OlderAreHigher
<1>12. NoneMissing'
  <2> SUFFICES ASSUME NEW n \in 0..MaxArchives, NEW e \in EventsIn(n)', e # written
               PROVE  \E k \in 0..n : e + 1 \in EventsIn(k)'
    BY <1>1 DEF NoneMissing
  <2> DEFINE a == IF n = to THEN from ELSE n
  <2>1. e \in EventsIn(a) /\ n # from /\ a \in 0..MaxArchives
    BY <1>0, <1>8
  <2>2. PICK k \in 0..a : e + 1 \in EventsIn(k)
    BY <2>1 DEF LogInv, LogOrder, NoneMissing
  <2>3. k \in 0..MaxArchives
    BY <1>0, <2>1
  <2>4. CASE k = from
    <3>1. to \in 0..n
      BY <1>0, <2>1, <2>2, <2>4
    <3> QED
      BY <1>5, <2>2, <2>4, <3>1
  <2>5. CASE k = to
    BY <1>2, <2>2, <2>5 DEF EventsIn
  <2>6. CASE k # from /\ k # to
    <3>1. k \in 0..n
      BY <1>0, <2>2
    <3> QED
      BY <1>5, <2>2, <2>3, <2>6, <3>1
  <2> QED
    BY <2>4, <2>5, <2>6
<1>13. LastShown' = LastShown
  BY <1>1 DEF LastShown
<1>14. NothingOldAhead'
  <2>1. to = 1 <=> from = 0
    BY <1>0
  <2>2. Later(0) => Later(0)'
    BY <1>0, <1>5, <1>13, <2>1 DEF Later
  <2>3. Later(0) /\ Later(1) => Later(1)'
    BY <1>0, <1>5, <1>13, <2>1 DEF Later
  <2>4. CASE to = 1
    <3>1. Later(0) => Later(1)'
      BY <1>5, <1>13, <2>1, <2>4 DEF Later
    <3> QED
      BY <1>1, <2>2, <3>1 DEF LogInv, FollowerOrder, NothingOldAhead
  <2>5. CASE to # 1
    <3>1. logFile'[0] = logFile[0]
      BY <1>0, <1>3, <2>1, <2>5
    <3> QED
      BY <1>1, <2>2, <2>3, <3>1 DEF LogInv, FollowerOrder, NothingOldAhead
  <2> QED
    BY <2>4, <2>5
<1>15. FollowerOrder'
  BY <1>1, <1>13, <1>14 DEF LogInv, FollowerOrder, ShownRising
<1> QED
  BY <1>6, <1>7, <1>9, <1>10, <1>11, <1>12, <1>15 DEF LogInv, LogOrder

LEMMA ReadKeeps == LogInv /\ (ReadActive \/ ReadArchive) => LogInv'
<1> SUFFICES ASSUME LogInv, ReadActive \/ ReadArchive PROVE LogInv'
  OBVIOUS
<1>1. CASE ReadActive /\ logFile[0] = Missing
  <2>1. /\ following' = "archive" /\ UNCHANGED <<logFile, written, rotating, removed, previous, shown>>
    BY <1>1 DEF ReadActive
  <2>2. EventsIn(0) = {}
    BY <1>1 DEF EventsIn, Lines
  <2>3. /\ \A k : Lines(k)' = Lines(k) /\ LastShown' = LastShown
    BY <2>1 DEF Lines, LastShown
  <2>4. \A k : EventsIn(k)' = EventsIn(k)
    BY <2>3 DEF EventsIn
  <2>5. LogTypes'
    BY <2>1 DEF LogInv, LogTypes
  <2>6. LogOrder'
    BY <2>1, <2>3, <2>4 DEF LogInv, LogOrder, InRange, Unbroken, OlderAreHigher, NoneMissing, RoomToMove
  <2>7. Later(0) /\ \A k : Later(k)' <=> Later(k)
    BY <2>2, <2>3, <2>4 DEF Later
  <2>8. FollowerOrder'
    BY <1>1, <2>1, <2>3, <2>7 DEF LogInv, FollowerOrder, ShownRising, NothingOldAhead
  <2> QED
    BY <2>5, <2>6, <2>8 DEF LogInv
<1>2. CASE ReadActive /\ logFile[0] # Missing
  BY <1>2, ShowKeeps DEF ReadActive
<1>3. CASE ReadArchive
  BY <1>3, ShowKeeps DEF ReadArchive
<1> QED
  BY <1>1, <1>2, <1>3

LEMMA LogInvHolds == LogSpec => []LogInv
<1>1. LogInv /\ LogNext => LogInv'
  BY OpenActiveKeeps, AppendEventKeeps, RemoveArchiveKeeps, RenameArchiveKeeps,
     RotationAbandonedKeeps, ReadKeeps DEF LogNext
<1>2. LogInv /\ UNCHANGED logVars => LogInv'
  BY DEF LogInv, LogTypes, LogOrder, InRange, Unbroken, OlderAreHigher, NoneMissing, RoomToMove,
         FollowerOrder, ShownRising, NothingOldAhead, Later, LastShown, EventsIn, Lines, logVars
<1> QED
  BY <1>1, <1>2, LogInitInv, PTL DEF LogSpec

\* Between any two calls of the agent to the file system the log on disk is an
\* unbroken run of events that ends with the last one, and `logs --follow` shows
\* events in order and none twice, however its reads fall between the renames.
THEOREM LogCorrect == LogSpec => []ActivityInOrder
<1>1. LogInv => ActivityInOrder
  <2> SUFFICES ASSUME LogInv PROVE ActivityInOrder
    OBVIOUS
  <2>1. DOMAIN logFile = 0..MaxArchives
    BY DEF LogInv, LogTypes
  <2>2. \A n \in 0..MaxArchives : \A k \in 0..n : k \in 0..MaxArchives
    BY LogAssumption
  <2> QED
    BY <2>1, <2>2 DEF LogInv, LogOrder, Unbroken, OlderAreHigher, NoneMissing, FollowerOrder, ShownRising, ActivityInOrder
<1> QED
  BY <1>1, LogInvHolds, PTL
----------------------------------------------------------------------------
(* Output of commands *)

\* What a command wrote is more than what was kept of it.
SomethingMissing ==
  \/ \E s \in Streams : Len(text[s]) < Len(output[s])
  \/ Len(chunks) < Len(arrived)

Chunk == [stream : Streams, data : Seq(Widths)]

RemoteTypes ==
  /\ kind \in {"exec", "sudo", "stream"}
  /\ settled \in {"no", "denied", "explained", "timeout", "result", "failed"}
  /\ remote \in {"none", "running", "exited", "code124"}
  /\ truncated \in BOOLEAN
  /\ text \in [Streams -> Seq(Widths)]
  /\ output \in [Streams -> Seq(Widths)]
  /\ chunks \in Seq(Chunk)
  /\ arrived \in Seq(Chunk)

\* No more is kept of a stream than it carried, and the flag is right from
\* chunk to chunk.
StreamAccounted ==
  kind = "stream" =>
    /\ \A s \in Streams : Len(text[s]) <= Len(output[s])
    /\ Len(chunks) <= Len(arrived)
    /\ ~truncated => text = output /\ chunks = arrived
    /\ truncated => SomethingMissing

\* Nothing is written after the result of the command.
ResultAccounted ==
  settled = "result" =>
    /\ remote \in {"exited", "code124"}
    /\ kind # "stream" => (truncated <=> \E s \in Streams : text[s] # output[s])

CommandInv == RemoteTypes /\ StreamAccounted /\ ResultAccounted

----------------------------------------------------------------------------

Below == {p \in Nat \X Nat : p[1] < p[2]}

LEMMA Greatest ==
  ASSUME NEW n \in Nat, NEW S \in SUBSET (0..n), S # {}
  PROVE  \E x \in S : \A y \in S : y <= x
<1> DEFINE T == {n - y : y \in S}
<1>1. IsWellFoundedOn(Below, Nat)
  BY NatLessThanWellFounded DEF OpToRel, Below
<1>2. \A y \in S : y \in Nat /\ n - y \in Nat /\ n - y \in T
  OBVIOUS
<1>2a. T \subseteq Nat /\ T # {}
  BY <1>2
<1> HIDE DEF T
<1>3. PICK t \in T : \A u \in T : <<u, t>> \notin Below
  BY <1>1, <1>2a, WFMin
<1>4. ASSUME NEW u \in T PROVE t <= u
  <2>1. u \in Nat /\ t \in Nat
    BY <1>2a
  <2>2. u < t => <<u, t>> \in Below
    BY <2>1 DEF Below
  <2> QED
    BY <1>3, <2>1, <2>2
<1>5. PICK x \in S : t = n - x
  BY DEF T
<1>7. \A y \in S : y <= x
  <2> SUFFICES ASSUME NEW y \in S PROVE y <= x
    OBVIOUS
  <2>1. t <= n - y
    BY <1>2, <1>4
  <2>2. y \in Nat /\ x \in Nat
    BY <1>2
  <2> QED
    BY <1>5, <2>1, <2>2
<1> QED
  BY <1>7

LEMMA BytesIsNat ==
  ASSUME NEW c \in Seq(Widths)
  PROVE  Bytes(c) \in Nat
<1>1. IsFiniteSet(1..Len(c)) /\ IsFiniteSet(1..4)
  <2>1. Len(c) \in Int /\ 1 \in Int /\ 4 \in Int
    OBVIOUS
  <2> QED
    BY <2>1, FS_Interval
<1>2. IsFiniteSet((1..Len(c)) \X (1..4))
  BY <1>1, FS_Product
<1>3. DOMAIN c = 1..Len(c)
  OBVIOUS
<1>4. IsFiniteSet({b \in (DOMAIN c) \X Widths : b[2] <= c[b[1]]})
  BY <1>2, <1>3, FS_Subset DEF Widths
<1> QED
  BY <1>4, FS_CardinalityType DEF Bytes

LEMMA NoBytes == Bytes(<<>>) = 0
<1>1. {b \in (DOMAIN <<>>) \X Widths : b[2] <= <<>>[b[1]]} = {}
  OBVIOUS
<1> QED
  BY <1>1, FS_EmptySet DEF Bytes

\* Within takes a beginning, which is all if it is as long.
LEMMA WithinFits ==
  ASSUME NEW c \in Seq(Widths), NEW max \in Nat
  PROVE  /\ Within(c, max) \in Seq(Widths)
         /\ Len(Within(c, max)) <= Len(c)
         /\ Within(c, max) # c => Len(Within(c, max)) < Len(c)
         /\ Bytes(Within(c, max)) <= max
<1> DEFINE fits == {n \in 0..Len(c) : Bytes(SubSeq(c, 1, n)) <= max}
           best == CHOOSE n \in fits : \A k \in fits : k <= n
<1>1. Len(c) \in Nat
  OBVIOUS
<1>2. 0 \in fits
  <2>1. SubSeq(c, 1, 0) = <<>>
    OBVIOUS
  <2>2. Bytes(SubSeq(c, 1, 0)) <= max
    <3>1. Bytes(SubSeq(c, 1, 0)) = Bytes(<<>>)
      BY <2>1
    <3>2. 0 <= max
      OBVIOUS
    <3> QED
      BY <3>1, <3>2, NoBytes
  <2>3. 0 \in 0..Len(c)
    BY <1>1
  <2> QED
    BY <2>2, <2>3
<1>3. best \in fits
  <2>1. \E n \in fits : \A k \in fits : k <= n
    BY <1>1, <1>2, Greatest
  <2> QED
    BY <2>1
<1>4. Within(c, max) = SubSeq(c, 1, best)
  BY DEF Within
<1>5. best \in 0..Len(c) /\ Bytes(SubSeq(c, 1, best)) <= max
  BY <1>3
<1> HIDE DEF best
<1>6. SubSeq(c, 1, best) \in Seq(Widths) /\ Len(SubSeq(c, 1, best)) = best
  BY <1>5
<1>7. best = Len(c) => SubSeq(c, 1, best) = c
  OBVIOUS
<1> QED
  BY <1>1, <1>4, <1>5, <1>6, <1>7

\* truncateText: the marker is there if and only if the text was cut.
LEMMA MarkerIffCut ==
  ASSUME NEW c \in Seq(Widths)
  PROVE  /\ TruncateText(c) \in Seq(Widths)
         /\ TruncateText(c) # c <=> Bytes(c) > MaxBytes
<1> DEFINE room == IF MaxBytes > MarkerBytes THEN MaxBytes - MarkerBytes ELSE 0
<1>1. MaxBytes \in Nat /\ MarkerBytes \in Nat
  BY CommandsAssumption
<1>2. room \in Nat /\ room <= MaxBytes
  BY <1>1
<1>3. Bytes(c) \in Nat
  BY BytesIsNat
<1>4. CASE Bytes(c) <= MaxBytes
  <2>1. TruncateText(c) = c
    BY <1>4 DEF TruncateText
  <2> QED
    BY <1>1, <1>3, <1>4, <2>1
<1>5. CASE ~(Bytes(c) <= MaxBytes)
  <2>1. TruncateText(c) = Within(c, room)
    BY <1>5 DEF TruncateText
  <2> HIDE DEF room
  <2>2. Within(c, room) \in Seq(Widths) /\ Bytes(Within(c, room)) <= room
    BY <1>2, WithinFits
  <2>3. Bytes(Within(c, room)) \in Nat
    BY <2>2, BytesIsNat
  <2>4. Bytes(Within(c, room)) < Bytes(c)
    BY <1>1, <1>2, <1>3, <1>5, <2>2, <2>3
  <2>5. Within(c, room) # c
    BY <1>3, <2>4
  <2> QED
    BY <1>1, <1>3, <1>5, <2>1, <2>2, <2>5
<1> QED
  BY <1>4, <1>5

\* appendBounded: a chunk is kept whole, or comes out shorter.
LEMMA ChunkFits ==
  ASSUME RemoteTypes, NEW s \in Streams, NEW c \in Seq(Widths)
  PROVE  /\ Fitting(s, c) \in Seq(Widths)
         /\ Len(Fitting(s, c)) <= Len(c)
         /\ Fitting(s, c) # c => Len(Fitting(s, c)) < Len(c)
<1> DEFINE room == IF MaxBytes > Bytes(text[s]) THEN MaxBytes - Bytes(text[s]) ELSE 0
<1>1. MaxBytes \in Nat
  BY CommandsAssumption
<1>2. text[s] \in Seq(Widths)
  BY DEF RemoteTypes
<1>3. Bytes(text[s]) \in Nat
  BY <1>2, BytesIsNat
<1>4. room \in Nat
  BY <1>1, <1>3
<1>5. Fitting(s, c) = Within(c, room)
  BY DEF Fitting
<1> HIDE DEF room
<1> QED
  BY <1>4, <1>5, WithinFits

LEMMA CommandInit == RemoteInit => CommandInv
<1> SUFFICES ASSUME RemoteInit PROVE CommandInv
  OBVIOUS
<1>1. RemoteTypes
  <2>1. <<>> \in Seq(Widths) /\ <<>> \in Seq(Chunk)
    OBVIOUS
  <2>2. [s \in Streams |-> <<>>] \in [Streams -> Seq(Widths)]
    BY <2>1
  <2> QED
    BY <2>1, <2>2 DEF RemoteInit, RemoteTypes
<1>2. StreamAccounted
  <2>1. text = output /\ chunks = arrived
    BY DEF RemoteInit
  <2>2. \A s \in Streams : Len(text[s]) \in Nat
    BY <1>1 DEF RemoteTypes
  <2>3. Len(arrived) \in Nat
    BY <1>1 DEF RemoteTypes
  <2> QED
    BY <2>1, <2>2, <2>3 DEF RemoteInit, StreamAccounted
<1>3. ResultAccounted
  BY DEF RemoteInit, ResultAccounted
<1> QED
  BY <1>1, <1>2, <1>3 DEF CommandInv

\* Two sequences, each with something behind it.
LEMMA Behind ==
  ASSUME NEW a \in Seq(Widths), NEW b \in Seq(Widths),
         NEW x \in Seq(Widths), NEW y \in Seq(Widths)
  PROVE  /\ a \o x \in Seq(Widths)
         /\ Len(a \o x) = Len(a) + Len(x)
         /\ Len(a) \in Nat /\ Len(x) \in Nat
  OBVIOUS

LEMMA OneMoreChunk ==
  ASSUME NEW q \in Seq(Chunk), NEW c \in Chunk
  PROVE  /\ Append(q, c) \in Seq(Chunk)
         /\ Len(Append(q, c)) = Len(q) + 1
         /\ Len(q) \in Nat
  OBVIOUS

LEMMA WritesKeeps ==
  ASSUME CommandInv, NEW s \in Streams, NEW chunk \in OutputChunks, Writes(s, chunk)
  PROVE  CommandInv'
<1> DEFINE f == Fitting(s, chunk)
           r == [stream |-> s, data |-> chunk]
<1>1. RemoteTypes /\ StreamAccounted /\ ResultAccounted
  BY DEF CommandInv
<1>2. chunk \in Seq(Widths)
  BY CommandsAssumption
<1>3. f \in Seq(Widths) /\ Len(f) <= Len(chunk) /\ (f # chunk => Len(f) < Len(chunk))
  BY <1>1, <1>2, ChunkFits
<1>4. r \in Chunk
  BY <1>2 DEF Chunk
<1>5. MaxChunks \in Nat
  BY CommandsAssumption
<1>6. /\ remote = "running"
      /\ arrived' = Append(arrived, r)
      /\ output' = [output EXCEPT ![s] = @ \o chunk]
      /\ kind' = kind /\ settled' = settled /\ remote' = remote
  BY DEF Writes
<1>7. kind = "stream" =>
        /\ text' = [text EXCEPT ![s] = @ \o f]
        /\ truncated' = (truncated \/ f # chunk \/ Len(chunks) >= MaxChunks)
        /\ chunks' = IF Len(chunks) < MaxChunks /\ f = chunk THEN Append(chunks, r) ELSE chunks
  BY DEF Writes, Truncates
<1>8. kind # "stream" => text' = text /\ chunks' = chunks /\ truncated' = truncated
  BY DEF Writes
<1> HIDE DEF f, r
<1>9. /\ text \in [Streams -> Seq(Widths)] /\ output \in [Streams -> Seq(Widths)]
      /\ chunks \in Seq(Chunk) /\ arrived \in Seq(Chunk) /\ truncated \in BOOLEAN
  BY <1>1 DEF RemoteTypes
<1>10. /\ text[s] \o f \in Seq(Widths) /\ Len(text[s] \o f) = Len(text[s]) + Len(f)
       /\ Len(text[s]) \in Nat /\ Len(f) \in Nat
  BY <1>3, <1>9, Behind
<1>11. /\ output[s] \o chunk \in Seq(Widths)
       /\ Len(output[s] \o chunk) = Len(output[s]) + Len(chunk)
       /\ Len(output[s]) \in Nat /\ Len(chunk) \in Nat
  BY <1>2, <1>9, Behind
<1>12. /\ Append(chunks, r) \in Seq(Chunk) /\ Len(Append(chunks, r)) = Len(chunks) + 1
       /\ Len(chunks) \in Nat
  BY <1>4, <1>9, OneMoreChunk
<1>13. /\ Append(arrived, r) \in Seq(Chunk) /\ Len(Append(arrived, r)) = Len(arrived) + 1
       /\ Len(arrived) \in Nat
  BY <1>4, <1>9, OneMoreChunk
<1>14. \A t \in Streams : Len(text[t]) \in Nat /\ Len(output[t]) \in Nat
  BY <1>9
<1>15. RemoteTypes'
  <2>1. output' \in [Streams -> Seq(Widths)] /\ arrived' \in Seq(Chunk)
    BY <1>6, <1>9, <1>11, <1>13
  <2>2. text' \in [Streams -> Seq(Widths)]
    BY <1>7, <1>8, <1>9, <1>10
  <2>3. chunks' \in Seq(Chunk)
    BY <1>7, <1>8, <1>9, <1>12
  <2>4. truncated' \in BOOLEAN
    <3>1. CASE kind = "stream"
      <4>1. (truncated \/ f # chunk \/ Len(chunks) >= MaxChunks) \in BOOLEAN
        BY Zenon
      <4> QED
        BY <1>7, <3>1, <4>1
    <3>2. CASE kind # "stream"
      BY <1>8, <1>9, <3>2
    <3> QED
      BY <3>1, <3>2
  <2> QED
    BY <1>1, <1>6, <2>1, <2>2, <2>3, <2>4 DEF RemoteTypes
<1>16. ASSUME kind = "stream"
       PROVE  /\ \A t \in Streams : Len(text'[t]) <= Len(output'[t])
              /\ Len(chunks') <= Len(arrived')
              /\ ~truncated' => text' = output' /\ chunks' = arrived'
              /\ truncated' => SomethingMissing'
  <2>1. /\ \A t \in Streams : Len(text[t]) <= Len(output[t])
        /\ Len(chunks) <= Len(arrived)
        /\ ~truncated => text = output /\ chunks = arrived
        /\ truncated => SomethingMissing
    BY <1>1, <1>16 DEF StreamAccounted
  <2>2. Len(text'[s]) = Len(text[s]) + Len(f) /\ Len(output'[s]) = Len(output[s]) + Len(chunk)
    BY <1>6, <1>7, <1>9, <1>10, <1>11, <1>16
  <2>3. \A t \in Streams : t # s => text'[t] = text[t] /\ output'[t] = output[t]
    BY <1>6, <1>7, <1>9, <1>16
  <2>4. Len(arrived') = Len(arrived) + 1
    BY <1>6, <1>13
  <2>5. Len(chunks') \in {Len(chunks), Len(chunks) + 1}
    BY <1>7, <1>12, <1>16
  <2>6. ASSUME NEW t \in Streams
        PROVE  /\ Len(text'[t]) <= Len(output'[t])
               /\ Len(text[t]) < Len(output[t]) => Len(text'[t]) < Len(output'[t])
    <3>1. CASE t = s
      BY <1>3, <1>10, <1>11, <2>1, <2>2, <3>1
    <3>2. CASE t # s
      BY <2>1, <2>3, <3>2
    <3> QED
      BY <3>1, <3>2
  <2>7. /\ Len(chunks') <= Len(arrived')
        /\ Len(chunks) < Len(arrived) => Len(chunks') < Len(arrived')
    BY <1>12, <1>13, <2>1, <2>4, <2>5
  <2>8. ASSUME ~truncated' PROVE text' = output' /\ chunks' = arrived'
    <3>1. ~truncated /\ f = chunk /\ ~(Len(chunks) >= MaxChunks)
      BY <1>7, <1>16, <2>8
    <3>2. text = output /\ chunks = arrived
      BY <2>1, <3>1
    <3>3. Len(chunks) < MaxChunks
      BY <1>5, <1>12, <3>1
    <3> QED
      BY <1>6, <1>7, <1>16, <3>1, <3>2, <3>3
  <2>9. ASSUME truncated' PROVE SomethingMissing'
    <3>1. truncated \/ f # chunk \/ (f = chunk /\ Len(chunks) >= MaxChunks)
      BY <1>7, <1>16, <2>9
    <3>2. CASE truncated
      BY <2>1, <2>6, <2>7, <3>2 DEF SomethingMissing
    <3>3. CASE f # chunk
      <4>1. Len(text'[s]) < Len(output'[s])
        BY <1>3, <1>10, <1>11, <2>1, <2>2, <3>3
      <4> QED
        BY <4>1 DEF SomethingMissing
    <3>4. CASE f = chunk /\ Len(chunks) >= MaxChunks
      <4>1. chunks' = chunks
        BY <1>5, <1>7, <1>12, <1>16, <3>4
      <4>2. Len(chunks') < Len(arrived')
        BY <1>12, <1>13, <2>1, <2>4, <4>1
      <4> QED
        BY <4>2 DEF SomethingMissing
    <3> QED
      BY <3>1, <3>2, <3>3, <3>4
  <2> QED
    BY <2>6, <2>7, <2>8, <2>9
<1>17. StreamAccounted'
  BY <1>6, <1>16 DEF StreamAccounted
<1>18. ResultAccounted'
  BY <1>1, <1>6 DEF ResultAccounted
<1> QED
  BY <1>15, <1>17, <1>18 DEF CommandInv

\* Steps that leave the output and what is kept of it alone.
LEMMA OtherCommandSteps ==
  ASSUME CommandInv,
         \/ Answered \/ RunRemote \/ LocalTimeout \/ RemoteEnds \/ ConnectionLost
         \/ UNCHANGED remoteVars
  PROVE  CommandInv'
<1>1. /\ kind' = kind /\ arrived' = arrived /\ output' = output
      /\ text' = text /\ chunks' = chunks /\ truncated' = truncated
  BY DEF Answered, RunRemote, LocalTimeout, RemoteEnds, ConnectionLost, remoteVars
<1>2. /\ settled' \in {"no", "denied", "explained", "timeout", "result", "failed"}
      /\ remote' \in {"none", "running", "exited", "code124"}
      /\ settled' = "result" => settled = "result" /\ remote' = remote
  BY DEF CommandInv, RemoteTypes, ResultAccounted,
         Answered, RunRemote, LocalTimeout, RemoteEnds, ConnectionLost, remoteVars
<1>3. RemoteTypes'
  BY <1>1, <1>2 DEF CommandInv, RemoteTypes
<1>4. StreamAccounted'
  BY <1>1 DEF CommandInv, StreamAccounted, SomethingMissing
<1>5. ResultAccounted'
  BY <1>1, <1>2 DEF CommandInv, ResultAccounted
<1> QED
  BY <1>3, <1>4, <1>5 DEF CommandInv

LEMMA ResultKeeps ==
  ASSUME CommandInv, Result
  PROVE  CommandInv'
<1>1. RemoteTypes /\ StreamAccounted
  BY DEF CommandInv
<1>2. /\ remote \in {"exited", "code124"} /\ settled' \in {"timeout", "result"}
      /\ kind' = kind /\ remote' = remote /\ arrived' = arrived
      /\ output' = output /\ chunks' = chunks
      /\ kind = "stream" => text' = text /\ truncated' = truncated
      /\ kind # "stream" =>
           /\ text' = [s \in Streams |-> TruncateText(output[s])]
           /\ truncated' = \E s \in Streams : Bytes(output[s]) > MaxBytes
  BY DEF Result
<1>3. \A s \in Streams : output[s] \in Seq(Widths)
  BY <1>1 DEF RemoteTypes
<1>4. \A s \in Streams : /\ TruncateText(output[s]) \in Seq(Widths)
                         /\ TruncateText(output[s]) # output[s] <=> Bytes(output[s]) > MaxBytes
  BY <1>3, MarkerIffCut
<1>5. RemoteTypes'
  <2>1. text' \in [Streams -> Seq(Widths)]
    BY <1>1, <1>2, <1>4 DEF RemoteTypes
  <2>2. truncated' \in BOOLEAN
    BY <1>1, <1>2 DEF RemoteTypes
  <2> QED
    BY <1>1, <1>2, <2>1, <2>2 DEF RemoteTypes
<1>6. StreamAccounted'
  BY <1>1, <1>2 DEF StreamAccounted, SomethingMissing
<1>7. ResultAccounted'
  <2>1. ASSUME kind # "stream"
        PROVE  truncated' <=> \E s \in Streams : text'[s] # output'[s]
    BY <1>2, <1>4, <2>1
  <2> QED
    BY <1>2, <2>1 DEF ResultAccounted
<1> QED
  BY <1>5, <1>6, <1>7 DEF CommandInv

LEMMA CommandNext == CommandInv /\ [RemoteNext]_remoteVars => CommandInv'
<1> SUFFICES ASSUME CommandInv, [RemoteNext]_remoteVars PROVE CommandInv'
  OBVIOUS
<1>1. CASE \E s \in Streams, chunk \in OutputChunks : Writes(s, chunk)
  BY <1>1, WritesKeeps
<1>2. CASE Result
  BY <1>2, ResultKeeps
<1>3. CASE \/ Answered \/ RunRemote \/ LocalTimeout \/ RemoteEnds \/ ConnectionLost
           \/ UNCHANGED remoteVars
  BY <1>3, OtherCommandSteps
<1> QED
  BY <1>1, <1>2, <1>3 DEF RemoteNext

LEMMA AccountedFor == CommandInv => OutputIsAccountedFor
<1> SUFFICES ASSUME CommandInv, settled = "result"
             PROVE  truncated <=> \/ \E s \in Streams : text[s] # output[s]
                                  \/ kind = "stream" /\ chunks # arrived
  BY DEF OutputIsAccountedFor
<1>1. CASE kind = "stream"
  <2>1. ~truncated => text = output /\ chunks = arrived
    BY <1>1 DEF CommandInv, StreamAccounted
  <2>2. ASSUME truncated PROVE (\E s \in Streams : text[s] # output[s]) \/ chunks # arrived
    <3>1. SomethingMissing
      BY <1>1, <2>2 DEF CommandInv, StreamAccounted
    <3>2. \A s \in Streams : Len(text[s]) \in Nat
      BY DEF CommandInv, RemoteTypes
    <3>3. Len(arrived) \in Nat
      BY DEF CommandInv, RemoteTypes
    <3> QED
      BY <3>1, <3>2, <3>3 DEF SomethingMissing
  <2> QED
    BY <1>1, <2>1, <2>2
<1>2. CASE kind # "stream"
  BY <1>2 DEF CommandInv, ResultAccounted
<1> QED
  BY <1>1, <1>2

\* execWithStreaming, truncateText: the caller can tell, for any output,
\* limits and order of the two streams, whether it got all of it.
THEOREM OutputCorrect == RemoteSpec => []OutputIsAccountedFor
<1>1. RemoteInit => CommandInv
  BY CommandInit
<1>2. CommandInv /\ [RemoteNext]_remoteVars => CommandInv'
  BY CommandNext
<1>3. CommandInv => OutputIsAccountedFor
  BY AccountedFor
<1> QED
  BY <1>1, <1>2, <1>3, PTL DEF RemoteSpec
=============================================================================
