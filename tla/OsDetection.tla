----------------------------- MODULE OsDetection -----------------------------
(***************************************************************************)
(* What a session knows of its host's system: getOSInfo of                 *)
(* src/src/session.ts over detectOS of src/src/detect.ts.                  *)
(*                                                                         *)
(* detectOS settles one field after another, each by the first of a row of *)
(* commands that succeeds.  safeExec turns a command that cannot be run    *)
(* into one that failed, and one that ends without a code into code 0.     *)
(* What is found is kept for the life of the session.                      *)
(***************************************************************************)
EXTENDS Naturals, Sequences

CONSTANTS
  Systems,   \* hosts: [platform, has], has being what the commands find there
  OsCalls    \* calls of getOSInfo on the session

\* A host has commands of its own platform only, and answers one of the probes
\* for the platform.
ASSUME SystemsAssumption ==
  \A s \in Systems :
    /\ s.platform \in {"linux", "darwin", "windows"}
    /\ "ver" \in s.has => s.platform = "windows"
    /\ "sw_vers" \in s.has => s.platform = "darwin"
    /\ \E probe \in {"uname_s", "ver", "sw_vers"} : probe \in s.has

VARIABLES
  system,     \* the host
  osInfo,     \* session.osInfo
  osCall,     \* the calls
  disturbed   \* history: whether commands were lost, or cut off

osVars == <<system, osInfo, osCall, disturbed>>

\* The fields told apart; the shell and the temporary directory follow the platform.
NoInfo == [arch |-> "unknown", platform |-> "unknown", distro |-> "unknown",
           manager |-> "unknown", init |-> "unknown"]
NotDetected == [NoInfo EXCEPT !.platform = "none"]

\* The commands of a field, in their order, named for what they answer.
Candidates(field, platform) ==
  CASE field = "arch" -> <<"uname_m", "PROCESSOR_ARCHITECTURE">>
    [] field = "platform" -> <<"uname_s", "ver", "sw_vers">>
    [] field = "distro" /\ platform = "linux" ->
         <<"os-release", "lsb-release", "redhat-release", "debian_version">>
    [] field = "distro" /\ platform = "darwin" -> <<"productName">>
    [] field = "manager" /\ platform = "linux" -> <<"apt", "dnf", "yum", "pacman", "apk", "zypper">>
    [] field = "manager" /\ platform = "darwin" -> <<"brew">>
    [] field = "manager" /\ platform = "windows" -> <<"winget", "choco">>
    [] field = "init" /\ platform = "linux" -> <<"systemd", "service">>
    [] OTHER -> <<>>

\* What a field is without an answer.
Fallback(field, platform) ==
  CASE field = "distro" /\ platform = "windows" -> "windows"
    [] field = "distro" /\ platform = "darwin" -> "macos"
    [] field = "init" /\ platform = "windows" -> "windows-service"
    [] field = "init" /\ platform = "darwin" -> "launchd"
    [] OTHER -> "unknown"

\* What the answer of a command says.
Says(field, candidate) ==
  CASE candidate = "uname_s" -> system.platform
    [] candidate = "ver" -> "windows"
    [] candidate = "sw_vers" -> "darwin"
    [] OTHER -> candidate

\* Answers that count only with output.
NeedsOutput(field, candidate) == field \in {"arch", "platform", "distro"} \/ candidate = "winget"

\* The field that comes after one.
FieldAfter(field) ==
  CASE field = "arch" -> "platform" [] field = "platform" -> "distro"
    [] field = "distro" -> "manager" [] field = "manager" -> "init" [] OTHER -> "done"

IdleCall == [state |-> "idle", field |-> "arch", at |-> 1, info |-> NoInfo]

OsInit ==
  /\ system \in Systems
  /\ osInfo = NotDetected
  /\ osCall = [c \in OsCalls |-> IdleCall]
  /\ disturbed = {}

----------------------------------------------------------------------------

\* How a command may end: with its answer, with the host's refusal, lost with
\* an exception, or cut off without a code.
Endings(candidate) ==
  {IF candidate \in system.has THEN "found" ELSE "refused", "lost", "cut"}

\* Slip: a command that could not be run counts as code 0.
SucceedsIfLost(field, candidate, ending) ==
  ending = "found" \/ (ending \in {"cut", "lost"} /\ ~NeedsOutput(field, candidate))

\* safeExec and the test of its result.
Succeeds(field, candidate, ending) ==
  ending = "found" \/ (ending = "cut" /\ ~NeedsOutput(field, candidate))

\* getOSInfo: a session that has its information does not ask the host.
AskOs(c) ==
  /\ osCall[c].state = "idle"
  /\ IF osInfo = NotDetected
       THEN osCall' = [osCall EXCEPT ![c].state = "detecting"]
       ELSE osCall' = [osCall EXCEPT ![c].state = "answered", ![c].info = osInfo]
  /\ UNCHANGED <<system, osInfo, disturbed>>

\* A field is settled, and the next one begins; after the last the session keeps
\* what was found, over what another call may have found meanwhile.
Settled(c, value) ==
  LET call == osCall[c]
      info == [call.info EXCEPT ![call.field] = value]
      next == FieldAfter(call.field)
  IN IF next = "done"
       THEN /\ osInfo' = info
            /\ osCall' = [osCall EXCEPT ![c].state = "answered", ![c].info = info]
       ELSE /\ UNCHANGED osInfo
            /\ osCall' = [osCall EXCEPT ![c].field = next, ![c].at = 1, ![c].info = info]

\* One command of the row.  (Both init commands are run; the first that succeeds counts.)
Probe(c, ending) ==
  LET call == osCall[c]
      row == Candidates(call.field, call.info.platform)
  IN /\ call.state = "detecting" /\ call.at <= Len(row)
     /\ ending \in Endings(row[call.at])
     /\ IF Succeeds(call.field, row[call.at], ending)
          THEN Settled(c, Says(call.field, row[call.at]))
          ELSE osCall' = [osCall EXCEPT ![c].at = @ + 1] /\ UNCHANGED osInfo
     /\ disturbed' = disturbed \cup ({ending} \cap {"lost", "cut"})
     /\ UNCHANGED system

\* None of the row succeeded.
RowEnds(c) ==
  LET call == osCall[c]
  IN /\ call.state = "detecting" /\ call.at > Len(Candidates(call.field, call.info.platform))
     /\ Settled(c, Fallback(call.field, call.info.platform))
     /\ UNCHANGED <<system, disturbed>>

OsNext ==
  \E c \in OsCalls :
    \/ AskOs(c)
    \/ \E ending \in {"found", "refused", "lost", "cut"} : Probe(c, ending)
    \/ RowEnds(c)

OsSpec == OsInit /\ [][OsNext]_osVars

----------------------------------------------------------------------------

\* What a field should be: the first of its row that the host has.
Best(field, platform) ==
  LET row == Candidates(field, platform)
      there == {i \in 1..Len(row) : row[i] \in system.has}
  IN IF there = {} THEN Fallback(field, platform)
     ELSE Says(field, row[CHOOSE i \in there : \A j \in there : i <= j])

\* A session knows the platform of its host or none.  If no command was lost or
\* cut off it knows the preferred manager and init system of the host, and as
\* long as none was cut off it never names one that the host does not have.
OsIsTheHosts ==
  LET p == osInfo.platform
      fields == {"arch", "distro", "manager", "init"}
  IN osInfo # NotDetected =>
       /\ p \in {system.platform, "unknown"}
       /\ disturbed = {} =>
            p = system.platform /\ \A f \in fields : osInfo[f] = Best(f, p)
       /\ "cut" \notin disturbed => \A f \in fields : osInfo[f] \in system.has \cup {Fallback(f, p)}
=============================================================================
