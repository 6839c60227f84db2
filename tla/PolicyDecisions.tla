--------------------------- MODULE PolicyDecisions ---------------------------
(***************************************************************************)
(* The decisions of the two policies: evaluate and assertAllowed of        *)
(* PolicyEngine in src/src/policy.ts, and isPathAllowed of a remote agent  *)
(* in src/src/remote/policy.ts.                                            *)
(*                                                                         *)
(* A path is the sequence of its segments, ".." among them, and a list of  *)
(* patterns the set of its entries, each the set of the values that it     *)
(* matches.  A behaviour picks a policy and a request, and decides.        *)
(***************************************************************************)
EXTENDS Integers, Sequences, FiniteSets, SequencesExt

CONSTANTS
  Segments,     \* names of files and directories
  PathLength,   \* bound on the segments of a path
  ListedPrefixes,     \* prefixes a policy may list, as sequences of names
  LoginDirs,    \* directories a host may start a session in
  LocalLinks,   \* a symbolic link of the server's files: where it is, where it leads
  Hosts,        \* hosts of sessions and tunnels
  HostLists,    \* lists a policy may have of hosts
  PortLists,    \* lists it may have of ports
  LastPort,     \* 65535
  DefaultAllow  \* DEFAULT_ALLOWED_MUTATION_PREFIXES

ASSUME PolicyAssumption ==
  /\ ".." \notin Segments /\ PathLength \in Nat /\ LastPort \in Nat
  /\ ListedPrefixes \subseteq Seq(Segments) /\ DefaultAllow \subseteq Seq(Segments)
  /\ LoginDirs \subseteq Seq(Segments)
  /\ LocalLinks \subseteq [at : Seq(Segments), to : Seq(Segments)]

VARIABLES
  policy,    \* the entries that concern the request
  request,
  decision   \* pending, allowed or denied
policyVars == <<policy, request, decision>>

Paths == UNION {[1..n -> Segments \cup {".."}] : n \in 1..PathLength}
NoPath == <<>>

\* Entries for paths, for logins, for commands and for tunnels.
PathPolicies ==
  [deny : SUBSET ListedPrefixes, allow : {{}} \cup {{p} : p \in ListedPrefixes}, destructive : BOOLEAN]
LoginPolicies == [hosts : HostLists, root : BOOLEAN]
CommandPolicies == [deny : BOOLEAN, allow : {"any", "matching", "other"}, unsafe : BOOLEAN, sudo : BOOLEAN]
TunnelPolicies ==
  [hosts : HostLists, denyBind : HostLists, allowBind : HostLists, denyRemote : HostLists,
   allowRemote : HostLists, denyPorts : PortLists, allowPorts : PortLists]

\* base is what the host puts before a path of the request: the login directory
\* before a relative path, nothing before an absolute one.
RemoteRequests ==
  [kind : {"remote"}, base : {<<>>} \cup LoginDirs, path : Paths, second : {NoPath} \cup Paths,
   destructive : BOOLEAN]
LocalRequests == [kind : {"local"}, path : Paths, write : BOOLEAN, link : LocalLinks]
AgentRequests == [kind : {"agent"}, path : Paths]
PathRequests == RemoteRequests \cup LocalRequests \cup AgentRequests
LoginRequests == [kind : {"login"}, host : Hosts, root : BOOLEAN]
CommandRequests == [kind : {"command"}, unsafe : BOOLEAN, sudo : BOOLEAN]
TunnelRequests ==
  [kind : {"tunnel"}, bindHost : Hosts, host : Hosts, localPort : 0..LastPort, remotePort : 0..LastPort]

PolicyDecisionsInit ==
  /\ \/ policy \in PathPolicies /\ request \in PathRequests
     \/ policy \in LoginPolicies /\ request \in LoginRequests
     \/ policy \in CommandPolicies /\ request \in CommandRequests
     \/ policy \in TunnelPolicies /\ request \in TunnelRequests
  /\ decision = "pending"

----------------------------------------------------------------------------
(* Paths *)

\* Where a segment leads to: ".." takes back the last name, of the root nothing.
Follow(place, s) == IF s = ".." THEN SubSeq(place, 1, Len(place) - 1) ELSE Append(place, s)

\* normalizeRemotePosixPath, which starts a relative path at the root, path.resolve
\* for local paths, and normalizePolicyPath of an agent.
Normalized(path) ==
  LET after[n \in 0..Len(path)] == IF n = 0 THEN <<>> ELSE Follow(after[n - 1], path[n])
  IN  after[Len(path)]

\* isPathUnder: the root is a prefix of everything.
IsPathUnder(path, prefix) == IsPrefix(prefix, Normalized(path))

\* Slip: secondaryPath is forgotten.
FirstPath(r) == {r.path}

PathsOf(r) == {r.path} \cup (IF r.second = NoPath THEN {} ELSE {r.second})

\* checkRemotePaths: only what destroys needs an allowed prefix.
RemotePathsAllowed(p, r) ==
  \A path \in PathsOf(r) :
    /\ \A d \in p.deny : ~IsPathUnder(path, d)
    /\ r.destructive /\ ~p.destructive =>
         \E a \in IF p.allow = {} THEN DefaultAllow ELSE p.allow : IsPathUnder(path, a)

\* One name further, through the link if that is where it is.
Enter(link, place, s) == IF Append(place, s) = link.at THEN link.to ELSE Append(place, s)

\* realpath, of a path without ".."; names that do not exist stay as they are
\* (resolveLocalExistingPrefix).
RealPath(link, names) ==
  LET after[n \in 0..Len(names)] == IF n = 0 THEN <<>> ELSE Enter(link, after[n - 1], names[n])
  IN  after[Len(names)]

\* normalizeLocalPolicyPath; resolveLocalReadPath and resolveLocalWritePath of a
\* transfer do the same.
Resolved(link, path) == RealPath(link, Normalized(path))

\* What a transfer asks for: its resolved path, and when it writes the resolved
\* directory of the path too.
LocalPathsOf(r) ==
  {Resolved(r.link, r.path)} \cup
  (IF r.write THEN {RealPath(r.link, Follow(Normalized(r.path), ".."))} ELSE {})

\* checkLocalPaths: an empty list allows nothing.  The prefixes of a list are
\* resolved as well.
LocalPathsAllowed(p, r) ==
  \A path \in LocalPathsOf(r) :
    /\ \A d \in p.deny : ~IsPrefix(Resolved(r.link, d), Resolved(r.link, path))
    /\ \E a \in p.allow : IsPrefix(Resolved(r.link, a), Resolved(r.link, path))

\* isPathAllowed of an agent: the entry "/" stands for the root alone.
AgentCovers(prefix, path) == IF prefix = <<>> THEN Normalized(path) = <<>> ELSE IsPathUnder(path, prefix)

AgentPathAllowed(p, r) ==
  /\ \A d \in p.deny : ~AgentCovers(d, r.path)
  /\ \E a \in p.allow : AgentCovers(a, r.path)

----------------------------------------------------------------------------
(* Logins, commands and tunnels *)

\* matchesAny, matchesPolicyValue: a list is a set of entries, and an entry the
\* set of the values that it matches; a pattern that does not compile has none.
Matches(value, list) == \E entry \in list : value \in entry

\* The value is in no denying entry, and in an allowing one if there are any.
Listed(value, deny, allow) == ~Matches(value, deny) /\ (allow # {} => Matches(value, allow))

LoginAllowed(p, r) == r.root => p.root

\* checkCommandPolicy, behind the check of raw sudo.
CommandAllowed(p, r) ==
  /\ r.sudo => p.sudo
  /\ ~p.deny /\ p.allow # "other"
  /\ r.unsafe => p.unsafe

\* parsePortRange drops an entry that is not a range of ports.
InRanges(port, ranges) == \E r \in ranges : r.end <= LastPort /\ port \in r.start..r.end

PortAllowed(p, port) ==
  ~InRanges(port, p.denyPorts) /\ (p.allowPorts # {} => InRanges(port, p.allowPorts))

\* checkTunnelBindHost, checkTunnelRemoteHost, checkTunnelPorts.
TunnelAllowed(p, r) ==
  /\ Listed(r.bindHost, p.denyBind, p.allowBind)
  /\ Listed(r.host, p.denyRemote, p.allowRemote)
  /\ \A port \in {r.localPort, r.remotePort} : PortAllowed(p, port)

\* evaluate: allowedHosts first, for what names a host; then the checks of the kind.
Allows(p, r) ==
  /\ r.kind \in {"login", "tunnel"} => Listed(r.host, {}, p.hosts)
  /\ CASE r.kind = "remote" -> RemotePathsAllowed(p, r)
       [] r.kind = "local" -> LocalPathsAllowed(p, r)
       [] r.kind = "agent" -> AgentPathAllowed(p, r)
       [] r.kind = "login" -> LoginAllowed(p, r)
       [] r.kind = "command" -> CommandAllowed(p, r)
       [] r.kind = "tunnel" -> TunnelAllowed(p, r)

\* assertAllowed in the mode enforce; in the mode explain the call goes on, and
\* the tools that write stop there themselves.
Evaluate ==
  /\ decision = "pending"
  /\ decision' = IF Allows(policy, request) THEN "allowed" ELSE "denied"
  /\ UNCHANGED <<policy, request>>

PolicyDecisionsSpec == PolicyDecisionsInit /\ [][Evaluate]_policyVars

----------------------------------------------------------------------------

\* Where a path leads: a name stays unless the ".." behind it, at some point,
\* outnumber the names.  The k-th name of the place is the k-th that stays.
Rise(path, i, j) ==
  Cardinality({m \in i..j : path[m] # ".."}) - Cardinality({m \in i..j : path[m] = ".."})
Stays(path, i) == path[i] # ".." /\ \A j \in i..Len(path) : Rise(path, i + 1, j) >= 0
LeadsBelow(path, prefix) ==
  \A k \in DOMAIN prefix : \E i \in DOMAIN path :
    Stays(path, i) /\ path[i] = prefix[k] /\ Cardinality({j \in 1..i : Stays(path, j)}) = k

\* What an approved local transfer opens: its canonical path, which the system
\* follows once more.
OpenedPlaces(r) == {RealPath(r.link, names) : names \in LocalPathsOf(r)}

\* An approved request for absolute paths on a host names, once its ".." are
\* followed, no path at or below a denied prefix, in either of its paths, and
\* what is to be destroyed is below an allowed one.  Nothing of the kind holds
\* of a relative path: it is judged from the root and followed from the login
\* directory.
RemoteApprovalsAreSound ==
  request.kind = "remote" /\ request.base = <<>> =>
    \A path \in {request.path, request.second} \ {NoPath} :
      /\ \A d \in policy.deny : ~LeadsBelow(path, d)
      /\ request.destructive /\ ~policy.destructive =>
           \E a \in policy.allow \cup DefaultAllow : LeadsBelow(path, a)

\* An approved transfer opens what is below an allowed and no denied prefix,
\* after the links of all three were followed.
LocalApprovalsAreSound ==
  request.kind = "local" =>
    \A place \in OpenedPlaces(request) :
      /\ \A d \in policy.deny : ~IsPrefix(RealPath(request.link, d), place)
      /\ \E a \in policy.allow : IsPrefix(RealPath(request.link, a), place)

\* An agent's approval names a path below an allowed and no denied prefix.
AgentApprovalsAreSound ==
  request.kind = "agent" =>
    /\ \A d \in policy.deny : d # <<>> => ~LeadsBelow(request.path, d)
    /\ \E a \in policy.allow : LeadsBelow(request.path, a)

\* A policy without the entries that deny.
UndeniedPaths(p) == [p EXCEPT !.deny = {}]
UndeniedTunnels(p) == [p EXCEPT !.denyBind = {}, !.denyRemote = {}, !.denyPorts = {}]

\* Entries that deny only ever take something away.
DenialsOnlyDeny ==
  /\ request.kind \in {"remote", "local", "agent"} => Allows(UndeniedPaths(policy), request)
  /\ request.kind = "tunnel" => Allows(UndeniedTunnels(policy), request)

\* evaluate, isPathAllowed: what an approval says of the paths it is about, and
\* that no entry that denies ever gives something (policy.ts, remote/policy.ts).
ApprovalsAreSound ==
  decision = "allowed" =>
    /\ RemoteApprovalsAreSound
    /\ LocalApprovalsAreSound
    /\ AgentApprovalsAreSound
    /\ DenialsOnlyDeny
=============================================================================
