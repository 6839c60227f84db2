--------------------------- MODULE SessionLogins ---------------------------
(***************************************************************************)
(* How openSession (src/src/session.ts, with session-auth.ts) logs in to a *)
(* host: the credentials it picks, and the host key it accepts.  The slot  *)
(* a session takes is SessionManager's.                                    *)
(*                                                                         *)
(* The host key is verified inside the handshake, between awaits, while    *)
(* other opens are at theirs.  Keys accepted on first sight are kept in    *)
(* memory, also when the login then fails; known_hosts is read anew each   *)
(* time and never written.  A host has several keys, and the algorithms    *)
(* negotiated decide which of them it shows.                               *)
(***************************************************************************)
EXTENDS Naturals, Sequences, FiniteSets, FiniteSetsExt

CONSTANTS
  Opens,             \* calls of openSession under way at once
  HostKeys,          \* host keys, by their fingerprints
  OpenRequests,      \* parameters of a call, see Anonymous
  KnownHostsFiles,   \* contents known_hosts may have; unreadable is << >>
  DefaultKeyFiles    \* the private keys looked for, in the order of the code

VARIABLES
  knownHosts,        \* the file: a sequence of lines
  readableKeys,      \* private key files that can be read
  authSock,          \* whether SSH_AUTH_SOCK is set
  acceptedHostKeys,  \* pairs of host:port and fingerprint
  login,             \* a call: where it stands, its request, its credentials, the key shown
  met                \* history: what the sessions of "accept-new" met, in this process

loginVars == <<knownHosts, readableKeys, authSock, acceptedHostKeys, login, met>>

\* A request that says as little as it may.
Anonymous ==
  [host |-> "host", port |-> 22, user |-> "user", policy |-> "default", strict |-> "unset",
   pinned |-> {}, auth |-> "auto", password |-> FALSE, key |-> "none", explain |-> FALSE]

NoOpen == [state |-> "none", request |-> Anonymous, with |-> "nothing", shown |-> {}]

SessionLoginsInit ==
  /\ knownHosts \in KnownHostsFiles
  /\ readableKeys \in SUBSET ({"path"} \cup {DefaultKeyFiles[i] : i \in DOMAIN DefaultKeyFiles})
  /\ authSock \in BOOLEAN
  /\ acceptedHostKeys = {}
  /\ login = [o \in Opens |-> NoOpen]
  /\ met = {}

----------------------------------------------------------------------------
(* Credentials *)

\* discoverPrivateKeys: the first of the standard files that can be read.
Discovered ==
  LET found == {i \in DOMAIN DefaultKeyFiles : DefaultKeyFiles[i] \in readableKeys} IN
  IF found = {} THEN {} ELSE {DefaultKeyFiles[Min(found)]}

\* buildKeyAuth: a key given, in line or by its path, is the only one tried.
KeyAuth(r) ==
  CASE r.key = "inline" -> {"inline"}
    [] r.key = "path" -> {"path"} \cap readableKeys
    [] OTHER -> Discovered

AgentAuth == IF authSock THEN {"agent"} ELSE {}

PasswordAuth(r) == IF r.password THEN {"password"} ELSE {}

\* buildAutoAuth: one method is chosen, here; none is tried at the host.
AutoAuth(r) ==
  IF r.password THEN PasswordAuth(r)
  ELSE IF KeyAuth(r) # {} THEN KeyAuth(r) ELSE AgentAuth

\* buildAuthConfig; the empty set where it throws.
AuthConfig(r) ==
  CASE r.auth = "password" -> PasswordAuth(r)
    [] r.auth = "key" -> KeyAuth(r)
    [] r.auth = "agent" -> AgentAuth
    [] OTHER -> AutoAuth(r)

----------------------------------------------------------------------------
(* Host keys *)

\* resolveHostKeyPolicy, where the configuration says "strict".
HostKeyPolicy(r) ==
  CASE r.policy # "default" -> r.policy
    [] r.policy = "default" /\ r.strict = "no" -> "insecure"
    [] OTHER -> "strict"

\* Slip: first sight is kept for each user apart.
EndpointOfUser(r) == <<r.host, r.port, r.user>>

\* The key of acceptedHostKeys.
Endpoint(r) == <<r.host, r.port>>

\* verifyAcceptNewHostKey: what is known of the endpoint, or nothing is.
FirstSeenOrSame(r, key) ==
  \A p \in acceptedHostKeys : p[1] = Endpoint(r) => p[2] = key

\* knownHostPatternMatches: a bare name matches on every port.
MatchesLine(line, r) == {<<r.host>>, <<r.host, r.port>>} \cap line.names # {}

\* verifyKnownHostKey: the first line for the host that is revoked, for
\* whatever key, or has the key, decides.  Lines it cannot parse are not here.
InKnownHosts(r, key) ==
  LET deciding == {i \in DOMAIN knownHosts :
                     /\ MatchesLine(knownHosts[i], r)
                     /\ knownHosts[i].revoked \/ knownHosts[i].key = key} IN
  deciding # {} /\ ~knownHosts[Min(deciding)].revoked

\* configureHostKeyVerification: a pinned key is all that counts.
Accepts(r, key) ==
  CASE r.pinned # {} -> key \in r.pinned
    [] r.pinned = {} /\ HostKeyPolicy(r) = "insecure" -> TRUE
    [] r.pinned = {} /\ HostKeyPolicy(r) = "accept-new" -> FirstSeenOrSame(r, key)
    [] OTHER -> InKnownHosts(r, key)

\* Whether the verifier looks at, and writes, acceptedHostKeys.
OnFirstSight(r) == r.pinned = {} /\ HostKeyPolicy(r) = "accept-new"

----------------------------------------------------------------------------
(* openSession *)

\* A call that the policy does not refuse, by a rule or because it is root, and
\* that is not only to be explained.
CallOpen(o, r) ==
  /\ login[o].state = "none"
  /\ ~r.explain
  /\ login' = [login EXCEPT ![o] = [NoOpen EXCEPT !.state = "called", !.request = r]]
  /\ UNCHANGED <<knownHosts, readableKeys, authSock, acceptedHostKeys, met>>

\* The slot and the key files have been awaited.
BuildAuth(o) ==
  /\ login[o].state = "called"
  /\ \/ \E c \in AuthConfig(login[o].request) :
          login' = [login EXCEPT ![o].state = "connecting", ![o].with = c]
     \/ AuthConfig(login[o].request) = {} /\ login' = [login EXCEPT ![o] = NoOpen]
  /\ UNCHANGED <<knownHosts, readableKeys, authSock, acceptedHostKeys, met>>

\* hostVerifier, called in the handshake with the key the host shows.
VerifyHostKey(o, key) ==
  LET r == login[o].request IN
  /\ login[o].state = "connecting"
  /\ login' = [login EXCEPT ![o] =
                 IF Accepts(r, key) THEN [@ EXCEPT !.state = "verified", !.shown = {key}]
                                    ELSE NoOpen]
  /\ acceptedHostKeys' = acceptedHostKeys \cup
       {<<Endpoint(r), k>> : k \in {x \in {key} : OnFirstSight(r) /\ Accepts(r, x)}}
  /\ UNCHANGED <<knownHosts, readableKeys, authSock, met>>

\* The host takes the credentials: the session is open.
LoggedIn(o) ==
  LET r == login[o].request IN
  /\ login[o].state = "verified"
  /\ login' = [login EXCEPT ![o] = NoOpen]
  /\ met' = IF OnFirstSight(r)
              THEN met \cup {[host |-> r.host, port |-> r.port, key |-> k] : k \in login[o].shown}
              ELSE met
  /\ UNCHANGED <<knownHosts, readableKeys, authSock, acceptedHostKeys>>

\* It does not, or the connection fails or times out, before or after the key.
LoginFails(o) ==
  /\ login[o].state \in {"connecting", "verified"}
  /\ login' = [login EXCEPT ![o] = NoOpen]
  /\ UNCHANGED <<knownHosts, readableKeys, authSock, acceptedHostKeys, met>>

\* The user edits known_hosts, or takes the private keys away.
EditFiles ==
  /\ \/ knownHosts' \in KnownHostsFiles /\ UNCHANGED readableKeys
     \/ readableKeys' = {} /\ UNCHANGED knownHosts
  /\ UNCHANGED <<authSock, acceptedHostKeys, login, met>>

\* The process starts again.
RestartLogins ==
  /\ acceptedHostKeys' = {}
  /\ login' = [o \in Opens |-> NoOpen]
  /\ met' = {}
  /\ UNCHANGED <<knownHosts, readableKeys, authSock>>

SessionLoginsNext ==
  \/ EditFiles
  \/ RestartLogins
  \/ \E o \in Opens :
       \/ \E r \in OpenRequests : CallOpen(o, r)
       \/ BuildAuth(o)
       \/ \E key \in HostKeys : VerifyHostKey(o, key)
       \/ LoggedIn(o)
       \/ LoginFails(o)

SessionLoginsSpec == SessionLoginsInit /\ [][SessionLoginsNext]_loginVars

----------------------------------------------------------------------------
(* Properties *)

\* Between two starts of the process, all "accept-new" sessions with a host and
\* port met one and the same key, whoever opened them and however the handshakes
\* overlapped with each other, with failed logins and with edits of known_hosts.
OneKeyPerEndpoint ==
  \A a, b \in met : a.host = b.host /\ a.port = b.port => a.key = b.key
=============================================================================
