# ssh-mcp-pro in TLA+

Specifications, model checks and proofs for ssh-mcp-pro, a server that gives
MCP clients SSH sessions, port forwards and files on remote hosts, and, as a
remote control plane, commands on hosts that run its agent. Paths below are
relative to the repository root, which is `src/` here, so the server's code is
in `src/src/`.

## 1. The system

The program is one Node.js process (plus one agent process per remote host), so
between two `await`s nothing else runs. All its races are between the turns of
asynchronous handlers, with other processes (hosts, agents, browsers, identity
providers) and with crashes, and the actions of the modules are cut at exactly
those points: an action is a handler from one await to the next.

| component | state it keeps | operations | talks to | hard part | what makes it correct |
|---|---|---|---|---|---|
| SSH session manager (`session.ts`) | `sessions`, `pendingConnections`, the `admission` promise chain, `closingSessions`, `activeOperations`, `expiresAt` and `lastUsed` of each session | openSession, closeSession, getSession, reconnectSession, begin/endOperation, the cleanup timer, destroy | SSH servers, close listeners, every service | opens that compete for slots while others evict, expire, reconnect and destroy | the limit holds, no slot leaks, evictions are not wasted, closes happen once, waiting calls are answered |
| Logins (`session.ts`, `session-auth.ts`) | `acceptedHostKeys` | choose credentials, verify the host key | SSH servers, known_hosts, key files | handshakes that overlap | one key per endpoint and process |
| SSH configuration (`ssh-config.ts`) | the shared parser and its time | resolve, list | `~/.ssh/config` | the parser is replaced before its file is read | answers follow the file |
| OS detection (`detect.ts`) | the session's `osInfo` | getOSInfo | the host | probes that fail or are lost, and a cache | what is said of the host is so |
| Port forwards (`tunnel.ts`) | `tunnels`, `handles` | create local/remote, closeTunnel, closeSessionTunnels, listTunnels | session manager, metrics | several closers of one tunnel; creation against the close of the session | the listener closes what it found, the gauge does not drift, a hung tunnel does not block a session |
| Container (`container.ts`) | none | wiring | all services | the close listener, with its five seconds | |
| Commands (`process.ts`, `streaming.ts`, `shell.ts`) | buffers of one call | exec, sudo, streaming | hosts | timer, end and loss of the connection race; output cut at limits | a caller can tell what is missing |
| Files and transfer (`transfer.ts`, `fs-*.ts`) | temporary files | read, write, upload, download, verify, rename, remove | SFTP or a shell | failure between two steps, calls side by side | a file is old or new, never half |
| Host state (`ensure*.ts`) | none | ensure package, service, lines; patch | hosts | look first, act later; failed looks, missing exit codes | success is real unless the host misled the call |
| Policy engine (`policy.ts`, `remote/policy.ts`) | the configured lists | evaluate, isPathAllowed | every service | normalization, relative paths, links, two paths in a request, empty lists | approvals are sound |
| HTTP runtime, session registry, lifecycle (`http-*.ts`) | sessions by id, server state, timers, signal handlers | handshake, request, evict, expire, start, close | MCP server | capacity is checked before the awaits of a handshake; close during start | overshoot is bounded, nothing is left after close |
| Tool call limits (`rate-limiter.ts`, `mcp.ts`, `http-rate-limit.ts`) | time stamps per key | check, prune, destroy | tools, HTTP | windows of different lengths | never more, and never fewer, than the limit |
| Agent connections (`remote/agent-connection-lifecycle.ts`, `websocket.ts`) | managed connections, claims per agent, hello and termination timers, activity | upgrade, claim, hello timeout, heartbeat, close, shutdown | message handler | close events that arrive after a replacement; messages on connections that are being closed | claims are connections, both limits hold |
| Agent message handler (`remote/agent-handler.ts`) | the live connection of each agent, hello nonces | hello, action results, close of the live connection | lifecycle, store, pending actions | ordering of hello, close and replacement; repeats | at most one served connection, authenticated and its own |
| Control plane (`remote/control-plane.ts`, `store.ts`) | SQLite rows (agents, actions, tokens), pending actions | enroll, patch policy, revoke, remove, dispatch, close | agents, HTTP API, dashboard, MCP tools | reads before an awaited body, timers against late results, restart over persistent rows | revocation sticks, versions name policies, each action ends once, a device has one life |
| OAuth server (`remote/oauth-handler.ts`) | transactions, registration windows, clients, codes | register, authorize, approve, callback, token, cleanup | identity providers, store | spent and checked around awaits | one approval, one token |
| Web dashboard (`remote/web-dashboard*.ts`) | login transactions, dashboard sessions | login, callback, logout, policy PATCH, revoke, remove | identity providers, control plane | as OAuth and the control plane | one login, one session |
| Remote agent (`remote/agent-cli.ts`, `policy-update-guard.ts`) | configuration file (policy), seen actions, seen nonces | connect, policy.update, action | control plane, executor | messages lost, late or repeated, restarts, versions | never downgraded, no repeat is run |
| Agent executor (`remote/agent-executor.ts`, `safe-file.ts`, `agent-activity-log.ts`) | child processes, timers, log files | execute, atomic write, read, log, follow | operating system | SIGTERM, SIGKILL and exit race; crashes between two calls | every command is answered, writes are whole, the log is in order |
| Metrics, audit, telemetry, logging | counters, a ring, spans | record, list | everything writes to them | counters that concurrent closers decrement | the tunnel gauge |
| Configuration, connectors, MCP adapters, retry | none to speak of | parse, check, format | | data | |

`PROJECT.json` gives the same list file by file, with what is modelled of each,
and the hazards line by line.

## 2. The modules

    SessionPool            what the session manager promises (abstract)
    SessionManager         session.ts
      SessionManagerRefinement    SessionManager => SessionPool (refinement mapping)
        MCSessionManager          instances for TLC
      SessionManagerProofs        theorems about SessionManager
        SessionManagerRefinementProofs   ... and that it implements SessionPool
      SessionTunnels       tunnel.ts + container.ts, composed with SessionManager
        MCSessionTunnels
        SessionTunnelsProofs      theorems about SessionTunnels, and that it implements SessionManager
    AgentConnections       lifecycle + handler + revocation + restart
      MCAgentConnections
      AgentConnectionsProofs      theorems about AgentConnections
      AgentPolicies        policy PATCH, push and the agent's guard, composed with AgentConnections
        MCAgentPolicies
      AgentActions         dispatch, results, timers and the agent's side, composed with AgentConnections
        MCAgents           actions or policies over the connections, or Devices
        AgentFleetProofs   theorems about both, and that AgentActions implements AgentConnections
      Devices              the inventory of devices, from enrollment to removal
    MCServer               what the two HTTP servers keep of their clients
      HttpServer           registry, handlers, start and close
      ToolCalls            rate limits of tool calls
      OAuthGrants          the authorization server
      WebLogins            dashboard logins and sessions
      MessageWindows       hello, policy update and action against their repeats
      CredentialProofs     theorems about OAuthGrants, WebLogins, Devices, MessageWindows
      ServerProofs         theorems about HttpServer, ToolCalls, and PolicyDecisions, SshConfig below
    MCHosts                what is done to hosts, over SSH and by the agent
      RemoteCommands, RemoteFiles, HostState, OsDetection
      SessionLogins, SshConfig, PolicyDecisions
      AgentCommands, SafeFile, ActivityLog
      HostProofs           theorems about these, but for SshConfig, PolicyDecisions and AgentCommands

The parts below MCServer, and those below MCHosts, share no state. MCServer,
MCHosts and MCAgents have a variable `part` that says which of them runs; the
others rest in one initial state, so the states of such a run are the union,
and not the product, of its parts'. In MCAgents the actions and the policies use
the same connections of AgentConnections; its third part, Devices, shares
nothing with them.

In several modules an operator whose comment begins with "Slip:" stands before
the definition it resembles. It is not used by the specification: it is that
definition with a plausible bug, named in PROJECT.json ("mutants") together with
the property that notices it.

### SessionManager

`SessionIds` are the UUIDs openSession draws, so an id is also the name of the
call that draws it: `opener[s]` is where that call stands, `awaits[s]` the
session whose close it awaits (the victim of its eviction, or the session it
reconnects). `admission` is the promise chain of reserveConnectionSlot as the
queue it implements: each call awaits the promise of the one before, so its
head holds it. `sessions`, `closingSessions`, `pendingConnections`,
`activeOperations` are the fields of the class.

| action | code |
|---|---|
| OpenSession | openSession up to `await previous` |
| ReserveConnectionSlot | from the grant of the mutex to the reservation, the refusal, or the await of the eviction |
| ReserveAfterEviction | the second check of the limit, when the victim is gone |
| Connected, ConnectFailed | ssh.connect and requestSFTP settled; the `finally` that releases the reservation is the same turn |
| ReconnectSession, OpenAfterClose | reconnectSession around its await of closeSession |
| CloseSession, GetExpired, CleanupExpiredSessions, Destroy | the callers of closeSession, each with the synchronous prefix of it (BeginClose) |
| FinishClose | the rest of closeSession: listeners settled or timed out, dispose, delete |
| TakeSession | a service takes the session and leaves it at that, as a tunnel under creation does |
| RunCommand, CommandDone | a service takes the session and uses it without registering |
| BeginOperation, EndOperation | a caller that does register, on a session of the table; the method asks nothing of the session, and only tests call it |
| Tick | the clock |

Left out: the refusals that change nothing (policy, explain mode), host key
checks, authentication data, and what the services do on a connection.

### SessionTunnels

The state of the session manager plus the maps of the tunnel manager and the
metrics. A closer is a tool call or the close listener of a session; it awaits
`handle.close()` in `closing[c]`. A local tunnel's handle is
`net.Server.close`: the first call succeeds, a later one rejects after the
server is down. A remote tunnel's is a request to the SSH server, which may
accept, refuse or never answer. `SessionStep` is any step of SessionManager,
with the one restriction that a session is disposed of when its listener has
settled or can time out. Creating a tunnel takes the session first, which
changes `lastUsed`, so it is a step of the session manager (TakeSession).

### AgentConnections

A connection is identified for its whole life (`Conns`): `ws[c]` is the
transport (new, open, closing, gone, refused), `managed`, `authenticated`,
`agentOf`, `helloTimer`, `terminating` and `agentClaims` are the fields of the
lifecycle class, `live[a]` is `agentConnections`, `status[a]` the row's status,
which survives `Restart`. One action per event: upgrade accepted or refused,
hello refused, invalid (after it has claimed a slot) or good, other messages,
hello timeout, heartbeat, close event, revocation, restart. Messages are still
delivered on a connection the server is closing, as the ws library delivers
them. `quiet[c]` abstracts lastActivity: the peer has not been heard of for the
idle limit. What ServedProperly says is about the table and the transports. The
row's status has one more writer, the policy PATCH, so what rows say of the
service is a property of AgentPolicies; RevocationSticks speaks of rows too, and
is stated here for a control plane without PATCHes.

### AgentPolicies

A PATCH (`patch[p]`) reads the row, awaits the body and writes the whole row,
the status it read included. `wire[c]` are the policy.update messages on their
way, `agentPolicy[a]` the policy of the agent's configuration file. A message
is lost with its connection; an agent is a process that ends with its
connection, so the wire of an older connection is cleared when the agent is
served on a newer one. `overwritten` and `restored` are history: the agents one
of whose PATCHes wrote over another one's, and those whose row has from a PATCH a
status that was not the row's any more, until a hello, a close event or a
revocation writes the row again. For all the others RowsTellService holds.

### AgentActions

An action is a row (`row[x]`, persistent) and an entry of `pendingActions`
(`pending`, lost in a restart). DispatchAction writes both and sends the request
on the live connection (`via[x]`); `remote[x]` is how far the agent has come
with it there. The promise of a pending action is settled by ReceiveResult or
ActionTimeout, whose continuation (the write of the row) follows in the same
turn. close() is the exception: it rejects the promises and closes the store
before their continuations run, so the rows stay "sent", just as after a crash;
both are `Restart` here, and the history variable `stranded` remembers them.
The agent may ignore a request (it has seen it, it is late, or it is for another
policy version), and its answers are lost with the connection.

### HttpServer

`registry` and the transports of MCP sessions, one id per handshake. A handshake
of the streamable transport makes room (ReserveCapacity, with expiry and
eviction), awaits, and is entered in onsessioninitialized (SessionInitialized);
one of the legacy transport is entered at once. start() is cut at each await
(StartServer, Listen, the listening event or an error, Started), and close() may
be called, by a signal too, between any two of them; it closes the listening
server, runs the steps of the cleanup in order, some of which await, and settles
when the server has drained. That node's Server.close waits for open responses
is external.

### ToolCalls

The logs of the calls, one of all and one per session, checked in the order of
the tools/call handler: a call refused by the second limit has counted for the
first. `calls` is the history of the calls, a log is the set of the numbers its
entries have in it (their times are theirs there), and pruning uses the window
remembered with a key. The property counts from that history what a sliding
window is.

### OAuthGrants, WebLogins

A transaction of either is started in a browser (its cookie), approved there
(OAuth only), comes back from the provider on a callback, is spent at that moment
and awaits the provider; then a code is stored (OAuthGrants) or a session
(WebLogins). `signing` are the exchanges that have spent their code and await
the signature. Transactions die with the process, rows do not.

### Devices

Rows of agents, enrollment tokens and actions. A PATCH holds a copy of a row
over an await (`StartEdit`, `FinishEdit`); another PATCH, revocation, removal and
a new device under the same alias come in between. That the alias is unique and
that an UPDATE of a removed row changes nothing are what the SQL says. There is
no clock: a token may expire at any moment (`PruneEnrollment`). A removal revokes
first, unless the row says revoked already (`EndService`): two PATCHes can bring
that about over a live connection, which the removal then leaves behind.
`putBack` is history, the linked devices whose row got an older status back, and
the exception OneLife makes; Unlink asks for a row, as the close event does.

### MessageWindows

Signed messages, each of which may be received again: at the control plane the
hello, at the agent the policy update and the action. The receivers keep nonces
or action ids until a time, prune, drop the oldest above a limit (`MaxSeen`) and
forget all in a restart. The Maps are sets of entries with the turn each was
set in, since the order of a Map is only used to drop the oldest (`Remember`,
`RememberCapped`, `WithoutOldest`).

### AgentCommands, SafeFile, ActivityLog

A command of the agent is a process group, with helpers that hold its output
open and may leave the group; Timeout signals the group and Escalate kills it,
answered or not, and Close is the child's close event. SafeFile has what
processes see and what is on the disk, which may be written back in any order;
every call of writeAuthorizedFileAtomic to the file system is a step, and the
agent or the host may stop between any two. ActivityLog opens (OpenActive),
writes, and rotates file by file, while a follower reads file by file; its
property speaks of each file and of each pair of neighbours, so that it also
holds between two calls of a rotation.

### RemoteCommands, RemoteFiles, HostState

A command's output arrives in chunks of characters one or two bytes wide until
the first of timer, end and loss of the connection settles the call. A chunk is a
sequence of widths; `arrived` is the history of what came, `output` the bytes
kept of each stream, `text` what the caller is shown, and "code124" the exit
that `timeout` on the host stands for. RemoteFiles
is one remote and one local path under concurrent reads, writes, uploads,
downloads and removals, each request to either file system a step that may
fail. HostState is one package, one service and one file under concurrent
ensure calls. A look that fails is taken for the answer no, and a command that
ends without an exit code for one that succeeded (`Codes`, `CommandAnswers`), as
in the code; a look may say yes wrongly too, and what a shell reads, writes or
stages may be a part. `misled` is history: the calls to which one of these
happened.

### SessionLogins, SshConfig, OsDetection, PolicyDecisions

SessionLogins is openSession from its arguments to the login, with the choice of
credentials and the host key check inside the handshake. SshConfig has the
parser as a function of the lines of the file (`ParseContent`, line by line,
and `SetHosts`, pattern by pattern, as parseContent does) and the race of the
lookups that share it; the property compares with a declarative reading of the
same lines (`ConfiguredBy`). OsDetection settles the fields of osInfo by rows of
commands; a host is what it is (`Systems`), and `SystemsAssumption` says that
the commands that name a system are found on that system only. PolicyDecisions
is a function of policy and request, compared with what the lists mean; paths
are sequences of segments with "..", `Follow` takes one segment of a path and
`Normalized` all of them. What it is to lead below a prefix (`LeadsBelow`) is
said without normalizing: which segments stay (`Stays`), by counting how far the
rest of the path rises (`Rise`). A remote request has a `base`, the directory the
host puts before its path: the policy judges a relative path from the root and
the host follows it from the login directory, so the property speaks of the
requests whose base is empty, the absolute ones. A local path goes through a
symbolic link of the server's files (`RealPath`), and so do the prefixes it is
judged by. A list is a set of entries and an entry the set of values it matches,
of hosts of sessions (allowedHosts), of the two hosts of a tunnel and of its two
ports.

## 3. What is checked

`tlc -config X.cfg M` in this directory; each run takes between a
few seconds and three and a half minutes.

| run | what it asks | instance |
|---|---|---|
| sessions_safety | Do the slots, the limit, the eviction rule and the bookkeeping hold when opens, evictions, expiry, reconnects, closes, operations and destroy interleave? | 4 ids, limit 2, clock to 2, one use per session |
| sessions_live | Are waiting opens answered, do expired sessions leave, does destroy return, and does the manager implement SessionPool with its releases? | 3 ids, limit 1, clock to 2 |
| sessions_destroy | "cleaning up all sessions and intervals": violated | 2 ids, limit 1 |
| tunnels | Do maps, snapshot, handles' closers and metrics agree when tools and the listener close the same tunnels, and is the session manager under tunnels that hang still the fair one? | 1 session with ttl 1 or 2, 2 tunnels, one tool call, clock to 2 |
| tunnels_orphan | "closes tunnels when production sessions close": violated | 2 sessions, 1 tunnel |
| agents_safety | Claims, limits, the served connection, revocation, over replacement, refusal, late close events, a restart | 4 connections, 2 agents, limits 3 and 2 |
| agents | Actions: do rows and pendingActions agree, is an outcome final, does a revoked agent do nothing, is every caller answered, do silent connections leave? Policies: do row and agent agree on what a version is, does the row tell who is served but for statuses a PATCH put back? Devices: has each one life, whatever comes between the two halves of a PATCH? | 2 connections, 1 agent, 1 action or 2 PATCHes, a restart; 2 devices, 1 alias, 2 keys, 2 PATCHes, 1 action |
| policies_pushed | "pushes a policy.update to the running agent within seconds": violated | the same with 2 PATCHes |
| policies_revoked | Revocation sticks: violated once PATCHes exist | the same with 2 PATCHes |
| server | HTTP: is the overshoot bounded, is every open transport known, does close leave nothing and return? Are rate limits exact? One token per approval, one session per login? Are repeats known? | 3 handshakes, limit 1, idle limit 1, clock to 2; 5 calls, windows 2 and 3; 2 transactions, browsers and clients; 2 logins, 2 browsers; 2 messages received up to twice |
| hosts | Is every command answered? Are writes whole and kept over crashes, the log in order, files replaced at once, output accounted for, successes real unless the host misled, approvals sound? One key per endpoint, lookups that follow the file, an operating system that is the host's? | 2 of each kind of caller (3 lookups), 1 path, 7 events in files of 1, 2 chunks and limits of 3, paths of 2 segments, 1 login directory, 2 hosts, 1 link at a time, 3 systems |
| host_lines | "Create file if it does not exist": violated | 1 call, 2 lines |

Why the bounds are enough. Every race is between a few parties: the limit is
the number of sessions that can exist at once, and with limit 2 and four ids a
slot is taken, evicted, given back and taken by a third call while a fourth
waits. Four connections of two agents at limits 3 and 2 let one agent be at its
own limit while the global limit is or is not reached, with a replacement and
its late close event under way. Three handshakes at limit 1 overlap, evict and
exceed the limit by two, and with an idle limit of 1 and a clock to 2 a session
expires while others do; two PATCHes of a device are what it takes for one to
write back what the row said before a revocation, and the other what it said
after; two transactions of two browsers and two clients are
what it takes to mix one up with another. Two writers with crashes are one that
is acknowledged and one that replaces it; seven events in files of one line with
two archives rotate more than twice around. The session's window (3) is longer
than the limiter's (2), so that pruning by the wrong one shows. Ids, PATCHes,
transactions and connections are never reused, because UUIDs and sockets are
not; process ids (`Pids`) and temporary names (`TempNames`) are, because they
are. `MaxClock` and the other clocks, `MaxUses`, `MaxRestarts`, `MaxRepeats`,
`MaxChunks` and `MaxBlocks` bound what has no bound in the code; two clock
values past a deadline do not differ for the code. Symmetry is used in
safety runs only, and only over values the code never compares.

`CHECK_DEADLOCK FALSE` in all runs: when ids, clock and restarts are used up
the bounded system has nothing left to do, which is where a run ends and not a
deadlock of the code. That nobody waits for ever is what the liveness
properties say instead.

### Fairness

Weak fairness only, and only where the runtime guarantees progress: a resolved
promise runs its continuation (ReserveConnectionSlot, ReserveAfterEviction,
OpenAfterClose, DestroyDone, the listener's turns, the steps of close() and
start() in HttpFairness), a timer fires (cleanup, the five seconds of a close
listener, the hello, termination and heartbeat timers, the timer of an action,
the two timers of a command), an event whose cause has happened is delivered (a
child's close event in CommandsFairness, a server that has no responses left).
Nothing is assumed of SSH servers (a connect or requestSFTP may hang: Connected
and ConnectFailed are not fair), of commands, of tool calls, of clients, of
peers, or of the close handshake.

### Findings

Properties that quote the repository and that the code violates (PROJECT.json,
"findings", has the quotations):

- a connect that ends after destroy() leaves a session in the table
  (`DestroyLeavesNoSession`);
- a tunnel created while its session closes outlives it (`NoOrphanTunnel`);
- the second of two overlapping policy PATCHes is rejected by the agent, with
  row and agent left at different policies of one version
  (`PushedPolicyApplies`);
- a PATCH in flight undoes a revocation (`RevocationSticks` under
  AgentPolicies; in AgentConnections, where there are no PATCHes, it holds and
  is proved);
- ensure_lines takes a file whose stat failed for missing and writes the new
  lines over it (`OtherLinesStay`).

### Observations

What the models had to say of the code on the way, where a property is stated
around it or leaves it open:

- Sessions: no service registers its operation, so a session may be evicted or
  expire under a running command; beginOperation accepts a session that is being
  closed. The session gauge is decremented by tool calls only
  (`session.provider.ts:222`), not by expiry or eviction. A key accepted on
  first sight is kept though the login failed, and accept-new does not look at
  known_hosts; a plain name in known_hosts matches any port.
- SSH configuration: a lookup that comes while another's parser reads the file
  is answered by an empty parser, so an alias resolves to itself; a failed read
  is cached like a good one; the last value of an option wins, and a later block
  of a pattern replaces an earlier one.
- Detection: an unknown system is cached for the life of the session, and a
  probe that ends without a code counts as success.
- Commands and files: streaming and sudo have no timeout on the host; codes 124,
  137 and 143 are taken for timeouts. Uploads and the shell fallback write in
  place; a download's temporary file has its name from the clock, and is left
  behind by a crash; a file that grows between stat and read is read past the
  limit. Two concurrent ensure_lines calls may lose one's lines.
- Host state: a command that ends without an exit code counts as successful
  (`process.ts:160`, `:267`, `fs-tools.ts:87`), so an ensure tool may report
  success with nothing done; zypper's check finds a package in the name of
  another (`ensure-pkg.ts:113`). SuccessIsReal is stated around both.
- Policy: a relative remote path is judged from the root (`policy.ts:176`) and
  followed from the login directory (`fs-tools.ts:110`), so that the entries of
  the lists say nothing of such a request. An emptied allow list lifts its
  restriction; port entries that cannot be parsed are dropped; the agent's deny
  entry "/" covers the root only.
- HTTP: overlapping handshakes exceed the session limit (bounded by
  `RegistryMatches`). A handshake that ends after close() was called opens a
  session nobody closes.
- OAuth and dashboard: clients restored for ChatGPT are not counted against the
  limit on clients; logins that are never called back stay until a restart; a
  request under way is served although its session was logged out meanwhile.
- Devices and actions: a PATCH in flight writes an old row over an enrollment
  or a revocation, and a row can say offline of an agent that is served, or online
  of one that is not, until the next hello or close. After two of them a row can
  say revoked over a live connection, and a removal then skips revokeAgent and
  leaves the connection, whose close event finds no row and leaves its entry in
  agentConnections: "Revoke and disconnect before destroying the agent record or
  token hashes" (`web-dashboard.ts:541`) does not hold there. An alias of a revoked
  device is free again only after its removal. The rows of actions cut off by a
  shutdown stay "sent" (`stranded`). revokeAgent and the adapter on a binary
  message close the transport without arming the termination timer that
  closeConnection arms.
- Agent: a command goes on when its agent stops; the SIGKILL of a timeout is
  sent though the command was answered, to a group that may be another's by
  then; a write that fails after its rename is reported as failed though it is
  there. A hello whose time is not before its arrival is accepted again when its
  nonce has just been pruned, and an action at the moment of its deadline. A
  follower of the log misses what is rotated twice between two reads.

## 4. What is proved

With TLAPS, for every value of the constants: any number of sessions, tunnels,
connections, agents, requests, transactions, calls and writers, any limit, any
content of a configuration file, paths of any length. Every safety property the
passing runs check is the statement of a theorem, invariants and action
properties alike; PROJECT.json lists them. The assumptions are the ASSUMEs of
the modules: limits and times are naturals, the "none" values are not ids, and
these:

- `HttpAssumption`: the ids of handshakes are a finite set (the other id sets may
  be infinite; where a count matters, that the set counted is finite is part of
  the invariant);
- `TunnelAssumption`: a tool call is not a session (both are closers), and a
  tunnel is local or remote;
- `FileAssumption`: the old file and the two marks of unwritten data are not
  writers' data;
- `SystemsAssumption`: a host answers at least one of the three commands that
  name a system, and only those of its own;
- `PolicyAssumption`: listed prefixes and the default ones have no ".." left,
  as the constructor of the policy normalizes them;
- `ConfigAssumption`: the lines of a file are a sequence, and a `Host` line has
  patterns.

### Sessions

`SessionManagerProofs`: TypeCorrect, SlotsCorrect, CapacityCorrect,
EvictionCorrect (from EvictionIsExclusive and EvictionPaysOff), ClosesOnce,
NothingIsLeftBehind. The limit is not inductive by itself. That
an eviction may go on to take a slot needs that nobody else took it meanwhile,
so the invariant adds: the evicting call heads the admission queue
(EvictorHoldsAdmission), which no other call can then pass; the counter is the
number of connecting calls (SlotInv); no slot is reserved while one evicts
(NoSlotWhileEvicting); the victim is a session whose removal makes room
(RoomAfterEviction). ClosesOnce and NothingIsLeftBehind rest on TableSteps: a
step that touches the table begins closes of sessions that are not closing,
finishes one, or adds a session.

`SessionManagerRefinementProofs`: Refinement, that SessionManager implements
the safety part of SessionPool. The mapping reads the slot of an id off the
table, the closing set and the opener's state; the invariant above makes these
consistent (closing sessions are in the table, ids of the table are opened) and
gives that the slots held are the ones counted, so that TakeSlot below the limit
is a Reserve of the pool.

`SessionTunnelsProofs`: TunnelsKeepSessions, ListenerCorrect, GaugeCorrect.
The first is that the whole implements SessionManager, so all of the above
holds under tunnels. (The attempt to prove it showed that creating a tunnel was
no step of the session manager: getSession writes `lastUsed`, and nothing but
RunCommand did so without registering. TLC had not met it, because with one
`ttl` and a clock up to 1 no tunnel is created after the clock has moved.
TakeSession and the larger bounds came from that.) The invariant TunnelInv
joins: what is in the map, closing or in a snapshot was created (CreatedFirst);
of its snapshot the listener has closed all it has passed (ListenerCovers); a
local tunnel leaves the map with its first closer and no other
(FirstCloserWaits), which is why concurrent closers do not count it twice; and
what GaugeRight says of the counters (Counted).

### Agents

`AgentConnectionsProofs`: TypeCorrect, LimitsCorrect, ServiceCorrect,
RevocationCorrect. The invariant joins: managed connections are the ones whose
transport is open or closing; the claims of an agent are exactly the managed
connections bound to it; the limits; a live connection is managed,
authenticated and of that agent; every other connection an agent authenticated
on is closing; a revoked agent has no live connection. Each is needed for
another: a close event releases a claim only of the connection it belongs to,
and revocation closes what is live.

`AgentFleetProofs`: ActionsImplementConnections, that every step of AgentActions
is one of AgentConnections or leaves the connections alone, then RowsCorrect,
OutcomesFinal, RevokedAgentsIdle over them; VersionsCorrect and
ServiceRowsCorrect of AgentPolicies. PolicyInv adds to the invariant of the
connections that messages are under way on authenticated connections only
(WireIsServed), and that none is newer than the row or differs from it at its
version (WireAgrees), unless a PATCH wrote over another. ServiceRowsCorrect
carries what a row says of the service over every write of either, PATCHes
included. RevokedNotLive is in
the invariant of the actions and not in that of the policies, where a PATCH can
undo a revocation (the finding policies_revoked).

### Credentials and messages

`CredentialProofs`: OneTokenCorrect, OneSessionCorrect, OneLifeCorrect,
RepeatsCorrect. The properties count; the proofs compare instead, any two that
are counted being one (UniqueCardinality). GrantInv follows each transaction
from browser to token: who started it, that its code exists only after it was
spent, and that an exchange under way holds a spent code. WebInv does so for
logins; DeviceInv follows a device and its enrollment token, the copies of rows
that PATCHes hold, that the row of a linked device says so unless its status was
put back, and that two rows in use have two aliases; WindowInv says
what each Map still has of each message accepted since the last restart.

### The servers

`ServerProofs`: RegistryCorrect, ShutdownCorrect, LimitsCorrect, ApprovalsSound,
LookupsCorrect.

- HttpServer. Sizes: sessions and handshakes together exceed the limit by at
  most the handshakes that ever overlapped, less one. CloseInOrder and
  StartInOrder: which states of start(), close(), the cleanup and the server go
  together, the table one would draw to review the two functions.
- ToolCalls. LimitInv: the log of a key has counted calls only, and all that its
  window holds (LogIsExact); each call of the history was decided as the
  property says (Admitted).
- PolicyDecisions. What `Normalized` makes of a path is an induction over its
  segments, whose invariant (Origins) names the segment each one of the result
  comes from: it has stayed, the path has risen above it by as many as come
  after it, and they are in order. UnderMeansBelow, that isPathUnder on
  normalized paths is LeadsBelow, follows; ApprovalsSound then is one case per
  kind of request; for local ones it takes two more such inductions, that a path without
  ".." is its own place (NamesLeadThere) and that a link leads to a place
  (RealPathIsPlace).
- SshConfig. What the parser makes of a file is two inductions: over the
  patterns of a Host line (HostsAreSet: hosts met before keep their places, new
  ones follow in order) and over the lines (FileParsed, whose cases are
  HostRead and OptionRead: every host is as its last declaration so far says,
  and in the place of its first). ParserFollowsFile is that ResolveHost of
  ParseContent is ConfiguredBy, for every such file. ParserInv then is about the
  shared parser: the one in place belongs to a lookup that has parsed, or is
  reading and has no hosts; what has parsed is the file as read then, at most
  the cache's lifetime ago when a lookup takes it.

### Hosts

`HostProofs`, one theorem for each module:

- OneKeyCorrect (SessionLogins): the verifier enters the key before the login
  succeeds, so every session's key is the one entered (LoginInv).
- SuccessCorrect (HostState): HostInv adds to SuccessIsReal what a call that was
  not misled has staged; that what held stays remembered (HostKept) carries it.
- FilesCorrect (RemoteFiles): two downloads under way have two temporary files,
  each complete once written; what is renamed is complete (FilesInv).
- WritesCorrect (SafeFile): a name that anything could find names an inode whose
  data is written and on the disk; an acknowledged write is named, on the disk
  too, by an entry since (FileInv). Each step of the order write, sync, rename,
  sync of the directory is used once.
- OsCorrect (OsDetection): what a call has found so far is right of the host
  (OsInv), by the rows of commands of each field.
- LogCorrect (ActivityLog): LogOrder says that files are unbroken runs, older in
  higher archives, with no event missing between neighbours, and that a file is
  moved only to where room was made; FollowerOrder says what the follower can
  still meet: where it might meet something older than what it showed last, it
  remembers that.
- OutputCorrect (RemoteCommands): that a stream not marked truncated has passed
  on everything, and one that is has lost something for good (CommandInv).

### How induction over data is done

The prover has no induction rule it could apply here, since those of its library
take an operator as a parameter. Where a proof is by induction over the
segments of a path, the lines of a file, the files of a log or the numbers of a
sequence, it takes the least natural number at which the statement would fail
(WFMin of the library's WellFoundedInduction, on the pairs `Below`): `UpTo`
states this once for a set. Recursive functions of the modules are LET
definitions, whose existence (WayExists, SettingExists, ReadingExists) is proved
by it first.

### Only model-checked

Liveness: AdmissionSettles, StaleSessionsLeave, DestroyReturns, ActionsSettle,
ActingConnectionsLeave, CloseReturns, CommandsEnd, and the liveness halves of
ImplementsPool and ImplementsSessionManager (their safety halves are Refinement
and TunnelsKeepSessions). Fairness needs ENABLED, which is out of the prover's
reach. The violated properties are shown by their counterexamples.

## 5. Not modelled, and what comes next

What is left to prove is on the edges of what is: that the policies leave the
connections to AgentConnections but for the rows they write (a refinement of all
but RevocationSticks, as ActionsImplementConnections is of the whole); of
AgentCommands, whose one checked property is liveness, that a process killed by
Escalate was in the command's group when it was started; and shorter proofs of
LogCorrect and ParserFollowsFile, the longest ones.

Left out for good: parsing of arguments, formatting, schemas, HTML, CLI output
and signatures (data, without state of their own); configuration and connector
profiles, read once at start; `retry.ts`, which nothing in the program calls;
user profiles, audit rows and counters that nothing reads back to decide; what
commands do on a remote host, SSH itself, SQLite, node's HTTP server and the ws
library, which are external and appear only as the answers they may give. The
signal handler of `index.ts` while the HTTP server is still being constructed is
left out too: it finds nothing to close, and the process exits.
