------------------------------ MODULE MCHosts ------------------------------
(* What is done to hosts, here and at the remote agents, for TLC: one of the *)
(* parts runs, the others rest.                                              *)
EXTENDS AgentCommands, SafeFile, ActivityLog, RemoteFiles, RemoteCommands, HostState,
        PolicyDecisions, SessionLogins, SshConfig, OsDetection

VARIABLE part

MCChunks == {<<1>>, <<2>>, <<1, 2>>}

MCPrefixes == {<< >>, <<"a">>, <<"a", "b">>}
MCDefault == {<<"b">>}
MCLoginDirs == {<<"a">>}
MCLinks == {[at |-> << >>, to |-> << >>], [at |-> <<"a">>, to |-> <<"b">>],
            [at |-> <<"b">>, to |-> <<"a", "b">>], [at |-> <<"a", "b">>, to |-> <<"a">>]}
MCHostLists == {{}, {{}}} \cup {{{CHOOSE h \in Hosts : TRUE}}}
MCPortLists == {{}, {[start |-> 0, end |-> 0]}, {[start |-> 1, end |-> LastPort + 1]}}

MCRequests ==
  {[Anonymous EXCEPT !.policy = "accept-new", !.user = u] : u \in {"user", "other"}}
  \cup {[Anonymous EXCEPT !.strict = s, !.key = "path"] : s \in {"no", "unset"}}
  \cup {[Anonymous EXCEPT !.policy = "accept-new", !.pinned = {"k1"}, !.auth = "agent"],
        [Anonymous EXCEPT !.auth = "key", !.key = "inline", !.port = 2222],
        [Anonymous EXCEPT !.auth = "password", !.password = TRUE],
        [Anonymous EXCEPT !.explain = TRUE]}
MCFiles ==
  { << >>,
    << [names |-> {<<"host">>}, key |-> "k1", revoked |-> FALSE] >>,
    << [names |-> {<<"host", 2222>>}, key |-> "k2", revoked |-> FALSE],
       [names |-> {<<"host">>}, key |-> "k2", revoked |-> TRUE] >> }
MCKeyFiles == <<"id_ed25519", "id_rsa">>

HostLine(patterns) == [key |-> "host", value |-> patterns]
OptionLine(key, value) == [key |-> key, value |-> value]
MCConfigFiles ==
  { << HostLine(<<"*", "we?">>), OptionLine("user", "ops"),
       HostLine(<<"web">>), OptionLine("user", "ci"), OptionLine("hostname", "h1"),
       HostLine(<<"web">>), OptionLine("user", "dev"), OptionLine("user", "root") >>,
    << OptionLine("user", "none"), HostLine(<<"db", "we?">>), OptionLine("user", "ops"),
       HostLine(<<"*">>), OptionLine("hostname", "h2"),
       HostLine(<<"we?">>), OptionLine("hostname", "h1") >> }
MCCovers == [p \in {"web", "we?", "db"} |-> IF p = "db" THEN {"db"} ELSE {"web"}]

MCSystems ==
  { [platform |-> "linux", has |-> {"uname_m", "uname_s", "os-release", "dnf", "yum", "systemd", "service"}],
    [platform |-> "darwin", has |-> {"uname_m", "sw_vers", "productName"}],
    [platform |-> "windows", has |-> {"PROCESSOR_ARCHITECTURE", "ver", "choco"}] }

\* A part that rests starts in one state.
HostsInit ==
  /\ part \in {"agent commands", "safe files", "activity", "remote files", "commands", "state",
               "policies", "logins", "ssh config", "os"}
  /\ CommandsInit /\ (part = "agent commands" \/ enabled)
  /\ FileInit /\ (part = "safe files" \/ entry = OldFile)
  /\ LogInit
  /\ FilesInit /\ (part = "remote files" \/ (remoteFile = Absent /\ localFile = Absent))
  /\ RemoteInit /\ (part = "commands" \/ kind = "exec")
  /\ HostInit /\ (part = "state" \/ (installed /\ serviceUp /\ mayWrite /\ file = NoFile))
  /\ \/ part = "policies" /\ PolicyDecisionsInit
     \/ part # "policies" /\ policy = "none" /\ request = "none" /\ decision = "pending"
  /\ SessionLoginsInit /\ (part = "logins" \/ (knownHosts = << >> /\ readableKeys = {} /\ authSock))
  /\ ConfigInit /\ (part = "ssh config" \/ configFile = CHOOSE f \in ConfigFiles : TRUE)
  /\ OsInit /\ (part = "os" \/ system = CHOOSE h \in Systems : TRUE)

AgentPart ==
  /\ \/ part = "agent commands" /\ CommandsNext /\ UNCHANGED <<fileVars, logVars>>
     \/ part = "safe files" /\ FileNext /\ UNCHANGED <<commandVars, logVars>>
     \/ part = "activity" /\ LogNext /\ UNCHANGED <<commandVars, fileVars>>
  /\ UNCHANGED <<part, filesVars, remoteVars, hostVars, policyVars, loginVars, configVars, osVars>>

HostPart ==
  /\ \/ /\ part = "remote files" /\ FilesNext
        /\ UNCHANGED <<remoteVars, hostVars, policyVars, loginVars, configVars, osVars>>
     \/ /\ part = "commands" /\ RemoteNext
        /\ UNCHANGED <<filesVars, hostVars, policyVars, loginVars, configVars, osVars>>
     \/ /\ part = "state" /\ HostNext
        /\ UNCHANGED <<filesVars, remoteVars, policyVars, loginVars, configVars, osVars>>
     \/ /\ part = "policies" /\ Evaluate
        /\ UNCHANGED <<filesVars, remoteVars, hostVars, loginVars, configVars, osVars>>
     \/ /\ part = "logins" /\ SessionLoginsNext
        /\ UNCHANGED <<filesVars, remoteVars, hostVars, policyVars, configVars, osVars>>
     \/ /\ part = "ssh config" /\ ConfigNext
        /\ UNCHANGED <<filesVars, remoteVars, hostVars, policyVars, loginVars, osVars>>
     \/ /\ part = "os" /\ OsNext
        /\ UNCHANGED <<filesVars, remoteVars, hostVars, policyVars, loginVars, configVars>>
  /\ UNCHANGED <<part, commandVars, fileVars, logVars>>

HostsSpec == HostsInit /\ [][AgentPart \/ HostPart]_<<part, commandVars, fileVars, logVars,
               filesVars, remoteVars, hostVars, policyVars, loginVars, configVars, osVars>> /\ CommandsFairness
=============================================================================
