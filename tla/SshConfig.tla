------------------------------ MODULE SshConfig ------------------------------
(***************************************************************************)
(* The hosts of ~/.ssh/config: src/src/ssh-config.ts, as ssh_resolve_host, *)
(* ssh_list_configured_hosts and the connector's credentials use it.       *)
(*                                                                         *)
(* getSSHConfigParser puts a new parser in the global variable, awaits its *)
(* parse, and returns whatever parser the variable then holds.  A parser   *)
(* parses once, so it is named here by the lookup that made it.            *)
(***************************************************************************)
EXTENDS Integers, Sequences, SequencesExt

CONSTANTS
  Lookups,        \* calls of resolveSSHHost and getConfiguredHosts
  NoLookup,       \* no lookup
  HostAliases,    \* aliases asked for
  Covers,         \* the aliases each pattern matches
  Options,        \* keys of the options told apart
  Unset,          \* an option without a value
  ConfigFiles,    \* contents of the file: sequences of [key, value]
  ConfigTtl,      \* CONFIG_CACHE_TTL_MS
  ConfigMaxClock  \* bound on the clock

Patterns == DOMAIN Covers \cup {"*"}

ASSUME ConfigAssumption ==
  /\ NoLookup \notin Lookups \cup Patterns
  /\ "hostname" \in Options /\ "host" \notin Options
  /\ {ConfigTtl, ConfigMaxClock} \subseteq Nat
  /\ ConfigFiles # {}
  /\ \A lines \in ConfigFiles :
       Len(lines) \in Nat /\ \A i \in 1..Len(lines) : lines[i].key = "host" => lines[i].value \in Seq(Patterns)

VARIABLES
  configFile,     \* lines of the file
  configParser,   \* globalConfigParser, by the lookup that made it
  parsedAt,       \* globalConfigParsedAt
  configHosts,    \* hosts of every parser, in the order of the Map
  lookup,         \* the lookups
  configClock,
  configRead      \* history: what every parser read, and when

configVars == <<configFile, configParser, parsedAt, configHosts, lookup, configClock, configRead>>

NotRead == [lines |-> <<>>, at |-> 0, outcome |-> "none"]
NoAnswer == [host |-> NoLookup, hosts |-> {}, from |-> NoLookup, at |-> 0, while |-> {}]

ConfigInit ==
  /\ configFile \in ConfigFiles
  /\ configParser = NoLookup /\ parsedAt = 0
  /\ configHosts = [l \in Lookups |-> <<>>]
  /\ lookup = [l \in Lookups |-> [state |-> "idle", alias |-> NoLookup, now |-> 0, answer |-> NoAnswer]]
  /\ configClock = ConfigTtl + 1
  /\ configRead = [l \in Lookups |-> NotRead]

----------------------------------------------------------------------------
(* The parser *)

\* Map.set of a new configuration: a pattern met before keeps its place.
SetHost(hosts, pattern) ==
  LET new == [pattern |-> pattern, config |-> [o \in Options |-> Unset]]
      known == {i \in 1..Len(hosts) : hosts[i].pattern = pattern}
  IN IF known = {} THEN Append(hosts, new) ELSE [i \in 1..Len(hosts) |-> IF i \in known THEN new ELSE hosts[i]]

SetHosts(hosts, patterns) ==
  LET after[n \in 0..Len(patterns)] == IF n = 0 THEN hosts ELSE SetHost(after[n - 1], patterns[n])
  IN  after[Len(patterns)]

\* setHostOption, on every host of the declaration; the last value stays.
SetHostOption(hosts, current, key, value) ==
  [i \in 1..Len(hosts) |->
     IF hosts[i].pattern \in current THEN [hosts[i] EXCEPT !.config[key] = value] ELSE hosts[i]]

ParseLine(parse, line) ==
  IF line.key = "host"
    THEN [hosts |-> SetHosts(parse.hosts, line.value), current |-> {line.value[i] : i \in 1..Len(line.value)}]
    ELSE [parse EXCEPT !.hosts = SetHostOption(parse.hosts, parse.current, line.key, line.value)]

ParseContent(lines) ==
  LET after[n \in 0..Len(lines)] ==
        IF n = 0 THEN [hosts |-> <<>>, current |-> {}] ELSE ParseLine(after[n - 1], lines[n])
  IN  after[Len(lines)].hosts

MatchPattern(pattern, alias) == pattern = "*" \/ alias \in Covers[pattern]

\* getHostConfig: the alias itself, or the first pattern that matches; 0 is none.
GetHostConfig(hosts, alias) ==
  LET named == SelectInSeq(hosts, LAMBDA h : h.pattern = alias)
  IN IF named # 0 THEN named ELSE SelectInSeq(hosts, LAMBDA h : MatchPattern(h.pattern, alias))

\* resolveHost: an alias without configuration is its own host name.
ResolveHost(hosts, alias) ==
  LET i == GetHostConfig(hosts, alias)
      config == IF i = 0 THEN [o \in Options |-> Unset] ELSE hosts[i].config
  IN [config EXCEPT !["hostname"] = IF @ = Unset THEN alias ELSE @]

GetAllHosts(hosts) == {hosts[i].pattern : i \in 1..Len(hosts)} \ {"*"}

----------------------------------------------------------------------------
(* The global parser *)

Reading == {l \in Lookups : lookup[l].state = "reading"}

\* What a lookup answers by the parser of another, or by its own.
AnswerBy(alias, parser, hosts) ==
  [host |-> ResolveHost(hosts, alias), hosts |-> GetAllHosts(hosts), from |-> parser,
   at |-> configClock, while |-> Reading]

\* Slip: a parser that is there is never too old.
ParserMissing == configParser = NoLookup

ParserStale == configParser = NoLookup \/ configClock > parsedAt + ConfigTtl

\* A lookup that finds a parser answers by it, parsed or not.
LookupCached(l, alias) ==
  /\ lookup[l].state = "idle" /\ ~ParserStale
  /\ lookup' = [lookup EXCEPT ![l].state = "answered", ![l].alias = alias, ![l].now = configClock,
                              ![l].answer = AnswerBy(alias, configParser, configHosts[configParser])]
  /\ UNCHANGED <<configFile, configParser, parsedAt, configHosts, configClock, configRead>>

LookupParses(l, alias) ==
  /\ lookup[l].state = "idle" /\ ParserStale
  /\ configParser' = l
  /\ lookup' = [lookup EXCEPT ![l].state = "reading", ![l].alias = alias, ![l].now = configClock]
  /\ UNCHANGED <<configFile, parsedAt, configHosts, configClock, configRead>>

\* readFile returns; a file that is missing or cannot be read has no hosts.
ParseReturns(l, outcome) ==
  /\ lookup[l].state = "reading"
  /\ configHosts' = [configHosts EXCEPT ![l] = IF outcome = "failed" THEN <<>> ELSE ParseContent(configFile)]
  /\ configRead' = [configRead EXCEPT ![l] = [lines |-> configFile, at |-> configClock, outcome |-> outcome]]
  /\ parsedAt' = lookup[l].now
  /\ lookup' = [lookup EXCEPT ![l].state = "answered",
                  ![l].answer = AnswerBy(lookup[l].alias, configParser, configHosts'[configParser])]
  /\ UNCHANGED <<configFile, configParser, configClock>>

\* The user edits the file.
EditConfig ==
  /\ configFile' \in ConfigFiles \ {configFile}
  /\ UNCHANGED <<configParser, parsedAt, configHosts, lookup, configClock, configRead>>

ConfigTick ==
  /\ configClock < ConfigMaxClock
  /\ configClock' = configClock + 1
  /\ UNCHANGED <<configFile, configParser, parsedAt, configHosts, lookup, configRead>>

ConfigNext ==
  \/ \E l \in Lookups, a \in HostAliases : LookupCached(l, a) \/ LookupParses(l, a)
  \/ \E l \in Lookups, outcome \in {"read", "failed"} : ParseReturns(l, outcome)
  \/ EditConfig
  \/ ConfigTick

ConfigSpec == ConfigInit /\ [][ConfigNext]_configVars

----------------------------------------------------------------------------

\* The declarations of a file: a line "host" and the options up to the next one.
HostLines(lines) == {i \in 1..Len(lines) : lines[i].key = "host"}
Declaring(lines, pattern) == {i \in HostLines(lines) : \E k \in 1..Len(lines[i].value) : lines[i].value[k] = pattern}
OptionLines(lines, i, o) ==
  {k \in i + 1..Len(lines) : lines[k].key = o /\ \A m \in i + 1..k : lines[m].key # "host"}

\* The pattern an alias is configured by: itself, or the one declared first.
PatternFor(lines, alias) ==
  LET PlaceOf(p) == Min(Declaring(lines, p))
      matching == {p \in Patterns : Declaring(lines, p) # {} /\ MatchPattern(p, alias)}
      earlier(p, q) == \/ PlaceOf(p) < PlaceOf(q)
                       \/ PlaceOf(p) = PlaceOf(q) /\ LET names == lines[PlaceOf(p)].value
                                                     IN SelectInSeq(names, LAMBDA n : n = p)
                                                          <= SelectInSeq(names, LAMBDA n : n = q)
  IN IF Declaring(lines, alias) # {} THEN alias
     ELSE IF matching = {} THEN NoLookup
     ELSE CHOOSE p \in matching : \A q \in matching : earlier(p, q)

ConfiguredBy(lines, alias) ==
  LET p == PatternFor(lines, alias)
      OptionOf(o) ==
        IF p = NoLookup THEN Unset
        ELSE LET S == OptionLines(lines, Max(Declaring(lines, p)), o)
             IN IF S = {} THEN Unset ELSE lines[Max(S)].value
  IN [o \in Options |-> IF o = "hostname" /\ OptionOf(o) = Unset THEN alias ELSE OptionOf(o)]

\* ssh_resolve_host answers by what the file said at most the cache's lifetime
\* before the call: by the last declaration of the pattern that is the alias, or
\* else of the one that matches it first.  It answers without the file only if
\* the file could not be read, or while the lookup that put the present parser
\* in place was still reading it.
LookupsFollowTheFile ==
  \A l \in Lookups : lookup[l].state = "answered" =>
    LET a == lookup[l].answer
        r == configRead[a.from]
    IN IF r.outcome = "read" /\ r.at <= a.at /\ a.from \notin a.while \ {l}
         THEN a.host = ConfiguredBy(r.lines, lookup[l].alias) /\ lookup[l].now <= r.at + ConfigTtl
         ELSE a.hosts = {} /\ (r.outcome = "failed" \/ a.from \in a.while \ {l})
=============================================================================
