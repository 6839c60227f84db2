------------------------------ MODULE ToolCalls ------------------------------
(***************************************************************************)
(* Admission of tool calls: the tools/call handler of src/src/mcp.ts over  *)
(* the sliding window logs of src/src/rate-limiter.ts, with the headers of *)
(* http-rate-limit.ts that report them.                                    *)
(*                                                                         *)
(* Every call is checked against the log of the key "global", and then, if *)
(* it names a session, against the log of the session, whose window may be *)
(* shorter or longer than the one the prune interval runs by.              *)
(***************************************************************************)
EXTENDS Naturals, Sequences, FiniteSets

CONSTANTS
  CallSessions,    \* session ids that calls name
  NoCallSession,   \* a call without a session id
  GlobalKey,       \* the key "global"
  GlobalMax, GlobalWindow,     \* rateLimit.maxRequests, .windowMs
  SessionMax, SessionWindow,   \* rateLimit.perSession
  MaxCalls,        \* bound on the calls
  LimitMaxClock    \* bound on the clock

ASSUME LimitAssumption ==
  /\ GlobalKey \notin CallSessions
  /\ NoCallSession \notin CallSessions \cup {GlobalKey}
  /\ {GlobalMax, SessionMax} \subseteq Nat
  /\ {GlobalWindow, SessionWindow} \subseteq Nat \ {0}
  /\ {MaxCalls, LimitMaxClock} \subseteq Nat

VARIABLES
  logs,         \* RateLimiter.logs: the calls counted, by number, for their times; {} is no log
  keyWindow,    \* RateLimiter.keyWindowMs; 0 is no entry
  limiterDown,  \* RateLimiter.destroyed
  limitClock,
  calls         \* the calls so far, with their times and outcomes

limitVars == <<logs, keyWindow, limiterDown, limitClock, calls>>

Keys == {GlobalKey} \cup CallSessions
MaxOf(key) == IF key = GlobalKey THEN GlobalMax ELSE SessionMax
WindowOf(key) == IF key = GlobalKey THEN GlobalWindow ELSE SessionWindow

LimitInit ==
  /\ logs = [k \in Keys |-> {}]
  /\ keyWindow = [k \in Keys |-> 0]
  /\ limiterDown = FALSE
  /\ limitClock = 0
  /\ calls = <<>>

----------------------------------------------------------------------------

\* The entries of a log that are younger than the window.
InWindow(log, window) == {n \in log : calls[n].at + window > limitClock}

\* check(): the log without what left the window, and with this call if it fits.
HasRoom(key) == Cardinality(InWindow(logs[key], WindowOf(key))) < MaxOf(key)
Checked(key) ==
  InWindow(logs[key], WindowOf(key)) \cup (IF HasRoom(key) THEN {Len(calls) + 1} ELSE {})

\* tools/call: the limits it meets in turn, and what each of them counts.
CallTool(s) ==
  LET outcome == IF limiterDown \/ ~HasRoom(GlobalKey) THEN "global"
                 ELSE IF s # NoCallSession /\ ~HasRoom(s) THEN "session" ELSE "dispatched"
      checked == IF limiterDown THEN {}
                 ELSE {GlobalKey} \cup (IF outcome = "global" THEN {} ELSE {s} \cap CallSessions)
  IN /\ Len(calls) < MaxCalls
     /\ logs' = [k \in Keys |-> IF k \in checked THEN Checked(k) ELSE logs[k]]
     /\ keyWindow' = [k \in Keys |-> IF k \in checked THEN WindowOf(k) ELSE keyWindow[k]]
     /\ calls' = Append(calls, [session |-> s, at |-> limitClock, outcome |-> outcome, down |-> limiterDown])
     /\ UNCHANGED <<limiterDown, limitClock>>

\* Slip: every log is pruned by the window of the limiter.
PruneWindowOfLimiter(key) == GlobalWindow

\* The window the last check of a key used.
PruneWindow(key) == IF keyWindow[key] = 0 THEN GlobalWindow ELSE keyWindow[key]

\* pruneExpiredLogs, on its interval.
PruneExpiredLogs ==
  /\ ~limiterDown
  /\ logs' = [k \in Keys |-> InWindow(logs[k], PruneWindow(k))]
  /\ keyWindow' = [k \in Keys |-> IF logs'[k] = {} THEN 0 ELSE keyWindow[k]]
  /\ UNCHANGED <<limiterDown, limitClock, calls>>

\* destroy(), when the server closes.
DestroyLimiter ==
  /\ limiterDown' = TRUE
  /\ logs' = [k \in Keys |-> {}]
  /\ keyWindow' = [k \in Keys |-> 0]
  /\ UNCHANGED <<limitClock, calls>>

LimitTick ==
  /\ limitClock < LimitMaxClock
  /\ limitClock' = limitClock + 1
  /\ UNCHANGED <<logs, keyWindow, limiterDown, calls>>

LimitNext ==
  \/ \E s \in CallSessions \cup {NoCallSession} : CallTool(s)
  \/ PruneExpiredLogs
  \/ DestroyLimiter
  \/ LimitTick

LimitSpec == LimitInit /\ [][LimitNext]_limitVars

\* getUsage of the headers: the calls left of the limit.
HeaderRemaining ==
  LET count == Cardinality(InWindow(logs[GlobalKey], GlobalWindow))
  IN IF count > GlobalMax THEN 0 ELSE GlobalMax - count

----------------------------------------------------------------------------

\* The calls before the n-th that a window ending with time t should count.
Counted(key, n, t) ==
  {m \in 1..n - 1 :
     /\ calls[m].at + WindowOf(key) > t
     /\ IF key = GlobalKey THEN calls[m].outcome # "global"
                           ELSE calls[m].session = key /\ calls[m].outcome = "dispatched"}
IsFullFor(key, n, t) == Cardinality(Counted(key, n, t)) >= MaxOf(key)

\* Over all sequences of checks and prunes a call is let through exactly if
\* fewer calls than the limit lie in the window that ends with it, of all calls
\* and of its session, and the headers announce what is left.  After destroy()
\* none is.
LimitsAreExact ==
  /\ \A n \in 1..Len(calls) :
       LET full == IsFullFor(GlobalKey, n, calls[n].at)
           sessionFull == calls[n].session # NoCallSession /\ IsFullFor(calls[n].session, n, calls[n].at)
       IN calls[n].outcome = IF calls[n].down \/ full THEN "global"
                             ELSE IF sessionFull THEN "session" ELSE "dispatched"
  /\ ~limiterDown =>
       HeaderRemaining + Cardinality(Counted(GlobalKey, Len(calls) + 1, limitClock)) = GlobalMax
=============================================================================
