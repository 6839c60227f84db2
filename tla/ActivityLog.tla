----------------------------- MODULE ActivityLog -----------------------------
(***************************************************************************)
(* The activity log of a remote agent: append and rotate, and the follower *)
(* of `logs --follow`, another process, in                                 *)
(* src/src/remote/agent-activity-log.ts.                                   *)
(*                                                                         *)
(* Event number n is n.  Each call to the file system is a step, since the *)
(* follower may read between any two of the agent's, and the agent may be  *)
(* stopped there.                                                          *)
(***************************************************************************)
EXTENDS Integers, Sequences

CONSTANTS
  LogEvents,   \* bound on the number of events
  MaxLines,    \* the size over which the log is rotated
  MaxArchives, \* options.maxArchives
  LogTail      \* --tail

ASSUME LogAssumption ==
  {LogEvents, MaxLines} \subseteq Nat /\ {MaxArchives, LogTail} \subseteq Nat \ {0}

Missing == <<0>>   \* no file; 0 is no event

VARIABLES
  logFile,    \* files by number: 0 is the active one, n is archive n
  written,    \* the number of events so far
  rotating,   \* the archive rotate() works on, 0 when it is not running
  removed,    \* whether that archive was removed already
  following,  \* the follower: not started, between polls, or between two opens
  previous,   \* the entry it showed last, 0 for none
  shown       \* history: what it showed

logVars == <<logFile, written, rotating, removed, following, previous, shown>>

LogInit ==
  /\ logFile = [n \in 0..MaxArchives |-> Missing]
  /\ written = 0 /\ rotating = 0 /\ removed = FALSE
  /\ following = "off" /\ previous = 0 /\ shown = <<>>

Lines(n) == IF logFile[n] = Missing THEN <<>> ELSE logFile[n]

----------------------------------------------------------------------------
(* The agent *)

\* Slip: the newest archive is moved first.
NewestFirst(n) == IF n = 0 THEN 1 ELSE (n + 1) % (MaxArchives + 1)

\* The archive after archive n; 0 stands for outside of the loop.
RotationOrder(n) == IF n = 0 THEN MaxArchives ELSE n - 1

\* append, up to openSync, which creates the file if it is missing.
OpenActive ==
  /\ rotating = 0 /\ written < LogEvents
  /\ logFile[0] = Missing
  /\ logFile' = [logFile EXCEPT ![0] = <<>>]
  /\ UNCHANGED <<written, rotating, removed, following, previous, shown>>

\* append, from writeSync on.
AppendEvent ==
  /\ rotating = 0 /\ written < LogEvents
  /\ logFile[0] # Missing
  /\ written' = written + 1
  /\ logFile' = [logFile EXCEPT ![0] = Append(@, written + 1)]
  /\ rotating' = IF Len(logFile'[0]) > MaxLines THEN RotationOrder(0) ELSE 0
  /\ UNCHANGED <<removed, following, previous, shown>>

\* rmSync(target, { force: true })
RemoveArchive ==
  /\ rotating # 0 /\ ~removed
  /\ logFile' = [logFile EXCEPT ![rotating] = Missing]
  /\ removed' = TRUE
  /\ UNCHANGED <<written, rotating, following, previous, shown>>

\* renameSync(source, target); a missing source is no error.
RenameArchive ==
  /\ rotating # 0 /\ removed
  /\ logFile' = [logFile EXCEPT ![rotating] = logFile[rotating - 1], ![rotating - 1] = Missing]
  /\ rotating' = RotationOrder(rotating)
  /\ removed' = FALSE
  /\ UNCHANGED <<written, following, previous, shown>>

\* The agent is stopped, or a call fails, which event() swallows.
RotationAbandoned ==
  /\ rotating # 0
  /\ rotating' = 0 /\ removed' = FALSE
  /\ UNCHANGED <<logFile, written, following, previous, shown>>

----------------------------------------------------------------------------
(* The follower *)

\* Where the lines read begin to be new: after the entry shown last, or at the
\* last ones if it is not there.
NewFrom(lines) ==
  LET known == {i \in DOMAIN lines : lines[i] = previous}
  IN IF known # {} THEN 1 + CHOOSE i \in known : \A j \in known : j <= i
     ELSE IF Len(lines) > LogTail THEN Len(lines) - LogTail + 1 ELSE 1

Show(lines) ==
  /\ shown' = shown \o SubSeq(lines, NewFrom(lines), Len(lines))
  /\ previous' = IF lines = <<>> THEN 0 ELSE lines[Len(lines)]
  /\ following' = "waiting"

\* readAgentActivity, at the start and whenever watchFile sees the file
\* changed: the active file, or else the newest archive, a second open.
ReadActive ==
  /\ following \in {"off", "waiting"}
  /\ IF logFile[0] = Missing
       THEN following' = "archive" /\ UNCHANGED <<previous, shown>>
       ELSE Show(Lines(0))
  /\ UNCHANGED <<logFile, written, rotating, removed>>

ReadArchive ==
  /\ following = "archive"
  /\ Show(Lines(1))
  /\ UNCHANGED <<logFile, written, rotating, removed>>

LogNext ==
  \/ OpenActive \/ AppendEvent \/ RemoveArchive \/ RenameArchive \/ RotationAbandoned
  \/ ReadActive \/ ReadArchive

LogSpec == LogInit /\ [][LogNext]_logVars

----------------------------------------------------------------------------

EventsIn(n) == {Lines(n)[i] : i \in DOMAIN Lines(n)}

\* rotate, showAgentActivityLogs: between any two calls to the file system the
\* files hold an unbroken run of events up to the last one, the older ones in
\* higher archives, and a follower shows events in order and none of them twice,
\* though it may miss some.
ActivityInOrder ==
  /\ \A n \in DOMAIN logFile :
       /\ \A i, j \in DOMAIN Lines(n) : Lines(n)[j] - Lines(n)[i] = j - i
       /\ \A k \in DOMAIN logFile : k < n => \A e \in EventsIn(n), f \in EventsIn(k) : e < f
       /\ \A e \in EventsIn(n) : e = written \/ \E k \in DOMAIN logFile : e + 1 \in EventsIn(k)
  /\ \A i, j \in DOMAIN shown : i < j => shown[i] < shown[j]
=============================================================================
