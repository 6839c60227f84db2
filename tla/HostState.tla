------------------------------ MODULE HostState ------------------------------
(***************************************************************************)
(* The tools that bring a host to a state: ensurePackage of                *)
(* src/src/ensure-package-service.ts, and ensureService, ensureLinesInFile *)
(* and applyPatch of src/src/ensure.ts, on one package, one service and    *)
(* one file.                                                               *)
(*                                                                         *)
(* Each looks first and acts afterwards, with other calls in between.  A   *)
(* look that fails is taken for the answer no, and a command that ends     *)
(* without an exit code for one that succeeded.                            *)
(***************************************************************************)
EXTENDS Naturals, FiniteSets

CONSTANTS
  EnsureCalls,   \* tool calls
  FileLines,     \* lines a file may have
  NoLine,        \* no line
  PatchLine      \* the line a patch adds

ASSUME HostAssumption == NoLine \notin FileLines /\ PatchLine \in FileLines

NoFile == {NoLine}   \* the content of a file that is not there

VARIABLES
  installed,    \* the package
  serviceUp,    \* the service
  file,         \* lines of the file
  mayWrite,     \* whether the login user may write the file
  task,         \* calls
  misled,       \* history: calls that took a wrong answer of the host for the truth
  sawWanted,    \* history: calls during which the host was as they want it
  linesLost     \* history: a call to add lines took others away

hostVars == <<installed, serviceUp, file, mayWrite, task, misled, sawWanted, linesLost>>
hostState == <<installed, serviceUp, file>>

NoTask == [want |-> "none", lines |-> {}, state |-> "idle", read |-> {}, ok |-> FALSE]

HostInit ==
  /\ installed \in BOOLEAN /\ serviceUp \in BOOLEAN /\ mayWrite \in BOOLEAN
  /\ file \in {NoFile} \cup SUBSET FileLines
  /\ task = [c \in EnsureCalls |-> NoTask]
  /\ misled = {} /\ sawWanted = {} /\ linesLost = FALSE

\* Whether a host is as call c wants it.
Holds(c, package, service, lines) ==
  CASE task[c].want = "present" -> package
    [] task[c].want = "absent" -> ~package
    [] task[c].want = "started" -> service
    [] task[c].want = "stopped" -> ~service
    [] task[c].want \in {"lines present", "patched"} -> lines # NoFile /\ task[c].lines \subseteq lines
    [] task[c].want = "lines absent" -> lines = NoFile \/ task[c].lines \cap lines = {}
    [] OTHER -> FALSE

\* History of every step: who has seen what it wants, before or after it.
Record ==
  /\ sawWanted' = sawWanted \cup
       {c \in EnsureCalls : Holds(c, installed, serviceUp, file) \/ Holds(c, installed', serviceUp', file')}
  /\ linesLost' = (linesLost \/
       /\ file # file' /\ file # NoFile /\ ~(file \subseteq file')
       /\ \A c \in EnsureCalls : task[c].want # "lines absent")

TaskStep(c, from, to) ==
  /\ task[c].state = from
  /\ task' = [task EXCEPT ![c].state = to]

Answer(c, from, ok) ==
  /\ task[c].state = from
  /\ task' = [task EXCEPT ![c].state = "answered", ![c].ok = ok]

StartTask(c, want, lines) ==
  /\ task[c] = NoTask
  /\ task' = [task EXCEPT ![c] = [NoTask EXCEPT !.want = want, !.lines = lines, !.state = "started"]]
  /\ UNCHANGED <<hostState, mayWrite, misled>>

\* Policy, a missing tool or manager, or a lost session ends a call with an error.
TaskFails(c) ==
  /\ task[c].state \notin {"idle", "answered", "failed"}
  /\ task' = [task EXCEPT ![c].state = "failed"]
  /\ UNCHANGED <<hostState, mayWrite, misled>>

----------------------------------------------------------------------------
(* Commands *)

\* How a command ends: with the code 0, with another one, or without one, when a
\* signal ended it or its channel was lost.
Codes == {"zero", "other", "none"}

\* execCommand, execSudo and execFallback read no code as 0: the call may be misled.
Heeds(c, code) == misled' = misled \cup {b \in {c} : code = "none"}

\* The command whose code is the answer of a call.  The code 0 says that its work
\* was done, another one not that it was not.
CommandAnswers(c, from, code, done) ==
  /\ code = "zero" => done
  /\ Answer(c, from, code # "other")
  /\ Heeds(c, code)

----------------------------------------------------------------------------
(* ensurePackage and ensureService *)

\* checkPackageInstalled says no when the check throws, and yes when it ends
\* without a code or, with zypper, finds a package whose name has this one in it.
CheckPackage(c, found) ==
  /\ task[c].want \in {"present", "absent"}
  /\ misled' = misled \cup {b \in {c} : found # installed}
  /\ IF found = (task[c].want = "present")
       THEN Answer(c, "started", TRUE)
       ELSE TaskStep(c, "started", "acting")
  /\ UNCHANGED <<hostState, mayWrite>>

\* The package manager.
ChangePackage(c) ==
  /\ task[c].want \in {"present", "absent"}
  /\ \E code \in Codes, done \in BOOLEAN :
       /\ CommandAnswers(c, "acting", code, done)
       /\ installed' = IF done THEN task[c].want = "present" ELSE installed
  /\ UNCHANGED <<serviceUp, file, mayWrite>>

\* One command of the init system.
ChangeService(c) ==
  /\ task[c].want \in {"started", "stopped"}
  /\ \E code \in Codes, done \in BOOLEAN :
       /\ CommandAnswers(c, "started", code, done)
       /\ serviceUp' = IF done THEN task[c].want = "started" ELSE serviceUp
  /\ UNCHANGED <<installed, file, mayWrite>>

----------------------------------------------------------------------------
(* ensureLinesInFile *)

LineTasks == {"lines present", "lines absent"}

\* pathExists says no when the file cannot be asked for, and, where the file is
\* asked for through a shell, yes when it is not there.
FindFile(c, found) ==
  /\ task[c].want \in LineTasks
  /\ misled' = misled \cup {b \in {c} : found # (file # NoFile)}
  /\ IF found THEN TaskStep(c, "started", "found")
     ELSE IF task[c].want = "lines absent" THEN Answer(c, "started", TRUE)
     ELSE /\ task[c].state = "started"
          /\ task' = [task EXCEPT ![c].state = "writing", ![c].read = {}]
  /\ UNCHANGED <<hostState, mayWrite>>

\* Whether lines are as task t wants them.
Satisfied(t, lines) ==
  IF t.want = "lines present" THEN t.lines \subseteq lines ELSE t.lines \cap lines = {}

\* readFile; what a shell's cat said that ended without a code may be any part.
ReadLines(c) ==
  /\ task[c].state = "found"
  /\ \E code \in {"zero", "none"}, lines \in SUBSET file :
       /\ NoLine \notin lines
       /\ code = "zero" => lines = file
       /\ Heeds(c, code)
       /\ task' = [task EXCEPT ![c].read = lines,
                   ![c].state = IF Satisfied(task[c], lines) THEN "answered" ELSE "writing",
                   ![c].ok = Satisfied(task[c], lines)]
  /\ UNCHANGED <<hostState, mayWrite>>

NewLines(c) ==
  IF task[c].want = "lines present" THEN task[c].read \cup task[c].lines ELSE task[c].read \ task[c].lines

\* writeFile, of what was read; without SFTP it is a shell script, which may end
\* without a code, or have its printf fail and move what there is.
WriteLines(c) ==
  /\ task[c].want \in LineTasks /\ mayWrite
  /\ Answer(c, "writing", TRUE)
  /\ \/ file' = NewLines(c) /\ UNCHANGED misled
     \/ file' \in {file} \cup SUBSET NewLines(c) /\ misled' = misled \cup {c}
  /\ UNCHANGED <<installed, serviceUp, mayWrite>>

\* A permission error: the content is staged in the temporary directory, by the
\* same writeFile, so that a shell may have staged a part of it.
StageLines(c) ==
  /\ task[c].want \in LineTasks /\ ~mayWrite
  /\ task[c].state = "writing"
  /\ \E staged \in SUBSET NewLines(c) :
       /\ task' = [task EXCEPT ![c].state = "staged", ![c].read = staged]
       /\ misled' = misled \cup {b \in {c} : staged # NewLines(c)}
  /\ UNCHANGED <<hostState, mayWrite>>

\* Slip: the code of the command is not asked.
MoveLinesUnchecked(c) ==
  /\ Answer(c, "staged", TRUE)
  /\ file' \in {file, task[c].read}
  /\ UNCHANGED <<installed, serviceUp, mayWrite, misled>>

\* sudo mv; if it fails the staged file stays behind (TaskFails).
MoveLines(c) ==
  /\ \E code \in {"zero", "none"}, done \in BOOLEAN :
       /\ CommandAnswers(c, "staged", code, done)
       /\ file' = IF done THEN task[c].read ELSE file
  /\ UNCHANGED <<installed, serviceUp, mayWrite>>

----------------------------------------------------------------------------
(* applyPatch *)

PatchFits == file # NoFile /\ PatchLine \notin file

\* patch --dry-run; a diff that a shell staged in part goes on like one without
\* a code.
TestPatch(c) ==
  /\ task[c].want = "patched"
  /\ \E code \in Codes :
       /\ code = "zero" => PatchFits
       /\ Heeds(c, code)
       /\ TaskStep(c, "started", IF code = "other" THEN "failed" ELSE "tested")
  /\ UNCHANGED <<hostState, mayWrite>>

\* The user's patch first, then, if it fails for whatever reason, sudo's: the
\* last of them answers.
ApplyPatch(c) ==
  /\ task[c].want = "patched"
  /\ \E code \in Codes, done \in BOOLEAN :
       /\ done => PatchFits
       /\ CommandAnswers(c, "tested", code, done)
       /\ file' = IF done THEN file \cup {PatchLine} ELSE file
  /\ UNCHANGED <<installed, serviceUp, mayWrite>>

----------------------------------------------------------------------------

HostStep ==
  \E c \in EnsureCalls :
    \/ \E want \in {"present", "absent", "started", "stopped"} : StartTask(c, want, {})
    \/ \E want \in LineTasks, l \in FileLines : StartTask(c, want, {l})
    \/ StartTask(c, "patched", {PatchLine})
    \/ TaskFails(c)
    \/ \E found \in BOOLEAN : CheckPackage(c, found) \/ FindFile(c, found)
    \/ ChangePackage(c) \/ ChangeService(c)
    \/ ReadLines(c) \/ WriteLines(c) \/ StageLines(c) \/ MoveLines(c)
    \/ TestPatch(c) \/ ApplyPatch(c)

HostNext == HostStep /\ Record

HostSpec == HostInit /\ [][HostNext]_hostVars

----------------------------------------------------------------------------

\* ensure_package, ensure_service, ensure_lines_in_file, patch_apply: a call
\* that reports success had the host as it was asked for at some moment while
\* it ran, whatever other calls did, unless the host misled it: a look of it was
\* wrong, a command of it ended without an exit code, which is read as 0
\* (process.ts), or the shell wrote its file in part.
SuccessIsReal ==
  \A c \in EnsureCalls :
    task[c].state = "answered" /\ task[c].ok => c \in sawWanted \/ c \in misled

\* "Create file if it does not exist" (ensure.provider.ts:105): a call to add lines
\* does not make a file that exists anew, and so takes no other line away.
OtherLinesStay == ~linesLost
=============================================================================
