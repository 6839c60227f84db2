----------------------------- MODULE RemoteFiles -----------------------------
(***************************************************************************)
(* One path of a remote host and one local path, under the file tools of   *)
(* src/src/fs-tools.ts and the transfers of src/src/transfer.ts, over an   *)
(* SFTP channel or, where there is none, a shell.                          *)
(*                                                                         *)
(* Calls run side by side; every request to the host or to the local file  *)
(* system is a step, and any of them may fail.  A file is written block by *)
(* block, so that others can see half of it.                               *)
(***************************************************************************)
EXTENDS Naturals

CONSTANTS
  FileCalls,    \* tool calls
  TempNames,    \* values of Date.now() that name local temporary files
  SizeLimit,    \* config.maxTransferBytes, maxFileSize, in blocks
  MaxBlocks     \* bound on the size of a file that grows

ASSUME FilesAssumption == {SizeLimit, MaxBlocks} \subseteq Nat /\ SizeLimit >= 1

VARIABLES
  remoteFile, remoteTemp,   \* on the host: the path, and a temporary file of each call
  localFile, localTemp,     \* here: the path, and temporary files by name
  call

filesVars == <<remoteFile, remoteTemp, localFile, localTemp, call>>

Absent == [of |-> "nobody", size |-> 0, whole |-> TRUE]
Whole(who) == [of |-> who, size |-> SizeLimit, whole |-> TRUE]
Half(who) == [of |-> who, size |-> 0, whole |-> FALSE]
NewCall == [kind |-> "none", state |-> "none", data |-> Absent, temp |-> "none"]

FilesInit ==
  /\ remoteFile \in {Absent, Whole("host")}
  /\ remoteTemp = [c \in FileCalls |-> Absent]
  /\ localFile \in {Absent, Whole("user")}
  /\ localTemp = [n \in TempNames |-> Absent]
  /\ call = [c \in FileCalls |-> NewCall]

\* Call c of some kind goes from one step to the next.
CallStep(c, kind, from, to) ==
  /\ call[c].kind = kind /\ call[c].state = from
  /\ call' = [call EXCEPT ![c].state = to]

StartCall(c, kind) ==
  /\ call[c] = NewCall
  /\ call' = [call EXCEPT ![c].kind = kind, ![c].state = "started"]
  /\ UNCHANGED <<remoteFile, remoteTemp, localFile, localTemp>>

\* In explain mode a tool that writes answers success and does nothing; the
\* tools that read go on.
ExplainOnly(c) ==
  /\ call[c].kind # "read"
  /\ CallStep(c, call[c].kind, "started", "done")
  /\ UNCHANGED <<remoteFile, remoteTemp, localFile, localTemp>>

\* The request of a step fails, the session is lost, or the server stops: the
\* call ends where it is.
CallFails(c) ==
  /\ call[c].state \notin {"none", "done", "failed", "cleanup"}
  /\ call' = [call EXCEPT ![c].state =
                IF call[c].kind = "write" /\ call[c].state # "started" THEN "cleanup" ELSE "failed"]
  /\ UNCHANGED <<remoteFile, remoteTemp, localFile, localTemp>>

----------------------------------------------------------------------------
(* writeFile *)

WriteHalfTemp(c) ==
  /\ CallStep(c, "write", "started", "writing")
  /\ remoteTemp' = [remoteTemp EXCEPT ![c] = Half(c)]
  /\ UNCHANGED <<remoteFile, localFile, localTemp>>

WriteWholeTemp(c) ==
  /\ CallStep(c, "write", "writing", "written")
  /\ remoteTemp' = [remoteTemp EXCEPT ![c] = Whole(c)]
  /\ UNCHANGED <<remoteFile, localFile, localTemp>>

\* A server may also refuse to rename onto a file that exists: CallFails.
RenameTemp(c) ==
  /\ CallStep(c, "write", "written", "done")
  /\ remoteFile' = remoteTemp[c]
  /\ remoteTemp' = [remoteTemp EXCEPT ![c] = Absent]
  /\ UNCHANGED <<localFile, localTemp>>

\* sftpUnlink of the temporary file, which may fail as well.
CleanUpTemp(c) ==
  /\ CallStep(c, "write", "cleanup", "failed")
  /\ remoteTemp' \in {remoteTemp, [remoteTemp EXCEPT ![c] = Absent]}
  /\ UNCHANGED <<remoteFile, localFile, localTemp>>

\* The shell script of the fallback goes on after a printf that failed: mv
\* puts half of the file in place, and its exit code is the script's.
ShellWrite(c) ==
  /\ CallStep(c, "shell_write", "started", "done")
  /\ remoteFile' \in {Whole(c), Half(c)}
  /\ UNCHANGED <<remoteTemp, localFile, localTemp>>

----------------------------------------------------------------------------
(* uploadFileWithProgress writes the remote path in place *)

UploadHalf(c) ==
  /\ CallStep(c, "upload", "started", "writing")
  /\ remoteFile' = Half(c)
  /\ UNCHANGED <<remoteTemp, localFile, localTemp>>

\* What it writes goes to the file it opened, which another call may have
\* replaced, or be writing too.
UploadWhole(c) ==
  /\ CallStep(c, "upload", "writing", "written")
  /\ remoteFile' \in
       IF remoteFile.of = c THEN {Whole(c)}
       ELSE IF remoteFile.of \in FileCalls /\ call[remoteFile.of].kind = "upload"
         THEN {remoteFile, Half(c), Whole(c)}
         ELSE {remoteFile}
  /\ UNCHANGED <<remoteTemp, localFile, localTemp>>

\* sha256 of what is read back; a mismatch leaves the file as it is.
VerifyUpload(c) ==
  /\ CallStep(c, "upload", "written", IF remoteFile = Whole(c) THEN "done" ELSE "failed")
  /\ UNCHANGED <<remoteFile, remoteTemp, localFile, localTemp>>

----------------------------------------------------------------------------
(* readFile and downloadFileWithProgress *)

Fetches == {"read", "download"}

StatRemote(c) ==
  /\ call[c].kind \in Fetches /\ remoteFile # Absent
  /\ CallStep(c, call[c].kind, "started", IF remoteFile.size > SizeLimit THEN "failed" ELSE "checked")
  /\ UNCHANGED <<remoteFile, remoteTemp, localFile, localTemp>>

ReadRemote(c) ==
  /\ call[c].kind \in Fetches /\ call[c].state = "checked" /\ remoteFile # Absent
  /\ call' = [call EXCEPT ![c].data = remoteFile,
                          ![c].state = IF call[c].kind = "read" THEN "done" ELSE "read"]
  /\ UNCHANGED <<remoteFile, remoteTemp, localFile, localTemp>>

\* Slip: the file is opened with flag w.
TempIsFreeOrTaken(n) == n \in TempNames

\* Flag wx.  Two downloads of one millisecond ask for the same name.
TempIsFree(n) == localTemp[n] = Absent

CreateLocalTemp(c, n) ==
  /\ call[c].kind = "download" /\ call[c].state = "read"
  /\ TempIsFree(n)
  /\ localTemp' = [localTemp EXCEPT ![n] = Half("nobody")]
  /\ call' = [call EXCEPT ![c].state = "writing", ![c].temp = n]
  /\ UNCHANGED <<remoteFile, remoteTemp, localFile>>

WriteLocalTemp(c) ==
  /\ CallStep(c, "download", "writing", "written")
  /\ localTemp' = [localTemp EXCEPT ![call[c].temp] = call[c].data]
  /\ UNCHANGED <<remoteFile, remoteTemp, localFile>>

\* Only a mismatch removes the temporary file: when a later authorization or
\* the rename fails, it stays.
VerifyDownload(c) ==
  /\ call[c].kind = "download" /\ call[c].state = "written"
  /\ IF localTemp[call[c].temp] = call[c].data
       THEN CallStep(c, "download", "written", "verified") /\ UNCHANGED localTemp
       ELSE /\ CallStep(c, "download", "written", "failed")
            /\ localTemp' = [localTemp EXCEPT ![call[c].temp] = Absent]
  /\ UNCHANGED <<remoteFile, remoteTemp, localFile>>

RenameLocalTemp(c) ==
  /\ CallStep(c, "download", "verified", "done")
  /\ localTemp[call[c].temp] # Absent
  /\ localFile' = localTemp[call[c].temp]
  /\ localTemp' = [localTemp EXCEPT ![call[c].temp] = Absent]
  /\ UNCHANGED <<remoteFile, remoteTemp>>

----------------------------------------------------------------------------

\* removeRecursive: a stat, then an unlink of what is there by then.
StatRemoved(c) ==
  /\ remoteFile # Absent
  /\ CallStep(c, "remove", "started", "checked")
  /\ UNCHANGED <<remoteFile, remoteTemp, localFile, localTemp>>

UnlinkRemoved(c) ==
  /\ remoteFile # Absent
  /\ CallStep(c, "remove", "checked", "done")
  /\ remoteFile' = Absent
  /\ UNCHANGED <<remoteTemp, localFile, localTemp>>

\* Another program of the host appends to the file.
Grow ==
  /\ remoteFile # Absent /\ remoteFile.size < MaxBlocks
  /\ remoteFile' = [remoteFile EXCEPT !.size = @ + 1]
  /\ UNCHANGED <<remoteTemp, localFile, localTemp, call>>

FilesNext ==
  \/ \E c \in FileCalls :
       \/ \E kind \in {"write", "shell_write", "upload", "read", "download", "remove"} : StartCall(c, kind)
       \/ ExplainOnly(c) \/ CallFails(c)
       \/ WriteHalfTemp(c) \/ WriteWholeTemp(c) \/ RenameTemp(c) \/ CleanUpTemp(c) \/ ShellWrite(c)
       \/ UploadHalf(c) \/ UploadWhole(c) \/ VerifyUpload(c)
       \/ StatRemote(c) \/ ReadRemote(c) \/ (\E n \in TempNames : CreateLocalTemp(c, n))
       \/ WriteLocalTemp(c) \/ VerifyDownload(c) \/ RenameLocalTemp(c)
       \/ StatRemoved(c) \/ UnlinkRemoved(c)
  \/ Grow

FilesSpec == FilesInit /\ [][FilesNext]_filesVars

----------------------------------------------------------------------------

\* writeFile, downloadFileWithProgress: a file tool replaces a file at once.
\* Half a file is seen on the host only where an upload or the shell wrote it;
\* and the local path never holds anything but what it held, or all that one
\* download read, whatever fails and however many share a millisecond.
FilesAreReplacedAtOnce ==
  /\ ~remoteFile.whole =>
       \E c \in FileCalls : remoteFile.of = c /\ call[c].kind \in {"upload", "shell_write"}
  /\ localFile \in {Absent, Whole("user")}
                   \cup {call[c].data : c \in {d \in FileCalls : call[d].kind = "download"}}
===========================================================================
