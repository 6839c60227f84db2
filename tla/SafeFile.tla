------------------------------- MODULE SafeFile -------------------------------
(***************************************************************************)
(* Reads and writes of one path by a remote agent: withAuthorizedRead and  *)
(* writeAuthorizedFileAtomic in src/src/remote/safe-file.ts, on Linux, for *)
(* requests that the policy allows.                                        *)
(*                                                                         *)
(* The file system keeps two versions of every file and of the directory   *)
(* entry: what processes see, and what is on the disk.  It may write       *)
(* either back at any time and in any order; a crash leaves what is on the *)
(* disk.  Writer w writes the content w, not all of it at once.            *)
(***************************************************************************)
EXTENDS Naturals, Sequences

CONSTANTS
  Writers,    \* write requests
  Readers,    \* read requests
  OldFile     \* the inode of the file before

Inodes == Writers \cup {OldFile}   \* a writer creates one inode, its temporary file
Partial == "partial"
Nothing == "nothing"

ASSUME FileAssumption == OldFile \notin Writers /\ {Partial, Nothing} \cap Inodes = {}

VARIABLES
  seen,      \* content of each inode as processes see it
  disk,      \* and on the disk
  entry,     \* the inode the path names, or Nothing
  entryDisk,
  writing,   \* steps of writeAuthorizedFileAtomic
  reading,   \* steps of withAuthorizedRead
  renamed    \* history: writers in the order of their renames

fileVars == <<seen, disk, entry, entryDisk, writing, reading, renamed>>

Resting == [state |-> "idle", inode |-> Nothing, content |-> Nothing]

FileInit ==
  /\ seen = [i \in Inodes |-> IF i = OldFile THEN OldFile ELSE Nothing]
  /\ disk = seen
  /\ entry \in {OldFile, Nothing}
  /\ entryDisk = entry
  /\ writing = [w \in Writers |-> Resting]
  /\ reading = [r \in Readers |-> Resting]
  /\ renamed = <<>>

WriteStep(w, from, to) ==
  /\ writing[w].state = from
  /\ writing' = [writing EXCEPT ![w].state = to]

----------------------------------------------------------------------------
(* writeAuthorizedFileAtomic *)

\* realpath, then openExistingFile, which wants the mode of what is there.
OpenTarget(w) ==
  /\ writing[w] = Resting
  /\ writing' = [writing EXCEPT ![w].state = IF entry = Nothing THEN "parent" ELSE "opened",
                                ![w].inode = entry]
  /\ UNCHANGED <<seen, disk, entry, entryDisk, reading, renamed>>

\* verifyOpenedHandle: what was opened must still be what the path names; a
\* rename by another request in between is taken for a policy violation.
VerifyTarget(w) ==
  /\ writing[w].state = "opened"
  /\ writing' = [writing EXCEPT ![w].state = IF entry = writing[w].inode THEN "parent" ELSE "denied"]
  /\ UNCHANGED <<seen, disk, entry, entryDisk, reading, renamed>>

CreateTemporary(w) ==
  /\ WriteStep(w, "parent", "created")
  /\ seen' = [seen EXCEPT ![w] = Partial]
  /\ UNCHANGED <<disk, entry, entryDisk, reading, renamed>>

WriteTemporary(w) ==
  /\ WriteStep(w, "created", "written")
  /\ seen' = [seen EXCEPT ![w] = w]
  /\ UNCHANGED <<disk, entry, entryDisk, reading, renamed>>

\* Slip: the file is closed without fsync.
CloseTemporary(w) ==
  /\ WriteStep(w, "written", "synced")
  /\ UNCHANGED <<seen, disk, entry, entryDisk, reading, renamed>>

SyncTemporary(w) ==
  /\ WriteStep(w, "written", "synced")
  /\ disk' = [disk EXCEPT ![w] = seen[w]]
  /\ UNCHANGED <<seen, entry, entryDisk, reading, renamed>>

RenameTemporary(w) ==
  /\ WriteStep(w, "synced", "renamed")
  /\ entry' = w
  /\ renamed' = Append(renamed, w)
  /\ UNCHANGED <<seen, disk, entryDisk, reading>>

SyncParent(w) ==
  /\ WriteStep(w, "renamed", "acknowledged")
  /\ entryDisk' = entry
  /\ UNCHANGED <<seen, disk, entry, reading, renamed>>

\* Every step may fail; the temporary file is unlinked, if it still has its
\* name.  A failure after the rename is reported although the file is written.
WriteFails(w) ==
  /\ writing[w].state \in {"parent", "created", "written", "synced", "renamed"}
  /\ writing' = [writing EXCEPT ![w].state = "failed"]
  /\ UNCHANGED <<seen, disk, entry, entryDisk, reading, renamed>>

----------------------------------------------------------------------------
(* withAuthorizedRead *)

OpenRead(r) ==
  /\ reading[r] = Resting
  /\ reading' = [reading EXCEPT ![r].state = IF entry = Nothing THEN "denied" ELSE "opened",
                                ![r].inode = entry]
  /\ UNCHANGED <<seen, disk, entry, entryDisk, writing, renamed>>

VerifyRead(r) ==
  /\ reading[r].state = "opened"
  /\ reading' = [reading EXCEPT ![r].state = IF entry = reading[r].inode THEN "verified" ELSE "denied"]
  /\ UNCHANGED <<seen, disk, entry, entryDisk, writing, renamed>>

ReadFile(r) ==
  /\ reading[r].state = "verified"
  /\ reading' = [reading EXCEPT ![r].state = "done", ![r].content = seen[reading[r].inode]]
  /\ UNCHANGED <<seen, disk, entry, entryDisk, writing, renamed>>

----------------------------------------------------------------------------
(* The file system and the host *)

WriteBack ==
  /\ \/ \E i \in Inodes : disk' = [disk EXCEPT ![i] = seen[i]] /\ UNCHANGED entryDisk
     \/ entryDisk' = entry /\ UNCHANGED disk
  /\ UNCHANGED <<seen, entry, writing, reading, renamed>>

\* What was under way is lost, its temporary file stays.
Lost(requests) ==
  [q \in DOMAIN requests |->
    IF requests[q].state \in {"idle", "acknowledged", "failed", "denied", "done"}
      THEN requests[q] ELSE [requests[q] EXCEPT !.state = "failed"]]

AgentStops ==
  /\ writing' = Lost(writing)
  /\ reading' = Lost(reading)
  /\ UNCHANGED <<seen, disk, entry, entryDisk, renamed>>

HostCrashes ==
  /\ seen' = disk
  /\ entry' = entryDisk
  /\ writing' = Lost(writing)
  /\ reading' = Lost(reading)
  /\ UNCHANGED <<disk, entryDisk, renamed>>

FileNext ==
  \/ \E w \in Writers :
       \/ OpenTarget(w) \/ VerifyTarget(w) \/ CreateTemporary(w) \/ WriteTemporary(w)
       \/ SyncTemporary(w) \/ RenameTemporary(w) \/ SyncParent(w) \/ WriteFails(w)
  \/ \E r \in Readers : OpenRead(r) \/ VerifyRead(r) \/ ReadFile(r)
  \/ WriteBack \/ AgentStops \/ HostCrashes

FileSpec == FileInit /\ [][FileNext]_fileVars

----------------------------------------------------------------------------

\* Writers whose renames came after w's.
After(w) == {v \in Writers : \E i, j \in DOMAIN renamed : i < j /\ renamed[i] = w /\ renamed[j] = v}

\* writeAuthorizedFileAtomic: whoever opens the path, even after the host
\* crashed, finds one whole content; and an acknowledged write is there until
\* a later rename replaces it.
WritesAreWholeAndKept ==
  /\ entry # Nothing => seen[entry] \in Inodes
  /\ \A r \in Readers : reading[r].state = "done" => reading[r].content \in Inodes
  /\ \A w \in Writers : writing[w].state = "acknowledged" => entry \in {w} \cup After(w)
=============================================================================
