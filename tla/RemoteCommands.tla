---------------------------- MODULE RemoteCommands ----------------------------
(***************************************************************************)
(* A command on a remote host: execCommand and execSudo of                 *)
(* src/src/process.ts and execWithStreaming of src/src/streaming.ts.       *)
(*                                                                         *)
(* The promise of a call settles on the first of its timer, the end of the *)
(* command and the loss of the connection; the command itself goes on, and *)
(* its output keeps arriving: of execCommand's commands, timeout(1) of the *)
(* host ends those, if it has one.                                         *)
(* A character is its width in bytes, a chunk a sequence of characters.    *)
(***************************************************************************)
EXTENDS Integers, Sequences, FiniteSets

CONSTANTS
  OutputChunks,   \* chunks a command may write
  MaxOutput,      \* bound on the chunks of a command
  MaxBytes,       \* config.maxCommandOutputBytes
  MarkerBytes,    \* length of the marker of truncateText
  MaxChunks       \* config.maxStreamChunks

Widths == 1..4   \* of a character in UTF-8

ASSUME CommandsAssumption ==
  /\ {MaxOutput, MaxBytes, MarkerBytes, MaxChunks} \subseteq Nat
  /\ OutputChunks \subseteq Seq(Widths)

VARIABLES
  kind,        \* exec, sudo or stream
  settled,     \* how the promise was settled
  remote,      \* the command on the host
  arrived,     \* history: the chunks as they came, [stream, data]
  output,      \* history: all of stdout and of stderr
  text,        \* what is kept of stdout and stderr
  chunks,      \* streaming: [stream, data] of the chunks that were kept
  truncated    \* streaming: the flag; else whether a marker was added

remoteVars == <<kind, settled, remote, arrived, output, text, chunks, truncated>>

Streams == {"stdout", "stderr"}

RemoteInit ==
  /\ kind \in {"exec", "sudo", "stream"}
  /\ settled = "no" /\ remote = "none"
  /\ arrived = <<>> /\ output = [s \in Streams |-> <<>>]
  /\ text = [s \in Streams |-> <<>>]
  /\ chunks = <<>> /\ truncated = FALSE

Bytes(chars) == Cardinality({b \in (DOMAIN chars) \X Widths : b[2] <= chars[b[1]]})

\* The longest beginning of chars within a number of bytes.
Within(chars, bytes) ==
  LET fits == {n \in 0..Len(chars) : Bytes(SubSeq(chars, 1, n)) <= bytes}
  IN  SubSeq(chars, 1, CHOOSE n \in fits : \A k \in fits : k <= n)

----------------------------------------------------------------------------

\* A denied call, or one in explain mode, is answered without a command.
Answered ==
  /\ remote = "none" /\ settled = "no"
  /\ settled' \in {"denied", "explained"}
  /\ UNCHANGED <<kind, remote, arrived, output, text, chunks, truncated>>

RunRemote ==
  /\ remote = "none" /\ settled = "no"
  /\ remote' = "running"
  /\ UNCHANGED <<kind, settled, arrived, output, text, chunks, truncated>>

\* appendBounded: what is kept of a chunk.  A chunk that does not fit loses
\* its end, and a later one may still fit behind the gap.
Fitting(s, chunk) == Within(chunk, IF MaxBytes > Bytes(text[s]) THEN MaxBytes - Bytes(text[s]) ELSE 0)

\* Slip: the flag is set anew by every chunk.
TruncatedBy(s, chunk) == Fitting(s, chunk) # chunk \/ Len(chunks) >= MaxChunks

Truncates(s, chunk) == truncated \/ Fitting(s, chunk) # chunk \/ Len(chunks) >= MaxChunks

\* onStdout and onStderr, which go on after the promise was rejected.
Writes(s, chunk) ==
  /\ remote = "running" /\ Len(arrived) < MaxOutput
  /\ arrived' = Append(arrived, [stream |-> s, data |-> chunk])
  /\ output' = [output EXCEPT ![s] = @ \o chunk]
  /\ IF kind = "stream"
       THEN /\ text' = [text EXCEPT ![s] = @ \o Fitting(s, chunk)]
            /\ truncated' = Truncates(s, chunk)
            /\ chunks' = IF Len(chunks) < MaxChunks /\ Fitting(s, chunk) = chunk
                           THEN Append(chunks, [stream |-> s, data |-> chunk]) ELSE chunks
       ELSE UNCHANGED <<text, chunks, truncated>>
  /\ UNCHANGED <<kind, settled, remote>>

\* The timer of execWithTimeout or of the stream.
LocalTimeout ==
  /\ remote # "none" /\ settled = "no"
  /\ settled' = "timeout"
  /\ UNCHANGED <<kind, remote, arrived, output, text, chunks, truncated>>

\* Codes 124, 137 and 143 are timeout(1)'s, and may be the command's own.
RemoteEnds ==
  /\ remote = "running"
  /\ remote' \in {"exited", "code124"}
  /\ UNCHANGED <<kind, settled, arrived, output, text, chunks, truncated>>

\* truncateText
TruncateText(chars) ==
  IF Bytes(chars) <= MaxBytes THEN chars
  ELSE Within(chars, IF MaxBytes > MarkerBytes THEN MaxBytes - MarkerBytes ELSE 0)

\* The result of ssh.execCommand, with all the output for exec and sudo.
Result ==
  /\ settled = "no" /\ remote \in {"exited", "code124"}
  /\ settled' = IF kind = "exec" /\ remote = "code124" THEN "timeout" ELSE "result"
  /\ IF kind = "stream" THEN UNCHANGED <<text, truncated>>
     ELSE /\ text' = [s \in Streams |-> TruncateText(output[s])]
          /\ truncated' = \E s \in Streams : Bytes(output[s]) > MaxBytes
  /\ UNCHANGED <<kind, remote, arrived, output, chunks>>

ConnectionLost ==
  /\ remote # "none" /\ settled = "no"
  /\ settled' = "failed"
  /\ UNCHANGED <<kind, remote, arrived, output, text, chunks, truncated>>

RemoteNext ==
  \/ Answered \/ RunRemote \/ LocalTimeout \/ RemoteEnds \/ Result \/ ConnectionLost
  \/ \E s \in Streams, chunk \in OutputChunks : Writes(s, chunk)

RemoteSpec == RemoteInit /\ [][RemoteNext]_remoteVars

----------------------------------------------------------------------------

\* execWithStreaming, truncateText: the caller of a command can tell whether
\* it got all of the output.  The flag, or the marker, is there if and only if
\* something is missing, from the chunks of a stream or from the text.
OutputIsAccountedFor ==
  settled = "result" =>
    truncated <=> (\E s \in Streams : text[s] # output[s]) \/ (kind = "stream" /\ chunks # arrived)
=============================================================================
