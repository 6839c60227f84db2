---------------------------- MODULE AgentCommands ----------------------------
(***************************************************************************)
(* The commands a remote agent runs: execute and runCommand in             *)
(* src/src/remote/agent-executor.ts, on a POSIX host.                      *)
(*                                                                         *)
(* A command is a process group of its own.  It is answered on the close   *)
(* event of the child, that is when the leader has exited and nobody holds *)
(* its output pipes any more.  The timeout sends SIGTERM to the group,     *)
(* and 1.5 seconds later SIGKILL, whether or not the command has been      *)
(* answered by then.                                                       *)
(***************************************************************************)
EXTENDS Naturals, FiniteSets

CONSTANTS
  Runs,   \* action requests
  Pids,   \* process ids, used again once free
  NoPid

ASSUME RunsAssumption == NoPid \notin Pids

VARIABLES
  run,      \* what execute knows of a request
  leader,   \* the process that was spawned
  helper,   \* a process it started, which inherits the pipes
  enabled,  \* whether the agent's policy enables the capability
  agentUp   \* the agent process

commandVars == <<run, leader, helper, enabled, agentUp>>

NoRun == [state |-> "idle", pid |-> NoPid, timedOut |-> FALSE, escalation |-> "off", answer |-> "none"]

CommandsInit ==
  /\ run = [r \in Runs |-> NoRun]
  /\ leader = [r \in Runs |-> "none"]
  /\ helper = [r \in Runs |-> "none"]
  /\ enabled \in BOOLEAN
  /\ agentUp = TRUE

\* A group exists, and keeps its id, as long as a process is in it.
GroupUp(r) == leader[r] = "up" \/ helper[r] = "in"
GroupsOf(pid) == {r \in Runs : run[r].pid = pid /\ GroupUp(r)}

----------------------------------------------------------------------------

\* updatePolicy: a later push replaces the policy under a request.
UpdatePolicy ==
  /\ agentUp
  /\ enabled' = ~enabled
  /\ UNCHANGED <<run, leader, helper, agentUp>>

\* executeAllowed: the answer of a refusal is an error result.
Refuse(r) ==
  /\ agentUp /\ run[r].state = "idle" /\ ~enabled
  /\ run' = [run EXCEPT ![r].state = "answered", ![r].answer = "denied"]
  /\ UNCHANGED <<leader, helper, enabled, agentUp>>

\* runShell awaits access(cwd) after the policy was asked.
Execute(r) ==
  /\ agentUp /\ run[r].state = "idle" /\ enabled
  /\ run' = [run EXCEPT ![r].state = "allowed"]
  /\ UNCHANGED <<leader, helper, enabled, agentUp>>

Spawn(r, pid) ==
  /\ agentUp /\ run[r].state = "allowed" /\ GroupsOf(pid) = {}
  /\ run' = [run EXCEPT ![r].state = "running", ![r].pid = pid]
  /\ leader' = [leader EXCEPT ![r] = "up"]
  /\ UNCHANGED <<helper, enabled, agentUp>>

\* No directory, or the error event: exit code 127.
SpawnFails(r) ==
  /\ agentUp /\ run[r].state = "allowed"
  /\ run' = [run EXCEPT ![r].state = "answered", ![r].answer = "failed"]
  /\ UNCHANGED <<leader, helper, enabled, agentUp>>

\* The command may start a helper, which may leave the group with the pipes.
StartHelper(r) ==
  /\ leader[r] = "up" /\ helper[r] = "none"
  /\ helper' = [helper EXCEPT ![r] = "in"]
  /\ UNCHANGED <<run, leader, enabled, agentUp>>

LeaveGroup(r) ==
  /\ helper[r] = "in"
  /\ helper' = [helper EXCEPT ![r] = "out"]
  /\ UNCHANGED <<run, leader, enabled, agentUp>>

Exits(r) ==
  /\ \/ /\ leader[r] = "up"
        /\ leader' = [leader EXCEPT ![r] = "gone"]
        /\ UNCHANGED helper
     \/ /\ helper[r] \in {"in", "out"}
        /\ helper' = [helper EXCEPT ![r] = "gone"]
        /\ UNCHANGED leader
  /\ UNCHANGED <<run, enabled, agentUp>>

----------------------------------------------------------------------------
(* The timers and the answer *)

\* Every process of the groups G is gone; processes that left are not reached.
Killed(G) ==
  /\ leader' = [r \in Runs |-> IF r \in G /\ leader[r] = "up" THEN "gone" ELSE leader[r]]
  /\ helper' = [r \in Runs |-> IF r \in G /\ helper[r] = "in" THEN "gone" ELSE helper[r]]

\* SIGTERM may be ignored; what it ends, Exits ends.
Timeout(r) ==
  /\ agentUp /\ run[r].state = "running" /\ ~run[r].timedOut
  /\ run' = [run EXCEPT ![r].timedOut = TRUE, ![r].escalation = "armed"]
  /\ UNCHANGED <<leader, helper, enabled, agentUp>>

\* Slip: the child alone is killed.
EscalateToChild(r) ==
  /\ agentUp /\ run[r].escalation = "armed"
  /\ leader' = [leader EXCEPT ![r] = "gone"]
  /\ run' = [run EXCEPT ![r].escalation = "fired"]
  /\ UNCHANGED <<helper, enabled, agentUp>>

\* The second timer is not cleared by the close event.  It kills whatever
\* group has the id by now.
Escalate(r) ==
  /\ agentUp /\ run[r].escalation = "armed"
  /\ Killed(GroupsOf(run[r].pid))
  /\ run' = [run EXCEPT ![r].escalation = "fired"]
  /\ UNCHANGED <<enabled, agentUp>>

\* The close event.  The code of a child that a signal ended is null, read as 0.
Close(r) ==
  /\ agentUp /\ run[r].state = "running"
  /\ leader[r] = "gone" /\ helper[r] \notin {"in", "out"}
  /\ run' = [run EXCEPT ![r].state = "answered",
                        ![r].answer = IF run[r].timedOut THEN "timeout" ELSE "code"]
  /\ UNCHANGED <<leader, helper, enabled, agentUp>>

\* runAgent's promise ends with the connection and agent-bin exits: commands
\* and their helpers go on, without timers.
AgentExits ==
  /\ agentUp
  /\ agentUp' = FALSE
  /\ UNCHANGED <<run, leader, helper, enabled>>

CommandsNext ==
  \/ UpdatePolicy \/ AgentExits
  \/ \E r \in Runs :
       \/ Refuse(r) \/ Execute(r) \/ SpawnFails(r) \/ (\E pid \in Pids : Spawn(r, pid))
       \/ StartHelper(r) \/ LeaveGroup(r) \/ Exits(r)
       \/ Timeout(r) \/ Escalate(r) \/ Close(r)

\* Timers fire and the close event is delivered; nothing is asked of commands.
CommandsFairness ==
  \A r \in Runs : /\ WF_commandVars(Timeout(r))
                  /\ WF_commandVars(Escalate(r))
                  /\ WF_commandVars(Close(r))

CommandsSpec == CommandsInit /\ [][CommandsNext]_commandVars /\ CommandsFairness

----------------------------------------------------------------------------

\* runCommand: a command that never exits and ignores SIGTERM, and with it the
\* helpers of its group, is answered all the same; only a helper that left the
\* group with the pipes, or the end of the agent, can keep the caller waiting.
CommandsEnd ==
  \A r \in Runs :
    run[r].state = "running" ~> run[r].state = "answered" \/ helper[r] = "out" \/ ~agentUp
=============================================================================
