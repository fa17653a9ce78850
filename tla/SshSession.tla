----------------------------- MODULE SshSession -----------------------------
(***************************************************************************)
(* app/core/ssh_client.py under /ssh (cli/commands/ssh_cmds.py): a client  *)
(* that is one paramiko connection if paramiko is installed, and otherwise *)
(* an ssh or scp of the system for every command, with 60 seconds each.    *)
(*                                                                         *)
(* _run_paramiko waits for the exit status before it reads any output.     *)
(* The 60 seconds it asks for hold for reading only: a command that does   *)
(* not end, or whose output does not fit in the channel, is waited for     *)
(* until the connection is seen to break.  What is printed, and the        *)
(* contents of transferred files, are left out.                            *)
(***************************************************************************)
EXTENDS Naturals, Sequences

CONSTANTS
  RemoteKinds,  \* of commands: "short", "flood" (its output is long), "endless"
  MaxRemote,    \* bound: commands that are run
  MaxBreaks     \* bound: connections that break

ASSUME SshAssumption ==
  /\ RemoteKinds \subseteq {"short", "flood", "endless"}
  /\ MaxRemote \in Nat /\ MaxBreaks \in Nat

VARIABLES
  paramiko,   \* whether it is installed
  sshClient,  \* what the session has: "none", a "paramiko" connection, or "ssh"
  link,       \* that connection, or the one of this call of ssh, is up
  sshCall,    \* what the program is at: "idle", "connect", "run", "transfer", "down"
  remote,     \* the commands that the host was given: [kind, at]
  breaks

sshVars == <<paramiko, sshClient, link, sshCall, remote, breaks>>

SshInit ==
  /\ paramiko \in BOOLEAN
  /\ sshClient = "none" /\ link = FALSE
  /\ sshCall = "idle"
  /\ remote = <<>>
  /\ breaks = 0

Latest == Len(remote)

-----------------------------------------------------------------------------
(* The session.                                                            *)

\* The old connection is closed before the new one is tried.
DoConnect ==
  /\ sshCall = "idle" /\ sshCall' = "connect"
  /\ sshClient' = "none" /\ link' = FALSE
  /\ UNCHANGED <<paramiko, remote, breaks>>

\* Without paramiko an "echo connected" is run, and its connection is over.
SshConnected ==
  /\ sshCall = "connect" /\ sshCall' = "idle"
  /\ \/ sshClient' = (IF paramiko THEN "paramiko" ELSE "ssh") /\ link' = paramiko
     \/ UNCHANGED <<sshClient, link>>
  /\ UNCHANGED <<paramiko, remote, breaks>>

DoClose ==
  /\ sshCall = "idle" /\ sshClient # "none"
  /\ sshClient' = "none" /\ link' = FALSE
  /\ UNCHANGED <<paramiko, sshCall, remote, breaks>>

\* Nothing tells the client that its connection broke, and it makes no new one:
\* every command fails at once until the user connects again.
Reaches ==
  /\ sshCall = "idle"
  /\ sshClient # "none"
  /\ sshClient = "paramiko" => link

-----------------------------------------------------------------------------
(* /ssh run                                                                *)

DoRun(kind) ==
  /\ Reaches
  /\ Latest < MaxRemote
  /\ remote' = Append(remote, [kind |-> kind, at |-> "runs"])
  /\ link' = TRUE
  /\ sshCall' = "run"
  /\ UNCHANGED <<paramiko, sshClient, breaks>>

\* The connection has the exit status, or is over without one.
HasStatus == remote[Latest].at = "ended" \/ ~link

RunParamiko ==
  /\ sshCall = "run" /\ sshClient = "paramiko"
  /\ HasStatus
  /\ sshCall' = "idle"
  /\ UNCHANGED <<paramiko, sshClient, link, remote, breaks>>

\* Mutant of the next: without the time limit.
RunUntilEnd ==
  /\ sshCall = "run" /\ sshClient = "ssh"
  /\ HasStatus
  /\ sshCall' = "idle" /\ link' = FALSE
  /\ UNCHANGED <<paramiko, sshClient, remote, breaks>>

\* ssh ends with its status, or its time limit kills it, whatever becomes of the
\* command on the host.
RunSubprocess ==
  /\ sshCall = "run" /\ sshClient = "ssh"
  /\ sshCall' = "idle" /\ link' = FALSE
  /\ UNCHANGED <<paramiko, sshClient, remote, breaks>>

-----------------------------------------------------------------------------
(* /ssh upload and /ssh download: a paramiko connection has no time limit,  *)
(* but the host answers.                                                    *)

DoTransfer ==
  /\ Reaches
  /\ sshCall' = "transfer" /\ link' = TRUE
  /\ UNCHANGED <<paramiko, sshClient, remote, breaks>>

TransferEnds ==
  /\ sshCall = "transfer" /\ sshCall' = "idle"
  /\ link' = (link /\ sshClient = "paramiko")
  /\ UNCHANGED <<paramiko, sshClient, remote, breaks>>

-----------------------------------------------------------------------------
(* The host, the net, and the user.                                        *)

\* Nobody reads what command i writes, and it waits for room.
Unread(i) == i = Latest /\ sshCall = "run" /\ sshClient = "paramiko" /\ link

RemoteEnds(i) ==
  /\ remote[i].at = "runs"
  /\ remote[i].kind # "endless"
  /\ remote[i].kind = "flood" => ~Unread(i)
  /\ remote' = [remote EXCEPT ![i].at = "ended"]
  /\ UNCHANGED <<paramiko, sshClient, link, sshCall, breaks>>

LinkBreaks ==
  /\ link /\ breaks < MaxBreaks
  /\ link' = FALSE /\ breaks' = breaks + 1
  /\ UNCHANGED <<paramiko, sshClient, sshCall, remote>>

\* The program ends, by Ctrl-C also within a call, and is started again.
StopSsh ==
  /\ sshCall # "down" /\ sshCall' = "down"
  /\ sshClient' = "none" /\ link' = FALSE
  /\ UNCHANGED <<paramiko, remote, breaks>>

StartSsh ==
  /\ sshCall = "down" /\ sshCall' = "idle"
  /\ UNCHANGED <<paramiko, sshClient, link, remote, breaks>>

SshStep == SshConnected \/ RunParamiko \/ RunSubprocess \/ TransferEnds

SshNext ==
  \/ SshStep
  \/ DoConnect \/ DoClose \/ DoTransfer
  \/ \E kind \in RemoteKinds : DoRun(kind)
  \/ \E i \in 1..Latest : RemoteEnds(i)
  \/ LinkBreaks \/ StopSsh \/ StartSsh

\* The client goes on, and a command of the host that can end does.
SshFairness ==
  /\ WF_sshVars(SshStep)
  /\ WF_sshVars(\E i \in 1..Latest : RemoteEnds(i))

-----------------------------------------------------------------------------
SshBusy == sshCall \in {"connect", "run", "transfer"}

\* The one call that may never return: its command has no end, or writes more
\* than the channel holds, and its connection stays.
WaitsForStatus ==
  sshCall = "run" /\ sshClient = "paramiko" /\ link /\ remote[Latest].kind # "short"

\* Every other /ssh command returns, with either client, whatever becomes of the
\* connection, of the command on the host, and of those that earlier calls have
\* left there (SSHClient.connect, run, upload and download).
SshCommandReturns == SshBusy /\ ~WaitsForStatus ~> ~SshBusy
=============================================================================
