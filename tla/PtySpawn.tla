------------------------------ MODULE PtySpawn ------------------------------
(***************************************************************************)
(* Spawn_PtyProxy: from a command to a running session. It opens the       *)
(* pseudoterminal, starts the helper PtyExec on its slave, and waits for   *)
(* the report pipe: the helper either becomes the shell, which closes the  *)
(* pipe, or writes why it could not. Only then do the goroutines of        *)
(* PtyTeardown start; a launch that fails leaves them unborn.               *)
(*                                                                         *)
(* `launch' is the program counter of the goroutine that spawns. `files'   *)
(* are the descriptors the server has open; from "Spawned" on its master   *)
(* and its pidfd belong to the session, whose variables tell their fate.   *)
(* The child runs by itself and may be killed by anyone at any moment.     *)
(***************************************************************************)
EXTENDS PtyTeardown

VARIABLES
  launch,    \* where Spawn_PtyProxy stands: see FilesOf
  command,   \* what of the command decides about its launch
  files,     \* the descriptors of this launch the server holds
  child,     \* the process between fork and the session
  report,    \* what the report pipe holds: the failed step of the helper
  killed,    \* the group SIGKILL of an abandoned launch has been sent
  reaper     \* reapAbandoned__PtyProcess_Pidfd

launchVars == <<launch, command, files, child, report, killed, reaper>>

(* A name without a slash is looked up in PATH; a NUL is refused.           *)
Commands ==
  [shell: {"path", "bare", "nul"}, directory: {"path", "empty", "nul"},
   environment: {"clean", "nul"}]

(* What `command' holds when nobody needs it any more.                      *)
PlainCommand == [shell |-> "path", directory |-> "path", environment |-> "clean"]

(* The child while it still runs the helper's code, and while it lives.     *)
HelperSteps == {"chdir", "execve", "failing"}
Living      == HelperSteps \cup {"shell"}

LaunchInit ==
  /\ launch = "Idle"
  /\ command = PlainCommand
  /\ files = {}
  /\ child = "none"
  /\ report = NONE
  /\ killed = FALSE
  /\ reaper = "none"

-----------------------------------------------------------------------------
(* Spawn_PtyProxy up to the fork.                                          *)

(* The coordinator's `go backgroundSpawn_PtyProxy__Coordinator'.            *)
BackgroundSpawn(requested) ==
  /\ launch = "Idle"
  /\ launch' = "Prepare"
  /\ command' = requested
  /\ UNCHANGED <<vars, files, child, report, killed, reaper>>

(* One step of the launch that only moves on and changes the descriptors.   *)
Continue(from, to, descriptors) ==
  /\ launch = from
  /\ launch' = to
  /\ files' = descriptors
  /\ UNCHANGED <<vars, command, child, report, killed, reaper>>

(* Prepare__Command_PtyProcess.                                            *)
Prepare__Command ==
  \/ /\ command.shell # "nul" /\ command.directory # "nul" /\ command.environment # "nul"
     /\ Continue("Prepare", "OpenMaster", files)
  \/ /\ \/ command.shell \in {"nul", "bare"}
        \/ command.directory = "nul"
        \/ command.environment = "nul"
     /\ Continue("Prepare", "Failed", files)

(* Open_PtyDescriptor: /dev/ptmx; then unlock, number and window size on    *)
(* the master; then the slave. Each call may fail.                         *)
OpenMaster ==
  \/ Continue("OpenMaster", "ConfigureMaster", {"master"})
  \/ Continue("OpenMaster", "Failed", {})

abortOpen(from) == Continue(from, "Failed", files \ {"master"})

ConfigureMaster == Continue("ConfigureMaster", "OpenSlave", files) \/ abortOpen("ConfigureMaster")

OpenSlave == Continue("OpenSlave", "Pipe", files \cup {"slave"}) \/ abortOpen("OpenSlave")

(* launchPtyExec__Command_PtyProcess: the report pipe, which may not be     *)
(* had; then the fork.                                                     *)
OpenReportPipe ==
  \/ Continue("Pipe", "ForkExec", files \cup {"report_read", "report_write"})
  \/ Continue("Pipe", "Errored", files)

(* ForkExec returns once the child runs PtyExec, or with an error and no    *)
(* child. The child holds the slave and a copy of the write end; the       *)
(* server closes its own either way, and the read end with an error.        *)
Forked(descriptors) ==
  /\ launch = "ForkExec"
  /\ launch' = "Await"
  /\ child' = IF command.directory = "empty" THEN "execve" ELSE "chdir"
  /\ files' = descriptors
  /\ UNCHANGED <<vars, command, report, killed, reaper>>

(* Wrong: the server keeps the write end until it has read the report.      *)
ForkExec_KeepsWriteEnd ==
  \/ Forked(files \cup {"pidfd"})
  \/ Continue("ForkExec", "Errored", files \ {"report_read", "report_write"})

ForkExec ==
  \/ Forked((files \ {"report_write"}) \cup {"pidfd"})
  \/ Continue("ForkExec", "Errored", files \ {"report_read", "report_write"})

-----------------------------------------------------------------------------
(* The child.                                                              *)

ChildStep ==
  /\ launch # "Spawned"
  /\ UNCHANGED <<vars, launch, command, files, killed, reaper>>

(* Entry_PtyExec: its only calls that can fail are chdir and execve; both   *)
(* may also hang. A failure writes one report and exits. The execve of the *)
(* shell closes the report pipe.                                           *)
HelperChdir ==
  /\ child = "chdir"
  /\ \/ child' = "execve" /\ UNCHANGED report
     \/ child' = "failing" /\ report' = "CHDIR"
  /\ ChildStep

HelperExecve ==
  /\ child = "execve"
  /\ \/ child' = "shell" /\ UNCHANGED report
     \/ child' = "failing" /\ report' = "EXECVE"
  /\ ChildStep

(* It exits or is killed. A debugger may withhold the zombie for a while.   *)
ChildEnds ==
  /\ child \in Living
  /\ child' \in IF "FOREIGN" \in Tracers THEN {"zombie", "withheld"} ELSE {"zombie"}
  /\ UNCHANGED report
  /\ ChildStep

ChildReleased ==
  /\ child = "withheld"
  /\ child' = "zombie"
  /\ UNCHANGED report
  /\ ChildStep

-----------------------------------------------------------------------------
(* The answer of the helper.                                               *)

(* await__Report_PtyExec: the read ends with the report, or with the end of *)
(* the file once nobody holds a write end. A helper that was killed before *)
(* it could report looks like a shell that has started.                     *)
await__Report ==
  \/ /\ report # NONE
     /\ Continue("Await", "Errored", files \ {"report_read", "report_write"})
  \/ /\ report = NONE
     /\ "report_write" \notin files /\ child \notin HelperSteps
     /\ Continue("Await", "Started", files \ {"report_read", "report_write"})

(* Spawn_PtyProcess after an error: a child there is gets its reaper.       *)
AbandonErrored ==
  /\ launch = "Errored"
  /\ launch' = "Unwind"
  /\ reaper' = IF "pidfd" \in files THEN "polling" ELSE "none"
  /\ UNCHANGED <<vars, command, files, child, report, killed>>

(* Wrong: reaps without the kill.                                           *)
AbandonUnpollable_Unkilled ==
  /\ launch = "Started"
  /\ launch' = "Unwind"
  /\ reaper' = "polling"
  /\ UNCHANGED <<vars, command, files, child, report, killed>>

(* The pidfd cannot be polled (SetReadDeadline fails): the shell runs, but  *)
(* nothing could watch it, so its group is killed and it gets a reaper.     *)
AbandonUnpollable ==
  /\ launch = "Started"
  /\ launch' = "Unwind"
  /\ killed' = TRUE
  /\ reaper' = "polling"
  /\ UNCHANGED <<vars, command, files, child, report>>

Watchable == Continue("Started", "Alive", files)

(* Back in Spawn_PtyProxy: the slave is closed, and with an error the       *)
(* master too.                                                             *)
Unwind == Continue("Unwind", "Failed", files \ {"slave", "master"})

(* New_PtyTeardown and the two goroutines: the session takes the process    *)
(* over, which may have ended by now.                                       *)
Handover ==
  /\ launch = "Alive"
  /\ launch' = "Spawned"
  /\ files' = files \ {"slave"}
  /\ child' = "owned"
  /\ IF child \in {"zombie", "withheld"}
     THEN kernel' = child /\ termination' \in Terminations
     ELSE UNCHANGED <<kernel, termination>>
  /\ tracer' = IF child = "withheld" THEN "FOREIGN" ELSE tracer
  /\ command' = PlainCommand
  /\ UNCHANGED <<trap, State_state, worker, peeked, pidfd, Channel_FinalState, sent, panicked,
                 teardownVars, environmentVars, report, killed, reaper>>

(* reapAbandoned__PtyProcess_Pidfd: one poll that finds the zombie, and the *)
(* close; a poll that finds nothing changes nothing.                        *)
reapAbandoned ==
  /\ reaper = "polling"
  /\ child = "zombie"
  /\ child' = "reaped"
  /\ files' = files \ {"pidfd"}
  /\ reaper' = "done"
  /\ UNCHANGED <<vars, launch, command, report, killed>>

-----------------------------------------------------------------------------
Launch ==
  \/ Prepare__Command \/ OpenMaster \/ ConfigureMaster \/ OpenSlave \/ OpenReportPipe
  \/ ForkExec \/ await__Report \/ AbandonErrored \/ AbandonUnpollable \/ Watchable
  \/ Unwind \/ Handover

Child == HelperChdir \/ HelperExecve \/ ChildEnds \/ ChildReleased

Session_PtyProxy == launch = "Spawned" /\ Next /\ UNCHANGED launchVars

(* What PtyTeardown!Fairness says of the session's goroutines, once they    *)
(* have been started; the others of the launch and the reaper run too.     *)
(* Nothing is assumed of the child.                                        *)
Runs == launch = "Spawned" /\ ~panicked

SessionFairness ==
  /\ WF_vars(Runs /\ RunWorker /\ UNCHANGED <<teardownVars, environmentVars>>)
  /\ SF_vars(Runs /\ (Terminate \/ Cancel \/ ReaderStarted \/ ReaderFinished))
  /\ SF_vars(Runs /\ HandleFinalState)
  /\ SF_vars(Runs /\ HandleDrain)
  /\ SF_vars(Runs /\ HandleUnresponsive)
  /\ SF_vars(Runs /\ HandleUninterruptible)
  /\ WF_vars(Runs /\ Settle)
  /\ SF_vars(Runs /\ HandleReaderFinished)
  /\ WF_vars(Runs /\ Status_Master = "CLOSED" /\ ReaderError)
  /\ WF_vars(Runs /\ (SpawnSuccess \/ SpawnCanceled))

-----------------------------------------------------------------------------
(* Properties.                                                             *)

Ended == {"Failed", "Spawned"}

(* Whichever of its eight calls failed, a launch that ends in an error      *)
(* leaves no descriptor open but the pidfd of a child that is still to be   *)
(* reaped, has a reaper exactly while there is such a child, and lets no    *)
(* shell live that has not been killed. One that succeeds leaves master and *)
(* pidfd to the session, and nobody else to reap or kill its process.       *)
FailedLaunchLeavesNothing ==
  /\ launch = "Failed" =>
       /\ files = IF reaper = "polling" THEN {"pidfd"} ELSE {}
       /\ reaper = "polling" <=> child \notin {"none", "reaped"}
       /\ child \in Living => child = "failing" \/ killed
  /\ launch = "Spawned" => files = {"master", "pidfd"} /\ reaper = "none" /\ ~killed

(* Only a helper that hangs in chdir or execve can hold a launch up: else   *)
(* it ends, because it notices a shell that has started and a helper that   *)
(* has died alike; and the zombie of a failed launch is reaped.             *)
LaunchSettles ==
  /\ (launch \notin Ended \cup {"Idle"} /\ child \notin HelperSteps)
       ~> (launch \in Ended \/ child \in HelperSteps)
  /\ (launch = "Failed" /\ child = "zombie") ~> (child = "reaped" /\ files = {})

(* Why that is so: the descriptors and the child at every point of the      *)
(* launch. Held is the pidfd an abandoned child keeps open.                 *)
Held == IF reaper = "polling" THEN {"pidfd"} ELSE {}

FilesOf ==
  /\ launch \in {"Idle", "Prepare", "OpenMaster"} => files = {}
  /\ launch \in {"ConfigureMaster", "OpenSlave"} => files = {"master"}
  /\ launch = "Pipe" => files = {"master", "slave"}
  /\ launch = "ForkExec" => files = {"master", "slave", "report_read", "report_write"}
  /\ launch = "Await" => files = {"master", "slave", "report_read", "pidfd"}
  /\ launch = "Errored" =>
       files = {"master", "slave"} \cup (IF child = "none" THEN {} ELSE {"pidfd"})
  /\ launch \in {"Started", "Alive"} => files = {"master", "slave", "pidfd"}
  /\ launch = "Unwind" => files = {"master", "slave"} \cup Held
  /\ launch = "Failed" => files = Held
  /\ launch = "Spawned" => files = {"master", "pidfd"}

ChildOf ==
  /\ launch \in {"Idle", "Prepare", "OpenMaster", "ConfigureMaster", "OpenSlave", "Pipe",
                 "ForkExec"} => child = "none"
  /\ launch = "Await" => child \in Living \cup {"withheld", "zombie"}
  /\ launch = "Errored" => child \in {"none", "failing", "withheld", "zombie"}
  /\ launch \in {"Started", "Alive"} => child \in {"shell", "withheld", "zombie"}
  /\ launch \in {"Unwind", "Failed"} =>
       /\ child \in {"none", "failing", "shell", "withheld", "zombie", "reaped"}
       /\ child = "shell" => killed
  /\ child \in {"none", "chdir", "execve", "shell"} => report = NONE

ReaperOf ==
  /\ launch \notin {"Unwind", "Failed"} => reaper = "none" /\ ~killed
  /\ launch \in {"Unwind", "Failed"} => (reaper = "polling" <=> child \notin {"none", "reaped"})

LaunchInvariant == FilesOf /\ ChildOf /\ ReaperOf
=============================================================================
