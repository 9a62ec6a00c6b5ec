----------------------------- MODULE PtyTeardown -----------------------------
(***************************************************************************)
(* _PtyTeardown_: the actor that ends one PTY session. It joins the final  *)
(* state of the process (PtyProcess), the end of the reader, the commands  *)
(* of the coordinator and three timers, closes the master, and emits one   *)
(* ExitPty order.                                                          *)
(*                                                                         *)
(* Around it stand the goroutines it talks to, each with the steps that    *)
(* touch it: the coordinator (one spawn result, then any number of         *)
(* Terminates), the reader, and the dispatcher that reports the reader's   *)
(* end. One iteration of RunWorker is two actions, the chosen select case  *)
(* and Settle, because other goroutines run between them.                  *)
(*                                                                         *)
(* Timers carry no durations: an armed timer may fire at any moment. Stop  *)
(* and Reset leave no stale tick behind (Go 1.23 and later), so a timer is *)
(* just armed or not.                                                      *)
(***************************************************************************)
EXTENDS PtyProcess

CONSTANT SIZE_QUEUE_BUFFER   \* the capacity of QueueChannel__Order_PtyTeardown

(* HandleTerminate's comment needs room for both other orders and one more. *)
ASSUME QueueAssumption == SIZE_QUEUE_BUFFER \in Nat /\ SIZE_QUEUE_BUFFER >= 3

VARIABLES
  queue,                      \* QueueChannel__Order_PtyTeardown
  listening,                  \* Channel_FinalState has not been set to nil
  armed,                      \* the timers that are running
  Status_ReaderSide,
  Status_ProcessSide,
  Status_Master,
  Status_Cancellation,
  ExitSignal_PtyReader,       \* the read error the outcome is resolved from
  Report_Observation_latest,  \* the last observation of an unresponsive process
  teardown,                   \* RunWorker: in its select, before Settle, or exited
  exitOrders,                 \* the ExitPty orders sent to the coordinator, in order
  coordinator,                \* the coordinator's state of this PTY
  terminateRequested,         \* it has called HandleTerminate
  reader,                     \* the reader and the dispatcher behind it
  readError                   \* the error the reader ended with

teardownVars == <<queue, listening, armed, Status_ReaderSide, Status_ProcessSide,
                  Status_Master, Status_Cancellation, ExitSignal_PtyReader,
                  Report_Observation_latest, teardown, exitOrders>>
environmentVars == <<coordinator, terminateRequested, reader, readError>>
vars == <<processVars, sent, panicked, teardownVars, environmentVars>>

Orders == {"Terminate", "Cancel", "ReaderStarted", "ReaderFinished"}
Timers == {"Drain", "Unresponsive", "Uninterruptible"}
ExitSignals == {"EIO", "ErrClosed", "OTHER"}

(* Types of all variables of the composition.                              *)
ActorTypeOK ==
  /\ queue \in Seq(Orders)
  /\ Len(queue) <= SIZE_QUEUE_BUFFER
  /\ listening \in BOOLEAN
  /\ armed \in SUBSET Timers
  /\ Status_ReaderSide \in {"PENDING", "RUNNING", "FINISHED"}
  /\ Status_ProcessSide \in
       {"UNESCALATED", "AWAITING_HANGUP", "AWAITING_KILL", "AWAITING_FINAL", "FINAL", "GIVEN_UP"}
  /\ Status_Master \in {"OPEN", "CLOSED"}
  /\ Status_Cancellation \in {"NOT_CANCELED", "CANCELED"}
  /\ ExitSignal_PtyReader \in ExitSignals \cup {NONE}
  /\ Report_Observation_latest \in Reports \cup {NONE}
  /\ teardown \in {"Select", "Settle", "Exited"}
  /\ exitOrders \in Seq(ExitOutcomes)

EnvironmentTypeOK ==
  /\ coordinator \in {"Spawning", "Canceled", "Active", "Exited"}
  /\ terminateRequested \in BOOLEAN
  /\ reader \in {"Unstarted", "Reading", "Ended", "Reported"}
  /\ readError \in ExitSignals \cup {NONE}

TypeOK == ProcessTypeOK /\ ActorTypeOK /\ EnvironmentTypeOK

(* New_PtyTeardown: every timer stopped, beside a process just spawned.     *)
Init ==
  /\ ProcessInit
  /\ panicked = FALSE
  /\ queue = <<>>
  /\ listening = TRUE
  /\ armed = {}
  /\ Status_ReaderSide = "PENDING"
  /\ Status_ProcessSide = "UNESCALATED"
  /\ Status_Master = "OPEN"
  /\ Status_Cancellation = "NOT_CANCELED"
  /\ ExitSignal_PtyReader = NONE
  /\ Report_Observation_latest = NONE
  /\ teardown = "Select"
  /\ exitOrders = <<>>
  /\ coordinator = "Spawning"
  /\ terminateRequested = FALSE
  /\ reader = "Unstarted"
  /\ readError = NONE

-----------------------------------------------------------------------------
(* The coordinator.                                                        *)

(* A blocking send waits for room; so do HandleCancel, HandleReaderStarted  *)
(* and HandleReaderFinished.                                                *)
Send(order) ==
  /\ Len(queue) < SIZE_QUEUE_BUFFER
  /\ queue' = Append(queue, order)

(* HandleStatus_SpawnPty__Success, not canceled: the PTY becomes Active,    *)
(* ReaderStarted is sent, and only then dispatcher and reader start.        *)
SpawnSuccess ==
  /\ coordinator = "Spawning"
  /\ Send("ReaderStarted")
  /\ coordinator' = "Active"
  /\ reader' = "Reading"
  /\ UNCHANGED <<processVars, sent, panicked, listening, armed, Status_ReaderSide,
                 Status_ProcessSide, Status_Master, Status_Cancellation,
                 ExitSignal_PtyReader, Report_Observation_latest, teardown, exitOrders,
                 terminateRequested, readError>>

(* The same handler when a Terminate canceled the spawn: the PTY is removed *)
(* from the pool and no reader will ever run.                               *)
SpawnCanceled ==
  /\ coordinator = "Spawning"
  /\ Send("Cancel")
  /\ coordinator' = "Canceled"
  /\ UNCHANGED <<processVars, sent, panicked, listening, armed, Status_ReaderSide,
                 Status_ProcessSide, Status_Master, Status_Cancellation,
                 ExitSignal_PtyReader, Report_Observation_latest, teardown, exitOrders,
                 terminateRequested, reader, readError>>

(* Wrong: sends without looking for room.                                   *)
HandleTerminate_Unchecked ==
  /\ coordinator = "Active"
  /\ terminateRequested' = TRUE
  /\ Len(queue) <= SIZE_QUEUE_BUFFER
  /\ queue' = Append(queue, "Terminate")
  /\ UNCHANGED <<processVars, sent, panicked, listening, armed, Status_ReaderSide,
                 Status_ProcessSide, Status_Master, Status_Cancellation,
                 ExitSignal_PtyReader, Report_Observation_latest, teardown, exitOrders,
                 coordinator, reader, readError>>

(* Wrong: drops the order whenever anything is queued.                      *)
HandleTerminate_DropsEarly ==
  /\ coordinator = "Active"
  /\ terminateRequested' = TRUE
  /\ queue' = IF queue = <<>> THEN Append(queue, "Terminate") ELSE queue
  /\ UNCHANGED <<processVars, sent, panicked, listening, armed, Status_ReaderSide,
                 Status_ProcessSide, Status_Master, Status_Cancellation,
                 ExitSignal_PtyReader, Report_Observation_latest, teardown, exitOrders,
                 coordinator, reader, readError>>

(* Wrong: also sent for a PTY that is still spawning.                       *)
HandleTerminate_WhileSpawning ==
  /\ coordinator \in {"Spawning", "Active"}
  /\ terminateRequested' = TRUE
  /\ queue' = IF Len(queue) < SIZE_QUEUE_BUFFER THEN Append(queue, "Terminate") ELSE queue
  /\ UNCHANGED <<processVars, sent, panicked, listening, armed, Status_ReaderSide,
                 Status_ProcessSide, Status_Master, Status_Cancellation,
                 ExitSignal_PtyReader, Report_Observation_latest, teardown, exitOrders,
                 coordinator, reader, readError>>

(* HandleTerminate on an Active PTY: sent if there is room, else dropped.   *)
HandleTerminate ==
  /\ coordinator = "Active"
  /\ terminateRequested' = TRUE
  /\ queue' = IF Len(queue) < SIZE_QUEUE_BUFFER THEN Append(queue, "Terminate") ELSE queue
  /\ UNCHANGED <<processVars, sent, panicked, listening, armed, Status_ReaderSide,
                 Status_ProcessSide, Status_Master, Status_Cancellation,
                 ExitSignal_PtyReader, Report_Observation_latest, teardown, exitOrders,
                 coordinator, reader, readError>>

(* HandleExit_PtyProxy on the ExitPty order: from now on Terminate is a     *)
(* no-op for this PTY.                                                      *)
HandleExit ==
  /\ coordinator = "Active"
  /\ exitOrders # <<>>
  /\ coordinator' = "Exited"
  /\ UNCHANGED <<processVars, sent, panicked, teardownVars, terminateRequested, reader,
                 readError>>

-----------------------------------------------------------------------------
(* The reader and the dispatcher, reduced to how the session's output ends. *)

(* The read that fails: ErrClosed once the master is closed; EIO when the   *)
(* last holder of the slave is gone, which the process may or may not be.   *)
ReaderError ==
  /\ reader = "Reading"
  /\ reader' = "Ended"
  /\ readError' \in IF Status_Master = "CLOSED" THEN ExitSignals ELSE {"EIO", "OTHER"}
  /\ UNCHANGED <<processVars, sent, panicked, teardownVars, coordinator, terminateRequested>>

(* The dispatcher executes the ExitSignal order: the residual flush, then   *)
(* HandleReaderFinished, which blocks while the queue is full.              *)
HandleReaderFinished ==
  /\ reader = "Ended"
  /\ Send("ReaderFinished")
  /\ reader' = "Reported"
  /\ UNCHANGED <<processVars, sent, panicked, listening, armed, Status_ReaderSide,
                 Status_ProcessSide, Status_Master, Status_Cancellation,
                 ExitSignal_PtyReader, Report_Observation_latest, teardown, exitOrders,
                 coordinator, terminateRequested, readError>>

-----------------------------------------------------------------------------
(* The actor.                                                              *)

(* The select has chosen this order.                                        *)
Receive(order) ==
  /\ teardown = "Select"
  /\ queue # <<>>
  /\ Head(queue) = order
  /\ queue' = Tail(queue)
  /\ teardown' = "Settle"

(* Wrong: every Terminate hangs up and re-arms, however far escalation is.   *)
Terminate_Always ==
  /\ Receive("Terminate")
  /\ Signal({"SIGHUP", "SIGCONT"})
  /\ armed' = armed \cup {"Unresponsive"}
  /\ Status_ProcessSide' = "AWAITING_HANGUP"
  /\ UNCHANGED <<processVars, listening, Status_ReaderSide, Status_Master,
                 Status_Cancellation, ExitSignal_PtyReader, Report_Observation_latest,
                 exitOrders, environmentVars>>

(* Wrong: hangs up and arms no timer.                                       *)
Terminate_Unarmed ==
  /\ Receive("Terminate")
  /\ IF Status_ProcessSide = "UNESCALATED"
     THEN Signal({"SIGHUP", "SIGCONT"}) /\ Status_ProcessSide' = "AWAITING_HANGUP"
     ELSE UNCHANGED <<sent, panicked, Status_ProcessSide>>
  /\ UNCHANGED <<processVars, listening, armed, Status_ReaderSide, Status_Master,
                 Status_Cancellation, ExitSignal_PtyReader, Report_Observation_latest,
                 exitOrders, environmentVars>>

Terminate ==
  /\ Receive("Terminate")
  /\ IF Status_ProcessSide = "UNESCALATED"
     THEN /\ Signal({"SIGHUP", "SIGCONT"})
          /\ armed' = armed \cup {"Unresponsive"}
          /\ Status_ProcessSide' = "AWAITING_HANGUP"
     ELSE UNCHANGED <<sent, panicked, armed, Status_ProcessSide>>
  /\ UNCHANGED <<processVars, listening, Status_ReaderSide, Status_Master,
                 Status_Cancellation, ExitSignal_PtyReader, Report_Observation_latest,
                 exitOrders, environmentVars>>

(* Cancel is an invalid path once a reader runs or escalation has begun.    *)
Cancel ==
  /\ Receive("Cancel")
  /\ IF Status_ReaderSide = "PENDING" /\ Status_ProcessSide \in {"UNESCALATED", "FINAL"}
     THEN /\ Status_Master' = "CLOSED"
          /\ IF Status_ProcessSide = "UNESCALATED"
             THEN /\ Signal({"SIGHUP", "SIGCONT"})
                  /\ armed' = armed \cup {"Unresponsive"}
                  /\ Status_ProcessSide' = "AWAITING_HANGUP"
             ELSE UNCHANGED <<sent, panicked, armed, Status_ProcessSide>>
          /\ Status_ReaderSide' = "FINISHED"
          /\ Status_Cancellation' = "CANCELED"
     ELSE /\ panicked' = TRUE
          /\ UNCHANGED <<Status_Master, sent, armed, Status_ProcessSide,
                         Status_ReaderSide, Status_Cancellation>>
  /\ UNCHANGED <<processVars, listening, ExitSignal_PtyReader, Report_Observation_latest,
                 exitOrders, environmentVars>>

(* Wrong: forgets that the process may have ended first.                    *)
ReaderStarted_NoDrain ==
  /\ Receive("ReaderStarted")
  /\ IF Status_ReaderSide = "PENDING"
     THEN Status_ReaderSide' = "RUNNING" /\ UNCHANGED panicked
     ELSE panicked' = TRUE /\ UNCHANGED Status_ReaderSide
  /\ UNCHANGED <<processVars, sent, listening, armed, Status_ProcessSide, Status_Master,
                 Status_Cancellation, ExitSignal_PtyReader, Report_Observation_latest,
                 exitOrders, environmentVars>>

(* ReaderStarted is an invalid path for a reader side that is not PENDING.  *)
ReaderStarted ==
  /\ Receive("ReaderStarted")
  /\ IF Status_ReaderSide = "PENDING"
     THEN /\ Status_ReaderSide' = "RUNNING"
          /\ armed' = IF Status_ProcessSide = "FINAL" THEN armed \cup {"Drain"} ELSE armed
          /\ UNCHANGED panicked
     ELSE panicked' = TRUE /\ UNCHANGED <<Status_ReaderSide, armed>>
  /\ UNCHANGED <<processVars, sent, listening, Status_ProcessSide, Status_Master,
                 Status_Cancellation, ExitSignal_PtyReader, Report_Observation_latest,
                 exitOrders, environmentVars>>

(* Wrong: leaves the master open.                                           *)
ReaderFinished_KeepsMaster ==
  /\ Receive("ReaderFinished")
  /\ IF Status_ReaderSide = "RUNNING"
     THEN /\ Status_ReaderSide' = "FINISHED"
          /\ ExitSignal_PtyReader' = readError
          /\ armed' = (armed \ {"Drain"})
                        \cup (IF Status_ProcessSide = "UNESCALATED" THEN {"Unresponsive"} ELSE {})
          /\ Status_ProcessSide' = IF Status_ProcessSide = "UNESCALATED" THEN "AWAITING_HANGUP"
                                                                         ELSE Status_ProcessSide
          /\ UNCHANGED panicked
     ELSE panicked' = TRUE /\ UNCHANGED <<Status_ReaderSide, ExitSignal_PtyReader, armed,
                                         Status_ProcessSide>>
  /\ UNCHANGED <<processVars, sent, listening, Status_Master, Status_Cancellation,
                 Report_Observation_latest, exitOrders, environmentVars>>

(* ReaderFinished is an invalid path unless the reader side is RUNNING. A   *)
(* reader that ended before any escalation starts one, without a signal:    *)
(* closing the master hangs the process up.                                 *)
ReaderFinished ==
  /\ Receive("ReaderFinished")
  /\ IF Status_ReaderSide = "RUNNING"
     THEN /\ Status_ReaderSide' = "FINISHED"
          /\ ExitSignal_PtyReader' = readError
          /\ Status_Master' = "CLOSED"
          /\ IF Status_ProcessSide = "UNESCALATED"
             THEN /\ armed' = (armed \ {"Drain"}) \cup {"Unresponsive"}
                  /\ Status_ProcessSide' = "AWAITING_HANGUP"
             ELSE armed' = armed \ {"Drain"} /\ UNCHANGED Status_ProcessSide
          /\ UNCHANGED panicked
     ELSE /\ panicked' = TRUE
          /\ UNCHANGED <<Status_ReaderSide, ExitSignal_PtyReader, Status_Master, armed,
                         Status_ProcessSide>>
  /\ UNCHANGED <<processVars, sent, listening, Status_Cancellation,
                 Report_Observation_latest, exitOrders, environmentVars>>

(* Wrong: counts the drain from the process's end, reader or no reader.      *)
HandleFinalState_DrainsAtOnce ==
  /\ teardown = "Select"
  /\ listening
  /\ Channel_FinalState = "closed"
  /\ listening' = FALSE
  /\ Status_ProcessSide' = "FINAL"
  /\ armed' = (armed \ {"Unresponsive", "Uninterruptible"})
                \cup (IF Status_ReaderSide # "FINISHED" THEN {"Drain"} ELSE {})
  /\ teardown' = "Settle"
  /\ UNCHANGED <<processVars, sent, panicked, queue, Status_ReaderSide, Status_Master,
                 Status_Cancellation, ExitSignal_PtyReader, Report_Observation_latest,
                 exitOrders, environmentVars>>

(* The worker has closed the channel, strictly after its final write.       *)
HandleFinalState ==
  /\ teardown = "Select"
  /\ listening
  /\ Channel_FinalState = "closed"
  /\ listening' = FALSE
  /\ Status_ProcessSide' = "FINAL"
  /\ armed' = (armed \ {"Unresponsive", "Uninterruptible"})
                \cup (IF Status_ReaderSide = "RUNNING" THEN {"Drain"} ELSE {})
  /\ teardown' = "Settle"
  /\ UNCHANGED <<processVars, sent, panicked, queue, Status_ReaderSide, Status_Master,
                 Status_Cancellation, ExitSignal_PtyReader, Report_Observation_latest,
                 exitOrders, environmentVars>>

(* The select has chosen this timer's channel.                              *)
Fire(timer) ==
  /\ teardown = "Select"
  /\ timer \in armed
  /\ teardown' = "Settle"

HandleDrain ==
  /\ Fire("Drain")
  /\ armed' = armed \ {"Drain"}
  /\ Status_Master' = "CLOSED"
  /\ UNCHANGED <<processVars, sent, panicked, queue, listening, Status_ReaderSide,
                 Status_ProcessSide, Status_Cancellation, ExitSignal_PtyReader,
                 Report_Observation_latest, exitOrders, environmentVars>>

(* Wrong: gives up at the first observation, without a kill.                *)
HandleUnresponsive_GivesUp ==
  /\ Fire("Unresponsive")
  /\ Status_Master' = "CLOSED"
  /\ armed' = armed \ {"Unresponsive"}
  /\ IF Observe_Unresponsive = "UNRESPONSIVE"
     THEN /\ Report_Observation_latest' \in Observations
          /\ Status_ProcessSide' = "GIVEN_UP"
     ELSE /\ Status_ProcessSide' = "AWAITING_FINAL"
          /\ UNCHANGED Report_Observation_latest
  /\ UNCHANGED <<processVars, sent, panicked, queue, listening, Status_ReaderSide,
                 Status_Cancellation, ExitSignal_PtyReader, exitOrders, environmentVars>>

(* The unplug; then, in one critical section, the observation and the kill  *)
(* of the process group, which only an UNRESPONSIVE process gets.           *)
HandleUnresponsive ==
  /\ Fire("Unresponsive")
  /\ Status_Master' = "CLOSED"
  /\ IF Observe_Unresponsive = "UNRESPONSIVE"
     THEN /\ Signal({"SIGKILL_GROUP"})
          /\ Report_Observation_latest' \in Observations
          /\ armed' = (armed \ {"Unresponsive"}) \cup {"Uninterruptible"}
          /\ Status_ProcessSide' = "AWAITING_KILL"
     ELSE /\ armed' = armed \ {"Unresponsive"}
          /\ Status_ProcessSide' = "AWAITING_FINAL"
          /\ UNCHANGED <<sent, panicked, Report_Observation_latest>>
  /\ UNCHANGED <<processVars, queue, listening, Status_ReaderSide, Status_Cancellation,
                 ExitSignal_PtyReader, exitOrders, environmentVars>>

HandleUninterruptible ==
  /\ Fire("Uninterruptible")
  /\ armed' = armed \ {"Uninterruptible"}
  /\ IF Observe_Unresponsive = "UNRESPONSIVE"
     THEN /\ Report_Observation_latest' \in Observations
          /\ Status_ProcessSide' = "GIVEN_UP"
     ELSE /\ Status_ProcessSide' = "AWAITING_FINAL"
          /\ UNCHANGED Report_Observation_latest
  /\ UNCHANGED <<processVars, sent, panicked, queue, listening, Status_ReaderSide,
                 Status_Master, Status_Cancellation, ExitSignal_PtyReader, exitOrders,
                 environmentVars>>

(* Resolve__ExitOutcome_PtyProxy: a hangup or an unplug leaves the outcome  *)
(* to the process side, any other read error is the outcome. Its invalid    *)
(* paths: no read error at all, and FINAL over a state that is not final.   *)
ResolvePanics ==
  \/ ExitSignal_PtyReader = NONE
  \/ /\ ExitSignal_PtyReader \in {"EIO", "ErrClosed"}
     /\ Status_ProcessSide = "FINAL"
     /\ State_state \notin FinalStates

Resolve__ExitOutcome ==
  IF ExitSignal_PtyReader = "OTHER"
  THEN [kind |-> "SystemError_Descriptor", detail |-> 0]
  ELSE IF Status_ProcessSide = "FINAL" THEN ResolveFinalState
       ELSE ResolveReport(Report_Observation_latest)

(* Both sides have ended.                                                   *)
Settled ==
  /\ Status_ReaderSide = "FINISHED"
  /\ Status_ProcessSide \in {"FINAL", "GIVEN_UP"}

(* Wrong: emits the outcome and keeps running.                              *)
Settle_KeepsRunning ==
  /\ teardown = "Settle"
  /\ teardown' = "Select"
  /\ IF Settled /\ Status_Cancellation # "CANCELED" /\ ~ResolvePanics
     THEN armed' = {} /\ exitOrders' = Append(exitOrders, Resolve__ExitOutcome)
     ELSE UNCHANGED <<armed, exitOrders>>
  /\ UNCHANGED <<processVars, sent, panicked, queue, listening, Status_ReaderSide,
                 Status_ProcessSide, Status_Master, Status_Cancellation,
                 ExitSignal_PtyReader, Report_Observation_latest, environmentVars>>

(* Settle: continue, or stop the timers, emit the outcome unless canceled   *)
(* and exit.                                                                *)
Settle ==
  /\ teardown = "Settle"
  /\ IF ~Settled
     THEN teardown' = "Select" /\ UNCHANGED <<armed, exitOrders, panicked>>
     ELSE /\ armed' = {}
          /\ teardown' = "Exited"
          /\ IF Status_Cancellation = "CANCELED"
             THEN UNCHANGED <<exitOrders, panicked>>
             ELSE IF ResolvePanics
                  THEN panicked' = TRUE /\ UNCHANGED exitOrders
                  ELSE /\ exitOrders' = Append(exitOrders, Resolve__ExitOutcome)
                       /\ UNCHANGED panicked
  /\ UNCHANGED <<processVars, sent, queue, listening, Status_ReaderSide,
                 Status_ProcessSide, Status_Master, Status_Cancellation,
                 ExitSignal_PtyReader, Report_Observation_latest, environmentVars>>

-----------------------------------------------------------------------------
Process == (Kernel \/ RunWorker) /\ UNCHANGED <<teardownVars, environmentVars>>
Coordinator == SpawnSuccess \/ SpawnCanceled \/ HandleTerminate \/ HandleExit
Stream == ReaderError \/ HandleReaderFinished
Actor ==
  \/ Terminate \/ Cancel \/ ReaderStarted \/ ReaderFinished \/ HandleFinalState
  \/ HandleDrain \/ HandleUnresponsive \/ HandleUninterruptible \/ Settle

(* A panic ends the server.                                                 *)
Next == ~panicked /\ (Process \/ Coordinator \/ Stream \/ Actor)

Spec == Init /\ [][Next]_vars

(* Every goroutine of the server runs; the kernel, the debuggers, the user  *)
(* and the process need not do anything. A select with several ready cases  *)
(* picks one at random, so a case that is ready at infinitely many selects  *)
(* is taken: each case is strongly fair. A sender blocked on a full channel *)
(* is served before any later send, so HandleReaderFinished is too. A read  *)
(* of a closed master returns.                                              *)
Fairness ==
  /\ WF_vars(~panicked /\ RunWorker /\ UNCHANGED <<teardownVars, environmentVars>>)
  /\ SF_vars(~panicked /\ (Terminate \/ Cancel \/ ReaderStarted \/ ReaderFinished))
  /\ SF_vars(~panicked /\ HandleFinalState)
  /\ SF_vars(~panicked /\ HandleDrain)
  /\ SF_vars(~panicked /\ HandleUnresponsive)
  /\ SF_vars(~panicked /\ HandleUninterruptible)
  /\ WF_vars(~panicked /\ Settle)
  /\ SF_vars(~panicked /\ HandleReaderFinished)
  /\ WF_vars(~panicked /\ Status_Master = "CLOSED" /\ ReaderError)
  /\ WF_vars(~panicked /\ (SpawnSuccess \/ SpawnCanceled))

FairSpec == Spec /\ Fairness

-----------------------------------------------------------------------------
(* Properties.                                                             *)

(* None of the "invalid path" panics of _PtyProcess_ and _PtyTeardown_ is   *)
(* reachable, in whatever order the process, the reader, the coordinator    *)
(* and the timers act.                                                      *)
NoPanic == ~panicked

(* A Terminate that HandleTerminate dropped on a full queue changes         *)
(* nothing: once the user has asked, either escalation has begun, or the    *)
(* process side has ended, or a Terminate is still in the queue.            *)
NoTerminateLost ==
  terminateRequested =>
    \/ \E i \in 1 .. Len(queue) : queue[i] = "Terminate"
    \/ Status_ProcessSide # "UNESCALATED"

(* The session never waits without a deadline: an escalation has its timer, *)
(* AWAITING_FINAL means the process worker is about to close the channel,   *)
(* and a running reader of an ended process has the drain timer or a closed *)
(* master.                                                                  *)
NoWaitWithoutDeadline ==
  /\ Status_ProcessSide = "AWAITING_HANGUP" => "Unresponsive" \in armed
  /\ Status_ProcessSide = "AWAITING_KILL" => "Uninterruptible" \in armed
  /\ Status_ProcessSide = "AWAITING_FINAL" => State_state \in {"Zombie"} \cup FinalStates
  /\ Status_ProcessSide = "FINAL" /\ Status_ReaderSide = "RUNNING" =>
       Status_Master = "CLOSED" \/ "Drain" \in armed

(* The kernel discards unread output when the master closes, so it stays    *)
(* open until the reader runs, unless the spawn was canceled: a drain timer *)
(* armed at the process's end would lose a quick command's output.          *)
MasterOutlivesSpawn ==
  Status_Master = "CLOSED" => Status_Cancellation = "CANCELED" \/ reader # "Unstarted"

(* The ExitPty order is sent once, with the last output flushed and the     *)
(* master closed behind it: the dispatcher meets no EXITED proxy later.     *)
ExitAfterFlush ==
  /\ Len(exitOrders) <= 1
  /\ exitOrders # <<>> => reader = "Reported" /\ Status_Master = "CLOSED"

(* The outcome is true: an exit code or a killing signal is the one the     *)
(* kernel reported for a process that has been reaped; a process is called  *)
(* stopped only after the group kill failed to end it; any other process    *)
(* error follows that kill or a failed watch. And it hides no failure: a    *)
(* read that failed is the outcome whatever the process did, and a process  *)
(* whose watch failed is not said to have terminated.                       *)
OutcomeTruthful ==
  \A i \in 1 .. Len(exitOrders) : LET o == exitOrders[i] IN
    /\ o.kind \in {"Success", "Failure", "Killed"} => kernel = "reaped"
    /\ o.kind = "Success" => termination = [kind |-> "Exited", code |-> 0]
    /\ o.kind = "Failure" => termination = [kind |-> "Exited", code |-> o.detail] /\ o.detail # 0
    /\ o.kind = "Killed" => termination = [kind |-> "Signaled", code |-> o.detail]
    /\ o.kind = "Stopped" => sent["SIGKILL_GROUP"] > 0
    /\ o.kind = "SystemError_Process" =>
         sent["SIGKILL_GROUP"] > 0 \/ State_state = "SystemError"
    /\ State_state = "SystemError" => o.kind \notin {"Success", "Failure", "Killed"}
    /\ o.kind = "SystemError_Descriptor" <=> readError = "OTHER"

(* Escalation happens once, however many Terminates arrive and however      *)
(* often a timer fires, and the kill comes after the unplug.                *)
EscalatesOnce ==
  /\ \A s \in Signals : sent[s] <= 1
  /\ sent["SIGKILL_GROUP"] > 0 => Status_Master = "CLOSED"

(* A signal always goes through an open pidfd to a process the server has   *)
(* not reaped: the PID is still its own.                                    *)
SignalsReachOwnProcess == [][sent' # sent => pidfd = "open" /\ kernel # "reaped"]_vars

(* A session somebody has ended does end, even if the process ignores every *)
(* signal or a debugger holds it: asked by the user, canceled, or because   *)
(* its reader or its process ended.                                         *)
SessionEnds ==
  (\/ terminateRequested
   \/ coordinator = "Canceled"
   \/ reader = "Ended"
   \/ Channel_FinalState = "closed") ~> teardown = "Exited"

(* The actor implements the abstract session.                               *)
SessionPhase ==
  CASE teardown = "Exited"                    -> "Ended"
    [] teardown # "Exited" /\ Status_Cancellation = "CANCELED" -> "Silent"
    [] teardown # "Exited" /\ Status_Cancellation # "CANCELED" ->
         CASE Status_ReaderSide = "PENDING"  -> "Pending"
           [] Status_ReaderSide = "RUNNING"  -> "Streaming"
           [] Status_ReaderSide = "FINISHED" -> "Drained"

Session == INSTANCE PtySession WITH phase <- SessionPhase, master <- Status_Master

ImplementsSession == Session!Spec

-----------------------------------------------------------------------------
(* What the documentation says and the code does not do.                   *)

(* "once the PTY process has terminated, no group kill"                     *)
NoGroupKillAfterTermination ==
  [][sent'["SIGKILL_GROUP"] # sent["SIGKILL_GROUP"] => kernel = "running"]_vars
=============================================================================
