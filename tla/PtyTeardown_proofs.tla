-------------------------- MODULE PtyTeardown_proofs --------------------------
(***************************************************************************)
(* Proofs about PtyTeardown, for every value of its constants.             *)
(*                                                                         *)
(* The safety invariants are not inductive: they speak of the queue, of    *)
(* the timers and of what was sent, and hold because of where the worker   *)
(* of the process, the coordinator and the reader stand at that moment.    *)
(* IInv says so; its conjuncts are grouped by the two parties they relate. *)
(***************************************************************************)
EXTENDS PtyTeardown, TLAPS

-----------------------------------------------------------------------------
(* The inductive invariant.                                                *)

(* The mirror State_state, the kernel and the worker agree.                *)
WorkerInv ==
  /\ kernel = "running" \/ termination \in Terminations
  /\ worker \in {"WriteWithheld", "Repeek", "RepeekPoll"} => kernel # "running"
  /\ worker \in {"WriteZombie", "Collect"} => kernel = "zombie" /\ peeked = termination
  /\ State_state \in FinalStates <=> worker \in {"ClosePidfd", "CloseChannel", "Done"}
  /\ State_state = "Zombie" <=> worker = "Collect"
  /\ State_state = "Reaped" => peeked = termination
  /\ kernel = "reaped" <=> State_state = "Reaped"
  /\ pidfd = "closed" <=> worker \in {"CloseChannel", "Done"}
  /\ Channel_FinalState = "closed" <=> worker = "Done"

(* What the coordinator and the reader have sent and what the actor has    *)
(* received of it. Once a reader was started the queue holds ReaderStarted *)
(* at its head until it is received, and ReaderFinished at most once.      *)
SpawningInv ==
  /\ Status_ReaderSide = "PENDING"
  /\ queue = <<>>
  /\ Status_Cancellation = "NOT_CANCELED"
  /\ Status_ProcessSide \in {"UNESCALATED", "FINAL"}
  /\ reader = "Unstarted"
  /\ ~terminateRequested

CanceledInv ==
  /\ reader = "Unstarted"
  /\ ~terminateRequested
  /\ \/ /\ Status_ReaderSide = "PENDING"
        /\ queue = <<"Cancel">>
        /\ Status_Cancellation = "NOT_CANCELED"
        /\ Status_ProcessSide \in {"UNESCALATED", "FINAL"}
     \/ /\ Status_ReaderSide = "FINISHED"
        /\ queue = <<>>
        /\ Status_Cancellation = "CANCELED"

ActiveInv ==
  /\ Status_Cancellation = "NOT_CANCELED"
  /\ reader # "Unstarted"
  /\ Status_ReaderSide = "PENDING" =>
       /\ queue # <<>>
       /\ queue[1] = "ReaderStarted"
       /\ Status_ProcessSide \in {"UNESCALATED", "FINAL"}
  /\ \A i \in 1 .. Len(queue) :
       queue[i] \in {"Terminate", "ReaderFinished"} \/ (i = 1 /\ Status_ReaderSide = "PENDING")
  /\ \A i, j \in 1 .. Len(queue) :
       queue[i] = "ReaderFinished" /\ queue[j] = "ReaderFinished" => i = j
  /\ (\E i \in 1 .. Len(queue) : queue[i] = "ReaderFinished")
       <=> (reader = "Reported" /\ Status_ReaderSide # "FINISHED")
  /\ Status_ReaderSide = "FINISHED" => reader = "Reported"

QueueInv ==
  /\ coordinator = "Spawning" => SpawningInv
  /\ coordinator = "Canceled" => CanceledInv
  /\ coordinator \in {"Active", "Exited"} => ActiveInv

(* How the session's output ended is known before the actor is told.       *)
ReaderInv ==
  /\ reader \in {"Ended", "Reported"} <=> readError # NONE
  /\ Status_ReaderSide = "FINISHED" /\ Status_Cancellation = "NOT_CANCELED" =>
       ExitSignal_PtyReader = readError
  /\ Status_ReaderSide = "FINISHED" => Status_Master = "CLOSED"

(* Which timer runs, and what was sent, in each status of the process side. *)
EscalationInv ==
  /\ listening <=> Status_ProcessSide # "FINAL"
  /\ ~listening => Channel_FinalState = "closed"
  /\ "Unresponsive" \in armed <=> Status_ProcessSide = "AWAITING_HANGUP"
  /\ "Uninterruptible" \in armed <=> Status_ProcessSide = "AWAITING_KILL"
  /\ "Drain" \in armed => Status_ReaderSide = "RUNNING" /\ Status_ProcessSide = "FINAL"
  /\ Status_ProcessSide = "UNESCALATED" => \A s \in Signals : sent[s] = 0
  /\ Status_ProcessSide = "AWAITING_HANGUP" => sent["SIGKILL_GROUP"] = 0
  /\ Status_ProcessSide \in {"AWAITING_KILL", "GIVEN_UP"} =>
       sent["SIGKILL_GROUP"] > 0 /\ Report_Observation_latest # NONE

(* The actor exits once both sides have ended, and emits as it exits.      *)
ExitInv ==
  /\ teardown = "Exited" => Settled
  /\ exitOrders # <<>> => teardown = "Exited" /\ Status_Cancellation = "NOT_CANCELED"
  /\ coordinator = "Exited" => exitOrders # <<>>

IInv ==
  /\ TypeOK
  /\ WorkerInv
  /\ QueueInv
  /\ ReaderInv
  /\ EscalationInv
  /\ ExitInv
  /\ NoPanic
  /\ NoTerminateLost
  /\ NoWaitWithoutDeadline
  /\ MasterOutlivesSpawn
  /\ ExitAfterFlush
  /\ OutcomeTruthful
  /\ EscalatesOnce

-----------------------------------------------------------------------------
(* Lemmas about the operators.                                             *)

(* The outcome of a decoded termination is an exit outcome, and says what  *)
(* the termination says.                                                   *)
LEMMA TerminationOutcome ==
  ASSUME NEW t \in Terminations
  PROVE  /\ ResolveTermination(t) \in ExitOutcomes
         /\ ResolveTermination(t).kind \in {"Success", "Failure", "Killed"}
         /\ ResolveTermination(t).kind = "Success" => t = [kind |-> "Exited", code |-> 0]
         /\ ResolveTermination(t).kind = "Failure" =>
              /\ t = [kind |-> "Exited", code |-> ResolveTermination(t).detail]
              /\ ResolveTermination(t).detail # 0
         /\ ResolveTermination(t).kind = "Killed" =>
              t = [kind |-> "Signaled", code |-> ResolveTermination(t).detail]
<1>1. CASE t \in [kind: {"Signaled"}, code: SignalNumbers]
  <2>1. ResolveTermination(t) = [kind |-> "Killed", detail |-> t.code]
    BY <1>1 DEF ResolveTermination
  <2>. QED
    BY <1>1, <2>1 DEF ExitOutcomes
<1>2. CASE t \in [kind: {"Exited"}, code: ExitCodes] /\ t.code = 0
  <2>1. ResolveTermination(t) = [kind |-> "Success", detail |-> 0]
    BY <1>2 DEF ResolveTermination
  <2>. QED
    BY <1>2, <2>1 DEF ExitOutcomes
<1>3. CASE t \in [kind: {"Exited"}, code: ExitCodes] /\ t.code # 0
  <2>1. ResolveTermination(t) = [kind |-> "Failure", detail |-> t.code]
    BY <1>3 DEF ResolveTermination
  <2>. QED
    BY <1>3, <2>1 DEF ExitOutcomes
<1>. QED
  BY <1>1, <1>2, <1>3 DEF Terminations

(* A report of an observation is an exit outcome of the process.           *)
LEMMA ReportOutcome ==
  ASSUME NEW report
  PROVE  /\ ResolveReport(report) \in ExitOutcomes
         /\ ResolveReport(report).kind \in {"Stopped", "SystemError_Process"}
BY DEF ResolveReport, ExitOutcomes

(* An observation of /proc always classifies.                              *)
LEMMA ObservationsAreReports == Observations \subseteq Reports
BY DEF Observations, Reports, classify__Snapshot_Proc

(* What is in a queue after a send and after a receive.                    *)
LEMMA SendContents ==
  ASSUME NEW q \in Seq(Orders), NEW order \in Orders
  PROVE  /\ Append(q, order) \in Seq(Orders)
         /\ Len(Append(q, order)) = Len(q) + 1
         /\ \A i \in 1 .. Len(q) : Append(q, order)[i] = q[i]
         /\ Append(q, order)[Len(q) + 1] = order
OBVIOUS

LEMMA ReceiveContents ==
  ASSUME NEW q \in Seq(Orders), q # <<>>
  PROVE  /\ Tail(q) \in Seq(Orders)
         /\ Len(Tail(q)) = Len(q) - 1
         /\ Len(q) > 0
         /\ Head(q) = q[1]
         /\ \A i \in 1 .. Len(q) - 1 : Tail(q)[i] = q[i + 1]
OBVIOUS

-----------------------------------------------------------------------------
(* The initial state.                                                      *)

LEMMA InitInv == Init => IInv
<1>. SUFFICES ASSUME Init PROVE IInv
  OBVIOUS
<1>. USE DEF Init, ProcessInit
<1>1. TypeOK
  <2>1. ProcessTypeOK
    BY TracersAssumption DEF ProcessTypeOK, KernelStates, State_PtyProcess, WorkerStates
  <2>2. ActorTypeOK
    BY QueueAssumption DEF ActorTypeOK
  <2>3. EnvironmentTypeOK
    BY DEF EnvironmentTypeOK
  <2>. QED
    BY <2>1, <2>2, <2>3 DEF TypeOK
<1>2. WorkerInv
  BY DEF WorkerInv, FinalStates
<1>3. QueueInv
  BY DEF QueueInv, SpawningInv
<1>4. ReaderInv /\ EscalationInv /\ ExitInv
  BY DEF ReaderInv, EscalationInv, ExitInv
<1>5. NoPanic /\ NoTerminateLost /\ NoWaitWithoutDeadline /\ MasterOutlivesSpawn
  BY DEF NoPanic, NoTerminateLost, NoWaitWithoutDeadline, MasterOutlivesSpawn
<1>6. ExitAfterFlush /\ OutcomeTruthful /\ EscalatesOnce
  BY DEF ExitAfterFlush, OutcomeTruthful, EscalatesOnce, Signals
<1>. QED
  BY <1>1, <1>2, <1>3, <1>4, <1>5, <1>6 DEF IInv

-----------------------------------------------------------------------------
(* Every step preserves the mirror of the process.                         *)

(* Only the kernel and the worker touch the process.                       *)
LEMMA ProcessUntouched ==
  Coordinator \/ Stream \/ Actor \/ UNCHANGED vars => UNCHANGED processVars
BY DEF Coordinator, SpawnSuccess, SpawnCanceled, HandleTerminate, HandleExit,
       Stream, ReaderError, HandleReaderFinished,
       Actor, Terminate, Cancel, ReaderStarted, ReaderFinished, HandleFinalState,
       HandleDrain, HandleUnresponsive, HandleUninterruptible, Settle,
       vars, processVars

LEMMA WorkerStep == TypeOK /\ WorkerInv /\ [Next]_vars => WorkerInv'
<1>. SUFFICES ASSUME TypeOK, WorkerInv, [Next]_vars PROVE WorkerInv'
  OBVIOUS
<1>. USE DEF WorkerInv, FinalStates
<1>1. CASE KernelExit \/ KernelTrace \/ KernelRelease
  BY <1>1 DEF KernelExit, KernelTrace, KernelRelease
<1>2. CASE WatchWaitid \/ RepeekWaitid
  BY <1>2 DEF WatchWaitid, RepeekWaitid, PeekWaitid
<1>3. CASE WatchPoll \/ RepeekPoll \/ WatchWake
  BY <1>3 DEF WatchPoll, RepeekPoll, WatchWake, PollIn
<1>4. CASE WriteWithheld \/ WriteZombie \/ WriteFailure
  BY <1>4 DEF WriteWithheld, WriteZombie, WriteFailure
<1>5. CASE Collect
  BY <1>5 DEF Collect
<1>6. CASE ClosePidfd \/ CloseChannel
  BY <1>6 DEF ClosePidfd, CloseChannel, TypeOK, ProcessTypeOK
<1>7. CASE UNCHANGED processVars
  BY <1>7 DEF processVars
<1>. QED
  BY <1>1, <1>2, <1>3, <1>4, <1>5, <1>6, <1>7, ProcessUntouched
  DEF Next, Process, Kernel, RunWorker

-----------------------------------------------------------------------------
(* Every step preserves the types.                                         *)

LEMMA OutcomeType ==
  TypeOK /\ WorkerInv /\ Settled /\ ~ResolvePanics => Resolve__ExitOutcome \in ExitOutcomes
<1>. SUFFICES ASSUME TypeOK, WorkerInv, Settled, ~ResolvePanics
              PROVE  Resolve__ExitOutcome \in ExitOutcomes
  OBVIOUS
<1>1. CASE ExitSignal_PtyReader = "OTHER"
  BY <1>1 DEF Resolve__ExitOutcome, ExitOutcomes
<1>2. CASE ExitSignal_PtyReader # "OTHER" /\ Status_ProcessSide = "FINAL"
  <2>1. State_state \in FinalStates
    BY <1>2 DEF ResolvePanics, TypeOK, ActorTypeOK, ExitSignals
  <2>2. State_state = "Reaped" => peeked \in Terminations
    BY DEF WorkerInv
  <2>3. ResolveFinalState \in ExitOutcomes
    BY <2>1, <2>2, TerminationOutcome DEF ResolveFinalState, ExitOutcomes
  <2>. QED
    BY <1>2, <2>3 DEF Resolve__ExitOutcome
<1>3. CASE ExitSignal_PtyReader # "OTHER" /\ Status_ProcessSide # "FINAL"
  BY <1>3, ReportOutcome DEF Resolve__ExitOutcome
<1>. QED
  BY <1>1, <1>2, <1>3

LEMMA SignalType ==
  ASSUME NEW numbers, TypeOK, Signal(numbers)
  PROVE  sent' \in [Signals -> Nat] /\ panicked' \in BOOLEAN
<1>1. sent' \in [Signals -> Nat]
  BY DEF Signal, TypeOK, ProcessTypeOK
<1>2. panicked' \in BOOLEAN
  BY DEF Signal, TypeOK, ProcessTypeOK
<1>. QED
  BY <1>1, <1>2

LEMMA SendType ==
  ASSUME NEW order \in Orders, TypeOK, Send(order)
  PROVE  queue' \in Seq(Orders) /\ Len(queue') <= SIZE_QUEUE_BUFFER
BY SendContents, QueueAssumption DEF Send, TypeOK, ActorTypeOK

LEMMA ReceiveType ==
  ASSUME NEW order, TypeOK, Receive(order)
  PROVE  /\ queue' \in Seq(Orders)
         /\ Len(queue') <= SIZE_QUEUE_BUFFER
         /\ teardown' = "Settle"
BY ReceiveContents, QueueAssumption DEF Receive, TypeOK, ActorTypeOK

LEMMA ProcessTypeStep == TypeOK /\ WorkerInv /\ (Kernel \/ RunWorker) => ProcessTypeOK'
<1>. SUFFICES ASSUME TypeOK, WorkerInv, Kernel \/ RunWorker PROVE ProcessTypeOK'
  OBVIOUS
<1>. USE DEF TypeOK, ProcessTypeOK, KernelStates, State_PtyProcess, WorkerStates
<1>1. CASE KernelExit
  BY <1>1 DEF KernelExit
<1>2. CASE KernelTrace \/ KernelRelease
  BY <1>2, TracersAssumption DEF KernelTrace, KernelRelease
<1>3. CASE WatchWaitid \/ RepeekWaitid
  BY <1>3 DEF WatchWaitid, RepeekWaitid, PeekWaitid, WorkerInv
<1>4. CASE WatchPoll \/ RepeekPoll \/ WatchWake
  BY <1>4 DEF WatchPoll, RepeekPoll, WatchWake
<1>5. CASE WriteWithheld \/ WriteZombie \/ WriteFailure \/ Collect
  BY <1>5 DEF WriteWithheld, WriteZombie, WriteFailure, Collect
<1>6. CASE ClosePidfd \/ CloseChannel
  BY <1>6 DEF ClosePidfd, CloseChannel
<1>. QED
  BY <1>1, <1>2, <1>3, <1>4, <1>5, <1>6 DEF Kernel, RunWorker

LEMMA TypeStep == TypeOK /\ WorkerInv /\ [Next]_vars => TypeOK'
<1>. SUFFICES ASSUME TypeOK, WorkerInv, [Next]_vars PROVE TypeOK'
  OBVIOUS
<1>1. CASE Process
  <2>1. ProcessTypeOK'
    BY <1>1, ProcessTypeStep DEF Process
  <2>2. ActorTypeOK' /\ EnvironmentTypeOK'
    BY <1>1 DEF Process, TypeOK, ActorTypeOK, EnvironmentTypeOK, teardownVars, environmentVars
  <2>. QED
    BY <2>1, <2>2 DEF TypeOK
<1>2. CASE Coordinator \/ Stream
  <2>1. ProcessTypeOK'
    BY <1>2 DEF Coordinator, SpawnSuccess, SpawnCanceled, HandleTerminate, HandleExit,
                Stream, ReaderError, HandleReaderFinished, TypeOK, ProcessTypeOK, processVars
  <2>2. ActorTypeOK'
    <3>1. CASE SpawnSuccess \/ SpawnCanceled \/ HandleReaderFinished
      BY <3>1, SendType
      DEF SpawnSuccess, SpawnCanceled, HandleReaderFinished, Orders, TypeOK, ActorTypeOK
    <3>2. CASE HandleTerminate
      BY <3>2, SendContents, QueueAssumption DEF HandleTerminate, Orders, TypeOK, ActorTypeOK
    <3>3. CASE HandleExit \/ ReaderError
      BY <3>3 DEF HandleExit, ReaderError, TypeOK, ActorTypeOK, teardownVars
    <3>. QED
      BY <1>2, <3>1, <3>2, <3>3 DEF Coordinator, Stream
  <2>3. EnvironmentTypeOK'
    BY <1>2 DEF Coordinator, SpawnSuccess, SpawnCanceled, HandleTerminate, HandleExit, Stream,
                ReaderError, HandleReaderFinished, ExitSignals, TypeOK, EnvironmentTypeOK
  <2>. QED
    BY <2>1, <2>2, <2>3 DEF TypeOK
<1>3. CASE Actor
  <2>1. ProcessTypeOK'
    <3>1. UNCHANGED processVars
      BY <1>3, ProcessUntouched
    <3>2. sent' \in [Signals -> Nat] /\ panicked' \in BOOLEAN
      BY <1>3, SignalType
      DEF Actor, Terminate, Cancel, ReaderStarted, ReaderFinished, HandleFinalState, HandleDrain,
          HandleUnresponsive, HandleUninterruptible, Settle, TypeOK, ProcessTypeOK
    <3>. QED
      BY <3>1, <3>2 DEF processVars, TypeOK, ProcessTypeOK
  <2>2. ActorTypeOK'
    <3>. USE DEF TypeOK, ActorTypeOK, Timers
    <3>1. CASE Terminate \/ Cancel
      BY <3>1, ReceiveType DEF Terminate, Cancel
    <3>2. CASE ReaderStarted
      BY <3>2, ReceiveType DEF ReaderStarted
    <3>3. CASE ReaderFinished
      BY <3>3, ReceiveType DEF ReaderFinished, EnvironmentTypeOK
    <3>4. CASE HandleFinalState \/ HandleDrain
      BY <3>4 DEF HandleFinalState, HandleDrain, Fire
    <3>5. CASE HandleUnresponsive \/ HandleUninterruptible
      BY <3>5, ObservationsAreReports DEF HandleUnresponsive, HandleUninterruptible, Fire
    <3>6. CASE Settle
      <4>1. exitOrders' \in Seq(ExitOutcomes)
        <5>1. CASE UNCHANGED exitOrders
          BY <5>1
        <5>2. CASE Settled /\ ~ResolvePanics /\ exitOrders' = Append(exitOrders, Resolve__ExitOutcome)
          BY <5>2, OutcomeType
        <5>. QED
          BY <3>6, <5>1, <5>2 DEF Settle
      <4>2. armed' \in SUBSET Timers /\ teardown' \in {"Select", "Settle", "Exited"}
        BY <3>6 DEF Settle
      <4>. QED
        BY <3>6, <4>1, <4>2 DEF Settle
    <3>. QED
      BY <1>3, <3>1, <3>2, <3>3, <3>4, <3>5, <3>6 DEF Actor
  <2>3. EnvironmentTypeOK'
    BY <1>3 DEF Actor, Terminate, Cancel, ReaderStarted, ReaderFinished, HandleFinalState,
                HandleDrain, HandleUnresponsive, HandleUninterruptible, Settle,
                environmentVars, TypeOK, EnvironmentTypeOK
  <2>. QED
    BY <2>1, <2>2, <2>3 DEF TypeOK
<1>4. CASE UNCHANGED vars
  BY <1>4 DEF vars, processVars, teardownVars, environmentVars,
              TypeOK, ProcessTypeOK, ActorTypeOK, EnvironmentTypeOK
<1>. QED
  BY <1>1, <1>2, <1>3, <1>4 DEF Next

-----------------------------------------------------------------------------
(* Every step preserves what the queue may hold.                           *)

(* A Terminate is only ever added to an Active PTY's queue, and only there  *)
(* is one received.                                                        *)
LEMMA ActiveReceives ==
  ASSUME TypeOK, QueueInv, Terminate \/ ReaderStarted \/ ReaderFinished
  PROVE  coordinator \in {"Active", "Exited"}
BY DEF Terminate, ReaderStarted, ReaderFinished, Receive, QueueInv, SpawningInv, CanceledInv,
       TypeOK, EnvironmentTypeOK

LEMMA CanceledReceives ==
  ASSUME TypeOK, QueueInv, Cancel
  PROVE  /\ coordinator = "Canceled"
         /\ Status_ReaderSide = "PENDING"
         /\ Status_ProcessSide \in {"UNESCALATED", "FINAL"}
         /\ queue = <<"Cancel">>
<1>1. queue # <<>> /\ Len(queue) > 0 /\ queue[1] = "Cancel"
  BY ReceiveContents DEF Cancel, Receive, TypeOK, ActorTypeOK
<1>2. coordinator \notin {"Active", "Exited"}
  BY <1>1 DEF QueueInv, ActiveInv
<1>. QED
  BY <1>1, <1>2 DEF QueueInv, SpawningInv, CanceledInv, TypeOK, EnvironmentTypeOK

LEMMA Received ==
  ASSUME NEW order, TypeOK, Receive(order)
  PROVE  /\ Len(queue) \in Nat
         /\ Len(queue) > 0
         /\ queue[1] = order
         /\ Len(queue') = Len(queue) - 1
         /\ \A i \in 1 .. Len(queue') : i + 1 \in 1 .. Len(queue) /\ queue'[i] = queue[i + 1]
         /\ \A i \in 1 .. Len(queue) : i # 1 => i - 1 \in 1 .. Len(queue') /\ queue'[i - 1] = queue[i]
BY ReceiveContents DEF Receive, TypeOK, ActorTypeOK

(* Whatever is received of an active PTY, the rest of the queue obeys the   *)
(* same rules, now that ReaderStarted cannot be in it.                      *)
LEMMA ActiveTail ==
  ASSUME NEW order, TypeOK, ActiveInv, Receive(order)
  PROVE  /\ \A i \in 1 .. Len(queue') : queue'[i] \in {"Terminate", "ReaderFinished"}
         /\ \A i, j \in 1 .. Len(queue') :
              queue'[i] = "ReaderFinished" /\ queue'[j] = "ReaderFinished" => i = j
         /\ order # "ReaderFinished" =>
              ((\E i \in 1 .. Len(queue') : queue'[i] = "ReaderFinished")
                 <=> (\E i \in 1 .. Len(queue) : queue[i] = "ReaderFinished"))
         /\ order = "ReaderFinished" =>
              ~ \E i \in 1 .. Len(queue') : queue'[i] = "ReaderFinished"
<1>. USE Received DEF ActiveInv
<1>1. \A i \in 1 .. Len(queue') : queue'[i] \in {"Terminate", "ReaderFinished"}
  OBVIOUS
<1>2. ASSUME NEW i \in 1 .. Len(queue'), NEW j \in 1 .. Len(queue'),
             queue'[i] = "ReaderFinished", queue'[j] = "ReaderFinished"
      PROVE  i = j
  <2>1. i + 1 = j + 1
    BY <1>2
  <2>. QED
    BY <2>1
<1>3. order # "ReaderFinished" =>
        ((\E i \in 1 .. Len(queue') : queue'[i] = "ReaderFinished")
           <=> (\E i \in 1 .. Len(queue) : queue[i] = "ReaderFinished"))
  <2>1. ASSUME NEW i \in 1 .. Len(queue'), queue'[i] = "ReaderFinished"
        PROVE  \E k \in 1 .. Len(queue) : queue[k] = "ReaderFinished"
    BY <2>1
  <2>2. ASSUME NEW i \in 1 .. Len(queue), queue[i] = "ReaderFinished", order # "ReaderFinished"
        PROVE  \E k \in 1 .. Len(queue') : queue'[k] = "ReaderFinished"
    BY <2>2
  <2>. QED
    BY <2>1, <2>2
<1>4. ASSUME order = "ReaderFinished", NEW i \in 1 .. Len(queue'), queue'[i] = "ReaderFinished"
      PROVE  FALSE
  <2>1. i + 1 = 1
    BY <1>4
  <2>. QED
    BY <2>1
<1>. QED
  BY <1>1, <1>2, <1>3, <1>4

LEMMA QueueStep == IInv /\ [Next]_vars => QueueInv'
<1>. SUFFICES ASSUME IInv, [Next]_vars PROVE QueueInv'
  OBVIOUS
<1>. USE DEF IInv
<1>1. CASE SpawnSuccess
  BY <1>1, SendContents DEF SpawnSuccess, Send, QueueInv, SpawningInv, ActiveInv, TypeOK,
                            ActorTypeOK, Orders
<1>2. CASE SpawnCanceled
  BY <1>2 DEF SpawnCanceled, Send, QueueInv, SpawningInv, CanceledInv
<1>3. CASE HandleTerminate
  BY <1>3, SendContents DEF HandleTerminate, QueueInv, ActiveInv, TypeOK, ActorTypeOK, Orders
<1>4. CASE HandleReaderFinished
  BY <1>4, SendContents DEF HandleReaderFinished, Send, QueueInv, SpawningInv, CanceledInv,
                            ActiveInv, TypeOK, ActorTypeOK, EnvironmentTypeOK, Orders
<1>5. CASE HandleExit \/ ReaderError
  BY <1>5 DEF HandleExit, ReaderError, QueueInv, SpawningInv, CanceledInv, ActiveInv,
              teardownVars, TypeOK, EnvironmentTypeOK
<1>6. CASE Terminate
  <2>1. ActiveInv /\ Receive("Terminate") /\ coordinator' \in {"Active", "Exited"}
    BY <1>6, ActiveReceives DEF Terminate, QueueInv, environmentVars
  <2>2. ActiveInv'
    BY <1>6, <2>1, ActiveTail, Received DEF Terminate, ActiveInv, environmentVars, ActorTypeOK, TypeOK
  <2>. QED
    BY <2>1, <2>2 DEF QueueInv
<1>7. CASE ReaderStarted
  <2>1. ActiveInv /\ Receive("ReaderStarted") /\ coordinator' \in {"Active", "Exited"}
    BY <1>7, ActiveReceives DEF ReaderStarted, QueueInv, environmentVars
  <2>2. ActiveInv'
    BY <1>7, <2>1, ActiveTail, Received DEF ReaderStarted, ActiveInv, environmentVars, ActorTypeOK, TypeOK
  <2>. QED
    BY <2>1, <2>2 DEF QueueInv
<1>8. CASE ReaderFinished
  <2>1. ActiveInv /\ Receive("ReaderFinished") /\ coordinator' \in {"Active", "Exited"}
    BY <1>8, ActiveReceives DEF ReaderFinished, QueueInv, environmentVars
  <2>2. ActiveInv'
    BY <1>8, <2>1, ActiveTail, Received DEF ReaderFinished, ActiveInv, environmentVars, ActorTypeOK, TypeOK
  <2>. QED
    BY <2>1, <2>2 DEF QueueInv
<1>9. CASE Cancel
  <2>1. coordinator' = "Canceled" /\ CanceledInv
    BY <1>9, CanceledReceives DEF Cancel, QueueInv, environmentVars
  <2>2. queue' = <<>>
    <3>1. Receive("Cancel") /\ Len(queue) = 1
      BY <1>9, CanceledReceives DEF Cancel
    <3>2. queue' \in Seq(Orders) /\ Len(queue') = 0
      BY <3>1, Received, ReceiveType
    <3>. QED
      BY <3>2
  <2>3. CanceledInv'
    BY <1>9, <2>1, <2>2, CanceledReceives DEF Cancel, CanceledInv, environmentVars
  <2>. QED
    BY <2>1, <2>3 DEF QueueInv
<1>10. CASE HandleFinalState
  BY <1>10 DEF HandleFinalState, QueueInv, SpawningInv, CanceledInv, ActiveInv, environmentVars
<1>11. CASE HandleUnresponsive \/ HandleUninterruptible
  BY <1>11 DEF HandleUnresponsive, HandleUninterruptible, Fire, EscalationInv,
               QueueInv, SpawningInv, CanceledInv, ActiveInv, environmentVars
<1>12. CASE HandleDrain \/ Settle \/ Process \/ UNCHANGED vars
  BY <1>12 DEF HandleDrain, Settle, Process, QueueInv, SpawningInv, CanceledInv, ActiveInv,
               teardownVars, environmentVars, vars
<1>. QED
  BY <1>1, <1>2, <1>3, <1>4, <1>5, <1>6, <1>7, <1>8, <1>9, <1>10, <1>11, <1>12
  DEF Next, Coordinator, Stream, Actor

-----------------------------------------------------------------------------
(* Every step preserves what is known of the reader's end, of the timers   *)
(* and of the actor's exit.                                                *)

LEMMA ReaderStep == IInv /\ [Next]_vars => ReaderInv'
<1>. SUFFICES ASSUME IInv, [Next]_vars PROVE ReaderInv'
  OBVIOUS
<1>. USE DEF IInv, ReaderInv
<1>1. CASE Coordinator
  BY <1>1 DEF Coordinator, SpawnSuccess, SpawnCanceled, HandleTerminate, HandleExit,
              QueueInv, SpawningInv, teardownVars
<1>2. CASE ReaderError
  BY <1>2 DEF ReaderError, ExitSignals, NONE, teardownVars, QueueInv, SpawningInv, CanceledInv,
              ActiveInv, TypeOK, EnvironmentTypeOK
<1>3. CASE HandleReaderFinished
  BY <1>3 DEF HandleReaderFinished
<1>4. CASE Cancel
  BY <1>4 DEF Cancel, environmentVars
<1>5. CASE ReaderFinished
  BY <1>5 DEF ReaderFinished, environmentVars
<1>6. CASE \/ Terminate \/ ReaderStarted \/ HandleFinalState \/ HandleDrain
           \/ HandleUnresponsive \/ HandleUninterruptible \/ Settle
  BY <1>6 DEF Terminate, ReaderStarted, HandleFinalState, HandleDrain, HandleUnresponsive,
              HandleUninterruptible, Settle, environmentVars
<1>7. CASE Process \/ UNCHANGED vars
  BY <1>7 DEF Process, vars, teardownVars, environmentVars
<1>. QED
  BY <1>1, <1>2, <1>3, <1>4, <1>5, <1>6, <1>7 DEF Next, Stream, Actor

(* While the state is not final the worker holds its pidfd open, so Signal *)
(* does not panic; what it sends, it sends once each.                      *)
LEMMA SignalEffect ==
  ASSUME NEW numbers \in SUBSET Signals, TypeOK, WorkerInv, NoPanic, Signal(numbers)
  PROVE  /\ ~panicked'
         /\ \A s \in Signals : s \notin numbers => sent'[s] = sent[s]
         /\ \A s \in Signals : sent'[s] \in {sent[s], sent[s] + 1}
         /\ State_state \notin FinalStates => \A s \in numbers : sent'[s] = sent[s] + 1
<1>1. State_state \notin FinalStates => pidfd = "open"
  BY DEF WorkerInv, TypeOK, ProcessTypeOK
<1>2. ~panicked'
  BY <1>1 DEF Signal, NoPanic
<1>3. CASE State_state \in FinalStates
  BY <1>2, <1>3 DEF Signal
<1>4. CASE State_state \notin FinalStates
  <2>1. sent' = [s \in Signals |-> IF s \in numbers THEN sent[s] + 1 ELSE sent[s]]
    BY <1>1, <1>4 DEF Signal
  <2>. QED
    BY <1>2, <1>4, <2>1
<1>. QED
  BY <1>3, <1>4

LEMMA EscalationStep == IInv /\ [Next]_vars => EscalationInv'
<1>. SUFFICES ASSUME IInv, [Next]_vars PROVE EscalationInv'
  OBVIOUS
<1>. USE DEF IInv, EscalationInv
<1>1. CASE Process
  BY <1>1 DEF Process, Kernel, KernelExit, KernelTrace, KernelRelease, RunWorker, WatchWaitid,
              RepeekWaitid, PeekWaitid, WatchPoll, RepeekPoll, WatchWake, WriteWithheld,
              WriteZombie, Collect, WriteFailure, ClosePidfd, CloseChannel, teardownVars
<1>2. CASE Coordinator \/ Stream \/ UNCHANGED vars
  BY <1>2 DEF Coordinator, SpawnSuccess, SpawnCanceled, HandleTerminate, HandleExit,
              Stream, ReaderError, HandleReaderFinished, vars, processVars, teardownVars
<1>3. CASE Terminate
  BY <1>3, SignalEffect DEF Terminate, Signals, processVars
<1>4. CASE Cancel
  BY <1>4, CanceledReceives, SignalEffect DEF Cancel, Signals, processVars
<1>5. CASE ReaderStarted \/ ReaderFinished
  BY <1>5 DEF ReaderStarted, ReaderFinished, processVars, Signals
<1>6. CASE HandleFinalState \/ HandleDrain \/ Settle
  BY <1>6 DEF HandleFinalState, HandleDrain, Fire, Settle, Settled, processVars
<1>7. CASE HandleUnresponsive
  BY <1>7, SignalEffect, ObservationsAreReports
  DEF HandleUnresponsive, Fire, Observe_Unresponsive, FinalStates, Signals, Reports, NONE, processVars
<1>8. CASE HandleUninterruptible
  BY <1>8, ObservationsAreReports DEF HandleUninterruptible, Fire, Reports, NONE, processVars
<1>. QED
  BY <1>1, <1>2, <1>3, <1>4, <1>5, <1>6, <1>7, <1>8 DEF Next, Actor

LEMMA ExitStep == IInv /\ [Next]_vars => ExitInv'
<1>. SUFFICES ASSUME IInv, [Next]_vars PROVE ExitInv'
  OBVIOUS
<1>. USE DEF IInv, ExitInv, Settled
<1>1. CASE Coordinator \/ Stream
  BY <1>1 DEF Coordinator, SpawnSuccess, SpawnCanceled, HandleTerminate, HandleExit,
              Stream, ReaderError, HandleReaderFinished, teardownVars
<1>2. CASE \/ Terminate \/ Cancel \/ ReaderStarted \/ ReaderFinished \/ HandleFinalState
           \/ HandleDrain \/ HandleUnresponsive \/ HandleUninterruptible
  BY <1>2 DEF Terminate, Cancel, ReaderStarted, ReaderFinished, Receive, HandleFinalState,
              HandleDrain, HandleUnresponsive, HandleUninterruptible, Fire, environmentVars
<1>3. CASE Settle
  BY <1>3 DEF Settle, environmentVars, TypeOK, ActorTypeOK
<1>4. CASE Process \/ UNCHANGED vars
  BY <1>4 DEF Process, vars, teardownVars, environmentVars
<1>. QED
  BY <1>1, <1>2, <1>3, <1>4 DEF Next, Actor

-----------------------------------------------------------------------------
(* Every step preserves the safety properties.                             *)

LEMMA NoPanicStep == IInv /\ [Next]_vars => NoPanic'
<1>. SUFFICES ASSUME IInv, [Next]_vars PROVE NoPanic'
  OBVIOUS
<1>. USE DEF IInv, NoPanic
<1>1. CASE Process
  BY <1>1 DEF Process, Kernel, KernelExit, KernelTrace, KernelRelease, RunWorker, WatchWaitid,
              RepeekWaitid, PeekWaitid, WatchPoll, RepeekPoll, WatchWake, WriteWithheld,
              WriteZombie, Collect, WriteFailure, ClosePidfd, CloseChannel, PollIn, WorkerInv
<1>2. CASE Coordinator \/ Stream \/ UNCHANGED vars
  BY <1>2 DEF Coordinator, SpawnSuccess, SpawnCanceled, HandleTerminate, HandleExit,
              Stream, ReaderError, HandleReaderFinished, vars
<1>3. CASE Terminate
  BY <1>3, SignalEffect DEF Terminate, Signals
<1>4. CASE Cancel
  BY <1>4, CanceledReceives, SignalEffect DEF Cancel, Signals
<1>5. CASE ReaderStarted \/ ReaderFinished
  <2>1. ActiveInv
    BY <1>5, ActiveReceives DEF QueueInv
  <2>2. ASSUME ReaderStarted PROVE Status_ReaderSide = "PENDING"
    <3>1. 1 \in 1 .. Len(queue) /\ queue[1] = "ReaderStarted"
      BY <2>2, Received DEF ReaderStarted
    <3>. QED
      BY <2>1, <3>1 DEF ActiveInv
  <2>3. ASSUME ReaderFinished PROVE Status_ReaderSide = "RUNNING"
    <3>1. 1 \in 1 .. Len(queue) /\ queue[1] = "ReaderFinished"
      BY <2>3, Received DEF ReaderFinished
    <3>. QED
      BY <2>1, <3>1 DEF ActiveInv, TypeOK, ActorTypeOK
  <2>. QED
    BY <1>5, <2>2, <2>3 DEF ReaderStarted, ReaderFinished
<1>6. CASE HandleFinalState \/ HandleDrain \/ HandleUninterruptible
  BY <1>6 DEF HandleFinalState, HandleDrain, HandleUninterruptible
<1>7. CASE HandleUnresponsive
  BY <1>7, SignalEffect DEF HandleUnresponsive, Signals
<1>8. CASE Settle
  <2>1. ASSUME Settled, Status_Cancellation = "NOT_CANCELED" PROVE ~ResolvePanics
    <3>1. ExitSignal_PtyReader # NONE
      <4>1. coordinator \in {"Active", "Exited"}
        BY <2>1 DEF Settled, QueueInv, SpawningInv, CanceledInv, TypeOK, EnvironmentTypeOK
      <4>2. reader = "Reported"
        BY <2>1, <4>1 DEF Settled, QueueInv, ActiveInv
      <4>. QED
        BY <2>1, <4>2 DEF Settled, ReaderInv
    <3>2. Status_ProcessSide = "FINAL" => State_state \in FinalStates
      BY DEF EscalationInv, WorkerInv
    <3>. QED
      BY <3>1, <3>2 DEF ResolvePanics
  <2>. QED
    BY <1>8, <2>1 DEF Settle, TypeOK, ActorTypeOK
<1>. QED
  BY <1>1, <1>2, <1>3, <1>4, <1>5, <1>6, <1>7, <1>8 DEF Next, Actor

(* A full queue of an Active PTY holds a Terminate: ReaderStarted can only  *)
(* be at its head, and of the two orders behind it only one can be          *)
(* ReaderFinished.                                                         *)
LEMMA FullQueueHoldsTerminate ==
  ASSUME TypeOK, ActiveInv, ~(Len(queue) < SIZE_QUEUE_BUFFER)
  PROVE  \E i \in 1 .. Len(queue) : queue[i] = "Terminate"
<1>1. Len(queue) \in Nat /\ Len(queue) >= 3
  BY QueueAssumption DEF TypeOK, ActorTypeOK
<1>2. 2 \in 1 .. Len(queue) /\ 3 \in 1 .. Len(queue)
  BY <1>1
<1>3. queue[2] \in {"Terminate", "ReaderFinished"} /\ queue[3] \in {"Terminate", "ReaderFinished"}
  BY <1>2 DEF ActiveInv
<1>4. ~(queue[2] = "ReaderFinished" /\ queue[3] = "ReaderFinished")
  BY <1>2 DEF ActiveInv
<1>. QED
  BY <1>2, <1>3, <1>4

LEMMA NoTerminateLostStep == IInv /\ [Next]_vars => NoTerminateLost'
<1>. SUFFICES ASSUME IInv, [Next]_vars PROVE NoTerminateLost'
  OBVIOUS
<1>. USE DEF IInv, NoTerminateLost
<1>1. CASE HandleTerminate
  <2>1. CASE Len(queue) < SIZE_QUEUE_BUFFER
    <3>1. queue' = Append(queue, "Terminate")
      BY <1>1, <2>1 DEF HandleTerminate
    <3>2. Len(queue') = Len(queue) + 1 /\ Len(queue) \in Nat /\ queue'[Len(queue) + 1] = "Terminate"
      BY <3>1, SendContents DEF TypeOK, ActorTypeOK, Orders
    <3>. QED
      BY <3>2
  <2>2. CASE ~(Len(queue) < SIZE_QUEUE_BUFFER)
    BY <1>1, <2>2, FullQueueHoldsTerminate DEF HandleTerminate, QueueInv
  <2>. QED
    BY <2>1, <2>2
<1>2. CASE HandleReaderFinished
  BY <1>2, SendContents DEF HandleReaderFinished, Send, TypeOK, ActorTypeOK, Orders
<1>3. CASE SpawnSuccess \/ SpawnCanceled
  BY <1>3 DEF SpawnSuccess, SpawnCanceled, QueueInv, SpawningInv
<1>4. CASE Terminate
  BY <1>4 DEF Terminate
<1>5. CASE Cancel
  BY <1>5, CanceledReceives DEF Cancel, QueueInv, CanceledInv, environmentVars
<1>6. CASE ReaderStarted
  BY <1>6, Received DEF ReaderStarted, environmentVars
<1>7. CASE ReaderFinished
  BY <1>7, Received DEF ReaderFinished, environmentVars
<1>8. CASE HandleFinalState \/ HandleDrain \/ HandleUnresponsive \/ HandleUninterruptible \/ Settle
  BY <1>8 DEF HandleFinalState, HandleDrain, HandleUnresponsive, HandleUninterruptible, Settle,
              environmentVars
<1>9. CASE HandleExit \/ ReaderError \/ Process \/ UNCHANGED vars
  BY <1>9 DEF HandleExit, ReaderError, Process, vars, teardownVars, environmentVars
<1>. QED
  BY <1>1, <1>2, <1>3, <1>4, <1>5, <1>6, <1>7, <1>8, <1>9 DEF Next, Coordinator, Stream, Actor

LEMMA NoWaitStep == IInv /\ [Next]_vars => NoWaitWithoutDeadline'
<1>. SUFFICES ASSUME IInv, [Next]_vars PROVE NoWaitWithoutDeadline'
  OBVIOUS
<1>. USE DEF IInv, NoWaitWithoutDeadline
<1>1. CASE Process
  BY <1>1 DEF Process, Kernel, KernelExit, KernelTrace, KernelRelease, RunWorker, WatchWaitid,
              RepeekWaitid, PeekWaitid, WatchPoll, RepeekPoll, WatchWake, WriteWithheld,
              WriteZombie, Collect, WriteFailure, ClosePidfd, CloseChannel, teardownVars,
              WorkerInv, FinalStates
<1>2. CASE Coordinator \/ Stream \/ UNCHANGED vars
  BY <1>2 DEF Coordinator, SpawnSuccess, SpawnCanceled, HandleTerminate, HandleExit,
              Stream, ReaderError, HandleReaderFinished, vars, processVars, teardownVars
<1>3. CASE Terminate \/ Cancel
  BY <1>3 DEF Terminate, Cancel, processVars, EscalationInv
<1>4. CASE ReaderStarted \/ ReaderFinished
  BY <1>4 DEF ReaderStarted, ReaderFinished, processVars, EscalationInv
<1>5. CASE HandleFinalState
  BY <1>5 DEF HandleFinalState, processVars
<1>6. CASE HandleDrain
  BY <1>6 DEF HandleDrain, processVars
<1>7. CASE HandleUnresponsive \/ HandleUninterruptible
  BY <1>7 DEF HandleUnresponsive, HandleUninterruptible, Fire, EscalationInv, Observe_Unresponsive,
              FinalStates, processVars, TypeOK, ProcessTypeOK, State_PtyProcess
<1>8. CASE Settle
  BY <1>8 DEF Settle, Settled, processVars
<1>. QED
  BY <1>1, <1>2, <1>3, <1>4, <1>5, <1>6, <1>7, <1>8 DEF Next, Actor

LEMMA MasterStep == IInv /\ [Next]_vars => MasterOutlivesSpawn'
<1>. SUFFICES ASSUME IInv, [Next]_vars PROVE MasterOutlivesSpawn'
  OBVIOUS
<1>. USE DEF IInv, MasterOutlivesSpawn
<1>1. CASE Coordinator \/ Stream
  BY <1>1 DEF Coordinator, SpawnSuccess, SpawnCanceled, HandleTerminate, HandleExit,
              Stream, ReaderError, HandleReaderFinished, teardownVars
<1>2. CASE Terminate \/ ReaderStarted \/ HandleFinalState \/ HandleUninterruptible \/ Settle
  BY <1>2 DEF Terminate, ReaderStarted, HandleFinalState, HandleUninterruptible, Settle,
              environmentVars
<1>3. CASE Cancel
  BY <1>3, CanceledReceives DEF Cancel, environmentVars, NoPanic
<1>4. CASE ReaderFinished
  BY <1>4, ActiveReceives DEF ReaderFinished, QueueInv, ActiveInv, environmentVars
<1>5. CASE HandleDrain
  BY <1>5 DEF HandleDrain, Fire, EscalationInv, QueueInv, SpawningInv, CanceledInv, ActiveInv,
              environmentVars, TypeOK, EnvironmentTypeOK
<1>6. CASE HandleUnresponsive
  BY <1>6 DEF HandleUnresponsive, Fire, EscalationInv, QueueInv, SpawningInv, CanceledInv,
              ActiveInv, environmentVars, TypeOK, EnvironmentTypeOK
<1>7. CASE Process \/ UNCHANGED vars
  BY <1>7 DEF Process, vars, teardownVars, environmentVars
<1>. QED
  BY <1>1, <1>2, <1>3, <1>4, <1>5, <1>6, <1>7 DEF Next, Actor

LEMMA ExitAfterFlushStep == IInv /\ [Next]_vars => ExitAfterFlush'
<1>. SUFFICES ASSUME IInv, [Next]_vars PROVE ExitAfterFlush'
  OBVIOUS
<1>. USE DEF IInv, ExitAfterFlush
<1>1. CASE Coordinator
  BY <1>1 DEF Coordinator, SpawnSuccess, SpawnCanceled, HandleTerminate, HandleExit,
              QueueInv, SpawningInv, teardownVars
<1>2. CASE Stream
  BY <1>2 DEF Stream, ReaderError, HandleReaderFinished, teardownVars
<1>3. CASE \/ Terminate \/ Cancel \/ ReaderStarted \/ ReaderFinished \/ HandleFinalState
           \/ HandleDrain \/ HandleUnresponsive \/ HandleUninterruptible
  BY <1>3 DEF Terminate, Cancel, ReaderStarted, ReaderFinished, Receive, HandleFinalState,
              HandleDrain, HandleUnresponsive, HandleUninterruptible, Fire, environmentVars,
              ExitInv
<1>4. CASE Settle
  <2>1. exitOrders = <<>>
    BY <1>4 DEF Settle, ExitInv
  <2>2. CASE UNCHANGED exitOrders
    BY <2>1, <2>2
  <2>3. CASE /\ Settled
             /\ Status_Cancellation # "CANCELED"
             /\ exitOrders' = Append(exitOrders, Resolve__ExitOutcome)
    <3>1. Len(exitOrders') = 1
      BY <2>1, <2>3
    <3>2. coordinator \in {"Active", "Exited"}
      BY <2>3 DEF Settled, QueueInv, SpawningInv, CanceledInv, TypeOK, EnvironmentTypeOK
    <3>3. reader = "Reported" /\ Status_Master = "CLOSED"
      BY <2>3, <3>2 DEF Settled, QueueInv, ActiveInv, ReaderInv
    <3>. QED
      BY <1>4, <3>1, <3>3 DEF Settle, environmentVars
  <2>. QED
    BY <1>4, <2>2, <2>3 DEF Settle
<1>5. CASE Process \/ UNCHANGED vars
  BY <1>5 DEF Process, vars, teardownVars, environmentVars
<1>. QED
  BY <1>1, <1>2, <1>3, <1>4, <1>5 DEF Next, Actor

LEMMA EscalatesOnceStep == IInv /\ [Next]_vars => EscalatesOnce'
<1>. SUFFICES ASSUME IInv, [Next]_vars PROVE EscalatesOnce'
  OBVIOUS
<1>. USE DEF IInv, EscalatesOnce, Signals
<1>1. CASE Process
  BY <1>1 DEF Process, Kernel, KernelExit, KernelTrace, KernelRelease, RunWorker, WatchWaitid,
              RepeekWaitid, PeekWaitid, WatchPoll, RepeekPoll, WatchWake, WriteWithheld,
              WriteZombie, Collect, WriteFailure, ClosePidfd, CloseChannel, teardownVars
<1>2. CASE Coordinator \/ Stream \/ UNCHANGED vars
  BY <1>2 DEF Coordinator, SpawnSuccess, SpawnCanceled, HandleTerminate, HandleExit,
              Stream, ReaderError, HandleReaderFinished, vars, teardownVars
<1>3. CASE Terminate
  BY <1>3, SignalEffect DEF Terminate, EscalationInv
<1>4. CASE Cancel
  BY <1>4, SignalEffect DEF Cancel, EscalationInv
<1>5. CASE ReaderStarted \/ ReaderFinished \/ HandleFinalState \/ HandleDrain
           \/ HandleUninterruptible \/ Settle
  BY <1>5 DEF ReaderStarted, ReaderFinished, HandleFinalState, HandleDrain,
              HandleUninterruptible, Settle
<1>6. CASE HandleUnresponsive
  BY <1>6, SignalEffect DEF HandleUnresponsive, Fire, EscalationInv
<1>. QED
  BY <1>1, <1>2, <1>3, <1>4, <1>5, <1>6 DEF Next, Actor

(* What an outcome rests on does not change once it holds: a reaped process *)
(* keeps its termination, a signal stays sent, a read error stays read.     *)
LEMMA EvidenceStays ==
  ASSUME IInv, [Next]_vars
  PROVE  /\ kernel = "reaped" => kernel' = "reaped" /\ UNCHANGED termination
         /\ sent["SIGKILL_GROUP"] > 0 => sent'["SIGKILL_GROUP"] > 0
         /\ State_state = "SystemError" => State_state' = "SystemError"
         /\ readError # NONE => UNCHANGED readError
<1>. USE DEF IInv
<1>1. kernel = "reaped" => kernel' = "reaped" /\ UNCHANGED termination
  BY ProcessUntouched
  DEF Next, Process, Kernel, KernelExit, KernelTrace, KernelRelease, RunWorker, WatchWaitid,
      RepeekWaitid, PeekWaitid, WatchPoll, RepeekPoll, WatchWake, WriteWithheld,
      WriteZombie, Collect, WriteFailure, ClosePidfd, CloseChannel, processVars
<1>2. State_state = "SystemError" => State_state' = "SystemError"
  BY ProcessUntouched
  DEF Next, Process, Kernel, KernelExit, KernelTrace, KernelRelease, RunWorker, WatchWaitid,
      RepeekWaitid, PeekWaitid, WatchPoll, RepeekPoll, WatchWake, WriteWithheld,
      WriteZombie, Collect, WriteFailure, ClosePidfd, CloseChannel, processVars, WorkerInv,
      FinalStates
<1>3. readError # NONE => UNCHANGED readError
  BY DEF Next, Process, Coordinator, SpawnSuccess, SpawnCanceled, HandleTerminate, HandleExit,
         Stream, ReaderError, HandleReaderFinished, Actor, Terminate, Cancel, ReaderStarted,
         ReaderFinished, HandleFinalState, HandleDrain, HandleUnresponsive,
         HandleUninterruptible, Settle, vars, environmentVars, ReaderInv
<1>4. sent["SIGKILL_GROUP"] > 0 => sent'["SIGKILL_GROUP"] > 0
  <2>1. ASSUME NEW numbers \in SUBSET Signals, Signal(numbers), sent["SIGKILL_GROUP"] > 0
        PROVE  sent'["SIGKILL_GROUP"] > 0
    <3>1. sent["SIGKILL_GROUP"] \in Nat /\ "SIGKILL_GROUP" \in Signals
      BY DEF TypeOK, ProcessTypeOK, Signals
    <3>. QED
      BY <2>1, <3>1, SignalEffect
  <2>2. \/ UNCHANGED sent
        \/ \E numbers \in SUBSET Signals : Signal(numbers)
    BY DEF Next, Process, Kernel, KernelExit, KernelTrace, KernelRelease, RunWorker, WatchWaitid,
           RepeekWaitid, PeekWaitid, WatchPoll, RepeekPoll, WatchWake, WriteWithheld,
           WriteZombie, Collect, WriteFailure, ClosePidfd, CloseChannel,
           Coordinator, SpawnSuccess, SpawnCanceled, HandleTerminate, HandleExit,
           Stream, ReaderError, HandleReaderFinished, Actor, Terminate, Cancel, ReaderStarted,
           ReaderFinished, HandleFinalState, HandleDrain, HandleUnresponsive,
           HandleUninterruptible, Settle, vars, Signals
  <2>. QED
    BY <2>1, <2>2
<1>. QED
  BY <1>1, <1>2, <1>3, <1>4

(* The evidence for one outcome, out of OutcomeTruthful.                    *)
Evidence(o) ==
  /\ o.kind \in {"Success", "Failure", "Killed"} => kernel = "reaped"
  /\ o.kind = "Success" => termination = [kind |-> "Exited", code |-> 0]
  /\ o.kind = "Failure" => termination = [kind |-> "Exited", code |-> o.detail] /\ o.detail # 0
  /\ o.kind = "Killed" => termination = [kind |-> "Signaled", code |-> o.detail]
  /\ o.kind = "Stopped" => sent["SIGKILL_GROUP"] > 0
  /\ o.kind = "SystemError_Process" =>
       sent["SIGKILL_GROUP"] > 0 \/ State_state = "SystemError"
  /\ State_state = "SystemError" => o.kind \notin {"Success", "Failure", "Killed"}
  /\ o.kind = "SystemError_Descriptor" <=> readError = "OTHER"

(* The outcome a settling actor resolves has its evidence.                  *)
LEMMA ResolvedEvidence ==
  ASSUME IInv, Settled, Status_Cancellation # "CANCELED", ~ResolvePanics
  PROVE  Evidence(Resolve__ExitOutcome)
<1>. USE DEF IInv
<1>1. ExitSignal_PtyReader = readError /\ ExitSignal_PtyReader # NONE
  BY DEF Settled, ReaderInv, ResolvePanics, TypeOK, ActorTypeOK
<1>2. CASE ExitSignal_PtyReader = "OTHER"
  BY <1>1, <1>2 DEF Evidence, Resolve__ExitOutcome
<1>3. CASE ExitSignal_PtyReader # "OTHER" /\ Status_ProcessSide = "FINAL"
  <2>1. State_state \in FinalStates
    BY <1>1, <1>3 DEF ResolvePanics, TypeOK, ActorTypeOK, ExitSignals
  <2>2. Resolve__ExitOutcome = ResolveFinalState
    BY <1>3 DEF Resolve__ExitOutcome
  <2>3. CASE State_state = "Reaped"
    <3>1. kernel = "reaped" /\ peeked = termination /\ termination \in Terminations
      BY <2>3 DEF WorkerInv
    <3>2. Resolve__ExitOutcome = ResolveTermination(termination)
      BY <2>2, <2>3, <3>1 DEF ResolveFinalState
    <3>. QED
      BY <1>1, <1>3, <2>3, <3>1, <3>2, TerminationOutcome DEF Evidence
  <2>4. CASE State_state = "SystemError"
    BY <1>1, <1>3, <2>2, <2>4 DEF ResolveFinalState, Evidence
  <2>. QED
    BY <2>1, <2>3, <2>4 DEF FinalStates
<1>4. CASE ExitSignal_PtyReader # "OTHER" /\ Status_ProcessSide = "GIVEN_UP"
  <2>1. sent["SIGKILL_GROUP"] > 0
    BY <1>4 DEF EscalationInv
  <2>2. Resolve__ExitOutcome = ResolveReport(Report_Observation_latest)
    BY <1>4 DEF Resolve__ExitOutcome
  <2>. QED
    BY <1>1, <1>4, <2>1, <2>2, ReportOutcome DEF Evidence
<1>. QED
  BY <1>2, <1>3, <1>4 DEF Settled

(* Once the reader's error is known the evidence stays.                     *)
LEMMA EvidenceStep ==
  ASSUME IInv, [Next]_vars, readError # NONE, NEW o, Evidence(o)
  PROVE  Evidence(o)'
<1>1. kernel = "reaped" => State_state' = "Reaped"
  BY EvidenceStays, WorkerStep DEF IInv, WorkerInv
<1>. QED
  BY <1>1, EvidenceStays DEF Evidence

LEMMA OutcomeTruthfulStep == IInv /\ [Next]_vars => OutcomeTruthful'
<1>. SUFFICES ASSUME IInv, [Next]_vars PROVE OutcomeTruthful'
  OBVIOUS
<1>1. \A i \in 1 .. Len(exitOrders) : Evidence(exitOrders[i])
  BY DEF IInv, OutcomeTruthful, Evidence
<1>2. CASE UNCHANGED exitOrders
  <2>1. exitOrders # <<>> => readError # NONE
    BY DEF IInv, ExitAfterFlush, ReaderInv
  <2>2. \A i \in 1 .. Len(exitOrders) : Evidence(exitOrders[i])'
    BY <1>1, <1>2, <2>1, EvidenceStep
  <2>. QED
    BY <1>2, <2>2 DEF OutcomeTruthful, Evidence
<1>3. CASE Settle /\ exitOrders' # exitOrders
  <2>1. Settled /\ Status_Cancellation # "CANCELED" /\ ~ResolvePanics
    BY <1>3 DEF Settle
  <2>2. exitOrders' = Append(exitOrders, Resolve__ExitOutcome) /\ exitOrders = <<>>
    BY <1>3, <2>1 DEF Settle, IInv, ExitInv
  <2>3. Len(exitOrders') = 1 /\ exitOrders'[1] = Resolve__ExitOutcome
    BY <2>2
  <2>4. Evidence(Resolve__ExitOutcome)
    BY <2>1, ResolvedEvidence
  <2>5. UNCHANGED <<kernel, termination, sent, State_state, readError>>
    BY <1>3 DEF Settle, processVars, environmentVars
  <2>. QED
    BY <2>3, <2>4, <2>5 DEF OutcomeTruthful, Evidence
<1>. QED
  BY <1>2, <1>3
  DEF Next, Process, Coordinator, SpawnSuccess, SpawnCanceled, HandleTerminate, HandleExit,
      Stream, ReaderError, HandleReaderFinished, Actor, Terminate, Cancel, ReaderStarted,
      ReaderFinished, HandleFinalState, HandleDrain, HandleUnresponsive,
      HandleUninterruptible, vars, teardownVars

-----------------------------------------------------------------------------
(* Theorems.                                                               *)

(* IInv is inductive.                                                      *)
LEMMA NextInv == IInv /\ [Next]_vars => IInv'
<1>. SUFFICES ASSUME IInv, [Next]_vars PROVE IInv'
  OBVIOUS
<1>1. TypeOK' /\ WorkerInv'
  BY TypeStep, WorkerStep DEF IInv
<1>2. QueueInv' /\ ReaderInv' /\ EscalationInv' /\ ExitInv'
  BY QueueStep, ReaderStep, EscalationStep, ExitStep
<1>3. NoPanic' /\ NoTerminateLost' /\ NoWaitWithoutDeadline' /\ MasterOutlivesSpawn'
  BY NoPanicStep, NoTerminateLostStep, NoWaitStep, MasterStep
<1>4. ExitAfterFlush' /\ OutcomeTruthful' /\ EscalatesOnce'
  BY ExitAfterFlushStep, OutcomeTruthfulStep, EscalatesOnceStep
<1>. QED
  BY <1>1, <1>2, <1>3, <1>4 DEF IInv

(* The joint invariant of the process, the coordinator, the reader and the *)
(* actor holds in every reachable state.                                   *)
THEOREM Invariant == Spec => []IInv
<1>1. Init => IInv
  BY InitInv
<1>2. IInv /\ [Next]_vars => IInv'
  BY NextInv
<1>. QED
  BY <1>1, <1>2, PTL DEF Spec

(* Every variable of RunWorker's actor and of its surroundings keeps its   *)
(* type; the queue never exceeds its capacity.                             *)
THEOREM TypeCorrect == Spec => []TypeOK
<1>1. IInv => TypeOK
  BY DEF IInv
<1>. QED
  BY <1>1, Invariant, PTL

(* No "invalid path" panic of _PtyProcess_ or _PtyTeardown_ is reachable.   *)
THEOREM PanicFree == Spec => []NoPanic
<1>1. IInv => NoPanic
  BY DEF IInv
<1>. QED
  BY <1>1, Invariant, PTL

(* HandleTerminate never loses a Terminate on a full queue of capacity     *)
(* three or more.                                                          *)
THEOREM TerminateKept == Spec => []NoTerminateLost
<1>1. IInv => NoTerminateLost
  BY DEF IInv
<1>. QED
  BY <1>1, Invariant, PTL

(* RunWorker's select never waits for a side that has no timer, no worker   *)
(* and no closed master to end it.                                         *)
THEOREM DeadlineArmed == Spec => []NoWaitWithoutDeadline
<1>1. IInv => NoWaitWithoutDeadline
  BY DEF IInv
<1>. QED
  BY <1>1, Invariant, PTL

(* Close_Master is not called before the spawn was activated or canceled.   *)
THEOREM MasterKept == Spec => []MasterOutlivesSpawn
<1>1. IInv => MasterOutlivesSpawn
  BY DEF IInv
<1>. QED
  BY <1>1, Invariant, PTL

(* Settle emits at most one outcome, and after the dispatcher's last flush. *)
THEOREM ExitLast == Spec => []ExitAfterFlush
<1>1. IInv => ExitAfterFlush
  BY DEF IInv
<1>. QED
  BY <1>1, Invariant, PTL

(* The outcome Settle emits is what happened to the process or the reader.  *)
THEOREM OutcomeTrue == Spec => []OutcomeTruthful
<1>1. IInv => OutcomeTruthful
  BY DEF IInv
<1>. QED
  BY <1>1, Invariant, PTL

(* Each signal of the escalation is sent at most once.                     *)
THEOREM EscalationOnce == Spec => []EscalatesOnce
<1>1. IInv => EscalatesOnce
  BY DEF IInv
<1>. QED
  BY <1>1, Invariant, PTL

(* pidfd_send_signal is never called on a closed descriptor nor for a       *)
(* process that has been reaped: Collect ends the sending states in the     *)
(* critical section in which it frees the PID.                             *)
THEOREM OwnProcessSignaled == Spec => SignalsReachOwnProcess
<1>. DEFINE OwnProcess == sent' # sent => pidfd = "open" /\ kernel # "reaped"
<1>1. ASSUME NEW numbers, IInv, Signal(numbers) PROVE OwnProcess
  BY <1>1 DEF IInv, Signal, WorkerInv, FinalStates
<1>2. IInv /\ [Next]_vars => OwnProcess
  <2>. SUFFICES ASSUME IInv, [Next]_vars PROVE OwnProcess
    OBVIOUS
  <2>1. UNCHANGED sent \/ \E numbers \in SUBSET Signals : Signal(numbers)
    BY DEF Next, Process, Kernel, KernelExit, KernelTrace, KernelRelease, RunWorker, WatchWaitid,
           RepeekWaitid, PeekWaitid, WatchPoll, RepeekPoll, WatchWake, WriteWithheld,
           WriteZombie, Collect, WriteFailure, ClosePidfd, CloseChannel,
           Coordinator, SpawnSuccess, SpawnCanceled, HandleTerminate, HandleExit,
           Stream, ReaderError, HandleReaderFinished, Actor, Terminate, Cancel, ReaderStarted,
           ReaderFinished, HandleFinalState, HandleDrain, HandleUnresponsive,
           HandleUninterruptible, Settle, vars, Signals
  <2>. QED
    BY <2>1, <1>1
<1>3. IInv /\ [Next]_vars => [OwnProcess]_vars
  BY <1>2
<1>. QED
  BY <1>3, Invariant, PTL DEF Spec, SignalsReachOwnProcess

-----------------------------------------------------------------------------
(* The actor implements the abstract session.                              *)

(* A step that leaves these five alone leaves the session alone.            *)
LEMMA SessionStutters ==
  ASSUME UNCHANGED <<teardown, Status_Cancellation, Status_ReaderSide, Status_Master, exitOrders>>
  PROVE  UNCHANGED Session!sessionVars
BY DEF Session!sessionVars, SessionPhase

(* A settling step either continues, which the session does not see, or    *)
(* ends it.                                                                *)
LEMMA SettleEnds ==
  ASSUME IInv, Settle
  PROVE  [Session!Next]_(Session!sessionVars)
<1>. USE DEF IInv
<1>1. CASE ~Settled
  <2>1. teardown # "Exited" /\ teardown' # "Exited"
    BY <1>1 DEF Settle
  <2>. QED
    BY <1>1, <2>1 DEF Settle, Session!sessionVars, SessionPhase
<1>2. CASE Settled /\ Status_Cancellation = "CANCELED"
  <2>1. SessionPhase = "Silent" /\ SessionPhase' = "Ended"
    BY <1>2 DEF Settle, SessionPhase
  <2>2. Session!EndSilently
    BY <1>2, <2>1 DEF Settle, Session!EndSilently
  <2>. QED
    BY <2>2 DEF Session!Next
<1>3. CASE Settled /\ Status_Cancellation # "CANCELED"
  <2>1. ~ResolvePanics
    BY <1>3, NoPanicStep DEF Settle, NoPanic, Next, Actor
  <2>2. SessionPhase = "Drained" /\ SessionPhase' = "Ended"
    BY <1>3 DEF Settle, Settled, SessionPhase
  <2>3. Resolve__ExitOutcome \in ExitOutcomes
    BY <1>3, <2>1, OutcomeType
  <2>4. Session!End
    BY <1>3, <2>1, <2>2, <2>3 DEF Settle, Session!End
  <2>. QED
    BY <2>4 DEF Session!Next
<1>. QED
  BY <1>1, <1>2, <1>3

(* Closing the master of a session whose output is being read unplugs it;  *)
(* afterwards the close changes nothing.                                   *)
LEMMA CloseUnplugs ==
  ASSUME IInv,
         Status_ReaderSide # "PENDING",
         teardown # "Exited", teardown' # "Exited",
         Status_Master' = "CLOSED",
         UNCHANGED <<Status_Cancellation, Status_ReaderSide, exitOrders>>
  PROVE  [Session!Next]_(Session!sessionVars)
<1>. USE DEF IInv
<1>1. SessionPhase' = SessionPhase
  BY DEF SessionPhase
<1>2. CASE Status_Master = "CLOSED"
  BY <1>1, <1>2 DEF Session!sessionVars
<1>3. CASE Status_Master # "CLOSED"
  <2>1. Status_Master = "OPEN" /\ Status_ReaderSide = "RUNNING"
    BY <1>3 DEF ReaderInv, TypeOK, ActorTypeOK
  <2>2. Status_Cancellation # "CANCELED"
    BY <2>1 DEF QueueInv, SpawningInv, CanceledInv, ActiveInv, TypeOK, EnvironmentTypeOK
  <2>3. SessionPhase = "Streaming"
    BY <2>1, <2>2 DEF SessionPhase
  <2>4. Session!Unplug
    BY <1>1, <2>1, <2>3 DEF Session!Unplug
  <2>. QED
    BY <2>4 DEF Session!Next
<1>. QED
  BY <1>2, <1>3

LEMMA SessionStep == IInv /\ [Next]_vars => [Session!Next]_(Session!sessionVars)
<1>. SUFFICES ASSUME IInv, [Next]_vars PROVE [Session!Next]_(Session!sessionVars)
  OBVIOUS
<1>. USE DEF IInv
<1>1. CASE Process \/ Coordinator \/ Stream \/ UNCHANGED vars
  <2>1. UNCHANGED <<teardown, Status_Cancellation, Status_ReaderSide, Status_Master, exitOrders>>
    BY <1>1 DEF Process, Coordinator, SpawnSuccess, SpawnCanceled, HandleTerminate, HandleExit,
                Stream, ReaderError, HandleReaderFinished, vars, teardownVars
  <2>. QED
    BY <2>1, SessionStutters
<1>2. CASE Terminate \/ HandleFinalState \/ HandleUninterruptible
  <2>1. /\ UNCHANGED <<Status_Cancellation, Status_ReaderSide, Status_Master, exitOrders>>
        /\ teardown = "Select"
        /\ teardown' = "Settle"
    BY <1>2 DEF Terminate, HandleFinalState, HandleUninterruptible, Receive, Fire
  <2>. QED
    BY <2>1 DEF Session!sessionVars, SessionPhase
<1>3. CASE HandleDrain \/ HandleUnresponsive
  <2>1. /\ UNCHANGED <<Status_Cancellation, Status_ReaderSide, exitOrders>>
        /\ Status_Master' = "CLOSED"
        /\ teardown = "Select"
        /\ teardown' = "Settle"
    BY <1>3 DEF HandleDrain, HandleUnresponsive, Fire
  <2>2. Status_ReaderSide # "PENDING"
    BY <1>3 DEF HandleDrain, HandleUnresponsive, Fire, EscalationInv, QueueInv, SpawningInv,
                CanceledInv, ActiveInv, TypeOK, EnvironmentTypeOK
  <2>. QED
    BY <2>1, <2>2, CloseUnplugs
<1>4. CASE Cancel
  <2>1. /\ Status_ReaderSide = "PENDING"
        /\ Status_ProcessSide \in {"UNESCALATED", "FINAL"}
        /\ Status_Cancellation = "NOT_CANCELED"
    BY <1>4, CanceledReceives DEF QueueInv, CanceledInv
  <2>2. /\ teardown = "Select"
        /\ teardown' = "Settle"
        /\ Status_Cancellation' = "CANCELED"
        /\ Status_Master' = "CLOSED"
        /\ UNCHANGED exitOrders
    BY <1>4, <2>1 DEF Cancel, Receive
  <2>3. SessionPhase = "Pending" /\ SessionPhase' = "Silent"
    BY <2>1, <2>2 DEF SessionPhase
  <2>4. Session!Cancel
    BY <2>2, <2>3 DEF Session!Cancel
  <2>. QED
    BY <2>4 DEF Session!Next
<1>5. CASE ReaderStarted
  <2>1. Status_Cancellation = "NOT_CANCELED"
    BY <1>5, ActiveReceives DEF QueueInv, ActiveInv
  <2>2. ~panicked'
    BY NoPanicStep DEF NoPanic
  <2>3. /\ Status_ReaderSide = "PENDING"
        /\ Status_ReaderSide' = "RUNNING"
        /\ teardown = "Select"
        /\ teardown' = "Settle"
        /\ UNCHANGED <<Status_Cancellation, Status_Master, exitOrders>>
    BY <1>5, <2>2 DEF ReaderStarted, Receive
  <2>4. SessionPhase = "Pending" /\ SessionPhase' = "Streaming"
    BY <2>1, <2>3 DEF SessionPhase
  <2>5. Session!Start
    BY <2>3, <2>4 DEF Session!Start
  <2>. QED
    BY <2>5 DEF Session!Next
<1>6. CASE ReaderFinished
  <2>1. Status_Cancellation = "NOT_CANCELED"
    BY <1>6, ActiveReceives DEF QueueInv, ActiveInv
  <2>2. ~panicked'
    BY NoPanicStep DEF NoPanic
  <2>3. /\ Status_ReaderSide = "RUNNING"
        /\ Status_ReaderSide' = "FINISHED"
        /\ teardown = "Select"
        /\ teardown' = "Settle"
        /\ Status_Master' = "CLOSED"
        /\ UNCHANGED <<Status_Cancellation, exitOrders>>
    BY <1>6, <2>2 DEF ReaderFinished, Receive
  <2>4. SessionPhase = "Streaming" /\ SessionPhase' = "Drained"
    BY <2>1, <2>3 DEF SessionPhase
  <2>5. Session!Drain
    BY <2>3, <2>4 DEF Session!Drain
  <2>. QED
    BY <2>5 DEF Session!Next
<1>7. CASE Settle
  BY <1>7, SettleEnds
<1>. QED
  BY <1>1, <1>2, <1>3, <1>4, <1>5, <1>6, <1>7 DEF Next, Actor

(* PtyTeardown implements PtySession: a session is streamed or canceled,   *)
(* its master closes once and not before, and it ends with one exit order  *)
(* after its last output, or with none.                                    *)
THEOREM Refinement == Spec => ImplementsSession
<1>1. Init => Session!Init
  BY DEF Init, Session!Init, SessionPhase
<1>2. IInv /\ [Next]_vars => [Session!Next]_(Session!sessionVars)
  BY SessionStep
<1>. QED
  BY <1>1, <1>2, Invariant, PTL DEF Spec, ImplementsSession, Session!Spec
=============================================================================
