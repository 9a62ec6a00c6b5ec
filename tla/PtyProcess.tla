----------------------------- MODULE PtyProcess -----------------------------
(***************************************************************************)
(* One PTY process: the kernel's view of it (external), the mirror         *)
(* State_state that _PtyProcess_ keeps under its Mutex, and the worker     *)
(* goroutine that watches the pidfd, collects the process and announces    *)
(* its final state by closing Channel_FinalState.                          *)
(*                                                                         *)
(* A critical section of _PtyProcess_.Mutex is one action. Everything the  *)
(* worker does outside the Mutex is an action of its own, so that the      *)
(* kernel and _PtyTeardown_ can act between any two of them.               *)
(***************************************************************************)
EXTENDS Integers, Sequences

CONSTANTS
  ExitCodes,      \* the exit codes a process may end with, 0 among them
  SignalNumbers,  \* the signals that may kill a process
  Tracers,        \* who may come to ptrace it, out of "NONE", "OWN", "FOREIGN"
  Letters         \* what /proc may show of a process that has not terminated

ASSUME ExitCodesAssumption == ExitCodes \subseteq Nat /\ 0 \in ExitCodes
ASSUME SignalNumbersAssumption == SignalNumbers \subseteq Nat

(* "T" stands for the letters T and t, "R" for R and S, "OTHER" for one the *)
(* server does not know; "UNREADABLE" is a read or parse failure.           *)
ASSUME TracersAssumption == "NONE" \in Tracers /\ Tracers \subseteq {"NONE", "OWN", "FOREIGN"}
ASSUME LettersAssumption ==
  Letters \subseteq {"D", "T", "R", "OTHER", "UNREADABLE"} /\ Letters # {}

VARIABLES
  kernel,              \* the process in the kernel: see KernelStates
  termination,         \* what the kernel will report, once it has ended
  tracer,              \* who ptraces it: "NONE", "OWN" (this server) or "FOREIGN"
  trap,                \* a trap report is pending for its own tracer
  State_state,         \* the state machine that readers of the Mutex see
  worker,              \* where RunWorker stands
  peeked,              \* what the last peek reported
  pidfd,               \* the worker's descriptor
  Channel_FinalState,  \* closed by the worker as its last act
  sent,                \* how often each signal was sent through the pidfd
  panicked             \* an "invalid path" panic ended the server

processVars == <<kernel, termination, tracer, trap, State_state, worker,
                 peeked, pidfd, Channel_FinalState>>

-----------------------------------------------------------------------------
(* Types.                                                                  *)

NONE == "NONE"                                 \* a Go nil, where it is not a record
NoTermination == [kind |-> "None", code |-> 0]

(* "running" covers stopped and uninterruptible processes too; "withheld" *)
(* is a terminated process whose report a foreign tracer holds; "zombie"  *)
(* is reportable to its parent; "reaped" is gone and its PID is free.     *)
KernelStates == {"running", "withheld", "zombie", "reaped"}

Terminations ==
  [kind: {"Exited"}, code: ExitCodes] \cup [kind: {"Signaled"}, code: SignalNumbers]

State_PtyProcess == {"Alive", "Zombie_Withheld", "Zombie", "Reaped", "SystemError"}

(* The states in which the process is over for every reader of the Mutex. *)
FinalStates == {"Reaped", "SystemError"}

(* Watch/Poll: the two system calls of a peek inside RawConn.Read; Parked: *)
(* waiting for the pidfd to become readable; Repeek/RepeekPoll: the same   *)
(* peek while the zombie is withheld; the others are named for what they   *)
(* do next.                                                                *)
WorkerStates ==
  {"Watch", "Poll", "Parked", "WriteWithheld", "Repeek", "RepeekPoll",
   "WriteZombie", "Collect", "WriteFailure", "ClosePidfd", "CloseChannel", "Done"}

Signals == {"SIGHUP", "SIGCONT", "SIGKILL_GROUP"}

ProcessTypeOK ==
  /\ kernel \in KernelStates
  /\ termination \in Terminations \cup {NoTermination}
  /\ tracer \in Tracers
  /\ trap \in BOOLEAN
  /\ State_state \in State_PtyProcess
  /\ worker \in WorkerStates
  /\ peeked \in Terminations \cup {NoTermination}
  /\ pidfd \in {"open", "closed"}
  /\ Channel_FinalState \in {"open", "closed"}
  /\ sent \in [Signals -> Nat]
  /\ panicked \in BOOLEAN

ProcessInit ==
  /\ kernel = "running"
  /\ termination = NoTermination
  /\ tracer = "NONE"
  /\ trap = FALSE
  /\ State_state = "Alive"
  /\ worker = "Watch"
  /\ peeked = NoTermination
  /\ pidfd = "open"
  /\ Channel_FinalState = "open"
  /\ sent = [s \in Signals |-> 0]

-----------------------------------------------------------------------------
(* The kernel and the debuggers on the machine (external).                 *)

(* The process ends: by itself, hung up, killed by the server or by anyone. *)
(* A foreign tracer's report comes first, so it may withhold the zombie.    *)
KernelExit ==
  /\ kernel = "running"
  /\ \E t \in Terminations : termination' = t
  /\ kernel' \in IF tracer = "FOREIGN" THEN {"withheld", "zombie"} ELSE {"zombie"}
  /\ trap' = FALSE
  /\ UNCHANGED <<tracer, State_state, worker, peeked, pidfd, Channel_FinalState,
                 sent, panicked>>

(* A debugger attaches to or detaches from a running process, or the shell  *)
(* calls PTRACE_TRACEME and makes the server its tracer.                    *)
KernelTrace ==
  /\ kernel = "running"
  /\ tracer' \in Tracers \ {tracer}
  /\ trap' = (tracer' = "OWN")
  /\ UNCHANGED <<kernel, termination, State_state, worker, peeked, pidfd,
                 Channel_FinalState, sent, panicked>>

(* The tracer collects its report or detaches: the zombie becomes ours.     *)
KernelRelease ==
  /\ kernel = "withheld"
  /\ kernel' = "zombie"
  /\ tracer' = "NONE"
  /\ UNCHANGED <<termination, trap, State_state, worker, peeked, pidfd,
                 Channel_FinalState, sent, panicked>>

Kernel == KernelExit \/ KernelTrace \/ KernelRelease

(* poll(2) on the pidfd: POLLIN means terminated, reportable or not.        *)
PollIn == kernel # "running"

-----------------------------------------------------------------------------
(* The worker.                                                             *)

(* peek__TerminationReport_PtyProcess, first half: waitid(WNOWAIT). A trap  *)
(* report is consumed and the peek repeated; a termination is REPORTED;     *)
(* with nothing to report the pidfd is polled next.                         *)
PeekWaitid(at, next) ==
  /\ worker = at
  /\ \/ /\ trap
        /\ trap' = FALSE
        /\ UNCHANGED <<worker, peeked>>
     \/ /\ ~trap
        /\ kernel = "zombie"
        /\ peeked' = termination
        /\ worker' = "WriteZombie"
        /\ UNCHANGED trap
     \/ /\ ~trap
        /\ kernel \in {"running", "withheld"}
        /\ worker' = next
        /\ UNCHANGED <<trap, peeked>>
  /\ UNCHANGED <<kernel, termination, tracer, State_state, pidfd,
                 Channel_FinalState, sent, panicked>>

WatchWaitid == PeekWaitid("Watch", "Poll")

(* Second half: ppoll. POLLIN set with nothing reportable is WITHHELD,      *)
(* POLLIN clear is ABSENT, a ppoll error is FAILED.                         *)
WatchPoll ==
  /\ worker = "Poll"
  /\ worker' \in {IF PollIn THEN "WriteWithheld" ELSE "Parked", "WriteFailure"}
  /\ UNCHANGED <<kernel, termination, tracer, trap, State_state, peeked, pidfd,
                 Channel_FinalState, sent, panicked>>

(* RawConn.Read parks on ABSENT until the netpoller reports the pidfd      *)
(* readable, then peeks again.                                             *)
WatchWake ==
  /\ worker = "Parked"
  /\ PollIn
  /\ worker' = "Watch"
  /\ UNCHANGED <<kernel, termination, tracer, trap, State_state, peeked, pidfd,
                 Channel_FinalState, sent, panicked>>

WriteWithheld ==
  /\ worker = "WriteWithheld"
  /\ State_state' = "Zombie_Withheld"
  /\ worker' = "Repeek"
  /\ UNCHANGED <<kernel, termination, tracer, trap, peeked, pidfd,
                 Channel_FinalState, sent, panicked>>

(* repeek__TerminationReport_PtyProcess: the same peek once a second. A    *)
(* re-peek that finds POLLIN clear is an invalid path.                     *)
RepeekWaitid == PeekWaitid("Repeek", "RepeekPoll")
RepeekPoll ==
  /\ worker = "RepeekPoll"
  /\ IF PollIn
     THEN worker' \in {"Repeek", "WriteFailure"} /\ UNCHANGED panicked
     ELSE panicked' = TRUE /\ UNCHANGED worker
  /\ UNCHANGED <<kernel, termination, tracer, trap, State_state, peeked, pidfd,
                 Channel_FinalState, sent>>

WriteZombie ==
  /\ worker = "WriteZombie"
  /\ State_state' = "Zombie"
  /\ worker' = "Collect"
  /\ UNCHANGED <<kernel, termination, tracer, trap, peeked, pidfd,
                 Channel_FinalState, sent, panicked>>

(* Wrong: collects, and leaves the final write for later.                   *)
Collect_WithoutFinalWrite ==
  /\ worker = "Collect"
  /\ kernel = "zombie"
  /\ kernel' = "reaped"
  /\ worker' = "ClosePidfd"
  /\ UNCHANGED <<termination, tracer, trap, State_state, peeked, pidfd,
                 Channel_FinalState, sent, panicked>>

(* One critical section: the collecting waitid and the final write. A      *)
(* collect that finds nothing to collect is an invalid path.               *)
Collect ==
  /\ worker = "Collect"
  /\ IF kernel = "zombie"
     THEN /\ kernel' = "reaped"
          /\ State_state' = "Reaped"
          /\ worker' = "ClosePidfd"
          /\ UNCHANGED panicked
     ELSE /\ panicked' = TRUE
          /\ UNCHANGED <<kernel, State_state, worker>>
  /\ UNCHANGED <<termination, tracer, trap, peeked, pidfd, Channel_FinalState, sent>>

WriteFailure ==
  /\ worker = "WriteFailure"
  /\ State_state' = "SystemError"
  /\ worker' = "ClosePidfd"
  /\ UNCHANGED <<kernel, termination, tracer, trap, peeked, pidfd,
                 Channel_FinalState, sent, panicked>>

ClosePidfd ==
  /\ worker = "ClosePidfd"
  /\ pidfd' = "closed"
  /\ worker' = "CloseChannel"
  /\ UNCHANGED <<kernel, termination, tracer, trap, State_state, peeked,
                 Channel_FinalState, sent, panicked>>

CloseChannel ==
  /\ worker = "CloseChannel"
  /\ Channel_FinalState' = "closed"
  /\ worker' = "Done"
  /\ UNCHANGED <<kernel, termination, tracer, trap, State_state, peeked, pidfd,
                 sent, panicked>>

RunWorker ==
  \/ WatchWaitid \/ WatchPoll \/ WatchWake \/ WriteWithheld \/ RepeekWaitid
  \/ RepeekPoll \/ WriteZombie \/ Collect \/ WriteFailure \/ ClosePidfd \/ CloseChannel

-----------------------------------------------------------------------------
(* What _PtyTeardown_ calls under the Mutex.                               *)

(* Signal(...) of each state: the three states that hold the pidfd send,    *)
(* the final ones answer with an error. A send on a closed pidfd is an      *)
(* invalid path. The calls of one critical section are one set of numbers.  *)
Signal(numbers) ==
  IF State_state \in FinalStates
  THEN UNCHANGED <<sent, panicked>>
  ELSE IF pidfd = "open"
       THEN /\ sent' = [s \in Signals |-> IF s \in numbers THEN sent[s] + 1 ELSE sent[s]]
            /\ UNCHANGED panicked
       ELSE panicked' = TRUE /\ UNCHANGED sent

(* Observe_Unresponsive(): Alive and Zombie_Withheld are UNRESPONSIVE,      *)
(* the three others TERMINATED.                                             *)
Observe_Unresponsive ==
  IF State_state \in {"Alive", "Zombie_Withheld"} THEN "UNRESPONSIVE" ELSE "TERMINATED"

(* What read__Snapshot_Proc may find of this process.                       *)
StateLetters == IF kernel = "running" THEN Letters ELSE {"Z", "UNREADABLE"}

(* classify__Snapshot_Proc: the first match wins.                           *)
classify__Snapshot_Proc(letter, statusTracer) ==
  CASE letter = "D"             -> "Uninterruptible"
    [] statusTracer = "FOREIGN" -> "Debugged"
    [] letter = "T"             -> "Stopped"
    [] letter \in {"R", "Z"}    -> "Rogue"
    [] OTHER                    -> "SystemError"

(* observe__Pid_Unresponsive: a snapshot that cannot be read is a report too.  *)
Observations ==
  {IF l = "UNREADABLE" THEN "SystemError" ELSE classify__Snapshot_Proc(l, tracer) :
     l \in StateLetters}

Reports == {"Uninterruptible", "Debugged", "Stopped", "Rogue", "SystemError"}

(* Resolve__ExitOutcome_PtyProxy of a termination, of the two final states, *)
(* and of an observation.                                                   *)
ResolveTermination(t) ==
  CASE t.kind = "Signaled"               -> [kind |-> "Killed", detail |-> t.code]
    [] t.kind = "Exited" /\ t.code = 0   -> [kind |-> "Success", detail |-> 0]
    [] t.kind = "Exited" /\ t.code # 0   -> [kind |-> "Failure", detail |-> t.code]

ResolveReport(report) ==
  [kind |-> IF report = "Stopped" THEN "Stopped" ELSE "SystemError_Process", detail |-> 0]

(* What _Reaped_ carries is the termination the peek decoded.               *)
ResolveFinalState ==
  IF State_state = "Reaped" THEN ResolveTermination(peeked)
  ELSE [kind |-> "SystemError_Process", detail |-> 0]

(* The detail of a failure is its exit code, that of a kill its signal; the *)
(* signal that stopped a process is left out.                              *)
ExitOutcomes ==
  [kind: {"Success", "Stopped", "SystemError_Process", "SystemError_Descriptor"}, detail: {0}]
    \cup [kind: {"Failure"}, detail: ExitCodes \ {0}]
    \cup [kind: {"Killed"}, detail: SignalNumbers]
=============================================================================
