----------------------------- MODULE PtyDataPlane -----------------------------
(***************************************************************************)
(* The output path of one PTY: _PtyReader_ reads the master into a buffer  *)
(* of a freelist and queues it; _PtyDispatcher_ flushes the first buffer   *)
(* at once, stages what follows while its pacing timer runs, and flushes   *)
(* the staged bytes at each tick.                                          *)
(*                                                                         *)
(* A buffer is shared memory: the reader's read(2) overwrites it, and the  *)
(* dispatcher flushes straight out of it. The two channels are the only    *)
(* synchronisation. A flush (_PtyProxy_.HandleBlockingFlush) may block on  *)
(* the websocket, so its start and its end are separate actions.           *)
(***************************************************************************)
EXTENDS Integers, Sequences

CONSTANTS
  SIZE_QUEUE_BUFFER,   \* capacity of QueueChannel__Order_PtyDispatcher
  SIZE_POOL_BUFFER,    \* capacity of the freelist, and the number of buffers
  MaxReads             \* bound of the model: chunks the process writes

ASSUME QueueAssumption == SIZE_QUEUE_BUFFER \in Nat \ {0}
ASSUME PoolAssumption == SIZE_POOL_BUFFER \in Nat /\ SIZE_POOL_BUFFER >= SIZE_QUEUE_BUFFER + 2
ASSUME ReadsAssumption == MaxReads \in Nat

VARIABLES
  PoolChannel,     \* free buffers
  QueueChannel,    \* orders: buffers with data, and EXIT as the last
  memory,          \* the chunk each buffer holds; chunks are numbered as read
  reads,           \* chunks read so far
  reader,          \* where _PtyReader_.RunWorker stands
  held,            \* the buffer the reader works with
  dispatcher,      \* where _PtyDispatcher_.RunWorker stands
  working,         \* the buffer of the order in execution
  Status_state,    \* "IDLE" or "PACING"
  StagingBuffer,   \* chunks copied and not flushed
  timer,           \* Timer_FlushPacing: "stopped" or "armed"
  flushed,         \* chunks the proxy has received
  finished         \* OnReaderFinished__ has been called

readerVars == <<reads, reader, held>>
dispatcherVars == <<dispatcher, working, Status_state, StagingBuffer, timer, flushed, finished>>
vars == <<PoolChannel, QueueChannel, memory, readerVars, dispatcherVars>>

Buffers == 1 .. SIZE_POOL_BUFFER
NoBuffer == 0
EXIT == 0            \* the _ExitSignal__Order_, which carries no buffer

ChannelTypeOK ==
  /\ PoolChannel \in Seq(Buffers) /\ Len(PoolChannel) <= SIZE_POOL_BUFFER
  /\ QueueChannel \in Seq(Buffers \cup {EXIT}) /\ Len(QueueChannel) <= SIZE_QUEUE_BUFFER

StreamTypeOK ==
  /\ memory \in [Buffers -> 0 .. MaxReads]
  /\ reads \in 0 .. MaxReads
  /\ StagingBuffer \in Seq(0 .. MaxReads)
  /\ flushed \in Seq(0 .. MaxReads)

WorkerTypeOK ==
  /\ reader \in {"Take", "Read", "Send", "Restitute", "SendExit", "Done"}
  /\ held \in Buffers \cup {NoBuffer}
  /\ dispatcher \in {"Select", "FlushData", "FlushStaged", "FlushLast", "Return",
                     "Finish", "Exited"}
  /\ working \in Buffers \cup {NoBuffer}
  /\ Status_state \in {"IDLE", "PACING"}
  /\ timer \in {"stopped", "armed"}
  /\ finished \in BOOLEAN

TypeOK == ChannelTypeOK /\ StreamTypeOK /\ WorkerTypeOK

(* Spawn_PtyProxy fills the pool and leaves the timer stopped; the reader   *)
(* and the dispatcher start together in the coordinator's success handler.  *)
Init ==
  /\ PoolChannel = [b \in Buffers |-> b]
  /\ QueueChannel = <<>>
  /\ memory = [b \in Buffers |-> 0]
  /\ reads = 0
  /\ reader = "Take"
  /\ held = NoBuffer
  /\ dispatcher = "Select"
  /\ working = NoBuffer
  /\ Status_state = "IDLE"
  /\ StagingBuffer = <<>>
  /\ timer = "stopped"
  /\ flushed = <<>>
  /\ finished = FALSE

-----------------------------------------------------------------------------
(* The reader.                                                             *)

TakeBuffer ==
  /\ reader = "Take"
  /\ PoolChannel # <<>>
  /\ held' = Head(PoolChannel)
  /\ PoolChannel' = Tail(PoolChannel)
  /\ reader' = "Read"
  /\ UNCHANGED <<QueueChannel, memory, reads, dispatcherVars>>

(* Read returns a chunk, written straight into the buffer.                  *)
ReadChunk ==
  /\ reader = "Read"
  /\ reads < MaxReads
  /\ reads' = reads + 1
  /\ memory' = [memory EXCEPT ![held] = reads']
  /\ reader' = "Send"
  /\ UNCHANGED <<PoolChannel, QueueChannel, held, dispatcherVars>>

(* Read returns an error and no bytes: the kernel never returns both.       *)
ReadError ==
  /\ reader = "Read"
  /\ reader' = "Restitute"
  /\ UNCHANGED <<PoolChannel, QueueChannel, memory, reads, held, dispatcherVars>>

(* Wrong: keeps using the buffer it has queued.                             *)
SendData_KeepsBuffer ==
  /\ reader = "Send"
  /\ Len(QueueChannel) < SIZE_QUEUE_BUFFER
  /\ QueueChannel' = Append(QueueChannel, held)
  /\ reader' = "Read"
  /\ UNCHANGED <<PoolChannel, memory, reads, held, dispatcherVars>>

(* Wrong: queues beyond the capacity.                                       *)
SendData_Unbounded ==
  /\ reader = "Send"
  /\ QueueChannel' = Append(QueueChannel, held)
  /\ held' = NoBuffer
  /\ reader' = "Take"
  /\ UNCHANGED <<PoolChannel, memory, reads, dispatcherVars>>

SendData ==
  /\ reader = "Send"
  /\ Len(QueueChannel) < SIZE_QUEUE_BUFFER
  /\ QueueChannel' = Append(QueueChannel, held)
  /\ held' = NoBuffer
  /\ reader' = "Take"
  /\ UNCHANGED <<PoolChannel, memory, reads, dispatcherVars>>

Restitute ==
  /\ reader = "Restitute"
  /\ Len(PoolChannel) < SIZE_POOL_BUFFER
  /\ PoolChannel' = Append(PoolChannel, held)
  /\ held' = NoBuffer
  /\ reader' = "SendExit"
  /\ UNCHANGED <<QueueChannel, memory, reads, dispatcherVars>>

SendExit ==
  /\ reader = "SendExit"
  /\ Len(QueueChannel) < SIZE_QUEUE_BUFFER
  /\ QueueChannel' = Append(QueueChannel, EXIT)
  /\ reader' = "Done"
  /\ UNCHANGED <<PoolChannel, memory, reads, held, dispatcherVars>>

Reader == TakeBuffer \/ ReadChunk \/ ReadError \/ SendData \/ Restitute \/ SendExit

-----------------------------------------------------------------------------
(* The dispatcher.                                                         *)

(* A data order on an idle dispatcher: the flush of the read buffer begins. *)
DataIdle ==
  /\ dispatcher = "Select"
  /\ QueueChannel # <<>> /\ Head(QueueChannel) # EXIT
  /\ Status_state = "IDLE"
  /\ working' = Head(QueueChannel)
  /\ QueueChannel' = Tail(QueueChannel)
  /\ dispatcher' = "FlushData"
  /\ UNCHANGED <<PoolChannel, memory, readerVars, Status_state, StagingBuffer, timer,
                 flushed, finished>>

(* Wrong: paces without a timer.                                            *)
FlushData_Unarmed ==
  /\ dispatcher = "FlushData"
  /\ flushed' = Append(flushed, memory[working])
  /\ Status_state' = "PACING"
  /\ dispatcher' = "Return"
  /\ UNCHANGED <<PoolChannel, QueueChannel, memory, readerVars, working, StagingBuffer,
                 timer, finished>>

(* It ends: the pacing window opens.                                        *)
FlushData ==
  /\ dispatcher = "FlushData"
  /\ flushed' = Append(flushed, memory[working])
  /\ timer' = "armed"
  /\ Status_state' = "PACING"
  /\ dispatcher' = "Return"
  /\ UNCHANGED <<PoolChannel, QueueChannel, memory, readerVars, working, StagingBuffer,
                 finished>>

(* A data order while pacing: its bytes are copied.                         *)
DataPacing ==
  /\ dispatcher = "Select"
  /\ QueueChannel # <<>> /\ Head(QueueChannel) # EXIT
  /\ Status_state = "PACING"
  /\ working' = Head(QueueChannel)
  /\ QueueChannel' = Tail(QueueChannel)
  /\ StagingBuffer' = Append(StagingBuffer, memory[Head(QueueChannel)])
  /\ dispatcher' = "Return"
  /\ UNCHANGED <<PoolChannel, memory, readerVars, Status_state, timer, flushed, finished>>

(* Wrong: the buffer of an order is not given back.                         *)
ReturnBuffer_Leaks ==
  /\ dispatcher = "Return"
  /\ working' = NoBuffer
  /\ dispatcher' = "Select"
  /\ UNCHANGED <<PoolChannel, QueueChannel, memory, readerVars, Status_state, StagingBuffer,
                 timer, flushed, finished>>

ReturnBuffer ==
  /\ dispatcher = "Return"
  /\ Len(PoolChannel) < SIZE_POOL_BUFFER
  /\ PoolChannel' = Append(PoolChannel, working)
  /\ working' = NoBuffer
  /\ dispatcher' = "Select"
  /\ UNCHANGED <<QueueChannel, memory, readerVars, Status_state, StagingBuffer, timer,
                 flushed, finished>>

(* A tick: flush what is staged, or fall idle.                              *)
Tick ==
  /\ dispatcher = "Select"
  /\ timer = "armed"
  /\ timer' = "stopped"
  /\ IF StagingBuffer # <<>>
     THEN dispatcher' = "FlushStaged" /\ UNCHANGED Status_state
     ELSE Status_state' = "IDLE" /\ UNCHANGED dispatcher
  /\ UNCHANGED <<PoolChannel, QueueChannel, memory, readerVars, working, StagingBuffer,
                 flushed, finished>>

(* Wrong: does not arm the timer again.                                     *)
FlushStaged_Unarmed ==
  /\ dispatcher = "FlushStaged"
  /\ flushed' = flushed \o StagingBuffer
  /\ StagingBuffer' = <<>>
  /\ dispatcher' = "Select"
  /\ UNCHANGED <<PoolChannel, QueueChannel, memory, readerVars, working, Status_state,
                 timer, finished>>

FlushStaged ==
  /\ dispatcher = "FlushStaged"
  /\ flushed' = flushed \o StagingBuffer
  /\ StagingBuffer' = <<>>
  /\ timer' = "armed"
  /\ dispatcher' = "Select"
  /\ UNCHANGED <<PoolChannel, QueueChannel, memory, readerVars, working, Status_state,
                 finished>>

(* Wrong: reports the end and forgets what is staged.                       *)
ExitSignal_NoTrailingFlush ==
  /\ dispatcher = "Select"
  /\ QueueChannel # <<>> /\ Head(QueueChannel) = EXIT
  /\ QueueChannel' = Tail(QueueChannel)
  /\ timer' = "stopped"
  /\ dispatcher' = "Finish"
  /\ UNCHANGED <<PoolChannel, memory, readerVars, working, Status_state, StagingBuffer,
                 flushed, finished>>

(* The reader's last order: flush what is staged, report the end, exit.     *)
ExitSignal ==
  /\ dispatcher = "Select"
  /\ QueueChannel # <<>> /\ Head(QueueChannel) = EXIT
  /\ QueueChannel' = Tail(QueueChannel)
  /\ timer' = "stopped"
  /\ dispatcher' = IF StagingBuffer # <<>> THEN "FlushLast" ELSE "Finish"
  /\ UNCHANGED <<PoolChannel, memory, readerVars, working, Status_state, StagingBuffer,
                 flushed, finished>>

FlushLast ==
  /\ dispatcher = "FlushLast"
  /\ flushed' = flushed \o StagingBuffer
  /\ StagingBuffer' = <<>>
  /\ dispatcher' = "Finish"
  /\ UNCHANGED <<PoolChannel, QueueChannel, memory, readerVars, working, Status_state,
                 timer, finished>>

Finish ==
  /\ dispatcher = "Finish"
  /\ finished' = TRUE
  /\ dispatcher' = "Exited"
  /\ UNCHANGED <<PoolChannel, QueueChannel, memory, readerVars, working, Status_state,
                 StagingBuffer, timer, flushed>>

Dispatcher ==
  \/ DataIdle \/ FlushData \/ DataPacing \/ ReturnBuffer \/ Tick \/ FlushStaged
  \/ ExitSignal \/ FlushLast \/ Finish

Next == Reader \/ Dispatcher
Spec == Init /\ [][Next]_vars

(* Both goroutines run and every flush returns: each websocket write has a  *)
(* deadline (DeadlineTimeout_Write__). The select picks at random           *)
(* between an order and a tick. The process need not write or end.          *)
Fairness ==
  /\ WF_vars(TakeBuffer) /\ WF_vars(SendData) /\ WF_vars(Restitute) /\ WF_vars(SendExit)
  /\ SF_vars(DataIdle \/ DataPacing \/ ExitSignal)
  /\ SF_vars(Tick)
  /\ WF_vars(FlushData \/ FlushStaged \/ FlushLast \/ ReturnBuffer \/ Finish)

FairSpec == Spec /\ Fairness

-----------------------------------------------------------------------------
(* Properties.                                                             *)

(* The freelist never blocks anyone: the reader always finds a buffer, even *)
(* when the queue is full and the dispatcher is stuck in a flush, and a     *)
(* buffer that is given back always finds room. Backpressure acts only on   *)
(* the queue, after the read.                                               *)
PoolNeverBlocks ==
  /\ reader = "Take" => PoolChannel # <<>>
  /\ reader = "Restitute" \/ dispatcher = "Return" => Len(PoolChannel) < SIZE_POOL_BUFFER

(* Staged bytes are never stranded: while the dispatcher is pacing and      *)
(* waits in its select its timer is armed, and when idle nothing is staged. *)
StagedHasTimer ==
  /\ Status_state = "PACING" /\ dispatcher \in {"Select", "Return"} => timer = "armed"
  /\ Status_state = "IDLE" => StagingBuffer = <<>> /\ timer = "stopped"

(* A buffer has one owner: nobody reads into a buffer that is free, queued  *)
(* or being flushed, and no buffer is free twice.                           *)
FreeOnce == \A i, j \in 1 .. Len(PoolChannel) : PoolChannel[i] = PoolChannel[j] => i = j
QueuedOnce == \A i, j \in 1 .. Len(QueueChannel) : QueueChannel[i] = QueueChannel[j] => i = j
FreeOrQueued ==
  \A i \in 1 .. Len(PoolChannel), j \in 1 .. Len(QueueChannel) : PoolChannel[i] # QueueChannel[j]
InNoHand(channel) ==
  \A i \in 1 .. Len(channel) : channel[i] # NoBuffer => channel[i] # held /\ channel[i] # working

OneOwner ==
  /\ FreeOnce /\ QueuedOnce /\ FreeOrQueued
  /\ InNoHand(PoolChannel) /\ InNoHand(QueueChannel)
  /\ held = working => held = NoBuffer

(* The data plane implements the stream: the pending chunks are the staged  *)
(* ones, those in the buffer being flushed and in the queue, and the one    *)
(* the reader holds. So no byte is lost, doubled or out of order, and       *)
(* _PtyTeardown_ hears of the reader's end after the last flush.            *)
ExitQueued ==
  reader = "Done" /\ dispatcher \notin {"FlushLast", "Finish", "Exited"}
InFlush == IF dispatcher = "FlushData" THEN <<memory[working]>> ELSE <<>>
DataInQueue == IF ExitQueued THEN Len(QueueChannel) - 1 ELSE Len(QueueChannel)
InQueue == [i \in 1 .. DataInQueue |-> memory[QueueChannel[i]]]
InHand == IF reader = "Send" THEN <<memory[held]>> ELSE <<>>
Pending == ((StagingBuffer \o InFlush) \o InQueue) \o InHand

StreamEnd ==
  IF finished THEN "announced"
  ELSE IF reader \in {"Restitute", "SendExit", "Done"} THEN "closed" ELSE "open"

Stream == INSTANCE PtyStream WITH pending <- Pending, delivered <- flushed, end <- StreamEnd

ImplementsStream == Stream!Spec

(* Whatever the process has written reaches the proxy, also when it goes on *)
(* writing and when it writes nothing more.                                 *)
EverythingFlushed == \A n \in 1 .. MaxReads : (reads >= n) ~> (Len(flushed) >= n)
=============================================================================
