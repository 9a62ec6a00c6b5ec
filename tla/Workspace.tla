------------------------------ MODULE Workspace ------------------------------
(***************************************************************************)
(* The workspace: a client's messages, the reducer of layout updates, the  *)
(* coordinator with its pool of PTYs, and the workers of each PTY. It is   *)
(* the composition in which PTYs are born, canceled, shown, resized, typed *)
(* into, exit and are removed while connections come and go.               *)
(*                                                                         *)
(* Of a PTY's session it keeps what the coordinator meets of it (module    *)
(* PtySession says what PtyTeardown promises), and nothing of its output   *)
(* (modules PtySnapshotSync and PtyDataPlane). A message is numbered in the*)
(* order of arrival; its number is the size its layout carries and the     *)
(* input it types.                                                         *)
(***************************************************************************)
EXTENDS LayoutUpdates, FiniteSets

CONSTANTS
  SIZE_QUEUE,          \* capacity of QueueChannel_WorkspaceOrder
  SIZE_QUEUE_REDUCER,  \* capacity of the reducer's QueueChannel
  SIZE_QUEUE_RESIZER,  \* capacity of QueueChannel__Order_PtyResizer
  SIZE_QUEUE_INPUT,    \* capacity of QueueChannel_InputOrder
  Budgets              \* bound of the model: messages of each kind, connections

MessageKinds ==
  {"SpawnPty", "ResizePty", "TerminatePty", "RemovePty", "WriteInput", "SyncPty"}

(* What a budget limits: the messages of each kind, how many of the spawns  *)
(* and removals bring a layout, and the ends of connections.                *)
Limited == MessageKinds \cup {"Layout", "Teardown"}

ASSUME QueuesAssumption ==
  {SIZE_QUEUE, SIZE_QUEUE_REDUCER, SIZE_QUEUE_RESIZER, SIZE_QUEUE_INPUT} \subseteq Nat \ {0}
ASSUME BudgetsAssumption ==
  \A b \in Budgets : b \in [Limited -> Nat] /\ b.SpawnPty <= MaxPtys

VARIABLES
  websocket,          \* "attached", "reading", "closing", "torn down" or "offline"
  connection,         \* Id_WebsocketConnection_state
  budget,             \* what the client and the network may still do
  number,             \* number of the last message received
  told,               \* PTYs the client of this connection has been told of
  started,            \* those it may type into
  known,              \* Id_WorkspacePty_next when it got its manifest; -1 before
  typing,             \* the WriteInput the reader has captured an active PTY for
  reducerQueue,       \* QueueChannel of the reducer
  reducer,            \* where the reducer stands, and the flush it is in
  tentative,          \* its tentative batch
  timer,              \* channel_debounceTimer is armed
  queue,              \* QueueChannel_WorkspaceOrder
  group,              \* _GroupJob_WorkspaceOrder_: orders by kind
  handler,            \* where the coordinator stands
  idNext,             \* Id_WorkspacePty_next
  state,              \* State_state of a PTY; "Unborn" and "Gone" are not in the pool
  canceled,           \* CancellationStatus of a spawning PTY
  visibility,         \* Visibility__Client_connected__state
  asked,              \* the connection that asked for it
  session,            \* what _PtyTeardown_ and _PtyProcess_ do for it
  resizerQueue,       \* QueueChannel__Order_PtyResizer of each PTY
  snapshot,           \* the connection whose EmitSnapshot its resizer is sending, or 0
  size,               \* the size of its terminal
  inputs,             \* QueueChannel_InputOrder of each PTY
  written,            \* the last input written to its master
  canceledWorkers,    \* its worker goroutines whose context is canceled
  frames,             \* frames emitted about it
  panicked            \* an "invalid path" was taken or a nil PTY dereferenced

clientVars == <<websocket, connection, budget, number, told, started, known, typing>>
reducerVars == <<reducerQueue, reducer, tentative, timer>>
coordinatorVars == <<group, handler, idNext>>
ptyVars == <<state, canceled, visibility, asked, frames>>
resizerVars == <<resizerQueue, snapshot, size>>
writerVars == <<inputs, written>>
vars == <<clientVars, reducerVars, queue, coordinatorVars, ptyVars, session, resizerVars,
          writerVars, canceledWorkers, panicked>>

Pool == {p \in Ptys : state[p] \in {"Spawning", "Active", "Exited"}}
Connected == websocket \in {"attached", "reading"}
NobodyTypes == [pty |-> 0, number |-> 0]

(* Orders in the sequence in which _GroupJob_WorkspaceOrder_.Execute takes  *)
(* them.                                                                    *)
Kinds == {"ExitPty", "TerminatePty", "RemovePty", "SpawnPty", "Status_SpawnPty", "Disconnect",
          "Connect", "SyncVisibility", "EmitSnapshot"}
Rank == [ExitPty |-> 1, TerminatePty |-> 2, RemovePty |-> 3, SpawnPty |-> 4,
         Status_SpawnPty |-> 5, Disconnect |-> 6, Connect |-> 7, SyncVisibility |-> 8,
         EmitSnapshot |-> 9]
EmptyGroup == [k \in Kinds |-> <<>>]

(* ptys: the PTYs the order is about; number: the message it comes from;    *)
(* success: the verdict of a status order.                                  *)
Order(kind, id, ptys, n, success) ==
  [kind |-> kind, id |-> id, ptys |-> ptys, number |-> n, success |-> success]
Orders ==
  [kind : Kinds, id : Nat, ptys : SUBSET Ptys, number : Nat, success : BOOLEAN]

Message(kind, id, ptys, layout, n) ==
  [kind |-> kind, id |-> id, ptys |-> ptys, layout |-> layout, number |-> n]
Messages ==
  [kind : MessageKinds, id : Nat, ptys : SUBSET Ptys, layout : SUBSET Ptys, number : Nat]

NoOrders == [p \in Ptys |-> Resize(0, 0)]
IdleReducer ==
  [at |-> "Select", message |-> Message("SyncPty", 0, {}, {}, 0), submission |-> NoOrders]

TypeOK ==
  /\ websocket \in {"attached", "reading", "closing", "torn down", "offline"}
  /\ connection \in Nat /\ number \in Nat /\ known \in Nat \cup {-1}
  /\ budget \in [Limited -> Nat]
  /\ told \subseteq Ptys /\ started \subseteq Ptys
  /\ typing \in [pty : Ptys, number : Nat]
  /\ reducerQueue \in Seq(Messages) /\ Len(reducerQueue) <= SIZE_QUEUE_REDUCER
  /\ reducer \in [at : {"Select", "Send", "Submit"}, message : Messages,
                  submission : [Ptys -> [size : Nat, snapshot : Nat]]]
  /\ tentative \in [Ptys -> Nat] /\ timer \in BOOLEAN
  /\ queue \in Seq(Orders) /\ Len(queue) <= SIZE_QUEUE
  /\ group \in [Kinds -> Seq(Orders)]
  /\ handler \in {"Select", "Drain", "Announce", "SetExited"}
  /\ idNext \in Nat
  /\ state \in [Ptys -> {"Unborn", "Spawning", "Active", "Exited", "Gone"}]
  /\ canceled \in [Ptys -> BOOLEAN]
  /\ visibility \in [Ptys -> {"DISCONNECTED_UNKNOWN", "VISIBLE", "NOT_VISIBLE"}]
  /\ asked \in [Ptys -> Nat]
  /\ session \in [Ptys -> {"none", "spawning", "quiescent", "streaming", "canceled", "ended"}]
  /\ resizerQueue \in [Ptys -> Seq([size : Nat, snapshot : Nat])]
  /\ \A p \in Ptys : Len(resizerQueue[p]) <= SIZE_QUEUE_RESIZER
  /\ snapshot \in [Ptys -> Nat] /\ size \in [Ptys -> Nat]
  /\ inputs \in [Ptys -> Seq(Nat)] /\ written \in [Ptys -> Nat]
  /\ \A p \in Ptys : Len(inputs[p]) <= SIZE_QUEUE_INPUT
  /\ canceledWorkers \in [Ptys -> SUBSET {"resizer", "writer"}]
  /\ frames \in [Ptys -> Seq({"SPAWNING", "SUCCESS", "FAILURE", "CANCELED", "EXIT"})]
  /\ panicked \in BOOLEAN

(* Make_WorkspaceController and Start, and a first client that has just     *)
(* connected.                                                               *)
Init ==
  /\ websocket = "attached" /\ connection = 1
  /\ budget \in Budgets
  /\ number = 0 /\ told = {} /\ started = {} /\ known = -1 /\ typing = NobodyTypes
  /\ reducerQueue = <<>> /\ reducer = IdleReducer
  /\ tentative = NoUpdates /\ timer = FALSE
  /\ queue = <<>> /\ group = EmptyGroup /\ handler = "Select" /\ idNext = 0
  /\ state = [p \in Ptys |-> "Unborn"]
  /\ canceled = [p \in Ptys |-> FALSE]
  /\ visibility = [p \in Ptys |-> "VISIBLE"]
  /\ asked = [p \in Ptys |-> 0]
  /\ session = [p \in Ptys |-> "none"]
  /\ resizerQueue = [p \in Ptys |-> <<>>]
  /\ snapshot = [p \in Ptys |-> 0] /\ size = [p \in Ptys |-> 0]
  /\ inputs = [p \in Ptys |-> <<>>] /\ written = [p \in Ptys |-> 0]
  /\ canceledWorkers = [p \in Ptys |-> {}]
  /\ frames = [p \in Ptys |-> <<>>]
  /\ panicked = FALSE

Spending(kinds) ==
  /\ \A k \in kinds : budget[k] > 0
  /\ budget' = [k \in Limited |-> IF k \in kinds THEN budget[k] - 1 ELSE budget[k]]
Spend(kind) == Spending({kind})

(* A blocking send waits for room. A send to a goroutine that is already    *)
(* waiting needs none, but then the queue is empty.                         *)
Send(o) == Len(queue) < SIZE_QUEUE /\ queue' = Append(queue, o)

Emit(p, frame) == frames' = [frames EXCEPT ![p] = Append(@, frame)]

-----------------------------------------------------------------------------
(* The connection worker: it attaches a connection, reads its messages and *)
(* tears it down, one after another in one goroutine.                      *)

connectionUnchanged ==
  UNCHANGED <<reducerVars, coordinatorVars, ptyVars, session, resizerVars, writerVars,
              canceledWorkers, panicked>>

Attach ==
  /\ websocket = "offline"
  /\ websocket' = "attached"
  /\ connection' = connection + 1
  /\ told' = {} /\ started' = {} /\ known' = -1
  /\ UNCHANGED <<budget, number, typing, queue>>
  /\ connectionUnchanged

HandleConnected ==
  /\ websocket = "attached"
  /\ websocket' = "reading"
  /\ Send(Order("Connect", connection, {}, 0, FALSE))
  /\ UNCHANGED <<connection, budget, number, told, started, known, typing>>
  /\ connectionUnchanged

(* Another request marks the connection for a takeover; the reader may      *)
(* still be holding a message of it.                                        *)
CloseForTakeover ==
  /\ websocket = "reading"
  /\ budget["Teardown"] > 0
  /\ websocket' = "closing"
  /\ UNCHANGED <<connection, budget, number, told, started, known, typing, queue>>
  /\ connectionUnchanged

Teardown ==
  /\ websocket \in {"reading", "closing"}
  /\ typing = NobodyTypes
  /\ websocket' = "torn down"
  /\ Spend("Teardown")
  /\ UNCHANGED <<connection, number, told, started, known, typing, queue>>
  /\ connectionUnchanged

HandleDisconnected ==
  /\ websocket = "torn down"
  /\ websocket' = "offline"
  /\ Send(Order("Disconnect", 0, {}, 0, FALSE))
  /\ UNCHANGED <<connection, budget, number, told, started, known, typing>>
  /\ connectionUnchanged

(* The reader has read a message; it reads no other until it has passed it  *)
(* on.                                                                      *)
Receiving ==
  /\ websocket \in {"reading", "closing"}
  /\ typing = NobodyTypes
  /\ UNCHANGED <<websocket, connection, told, started, known>>

(* Layout messages, spawns and removals go to the reducer. A client names   *)
(* the PTYs it has been told of.                                            *)
ToReducer(kind, ptys, layout) ==
  /\ Receiving
  /\ Spending({kind} \cup (IF kind \in {"SpawnPty", "RemovePty"} /\ layout # {} THEN {"Layout"} ELSE {}))
  /\ number' = number + 1
  /\ Len(reducerQueue) < SIZE_QUEUE_REDUCER
  /\ reducerQueue' = Append(reducerQueue, Message(kind, connection, ptys, layout, number'))
  /\ UNCHANGED <<typing, reducer, tentative, timer, queue, coordinatorVars, ptyVars, session,
                 resizerVars, writerVars, canceledWorkers, panicked>>

ReceiveSpawn == \E layout \in SUBSET told : ToReducer("SpawnPty", {}, layout)
ReceiveResize == \E layout \in SUBSET told \ {{}} : ToReducer("ResizePty", {}, layout)
ReceiveSync == \E layout \in SUBSET told : ToReducer("SyncPty", {}, layout)
ReceiveRemove == \E p \in told, layout \in SUBSET told : ToReducer("RemovePty", {p}, layout)

(* A termination overtakes what is in the reducer's hands.                  *)
ReceiveTerminate ==
  /\ Receiving
  /\ Spend("TerminatePty")
  /\ \E p \in told : Send(Order("TerminatePty", connection, {p}, 0, FALSE))
  /\ UNCHANGED <<number, typing>>
  /\ connectionUnchanged

(* HandleWriteInput_Ingress of the state the PTY has under the mutex. A     *)
(* client types into a PTY once it knows that it has started.               *)
ReceiveInput ==
  /\ Receiving
  /\ Spend("WriteInput")
  /\ number' = number + 1
  /\ \E p \in started :
       /\ panicked' = (state[p] = "Spawning")
       /\ typing' = IF state[p] = "Active" THEN [pty |-> p, number |-> number'] ELSE NobodyTypes
  /\ UNCHANGED <<reducerVars, queue, coordinatorVars, ptyVars, session, resizerVars,
                 writerVars, canceledWorkers>>

(* Wrong: queues beyond the capacity.                                       *)
EnqueueInput_Unbounded ==
  /\ typing # NobodyTypes
  /\ inputs' = [inputs EXCEPT ![typing.pty] = Append(@, typing.number)]
  /\ typing' = NobodyTypes
  /\ UNCHANGED <<websocket, connection, budget, number, told, started, known, reducerVars, queue,
                 coordinatorVars, ptyVars, session, resizerVars, written, canceledWorkers, panicked>>

(* After the unlock: dropped if the writer has been canceled or is full.    *)
EnqueueInput ==
  /\ typing # NobodyTypes
  /\ LET p == typing.pty
         taken == "writer" \notin canceledWorkers[p] /\ Len(inputs[p]) < SIZE_QUEUE_INPUT
     IN inputs' = [inputs EXCEPT ![p] = IF taken THEN Append(@, typing.number) ELSE @]
  /\ typing' = NobodyTypes
  /\ UNCHANGED <<websocket, connection, budget, number, told, started, known, reducerVars, queue,
                 coordinatorVars, ptyVars, session, resizerVars, written, canceledWorkers, panicked>>

-----------------------------------------------------------------------------
(* _MessageReducer__LayoutUpdate_PtyProxy_.                                *)

reducerUnchanged ==
  UNCHANGED <<clientVars, coordinatorVars, ptyVars, session, snapshot, size, writerVars,
              canceledWorkers, panicked>>

(* Submit__Order_PtyResizer for every PTY that has an order: dropped if its *)
(* resizer has been canceled or is full.                                    *)
SubmitAll(orders) ==
  resizerQueue' =
    [p \in Ptys |->
       IF /\ orders[p] # Resize(0, 0)
          /\ "resizer" \notin canceledWorkers[p]
          /\ Len(resizerQueue[p]) < SIZE_QUEUE_RESIZER
       THEN Append(resizerQueue[p], orders[p]) ELSE resizerQueue[p]]

Visible == {p \in Pool : visibility[p] = "VISIBLE"}

(* SubmitBatch_Visible__Order_PtyResizer. It looks at the pool and submits  *)
(* after the unlock; a PTY hidden in between just keeps this size.          *)
SubmitVisible(batch) == SubmitAll([p \in Ptys |-> Resize(IF p \in Visible THEN batch[p] ELSE 0, 0)])

Take(kind) ==
  /\ reducer.at = "Select"
  /\ reducerQueue # <<>>
  /\ Head(reducerQueue).kind = kind
  /\ reducerQueue' = Tail(reducerQueue)

ReduceResize ==
  /\ Take("ResizePty")
  /\ tentative' = Coalesce(tentative, Head(reducerQueue).layout, Head(reducerQueue).number)
  /\ timer' = TRUE
  /\ UNCHANGED <<reducer, queue, resizerQueue>>
  /\ reducerUnchanged

HandleFlush_ResizeOnly ==
  /\ reducer.at = "Select"
  /\ timer
  /\ timer' = FALSE
  /\ SubmitVisible(tentative)
  /\ tentative' = NoUpdates
  /\ UNCHANGED <<reducerQueue, reducer, queue>>
  /\ reducerUnchanged

(* What a sync submits after its SyncVisibility order, decided before it: a *)
(* PTY that is visible already only gets its size.                          *)
SyncSubmission(sync) ==
  [p \in Ptys |-> IF p \in sync.layout \cap Pool
                  THEN Resize(sync.number, IF p \in Visible THEN 0 ELSE sync.id)
                  ELSE Resize(0, 0)]

(* Wrong: the tentative batch outlives the sync that replaces it.           *)
ReduceSync_KeepsBatch ==
  /\ Take("SyncPty")
  /\ reducer' = [at |-> "Send", message |-> Head(reducerQueue),
                 submission |-> SyncSubmission(Head(reducerQueue))]
  /\ UNCHANGED <<tentative, timer, queue, resizerQueue>>
  /\ reducerUnchanged

(* A sync replaces what is pending: nothing reads the batch before the code *)
(* makes a new one, after the flush.                                        *)
ReduceSync ==
  /\ Take("SyncPty")
  /\ reducer' = [at |-> "Send", message |-> Head(reducerQueue),
                 submission |-> SyncSubmission(Head(reducerQueue))]
  /\ tentative' = NoUpdates /\ timer' = FALSE
  /\ UNCHANGED <<queue, resizerQueue>>
  /\ reducerUnchanged

(* A spawn or a removal takes what is pending along.                        *)
ReduceOther ==
  /\ \/ Take("SpawnPty")
     \/ Take("RemovePty")
  /\ LET m == Head(reducerQueue)
         merged == Coalesce(tentative, m.layout, m.number)
     IN /\ tentative' = [p \in Ptys |-> IF p \in m.ptys THEN 0 ELSE merged[p]]
        /\ reducer' = [at |-> "Send", message |-> m, submission |-> NoOrders]
  /\ timer' = FALSE
  /\ UNCHANGED <<queue, resizerQueue>>
  /\ reducerUnchanged

SendFlush ==
  /\ reducer.at = "Send"
  /\ LET m == reducer.message
     IN Send(IF m.kind = "SyncPty" THEN Order("SyncVisibility", m.id, m.layout, m.number, FALSE)
             ELSE Order(m.kind, m.id, m.ptys, m.number, FALSE))
  /\ reducer' = IF reducer.message.kind # "SyncPty" /\ tentative = NoUpdates THEN IdleReducer
                ELSE [reducer EXCEPT !.at = "Submit"]
  /\ UNCHANGED <<reducerQueue, tentative, timer, resizerQueue>>
  /\ reducerUnchanged

SubmitFlush ==
  /\ reducer.at = "Submit"
  /\ IF reducer.message.kind = "SyncPty" THEN SubmitAll(reducer.submission)
                                         ELSE SubmitVisible(tentative)
  /\ tentative' = IF reducer.message.kind = "SyncPty" THEN tentative ELSE NoUpdates
  /\ reducer' = IdleReducer
  /\ UNCHANGED <<reducerQueue, timer, queue>>
  /\ reducerUnchanged

-----------------------------------------------------------------------------
(* The workers of a PTY, and what else runs for it.                        *)

workerUnchanged ==
  UNCHANGED <<clientVars, reducer, reducerQueue, tentative, timer, coordinatorVars, ptyVars>>

(* The success handler has started both. Once its context is done a worker  *)
(* may return at its select or choose its queue once more: it is free to    *)
(* take no further step.                                                    *)
WorkersStarted(p) == state[p] \in {"Active", "Exited"} \/ "writer" \in canceledWorkers[p]

(* The resizer drains its queue and resizes, both the terminal and the      *)
(* descriptor; then it asks for the snapshot the orders wanted.             *)
RunResizer(p) ==
  /\ WorkersStarted(p)
  /\ snapshot[p] = 0
  /\ resizerQueue[p] # <<>>
  /\ LET order == DrainAndCoalesce(resizerQueue[p])
     IN /\ size' = [size EXCEPT ![p] = order.size]
        /\ snapshot' = [snapshot EXCEPT ![p] = order.snapshot]
  /\ resizerQueue' = [resizerQueue EXCEPT ![p] = <<>>]
  /\ UNCHANGED <<queue, session, writerVars, canceledWorkers, panicked>>
  /\ workerUnchanged

SendEmitSnapshot(p) ==
  /\ snapshot[p] # 0
  /\ Send(Order("EmitSnapshot", snapshot[p], {p}, 0, FALSE))
  /\ snapshot' = [snapshot EXCEPT ![p] = 0]
  /\ UNCHANGED <<session, resizerQueue, size, writerVars, canceledWorkers, panicked>>
  /\ workerUnchanged

RunWriter(p) ==
  /\ WorkersStarted(p)
  /\ inputs[p] # <<>>
  /\ written' = [written EXCEPT ![p] = Head(inputs[p])]
  /\ inputs' = [inputs EXCEPT ![p] = Tail(@)]
  /\ UNCHANGED <<queue, session, resizerVars, canceledWorkers, panicked>>
  /\ workerUnchanged

(* backgroundSpawn: a launched process belongs to a quiescent proxy.        *)
SpawnReported(p) ==
  /\ session[p] = "spawning"
  /\ \E success \in BOOLEAN :
       /\ session' = [session EXCEPT ![p] = IF success THEN "quiescent" ELSE "none"]
       /\ Send(Order("Status_SpawnPty", asked[p], {p}, 0, success))
  /\ UNCHANGED <<resizerVars, writerVars, canceledWorkers, panicked>>
  /\ workerUnchanged

(* Wrong: the exit of a process is reported before its reader has run.      *)
SessionEnds_Early(p) ==
  /\ session[p] \in {"quiescent", "streaming"}
  /\ session' = [session EXCEPT ![p] = "ended"]
  /\ Send(Order("ExitPty", 0, {p}, 0, FALSE))
  /\ UNCHANGED <<resizerVars, writerVars, canceledWorkers, panicked>>
  /\ workerUnchanged

(* The teardown of a streamed session reports its exit, that of a canceled  *)
(* one does not.                                                            *)
SessionEnds(p) ==
  /\ \/ /\ session[p] = "streaming"
        /\ Send(Order("ExitPty", 0, {p}, 0, FALSE))
     \/ session[p] = "canceled" /\ UNCHANGED queue
  /\ session' = [session EXCEPT ![p] = "ended"]
  /\ UNCHANGED <<resizerVars, writerVars, canceledWorkers, panicked>>
  /\ workerUnchanged

-----------------------------------------------------------------------------
(* The coordinator: RunWorker groups what is queued and executes by kind.  *)

(* Apply of an order to a group: session orders are dropped after a         *)
(* Disconnect without a Connect, and a PTY's second EmitSnapshot always is. *)
Apply(job, o) ==
  LET kept == job.Disconnect = <<>> \/ job.Connect # <<>>
  IN [k \in Kinds |->
        IF o.kind = "Disconnect" /\ k \in {"Connect", "SyncVisibility", "EmitSnapshot"} THEN <<>>
        ELSE IF k # o.kind THEN job[k]
        ELSE IF k \in {"Disconnect", "Connect"} \/ (k = "SyncVisibility" /\ kept) THEN <<o>>
        ELSE IF \/ k \notin {"SyncVisibility", "EmitSnapshot"}
                \/ /\ k = "EmitSnapshot" /\ kept
                   /\ \A i \in DOMAIN job[k] : job[k][i].ptys # o.ptys
        THEN Append(job[k], o) ELSE job[k]]

coordinatorUnchanged ==
  UNCHANGED <<websocket, connection, budget, number, typing, reducerVars, resizerQueue, snapshot,
              writerVars>>

(* RunWorker receives an order and groups with it, one by one, all that     *)
(* wait and all that arrive meanwhile.                                      *)
Group(o) ==
  /\ group' = Apply(group, o)
  /\ queue' = Tail(queue)
  /\ handler' = "Drain"
  /\ UNCHANGED <<told, started, known, idNext, ptyVars, session, size, canceledWorkers, panicked>>
  /\ coordinatorUnchanged

ReceiveLeading ==
  /\ handler = "Select" /\ group = EmptyGroup
  /\ queue # <<>> /\ Group(Head(queue))

DrainAndApply ==
  /\ handler = "Drain"
  /\ queue # <<>> /\ Group(Head(queue))

(* The queue is empty: the group is executed.                               *)
Execute ==
  /\ handler = "Drain"
  /\ queue = <<>>
  /\ handler' = "Select"
  /\ UNCHANGED <<told, started, known, queue, group, idNext, ptyVars, session, size, canceledWorkers,
                 panicked>>
  /\ coordinatorUnchanged

(* The next order of the group is of this kind.                             *)
Turn(kind) ==
  /\ handler = "Select"
  /\ group[kind] # <<>>
  /\ \A k \in Kinds : Rank[k] < Rank[kind] => group[k] = <<>>

Done(kind) == group' = [group EXCEPT ![kind] = Tail(@)]

(* The connection with this id has the status CONNECTED.                    *)
Established(id) == websocket \in {"attached", "reading", "closing"} /\ id = connection

(* WritePayload_BinaryMessage: and its socket has not been closed yet.      *)
Delivered(id) == Established(id) /\ websocket # "closing"

Panic ==
  /\ panicked' = TRUE
  /\ UNCHANGED <<told, started, known, queue, handler, idNext, ptyVars, session, size, canceledWorkers>>
  /\ coordinatorUnchanged

(* HandleExit_PtyProxy. Between the two critical sections the writer is     *)
(* canceled; the state is still Active.                                     *)
HandleExit ==
  /\ Turn("ExitPty")
  /\ \E p \in Head(group.ExitPty).ptys :
       IF state[p] # "Active"
       THEN Panic /\ UNCHANGED group
       ELSE /\ canceledWorkers' = [canceledWorkers EXCEPT ![p] = @ \cup {"writer"}]
            /\ handler' = "SetExited"
            /\ UNCHANGED <<told, started, known, queue, group, idNext, ptyVars, session, size, panicked>>
            /\ coordinatorUnchanged

SetExited ==
  /\ handler = "SetExited"
  /\ \E p \in Head(group.ExitPty).ptys :
       /\ state' = [state EXCEPT ![p] = "Exited"]
       /\ Emit(p, "EXIT")
  /\ Done("ExitPty")
  /\ handler' = "Select"
  /\ UNCHANGED <<told, started, known, queue, idNext, canceled, visibility, asked, session, size,
                 canceledWorkers, panicked>>
  /\ coordinatorUnchanged

(* HandleTerminatePty: a spawning PTY is marked; an active one's session is *)
(* told, which PtyTeardown models; one that has exited or gone is left.     *)
HandleTerminate ==
  /\ Turn("TerminatePty") /\ Done("TerminatePty")
  /\ canceled' = [p \in Ptys |->
                    canceled[p] \/ (p \in Head(group.TerminatePty).ptys /\ state[p] = "Spawning")]
  /\ UNCHANGED <<told, started, known, queue, handler, idNext, state, visibility, asked, frames,
                 session, size, canceledWorkers, panicked>>
  /\ coordinatorUnchanged

(* Wrong: removes a PTY whose process runs.                                 *)
HandleRemove_Any ==
  /\ Turn("RemovePty") /\ Done("RemovePty")
  /\ LET removed == Head(group.RemovePty).ptys \cap Pool
     IN /\ state' = [p \in Ptys |-> IF p \in removed THEN "Gone" ELSE state[p]]
        /\ canceledWorkers' = [p \in Ptys |-> IF p \in removed THEN canceledWorkers[p] \cup {"resizer"}
                                              ELSE canceledWorkers[p]]
  /\ UNCHANGED <<told, started, known, queue, handler, idNext, canceled, visibility, asked, frames,
                 session, size, panicked>>
  /\ coordinatorUnchanged

(* Only an exited PTY can be removed.                                       *)
HandleRemove ==
  /\ Turn("RemovePty") /\ Done("RemovePty")
  /\ LET removed == {p \in Head(group.RemovePty).ptys : state[p] = "Exited"}
     IN /\ state' = [p \in Ptys |-> IF p \in removed THEN "Gone" ELSE state[p]]
        /\ canceledWorkers' = [p \in Ptys |-> IF p \in removed THEN canceledWorkers[p] \cup {"resizer"}
                                              ELSE canceledWorkers[p]]
  /\ UNCHANGED <<told, started, known, queue, handler, idNext, canceled, visibility, asked, frames,
                 session, size, panicked>>
  /\ coordinatorUnchanged

(* HandleSpawnPty: visible from the start, whoever is connected.            *)
HandleSpawn ==
  /\ Turn("SpawnPty") /\ Done("SpawnPty")
  /\ idNext < MaxPtys
  /\ LET o == Head(group.SpawnPty)
         p == idNext
     IN /\ state' = [state EXCEPT ![p] = "Spawning"]
        /\ visibility' = [visibility EXCEPT ![p] = "VISIBLE"]
        /\ asked' = [asked EXCEPT ![p] = o.id]
        /\ size' = [size EXCEPT ![p] = o.number]
        /\ session' = [session EXCEPT ![p] = "spawning"]
        /\ told' = IF Delivered(o.id) THEN told \cup {p} ELSE told
        /\ Emit(p, "SPAWNING")
  /\ idNext' = idNext + 1
  /\ UNCHANGED <<started, known, queue, handler, canceled, canceledWorkers, panicked>>
  /\ coordinatorUnchanged

(* HandleStatus_SpawnPty__Failure: an invalid path unless the PTY spawns.   *)
HandleFailure ==
  /\ Turn("Status_SpawnPty") /\ Done("Status_SpawnPty")
  /\ ~Head(group.Status_SpawnPty).success
  /\ \E p \in Head(group.Status_SpawnPty).ptys :
       IF state[p] # "Spawning"
       THEN Panic
       ELSE /\ state' = [state EXCEPT ![p] = "Gone"]
            /\ canceledWorkers' = [canceledWorkers EXCEPT ![p] = @ \cup {"resizer"}]
            /\ Emit(p, IF canceled[p] THEN "CANCELED" ELSE "FAILURE")
            /\ UNCHANGED <<told, started, known, queue, handler, idNext, canceled, visibility, asked,
                           session, size, panicked>>
            /\ coordinatorUnchanged

(* Wrong: the resizer of a canceled spawn is never canceled.                *)
CancelSpawned_LeaksResizer(p) ==
  /\ Done("Status_SpawnPty")
  /\ state' = [state EXCEPT ![p] = "Gone"]
  /\ session' = [session EXCEPT ![p] = "canceled"]
  /\ Emit(p, "CANCELED")
  /\ UNCHANGED <<handler, canceledWorkers, panicked>>

(* A spawn that was canceled meanwhile leaves the pool and its session is   *)
(* canceled.                                                                *)
CancelSpawned(p) ==
  /\ Done("Status_SpawnPty")
  /\ state' = [state EXCEPT ![p] = "Gone"]
  /\ canceledWorkers' = [canceledWorkers EXCEPT ![p] = @ \cup {"resizer"}]
  /\ session' = [session EXCEPT ![p] = "canceled"]
  /\ Emit(p, "CANCELED")
  /\ UNCHANGED <<handler, panicked>>

(* Any other becomes Active and gets its workers.                           *)
Activate(p) ==
  /\ state' = [state EXCEPT ![p] = "Active"]
  /\ handler' = "Announce"
  /\ UNCHANGED <<group, canceledWorkers, session, frames, panicked>>

(* Wrong: does not look at the cancellation.                                *)
HandleSuccess_IgnoresCancel ==
  /\ Turn("Status_SpawnPty")
  /\ Head(group.Status_SpawnPty).success
  /\ \E p \in Head(group.Status_SpawnPty).ptys : state[p] = "Spawning" /\ Activate(p)
  /\ UNCHANGED <<told, started, known, queue, idNext, canceled, visibility, asked, size>>
  /\ coordinatorUnchanged

(* HandleStatus_SpawnPty__Success up to the frame: an invalid path unless   *)
(* the PTY spawns.                                                          *)
HandleSuccess ==
  /\ Turn("Status_SpawnPty")
  /\ Head(group.Status_SpawnPty).success
  /\ \E p \in Head(group.Status_SpawnPty).ptys :
       \/ state[p] = "Spawning" /\ canceled[p] /\ CancelSpawned(p)
       \/ state[p] = "Spawning" /\ ~canceled[p] /\ Activate(p)
       \/ /\ state[p] # "Spawning"
          /\ panicked' = TRUE
          /\ UNCHANGED <<group, state, canceledWorkers, session, frames, handler>>
  /\ UNCHANGED <<told, started, known, queue, idNext, canceled, visibility, asked, size>>
  /\ coordinatorUnchanged

(* The rest of it: the frame, then ReaderStarted and the reader.            *)
Announce ==
  /\ handler = "Announce"
  /\ Done("Status_SpawnPty")
  /\ LET o == Head(group.Status_SpawnPty)
     IN \E p \in o.ptys :
          /\ Emit(p, "SUCCESS")
          /\ started' = IF Delivered(o.id) THEN started \cup {p} ELSE started
          /\ session' = [session EXCEPT ![p] = "streaming"]
  /\ handler' = "Select"
  /\ UNCHANGED <<told, known, queue, idNext, state, canceled, visibility, asked, size, canceledWorkers,
                 panicked>>
  /\ coordinatorUnchanged

(* Every PTY of the pool; the modes are PtySnapshotSync's.                  *)
HandleDisconnect ==
  /\ Turn("Disconnect") /\ Done("Disconnect")
  /\ visibility' = [p \in Ptys |-> IF p \in Pool THEN "DISCONNECTED_UNKNOWN" ELSE visibility[p]]
  /\ UNCHANGED <<told, started, known, queue, handler, idNext, state, canceled, asked, frames,
                 session, size, canceledWorkers, panicked>>
  /\ coordinatorUnchanged

(* Wrong: the manifest leaves out the PTYs that are spawning.               *)
HandleConnect_SkipsSpawning ==
  /\ Turn("Connect") /\ Done("Connect")
  /\ IF Delivered(Head(group.Connect).id)
     THEN /\ told' = told \cup {p \in Pool : state[p] # "Spawning"}
          /\ started' = {p \in Pool : state[p] # "Spawning"}
          /\ known' = idNext
     ELSE UNCHANGED <<told, started, known>>
  /\ UNCHANGED <<queue, handler, idNext, ptyVars, session, size, canceledWorkers, panicked>>
  /\ coordinatorUnchanged

(* The manifest.                                                            *)
HandleConnect ==
  /\ Turn("Connect") /\ Done("Connect")
  /\ IF Delivered(Head(group.Connect).id)
     THEN /\ told' = told \cup Pool
          /\ started' = started \cup {p \in Pool : state[p] # "Spawning"}
          /\ known' = idNext
     ELSE UNCHANGED <<told, started, known>>
  /\ UNCHANGED <<queue, handler, idNext, ptyVars, session, size, canceledWorkers, panicked>>
  /\ coordinatorUnchanged

(* Wrong: the handler itself asks for the snapshots, through its own queue. *)
HandleSync_AsksItself ==
  /\ Turn("SyncVisibility") /\ Done("SyncVisibility")
  /\ LET o == Head(group.SyncVisibility)
     IN /\ visibility' = [p \in Ptys |-> IF p \in Pool \cap o.ptys THEN "VISIBLE" ELSE visibility[p]]
        /\ IF o.ptys # {} THEN Send(Order("EmitSnapshot", o.id, o.ptys, 0, FALSE)) ELSE UNCHANGED queue
  /\ UNCHANGED <<told, started, known, handler, idNext, state, canceled, asked, frames,
                 session, size, canceledWorkers, panicked>>
  /\ coordinatorUnchanged

(* Ignored unless it names the connection that is established; the critical *)
(* sections and the modes are PtySnapshotSync's.                            *)
HandleSync ==
  /\ Turn("SyncVisibility") /\ Done("SyncVisibility")
  /\ LET o == Head(group.SyncVisibility)
     IN visibility' =
          IF ~Established(o.id) THEN visibility
          ELSE [p \in Ptys |-> IF p \in Pool \cap o.ptys THEN "VISIBLE"
                               ELSE IF p \in Pool /\ visibility[p] = "VISIBLE" THEN "NOT_VISIBLE"
                               ELSE visibility[p]]
  /\ UNCHANGED <<told, started, known, queue, handler, idNext, state, canceled, asked, frames,
                 session, size, canceledWorkers, panicked>>
  /\ coordinatorUnchanged

(* Its snapshot sequence is PtySnapshotSync's: nothing of it is seen here.  *)
HandleEmitSnapshot ==
  /\ Turn("EmitSnapshot") /\ Done("EmitSnapshot")
  /\ UNCHANGED <<told, started, known, queue, handler, idNext, ptyVars, session, size, canceledWorkers,
                 panicked>>
  /\ coordinatorUnchanged

-----------------------------------------------------------------------------
Reader ==
  \/ Attach \/ HandleConnected \/ CloseForTakeover \/ Teardown \/ HandleDisconnected
  \/ ReceiveSpawn \/ ReceiveResize \/ ReceiveSync \/ ReceiveRemove \/ ReceiveTerminate
  \/ ReceiveInput \/ EnqueueInput
Reducer ==
  \/ ReduceResize \/ HandleFlush_ResizeOnly \/ ReduceSync \/ ReduceOther
  \/ SendFlush \/ SubmitFlush
Workers ==
  \E p \in Ptys : \/ RunResizer(p) \/ SendEmitSnapshot(p) \/ RunWriter(p)
                  \/ SpawnReported(p) \/ SessionEnds(p)
Coordinator ==
  \/ ReceiveLeading \/ DrainAndApply \/ Execute
  \/ HandleExit \/ SetExited \/ HandleTerminate \/ HandleRemove \/ HandleSpawn
  \/ HandleFailure \/ HandleSuccess \/ Announce
  \/ HandleDisconnect \/ HandleConnect \/ HandleSync \/ HandleEmitSnapshot

(* A panic ends the server.                                                 *)
Next == ~panicked /\ (Reader \/ Reducer \/ Workers \/ Coordinator)

Spec == Init /\ [][Next]_vars

(* The coordinator and the reducer run. A sender that waits on a full       *)
(* channel is served before any that comes later, so the reducer's send is  *)
(* strongly fair. The client, the network and the processes need not do     *)
(* anything, and a launch may take for ever.                                *)
Fairness ==
  /\ WF_vars(~panicked /\ Coordinator)
  /\ WF_vars(~panicked /\ (ReduceResize \/ ReduceSync \/ ReduceOther \/ SubmitFlush))
  /\ SF_vars(~panicked /\ SendFlush)

FairSpec == Spec /\ Fairness

-----------------------------------------------------------------------------
(* The handlers' assumptions on the state of the PTY they are given hold    *)
(* in every order of messages, verdicts and exits: no exit of a PTY that is *)
(* not Active, no verdict on one that does not spawn, no input for one that *)
(* still does.                                                              *)
NoInvalidPath == ~panicked

(* A process is never left running with nobody to end it: whose session has *)
(* not ended is in the pool, unless the session has been canceled.          *)
NoOrphan ==
  \A p \in Ptys :
    /\ session[p] \in {"spawning", "quiescent"} => state[p] \in {"Spawning", "Active"}
    /\ session[p] = "streaming" => state[p] = "Active"

(* The resizer's context is canceled when its PTY has left the pool, by     *)
(* whichever of the three ways, and the writer's once the process has       *)
(* exited; neither before.                                                  *)
WorkersFollowPty ==
  \A p \in Ptys :
    /\ "resizer" \in canceledWorkers[p] <=> state[p] = "Gone"
    /\ state[p] = "Exited" => "writer" \in canceledWorkers[p]
    /\ "writer" \in canceledWorkers[p] => session[p] = "ended"

(* A terminal's size never goes back to an older one, whichever of the      *)
(* reducer's flushes carried it, and input arrives in the order it was      *)
(* typed, none of it twice.                                                 *)
InOrder ==
  [][\A p \in Ptys : size'[p] >= size[p] /\ (written'[p] # written[p] => written'[p] > written[p])]_vars

(* A client that has got its manifest knows every PTY in the pool, except   *)
(* those that an earlier connection asked for and that came after it.       *)
ClientKnowsPool ==
  known # -1 /\ Connected =>
    \A p \in Pool \ told : p >= known /\ asked[p] < connection

(* The read loop sends to the reducer and to the coordinator, the reducer   *)
(* and the resizers to the coordinator, all without a way out: a full queue *)
(* always has room again, for nobody on the way waits for a sender.         *)
RoomAgain ==
  /\ Len(queue) = SIZE_QUEUE ~> Len(queue) < SIZE_QUEUE
  /\ Len(reducerQueue) = SIZE_QUEUE_REDUCER ~> Len(reducerQueue) < SIZE_QUEUE_REDUCER

(* Each PTY lives the abstract life.                                        *)
Lifecycle(p) ==
  INSTANCE PtyLifecycle WITH phase <- state[p], canceled <- canceled[p], frames <- frames[p]

ImplementsLifecycle ==
  /\ \A p \in Ptys : Lifecycle(p)!Init
  /\ [][\A p \in Ptys : [Lifecycle(p)!Next]_(<<state[p], canceled[p], frames[p]>>)]_vars
=============================================================================
