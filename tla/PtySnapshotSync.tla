--------------------------- MODULE PtySnapshotSync ---------------------------
(***************************************************************************)
(* What a client sees of one PTY across visibility changes and reconnects: *)
(* the modes of _PtyProxy_, the flushes of its dispatcher, the snapshot    *)
(* sequence of the coordinator, and the way a BATCH__SYNC_PTY takes through*)
(* reducer and resizer to get there.                                       *)
(*                                                                         *)
(* The output is a sequence of chunks, numbered from 1; PtyTerminal is the *)
(* number of chunks written to it, and a snapshot of it shows them all. A  *)
(* step is a critical section of one mutex, one channel operation, or one  *)
(* message written to the websocket.                                       *)
(***************************************************************************)
EXTENDS Integers, Sequences

CONSTANTS
  SIZE_QUEUE_RESIZER,   \* capacity of QueueChannel__Order_PtyResizer
  MaxChunks,            \* bound of the model: chunks the process writes
  MaxConnections,       \* bound of the model: websocket connections, one after another
  MaxSyncs              \* bound of the model: BATCH__SYNC_PTY messages

ASSUME ResizerAssumption == SIZE_QUEUE_RESIZER \in Nat \ {0}
ASSUME BoundAssumption == {MaxChunks, MaxConnections, MaxSyncs} \subseteq Nat \ {0}

VARIABLES
  websocket,        \* "attached", "reading", "torn down" or "offline"
  connection,       \* Id_WebsocketConnection_state
  manifest,         \* connection on which a client last received a manifest
  told,             \* connection on which a client was last told of the PTY (0: none)
  screen,           \* chunks shown by the client of the current connection, in order of arrival
  syncs,            \* syncs received from clients
  reducerQueue,     \* QueueChannel of the reducer: the syncs
  reducer,          \* the sync in the reducer's hands, and how far it is
  resizerQueue,     \* resizer orders: JUST, or the connection an EmitSnapshot expects
  resizer,          \* the EmitSnapshot the resizer is about to send, or JUST
  queue,            \* QueueChannel_WorkspaceOrder
  group,            \* _GroupJob_WorkspaceOrder_: orders by kind
  handler,          \* where the coordinator stands
  captured,         \* connection id it read under the websocket's mutex (0: none)
  outgoing,         \* output it is about to emit
  state,            \* State_state of the PTY, or "Absent": not in the pool yet
  visibility,       \* Visibility__Client_connected__state
  mode,             \* Mode_state
  terminal,         \* PtyTerminal: chunks written
  post,             \* PostSnapshotBuffer
  dispatcher,       \* where _PtyDispatcher_.RunWorker stands
  dispatcherId      \* connection id read by HandleOutput_Pty for a live flush

websocketVars == <<websocket, connection>>
clientVars == <<manifest, told, screen, syncs>>
reducerVars == <<reducerQueue, reducer>>
resizerVars == <<resizerQueue, resizer>>
coordinatorVars == <<group, handler, captured, outgoing>>
ptyVars == <<state, visibility>>
proxyVars == <<mode, terminal, post>>
dispatcherVars == <<dispatcher, dispatcherId>>
vars == <<websocketVars, clientVars, reducerVars, resizerVars, queue, coordinatorVars,
          ptyVars, proxyVars, dispatcherVars>>

JUST == 0                      \* a ResizePty_Just order: no snapshot wanted
Ids == 1 .. MaxConnections
Chunks == 1 .. MaxChunks
Kinds == {"ExitPty", "SpawnPty", "Status_SpawnPty", "Disconnect", "Connect", "SyncVisibility",
          "EmitSnapshot"}
Orders == [kind : Kinds, id : 0 .. MaxConnections, visible : BOOLEAN]
Order(kind, id, visible) == [kind |-> kind, id |-> id, visible |-> visible]

(* The position of a kind in _GroupJob_WorkspaceOrder_.Execute.             *)
Rank == [ExitPty |-> 1, SpawnPty |-> 2, Status_SpawnPty |-> 3, Disconnect |-> 4, Connect |-> 5,
         SyncVisibility |-> 6, EmitSnapshot |-> 7]

EmptyGroup == [k \in Kinds |-> <<>>]
IdleReducer == [at |-> "Select", id |-> 1, visible |-> FALSE, resize |-> JUST]

Connected == websocket \in {"attached", "reading"}

TypeOK ==
  /\ websocket \in {"attached", "reading", "torn down", "offline"}
  /\ connection \in Ids
  /\ manifest \in Ids
  /\ told \in 0 .. MaxConnections
  /\ screen \in Seq(Chunks)
  /\ syncs \in 0 .. MaxSyncs
  /\ reducerQueue \in Seq([id : Ids, visible : BOOLEAN])
  /\ reducer \in [at : {"SendSpawn", "Select", "SendSync", "Submit"}, id : Ids, visible : BOOLEAN,
                  resize : Ids \cup {JUST}]
  /\ resizerQueue \in Seq(Ids \cup {JUST}) /\ Len(resizerQueue) <= SIZE_QUEUE_RESIZER
  /\ resizer \in Ids \cup {JUST}
  /\ queue \in Seq(Orders)
  /\ group \in [Kinds -> Seq(Orders)]
  /\ handler \in {"Select", "Drain", "Execute", "SetMode", "Silence", "Visibility", "AlignMode",
                  "PreToPost", "SerializeExited", "CaptureSnapshot", "WriteSnapshot",
                  "PostToLive", "CapturePost", "WritePost"}
  /\ captured \in 0 .. MaxConnections
  /\ outgoing \in Seq(Chunks)
  /\ state \in {"Absent", "Spawning", "Active", "Exited"}
  /\ visibility \in {"DISCONNECTED_UNKNOWN", "VISIBLE", "NOT_VISIBLE"}
  /\ mode \in {"SPAWNING", "LIVE", "PRE_SNAPSHOT", "POST_SNAPSHOT", "EXITED"}
  /\ terminal \in 0 .. MaxChunks
  /\ post \in Seq(Chunks)
  /\ dispatcher \in {"none", "spawning", "quiescent", "Select", "CaptureId", "Write", "finished"}
  /\ dispatcherId \in 0 .. MaxConnections

(* The reducer holds the SpawnPty message of the first connection's client. *)
Init ==
  /\ websocket = "reading" /\ connection = 1
  /\ manifest = 1 /\ told = 0 /\ screen = <<>> /\ syncs = 0
  /\ reducerQueue = <<>>
  /\ reducer = [IdleReducer EXCEPT !.at = "SendSpawn"]
  /\ resizerQueue = <<>> /\ resizer = JUST
  /\ queue = <<>> /\ group = EmptyGroup
  /\ handler = "Select" /\ captured = 0 /\ outgoing = <<>>
  /\ state = "Absent" /\ visibility = "DISCONNECTED_UNKNOWN"
  /\ mode = "SPAWNING" /\ terminal = 0 /\ post = <<>>
  /\ dispatcher = "none" /\ dispatcherId = 0

Send(o) == queue' = Append(queue, o)

(* WritePayload_BinaryMessage of output: dropped unless the connection it   *)
(* is meant for is the current one. Its check and its write are one step:   *)
(* ids only grow, and what an old connection still gets nobody sees.        *)
Deliver(id, chunks) ==
  screen' = IF Connected /\ id = connection THEN screen \o chunks ELSE screen

-----------------------------------------------------------------------------
(* The connection worker of the websocket, and the client.                 *)

Attach ==
  /\ websocket = "offline"
  /\ connection < MaxConnections
  /\ websocket' = "attached"
  /\ connection' = connection + 1
  /\ screen' = <<>>
  /\ UNCHANGED <<manifest, told, syncs, reducerVars, resizerVars, queue, coordinatorVars,
                 ptyVars, proxyVars, dispatcherVars>>

HandleConnected ==
  /\ websocket = "attached"
  /\ websocket' = "reading"
  /\ Send(Order("Connect", connection, FALSE))
  /\ UNCHANGED <<connection, clientVars, reducerVars, resizerVars, coordinatorVars,
                 ptyVars, proxyVars, dispatcherVars>>

(* The client answers the manifest, and later shows and hides a PTY it      *)
(* knows of.                                                                *)
ReceiveSync ==
  /\ websocket = "reading"
  /\ manifest = connection
  /\ syncs < MaxSyncs
  /\ syncs' = syncs + 1
  /\ \E visible \in {FALSE, told = connection} :
       reducerQueue' = Append(reducerQueue, [id |-> connection, visible |-> visible])
  /\ UNCHANGED <<websocketVars, manifest, told, screen, reducer, resizerVars, queue, coordinatorVars,
                 ptyVars, proxyVars, dispatcherVars>>

Teardown ==
  /\ websocket = "reading"
  /\ websocket' = "torn down"
  /\ UNCHANGED <<connection, clientVars, reducerVars, resizerVars, queue, coordinatorVars,
                 ptyVars, proxyVars, dispatcherVars>>

HandleDisconnected ==
  /\ websocket = "torn down"
  /\ websocket' = "offline"
  /\ Send(Order("Disconnect", 0, FALSE))
  /\ UNCHANGED <<connection, clientVars, reducerVars, resizerVars, coordinatorVars,
                 ptyVars, proxyVars, dispatcherVars>>

-----------------------------------------------------------------------------
(* Reducer and resizer: HandleFlush__Batch_SyncPty__Reducer, PtyResizer.   *)

(* HandleFlush__SpawnPty__Reducer.                                         *)
SendSpawnPty ==
  /\ reducer.at = "SendSpawn"
  /\ Send(Order("SpawnPty", reducer.id, FALSE))
  /\ reducer' = IdleReducer
  /\ UNCHANGED <<websocketVars, clientVars, reducerQueue, resizerVars, coordinatorVars,
                 ptyVars, proxyVars, dispatcherVars>>

(* The visibility is read before SyncVisibility is sent: a PTY that is      *)
(* visible now only gets its new size.                                      *)
ReadVisibility ==
  /\ reducer.at = "Select"
  /\ reducerQueue # <<>>
  /\ LET sync == Head(reducerQueue)
     IN reducer' = [at |-> "SendSync", id |-> sync.id, visible |-> sync.visible,
                    resize |-> IF visibility = "VISIBLE" THEN JUST ELSE sync.id]
  /\ reducerQueue' = Tail(reducerQueue)
  /\ UNCHANGED <<websocketVars, clientVars, resizerVars, queue, coordinatorVars,
                 ptyVars, proxyVars, dispatcherVars>>

SendSyncVisibility ==
  /\ reducer.at = "SendSync"
  /\ Send(Order("SyncVisibility", reducer.id, reducer.visible))
  /\ reducer' = IF reducer.visible THEN [reducer EXCEPT !.at = "Submit"] ELSE IdleReducer
  /\ UNCHANGED <<websocketVars, clientVars, reducerQueue, resizerVars, coordinatorVars,
                 ptyVars, proxyVars, dispatcherVars>>

(* Wrong: queues beyond the capacity.                                       *)
Submit_Unbounded ==
  /\ reducer.at = "Submit"
  /\ reducer' = IdleReducer
  /\ resizerQueue' = Append(resizerQueue, reducer.resize)
  /\ UNCHANGED <<websocketVars, clientVars, reducerQueue, resizer, queue, coordinatorVars,
                 ptyVars, proxyVars, dispatcherVars>>

(* An order is dropped when the resizer's queue is full.                    *)
Submit ==
  /\ reducer.at = "Submit"
  /\ reducer' = IdleReducer
  /\ resizerQueue' = IF Len(resizerQueue) < SIZE_QUEUE_RESIZER
                     THEN Append(resizerQueue, reducer.resize) ELSE resizerQueue
  /\ UNCHANGED <<websocketVars, clientVars, reducerQueue, resizer, queue, coordinatorVars,
                 ptyVars, proxyVars, dispatcherVars>>

(* coalescePair over all that is queued: the last EmitSnapshot wins, and no *)
(* Just displaces it.                                                       *)
Coalesced ==
  LET emits == {i \in DOMAIN resizerQueue : resizerQueue[i] # JUST}
  IN IF emits = {} THEN JUST ELSE resizerQueue[CHOOSE i \in emits : \A j \in emits : j <= i]

(* The resizer's worker starts in the success handler.                      *)
DrainAndCoalesce ==
  /\ state \notin {"Absent", "Spawning"}
  /\ resizer = JUST
  /\ resizerQueue # <<>>
  /\ resizer' = Coalesced
  /\ resizerQueue' = <<>>
  /\ UNCHANGED <<websocketVars, clientVars, reducerVars, queue, coordinatorVars,
                 ptyVars, proxyVars, dispatcherVars>>

SendEmitSnapshot ==
  /\ resizer # JUST
  /\ resizer' = JUST
  /\ Send(Order("EmitSnapshot", resizer, FALSE))
  /\ UNCHANGED <<websocketVars, clientVars, reducerVars, resizerQueue, coordinatorVars,
                 ptyVars, proxyVars, dispatcherVars>>

-----------------------------------------------------------------------------
(* The coordinator: RunWorker groups what is queued and executes by kind.  *)

(* Session orders are dropped after a Disconnect without a Connect.         *)
Kept == group.Disconnect = <<>> \/ group.Connect # <<>>

Apply(o) ==
  \/ /\ o.kind \in {"ExitPty", "SpawnPty", "Status_SpawnPty", "Connect"}
     /\ group' = [group EXCEPT ![o.kind] = <<o>>]
  \/ /\ o.kind = "Disconnect"
     /\ group' = [group EXCEPT !.Disconnect = <<o>>, !.Connect = <<>>,
                               !.SyncVisibility = <<>>, !.EmitSnapshot = <<>>]
  \/ /\ o.kind = "SyncVisibility"
     /\ group' = IF Kept THEN [group EXCEPT !.SyncVisibility = <<o>>] ELSE group
  \/ /\ o.kind = "EmitSnapshot"      \* one per PTY, the first
     /\ group' = IF Kept /\ group.EmitSnapshot = <<>>
                 THEN [group EXCEPT !.EmitSnapshot = <<o>>] ELSE group

DrainAndApply ==
  /\ handler \in {"Select", "Drain"}
  /\ queue # <<>>
  /\ Apply(Head(queue))
  /\ queue' = Tail(queue)
  /\ handler' = "Drain"
  /\ UNCHANGED <<websocketVars, clientVars, reducerVars, resizerVars, captured, outgoing,
                 ptyVars, proxyVars, dispatcherVars>>

Execute ==
  /\ \/ /\ handler = "Drain" /\ queue = <<>>
        /\ handler' = "Execute"
     \/ /\ handler = "Execute" /\ group = EmptyGroup
        /\ handler' = "Select"
  /\ UNCHANGED <<websocketVars, clientVars, reducerVars, resizerVars, queue, group, captured,
                 outgoing, ptyVars, proxyVars, dispatcherVars>>

(* The next order of the group is of this kind.                             *)
Turn(kind) ==
  /\ handler = "Execute"
  /\ group[kind] # <<>>
  /\ \A k \in Kinds : Rank[k] < Rank[kind] => group[k] = <<>>

Done(kind) == group' = [group EXCEPT ![kind] = Tail(@)]

(* The order names the connection that is established at this moment.       *)
ForCurrent(kind) == Connected /\ Head(group[kind]).id = connection

(* HandleSpawnPty does not look at the connection: the PTY is visible, even *)
(* if the client that asked for it is gone and its status frame dropped.    *)
HandleSpawnPty ==
  /\ Turn("SpawnPty") /\ Done("SpawnPty")
  /\ state' = "Spawning" /\ visibility' = "VISIBLE"
  /\ told' = IF ForCurrent("SpawnPty") THEN connection ELSE told
  /\ dispatcher' = "spawning"
  /\ UNCHANGED <<websocketVars, manifest, screen, syncs, reducerVars, resizerVars, queue,
                 handler, captured, outgoing, proxyVars, dispatcherId>>

(* The success handler reads the visibility, which only the coordinator     *)
(* writes, and the status of the connection; then, under another mutex, it  *)
(* sets the mode and starts resizer, dispatcher and reader.                 *)
CaptureStatus ==
  /\ Turn("Status_SpawnPty") /\ Done("Status_SpawnPty")
  /\ captured' = IF Connected THEN connection ELSE 0
  /\ handler' = "SetMode"
  /\ UNCHANGED <<websocketVars, clientVars, reducerVars, resizerVars, queue, outgoing,
                 ptyVars, proxyVars, dispatcherVars>>

SpawnSuccess ==
  /\ handler = "SetMode"
  /\ mode' = IF captured # 0 /\ visibility = "VISIBLE" THEN "LIVE" ELSE "PRE_SNAPSHOT"
  /\ state' = "Active"
  /\ dispatcher' = "Select"
  /\ captured' = 0
  /\ handler' = "Execute"
  /\ UNCHANGED <<websocketVars, clientVars, reducerVars, resizerVars, queue, group, outgoing,
                 visibility, terminal, post, dispatcherId>>

(* What the coordinator's steps below leave alone.                          *)
othersUnchanged == UNCHANGED <<websocketVars, syncs, reducerVars, resizerVars, queue, dispatcherVars>>

HandleExit ==
  /\ Turn("ExitPty") /\ Done("ExitPty")
  /\ mode' = "EXITED"
  /\ state' = "Exited"
  /\ UNCHANGED <<handler, captured, outgoing, visibility, terminal, post, manifest, told, screen>>
  /\ othersUnchanged

HandleDisconnect ==
  /\ Turn("Disconnect") /\ Done("Disconnect")
  /\ visibility' = "DISCONNECTED_UNKNOWN"
  /\ handler' = "Silence"
  /\ UNCHANGED <<captured, outgoing, state, proxyVars, manifest, told, screen>>
  /\ othersUnchanged

(* HandleDisconnect_Coordinator of the PTY's state, after the unlock.       *)
Silence ==
  /\ handler = "Silence"
  /\ mode' = IF state = "Active" /\ mode \in {"LIVE", "POST_SNAPSHOT"} THEN "PRE_SNAPSHOT" ELSE mode
  /\ handler' = "Execute"
  /\ UNCHANGED <<group, captured, outgoing, ptyVars, terminal, post, manifest, told, screen>>
  /\ othersUnchanged

HandleConnect ==
  /\ Turn("Connect") /\ Done("Connect")
  /\ manifest' = IF ForCurrent("Connect") THEN connection ELSE manifest
  /\ told' = IF ForCurrent("Connect") /\ state # "Absent" THEN connection ELSE told
  /\ UNCHANGED <<handler, captured, outgoing, ptyVars, proxyVars, screen>>
  /\ othersUnchanged

(* Wrong: looks at the status of the connection and not at its id.          *)
HandleSyncVisibility_AnyId ==
  /\ Turn("SyncVisibility")
  /\ IF Connected
     THEN handler' = "Visibility" /\ UNCHANGED group
     ELSE Done("SyncVisibility") /\ UNCHANGED handler
  /\ UNCHANGED <<captured, outgoing, ptyVars, proxyVars, manifest, told, screen>>
  /\ othersUnchanged

(* The connection is looked at first and may be gone a moment later.        *)
HandleSyncVisibility ==
  /\ Turn("SyncVisibility")
  /\ IF ForCurrent("SyncVisibility")
     THEN handler' = "Visibility" /\ UNCHANGED group
     ELSE Done("SyncVisibility") /\ UNCHANGED handler
  /\ UNCHANGED <<captured, outgoing, ptyVars, proxyVars, manifest, told, screen>>
  /\ othersUnchanged

SyncVisibility ==
  /\ handler = "Visibility"
  /\ LET shown == Head(group.SyncVisibility).visible
     IN \/ /\ shown
           /\ visibility' = "VISIBLE" /\ handler' = "Execute"
        \/ /\ ~shown /\ visibility = "VISIBLE"
           /\ visibility' = "NOT_VISIBLE" /\ handler' = "AlignMode"
        \/ /\ ~shown /\ visibility # "VISIBLE"
           /\ handler' = "Execute" /\ UNCHANGED visibility
  /\ Done("SyncVisibility")
  /\ UNCHANGED <<captured, outgoing, state, proxyVars, manifest, told, screen>>
  /\ othersUnchanged

(* Wrong: a PTY that was hidden stays in its mode.                          *)
AlignMode_Forgotten ==
  /\ handler = "AlignMode"
  /\ handler' = "Execute"
  /\ UNCHANGED <<group, captured, outgoing, ptyVars, proxyVars, manifest, told, screen>>
  /\ othersUnchanged

(* AlignMode_NotVisible of the PTY's state, after the unlock.               *)
AlignMode ==
  /\ handler = "AlignMode"
  /\ mode' = IF state = "Active" THEN "PRE_SNAPSHOT" ELSE mode
  /\ handler' = "Execute"
  /\ UNCHANGED <<group, captured, outgoing, ptyVars, terminal, post, manifest, told, screen>>
  /\ othersUnchanged

-----------------------------------------------------------------------------
(* HandleEmitSnapshot_PtyProxy__Coordinator.                               *)

(* TASK_START clears the client's screen; it is written under the id that   *)
(* was just compared, so it is one step with the comparison.                *)
HandleEmitSnapshot ==
  /\ Turn("EmitSnapshot") /\ Done("EmitSnapshot")
  /\ LET wanted == /\ ForCurrent("EmitSnapshot")
                   /\ visibility = "VISIBLE" /\ state \in {"Active", "Exited"}
     IN /\ handler' = CASE ~wanted -> "Execute"
                        [] wanted /\ state = "Active" -> "PreToPost"
                        [] wanted /\ state = "Exited" -> "SerializeExited"
        /\ screen' = IF wanted THEN <<>> ELSE screen
  /\ UNCHANGED <<captured, outgoing, ptyVars, proxyVars, manifest, told>>
  /\ othersUnchanged

AfterSnapshot == IF state = "Active" THEN "PostToLive" ELSE "Execute"

(* Serialises the terminal under the proxy's mutex; nothing is emitted for  *)
(* an empty one.                                                            *)
Serialize ==
  /\ handler \in {"PreToPost", "SerializeExited"}
  /\ \/ handler = "PreToPost" /\ mode' = "POST_SNAPSHOT" /\ post' = <<>>
     \/ handler = "SerializeExited" /\ UNCHANGED <<mode, post>>
  /\ outgoing' = [c \in 1 .. terminal |-> c]
  /\ handler' = IF terminal > 0 THEN "CaptureSnapshot" ELSE AfterSnapshot
  /\ UNCHANGED <<group, captured, ptyVars, terminal, manifest, told, screen>>
  /\ othersUnchanged

(* HandleOutput_Pty takes the id that is current when it runs.              *)
CaptureId ==
  /\ handler \in {"CaptureSnapshot", "CapturePost"}
  /\ captured' = connection
  /\ handler' = IF handler = "CaptureSnapshot" THEN "WriteSnapshot" ELSE "WritePost"
  /\ UNCHANGED <<group, outgoing, ptyVars, proxyVars, manifest, told, screen>>
  /\ othersUnchanged

WriteOutput ==
  /\ handler \in {"WriteSnapshot", "WritePost"}
  /\ Deliver(captured, outgoing)
  /\ handler' = IF handler = "WriteSnapshot" THEN AfterSnapshot ELSE "Execute"
  /\ captured' = 0 /\ outgoing' = <<>>
  /\ UNCHANGED <<group, ptyVars, proxyVars, manifest, told>>
  /\ othersUnchanged

(* LIVE is set under the mutex, the buffered output emitted after it.       *)
PostToLive ==
  /\ handler = "PostToLive"
  /\ mode' = "LIVE"
  /\ outgoing' = post
  /\ handler' = IF post # <<>> THEN "CapturePost" ELSE "Execute"
  /\ UNCHANGED <<group, captured, ptyVars, terminal, post, manifest, told, screen>>
  /\ othersUnchanged

-----------------------------------------------------------------------------
(* The dispatcher, and the spawn that precedes it.                         *)

(* backgroundSpawn reports the quiescent proxy.                             *)
SpawnReported ==
  /\ dispatcher = "spawning"
  /\ dispatcher' = "quiescent"
  /\ Send(Order("Status_SpawnPty", 1, FALSE))
  /\ UNCHANGED <<websocketVars, clientVars, reducerVars, resizerVars, coordinatorVars,
                 ptyVars, proxyVars, dispatcherId>>

(* Wrong: buffers nothing while a snapshot is on its way.                   *)
HandleBlockingFlush_Unbuffered ==
  /\ dispatcher = "Select"
  /\ terminal < MaxChunks
  /\ terminal' = terminal + 1
  /\ dispatcher' = IF mode = "LIVE" THEN "CaptureId" ELSE "Select"
  /\ UNCHANGED <<websocketVars, clientVars, reducerVars, resizerVars, queue, coordinatorVars,
                 ptyVars, mode, post, dispatcherId>>

(* The part under the mutex; live output is emitted after it.               *)
HandleBlockingFlush ==
  /\ dispatcher = "Select"
  /\ terminal < MaxChunks
  /\ terminal' = terminal + 1
  /\ post' = IF mode = "POST_SNAPSHOT" THEN Append(post, terminal') ELSE post
  /\ dispatcher' = IF mode = "LIVE" THEN "CaptureId" ELSE "Select"
  /\ UNCHANGED <<websocketVars, clientVars, reducerVars, resizerVars, queue, coordinatorVars,
                 ptyVars, mode, dispatcherId>>

HandleOutput ==
  /\ dispatcher = "CaptureId"
  /\ dispatcherId' = connection
  /\ dispatcher' = "Write"
  /\ UNCHANGED <<websocketVars, clientVars, reducerVars, resizerVars, queue, coordinatorVars,
                 ptyVars, proxyVars>>

(* The chunk in flight is the last one written to the terminal.             *)
WriteLive ==
  /\ dispatcher = "Write"
  /\ Deliver(dispatcherId, <<terminal>>)
  /\ dispatcher' = "Select" /\ dispatcherId' = 0
  /\ UNCHANGED <<websocketVars, manifest, told, syncs, reducerVars, resizerVars, queue, coordinatorVars,
                 ptyVars, proxyVars>>

(* Wrong: reports the end while a flush is being emitted.                   *)
ReaderFinished_Early ==
  /\ dispatcher \in {"Select", "CaptureId", "Write"}
  /\ Send(Order("ExitPty", 0, FALSE))
  /\ dispatcher' = IF dispatcher = "Select" THEN "finished" ELSE dispatcher
  /\ UNCHANGED <<websocketVars, clientVars, reducerVars, resizerVars, coordinatorVars,
                 ptyVars, proxyVars, dispatcherId>>

(* The EXIT order: the dispatcher reports the end after its last flush, and *)
(* the teardown sends the exit order.                                       *)
ReaderFinished ==
  /\ dispatcher = "Select"
  /\ Send(Order("ExitPty", 0, FALSE))
  /\ dispatcher' = "finished"
  /\ UNCHANGED <<websocketVars, clientVars, reducerVars, resizerVars, coordinatorVars,
                 ptyVars, proxyVars, dispatcherId>>

-----------------------------------------------------------------------------
Connection == Attach \/ HandleConnected \/ ReceiveSync \/ Teardown \/ HandleDisconnected
Layout == SendSpawnPty \/ ReadVisibility \/ SendSyncVisibility \/ Submit \/ DrainAndCoalesce \/ SendEmitSnapshot
Coordinator ==
  \/ DrainAndApply \/ Execute
  \/ HandleExit \/ HandleSpawnPty \/ CaptureStatus \/ SpawnSuccess
  \/ HandleDisconnect \/ Silence \/ HandleConnect
  \/ HandleSyncVisibility \/ SyncVisibility \/ AlignMode
  \/ HandleEmitSnapshot \/ Serialize \/ CaptureId \/ WriteOutput \/ PostToLive
Dispatcher == SpawnReported \/ HandleBlockingFlush \/ HandleOutput \/ WriteLive \/ ReaderFinished

Next == Connection \/ Layout \/ Coordinator \/ Dispatcher

Spec == Init /\ [][Next]_vars

-----------------------------------------------------------------------------
(* The current connection is established and its predecessors' ends have    *)
(* all been handled.                                                        *)
Aligned ==
  /\ Connected
  /\ group.Disconnect = <<>> /\ handler # "Silence"
  /\ \A i \in 1 .. Len(queue) : queue[i].kind # "Disconnect"

Elements(s) == {s[i] : i \in 1 .. Len(s)}

(* Output on its way to the client: a snapshot about to be taken, what the  *)
(* coordinator is emitting, the post-snapshot buffer, or a live flush.      *)
OnTheWay ==
  (IF handler = "PreToPost" THEN 1 .. terminal ELSE {})
  \cup (IF handler \in {"CaptureSnapshot", "WriteSnapshot", "CapturePost", "WritePost"}
   THEN Elements(outgoing) ELSE {})
  \cup (IF mode = "POST_SNAPSHOT" THEN Elements(post) ELSE {})
  \cup (IF dispatcher \in {"CaptureId", "Write"} THEN {terminal} ELSE {})

(* No byte is lost across mode changes and reconnects: whatever the         *)
(* terminal holds, a client whose PTY is LIVE or in the middle of a         *)
(* snapshot has received or is about to receive                             *)
(* (documentation/PtyProxy.LEGACY.md:343).                                  *)
NoGap ==
  Aligned /\ mode \in {"LIVE", "POST_SNAPSHOT"}
    => 1 .. terminal \subseteq Elements(screen) \cup OnTheWay

(* A PTY that no client is known to show streams nothing: between handlers, *)
(* whatever the order of syncs, disconnects and snapshots was.              *)
HiddenIsSilent ==
  handler \in {"Select", "Drain", "Execute"} /\ visibility # "VISIBLE"
    => mode \notin {"LIVE", "POST_SNAPSHOT"}

(* No sync or snapshot order an old connection left in any queue takes      *)
(* effect on a new one: until the new client has got its manifest no step   *)
(* shows a hidden PTY or starts to stream one that was not spawning.        *)
NothingBeforeManifest ==
  [][Aligned /\ manifest # connection /\ state # "Absent"
       => /\ visibility' = "VISIBLE" => visibility = "VISIBLE"
          /\ mode' \in {"LIVE", "POST_SNAPSHOT"} => mode \in {"SPAWNING", "LIVE", "POST_SNAPSHOT"}]_vars

(* The exit of a streamed PTY is handled after the client has got all of    *)
(* its output.                                                              *)
ExitAfterOutput ==
  [][mode = "LIVE" /\ mode' = "EXITED" /\ Aligned
       => 1 .. terminal \subseteq Elements(screen)]_vars

(* What documentation/PtyProxy.LEGACY.md:27 says of the way back to LIVE:   *)
(* the stream is resynchronised before live output resumes, so the buffered *)
(* output reaches the client before any output that followed it.            *)
ReplayBeforeLive ==
  [][handler = "WritePost" /\ handler' = "Execute"
       => \A c \in Elements(screen), d \in Elements(outgoing) : c < d]_vars

(* What documentation/WorkspaceController.LEGACY.md:84 says: under no       *)
(* circumstances does output reach a client before the frame that tells it  *)
(* of the PTY.                                                              *)
StatusBeforeOutput ==
  [][Len(screen') > Len(screen) => told = connection]_vars

(* Every order has been executed, and no sync is on its way.                *)
Quiescent ==
  /\ websocket = "reading" /\ reducerQueue = <<>> /\ reducer.at = "Select"
  /\ resizerQueue = <<>> /\ resizer = JUST
  /\ queue = <<>> /\ handler = "Select"

(* What documentation/WorkspaceController.LEGACY.md:271 says of syncs: a    *)
(* hidden PTY shown by one gets its snapshot, after which it is LIVE.       *)
VisibleBecomesLive ==
  Quiescent /\ visibility = "VISIBLE" /\ state = "Active" => mode = "LIVE"
=============================================================================
