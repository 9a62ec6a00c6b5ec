# suprasole-server: TLA+ verification

The server (`src/suprasole-server_LEGACY/source`, Go) keeps pseudo-terminal
sessions alive across websocket connections. This directory holds TLA+ modules
translated from that source, TLC runs that check them on small instances, and
TLAPS proofs of what holds for every instance. Every definition that models code
is listed in `PROJECT.json` under `map` with the lines it stands for.

- [1. The system](#1-the-system): components, state, interactions, hazards
- [2. Modules](#2-modules): what each models and what it composes
- [3. The end of a session](#3-the-end-of-a-session): `PtyProcess`, `PtyTeardown`, `PtySession`
- [4. The output path](#4-the-output-path): `PtyDataPlane`, `PtyStream`
- [5. Snapshots and syncs](#5-snapshots-and-syncs): `PtySnapshotSync`
- [6. The connection](#6-the-connection): `WebsocketController`, `WebsocketFlow`
- [7. The workspace](#7-the-workspace): `Workspace`, `LayoutUpdates`, `PtyLifecycle`
- [8. A request and its launch](#8-a-request-and-its-launch): `PtyMessages`, `PtySpawn`, `SpawnRequest`
- [9. Runs](#9-runs), [10. Proofs](#10-proofs), [11. Limits](#11-limits)

## 1. The system

One workspace, one websocket at a time, any number of PTYs. Each PTY has five
goroutines of its own (process worker, teardown actor, reader, dispatcher,
writer) and a sixth, the resizer. Three more serve the workspace: the
coordinator, the layout reducer and the websocket's connection worker.
Goroutines talk through channels with a bounded buffer; four mutexes protect
what they share (`_WorkspaceController_`, `_WebsocketController_` twice,
`_PtyProxy_`, `_PtyProcess_`).

```
 client ==ws==> WebsocketController --decode--> MessageReducer --> PtyResizer --+
                       |   \                        |               (per PTY)   |
                       |    +-- Terminate ------+   | Spawn, Remove,            | EmitSnapshot
             Connect / |                        |   | SyncVisibility            |
            Disconnect v                        v   v                           v
                     +------------------ LifecycleCoordinator ------------------+
                        | Spawn, Cancel, ReaderStarted, Terminate      ^ ExitPty
                        v                                              |
   PtyProcess worker --Channel_FinalState--> PtyTeardown --------------+
                                                ^ ReaderFinished
   master --read--> PtyReader --queue--> PtyDispatcher --flush--> PtyProxy ==ws==> client
                        ^----freelist-------+
```

| Component | State | Operations | Interacts with |
|---|---|---|---|
| `PtyProcess` | `State_state` under a mutex (Alive, Zombie_Withheld, Zombie, Reaped, SystemError), pidfd, `Channel_FinalState` | spawn through PtyExec; worker: peek, re-peek, collect, publish; `Signal`; `Observe_Unresponsive`; outcome | kernel, tracers; read by `PtyTeardown` |
| `PtyTeardown` | reader side, process side, master, cancellation, three timers, order queue of 3 | Terminate, Cancel, ReaderStarted, ReaderFinished, final state, three timeouts, Settle | coordinator, dispatcher, process |
| `PtyReader` | the buffer in hand | take, read, send, give back, send EXIT | master, dispatcher |
| `PtyDispatcher` | IDLE or PACING, staging buffer, timer, queue of 24, freelist of 26 | data order, tick, EXIT order | reader, proxy, teardown |
| `PtyProxy` | mode (SPAWNING, LIVE, PRE_SNAPSHOT, POST_SNAPSHOT, EXITED), terminal, post-snapshot buffer | flush, snapshot, mode transitions, resize | dispatcher, coordinator, resizer |
| `LifecycleCoordinator` | queue of 128; the pool of PTYs (Spawning, Active, Exited) and their visibilities | group the queued orders, execute them by kind: exit, terminate, remove, spawn, spawn status, disconnect, connect, visibility, snapshots | all of the above, websocket |
| `MessageReducer` | tentative batch of sizes, debounce timer, queue of 512 | resize, sync, spawn, remove; flush | ingress, coordinator, resizers |
| `PtyResizer` | queue of 128 | coalesce, resize, ask for a snapshot | reducer, proxy, coordinator |
| `PtyWriter` | queue, context | write input to the master | ingress |
| `WebsocketController` | connection, status, id, pending takeover, submission queue of 16 | request, upgrade, attach, read loop, close with code, teardown, write | HTTP, coordinator, ingress |
| codec | none | decode ingress, encode egress | websocket |
| `PtyExec` | none (assembly) | set up the child, execve, report a failed step on a pipe | spawn |

What makes each of them correct, and what is hard about it:

- **PtyProcess / PtyTeardown.** A session that anyone has ended ends, with one
  truthful outcome, after the last byte of output. The hard part is that process
  and terminal end independently and in either order, that descendants may hold
  the terminal open, that debuggers may withhold the zombie, that a process may
  be unkillable, that signals must never reach a recycled PID, and that timers
  race with the events they wait for.
- **PtyReader / PtyDispatcher.** The output is a stream: lossless, ordered, its
  end announced last, with at most one flush per frame. The hard part is that
  buffers are shared memory handed over by channels, and that pacing delays
  bytes for which no later event may come.
- **PtyProxy and snapshots.** A client that shows a PTY sees snapshot, then
  everything after it, once and in order. Flushes emit outside the mutex.
- **LifecycleCoordinator, reducer, resizer.** A visible PTY of a connected
  client becomes LIVE; PTYs are never lost nor spawned twice. Orders of one
  group are executed by kind and not by arrival, and visibility is read before
  earlier orders have changed it.
- **WebsocketController.** At most one connection is read and announced; messages never reach a
  later connection than the one they were meant for; takeovers close what they
  replace; nobody waits for ever on a stalled client.

`PROJECT.json` lists the hazards, each at its line with the properties that
cover it.

## 2. Modules

| Modules | Models | Composes | Properties in view | Shown by |
|---|---|---|---|---|
| `PtyProcess`, `PtyTeardown`, `PtySession` | the end of one session | process, actor and their environment | no panic, deadlines, truthful outcome, refinement, liveness | TLC, TLAPS |
| `PtyDataPlane`, `PtyStream` | the output path of one PTY | reader and dispatcher | buffer ownership, freelist, order, refinement, liveness | TLC, TLAPS |
| `PtySnapshotSync` | what the client of one PTY sees | proxy, flushes, reducer, resizer, coordinator, reconnects | no gap, hidden is silent, stale orders inert; order of the replay, a visible PTY becomes LIVE, status before output (all three refuted) | TLC, TLAPS |
| `WebsocketController`, `WebsocketFlow` | the connection | requests, takeover, worker | pending takeovers carried out, open sockets forgotten in one situation only, announcements in turn, liveness; one client at a time, clean cancellation (both refuted) | TLC, TLAPS |
| `LayoutUpdates`, `Workspace`, `PtyLifecycle` | several PTYs from their messages to their removal | read loop, reducer, coordinator, resizers, writers, verdicts and exits | no invalid path, no orphan, workers end, the client knows its PTYs, sizes and input in order, room in every queue, refinement | TLC, TLAPS |
| `PtyMessages` | the codec | pure operators over bytes | see `SpawnRequest` | TLC, TLAPS |
| `PtySpawn` | a launch and its failures | extends `PtyTeardown`: launch, helper, reaper, session | nothing left by a failed launch, launches end | TLC, TLAPS |
| `SpawnRequest` | one request from its bytes to the end of its session | `PtyMessages` and `PtySpawn` | decoded as meant or not at all, frames readable | TLC, TLAPS |

The proofs about a module `M` are in `M_proofs`. `PtyMessages_proofs` has the
lemmas about the codec; `Recursion` is a proof rule for loops written as recursive
functions, instantiated by it; `SpawnRequest_proofs` builds on
`PtyTeardown_proofs` and `PtyMessages_proofs` as `SpawnRequest` does on the
modules they are about (section 10).

The modules were built in this order: the session's end first, because every
other part relies on it, then the output, what the client sees of it, the
connection, and last the two compositions, which take the others' results as
small state machines (`PtySession` in `Workspace`) or as they are (`PtyTeardown`
in `PtySpawn`). What could come next is in section 11.

## 3. The end of a session

**`PtyProcess`** models `_PtyProcess_` and, marked external, the process in the
kernel: `running`, `withheld` (terminated, its report first due to a foreign
tracer), `zombie`, `reaped`. A peek of the worker is two system calls,
`waitid(WNOWAIT)` and `ppoll`, and therefore two actions (`WatchWaitid`,
`WatchPoll`, and the same pair for the one-second re-peek), so the kernel can act
in between. A critical section of the mutex is one action: `Collect` is the
collecting `waitid` together with the write of Reaped. `Signal` and
`Observe_Unresponsive` are operators for what the actor does under that mutex.
"Invalid path" panics set `panicked`, which stops the model as it would the server.

**`PtyTeardown`** extends it with `_PtyTeardown_` and the goroutines around it.

| Code | Module |
|---|---|
| `select` of `RunWorker`, one case each | `Terminate`, `Cancel`, `ReaderStarted`, `ReaderFinished`, `HandleFinalState`, `HandleDrain`, `HandleUnresponsive`, `HandleUninterruptible` |
| `Settle` at the end of an iteration | `Settle`, an action of its own: others run between a handler and it |
| `HandleTerminate` (non-blocking send), `HandleCancel`, `HandleReaderStarted`, `HandleReaderFinished` (blocking sends) | `HandleTerminate`; `Send` in `SpawnCanceled`, `SpawnSuccess`, `HandleReaderFinished` |
| coordinator's success handler, exit handler | `SpawnSuccess`, `SpawnCanceled`, `HandleExit` |
| the reader's error, the dispatcher's EXIT order | `ReaderError`, `HandleReaderFinished` |
| `Resolve__ExitOutcome_PtyProxy` and the three `Resolve` it calls | `Resolve__ExitOutcome`, `ResolveTermination`, `ResolveReport`, `ResolveFinalState` |

Timers have no duration: an armed timer may fire at any moment, which covers
every length of every timeout. Since Go 1.23 (go.mod asks for 1.25) `Stop` and
`Reset` leave no stale value in the channel, so a timer is armed or not. What
`/proc` shows is any letter the process may be in; only the class it yields
matters.

**`PtySession`** is what the rest of the server relies on: a session is streamed
or canceled, its master closes once and never before a reader exists unless
canceled, and it ends with one exit order sent after the output was drained, or
with none if canceled. `PtyTeardown` implements it under the mapping
`SessionPhase`.

Why the properties are what they are:

- `NoTerminateLost`: `HandleTerminate` drops its order on a full queue. The
  comment there argues that a full queue of three already holds a Terminate,
  because there are at most two other orders; the property states the effect.
- `NoWaitWithoutDeadline`, `SessionEnds`: the actor joins two independent
  events; whatever it waits for has a timer, or is about to happen.
- `MasterOutlivesSpawn`: closing the master discards unread output, so the drain
  timer must not start before there is a reader.
- `ExitAfterFlush`: the exit order switches the proxy to EXITED, in which a
  flush panics.
- `OutcomeTruthful`: what is emitted is what the kernel reported, for every race
  of final state, timeouts and read errors; it hides no failed read and no failed
  watch behind the success of the other side.
- `EscalatesOnce`, `SignalsReachOwnProcess`: how signals are sent.

A statement of the documentation that the code does not meet is kept as a run
that TLC refutes: `documentation/PtyTeardown.md:58`, "once the PTY process has
terminated, no group kill" (also the comment at `PtyTeardown-THREAD.go:136`).
`State_state` trails the kernel, and `Zombie_Withheld` counts as unresponsive, so
the group of a terminated leader can be killed. `NoGroupKillAfterTermination` fails.

Two more are only worth a note. `documentation/PtyProcess-THREAD.md:5` says of
`WITHHELD` that "a tracer holds the zombie"; a process that ends between the two
system calls of a peek is taken for withheld without any tracer, and collected only
at the next re-peek. And `documentation/PtyTeardown.md:16` says of the
blocking sends that they "cannot block". Three queued Terminates do make
HandleReaderFinished wait, for as long as the actor takes to receive one.

## 4. The output path

**`PtyDataPlane`** models the loop of `_PtyReader_` and the whole of
`_PtyDispatcher_`. Buffers are numbered; `memory` says which chunk a buffer
holds and `ReadChunk` overwrites it, so a buffer with two owners shows up as a
wrong chunk at the proxy. A flush may block in a websocket write; it is two
actions, the choice (`DataIdle`, `Tick`, `ExitSignal`) and the end (`FlushData`,
`FlushStaged`, `FlushLast`), and the reader works in between. The bytes reach
the proxy at the end of the flush, the latest moment at which the buffer is
still read.

**`PtyStream`** is the abstraction: chunks are delivered in order, any number at
a time; the end is announced when nothing is pending. The mapping takes as
pending the staged chunks, the one being flushed, those in the queue and the one
the reader holds (`Pending`).

- `PoolNeverBlocks`: `documentation/PtyReader-THREAD.md` calls it the
  non-blocking pool receive invariant. The assumption `PoolAssumption` (pool at
  least queue + 2) is what the constants of `PtyDispatcher.go:44-52` provide.
- `OneOwner`: no buffer is read into while free, queued or flushed.
- `StagedHasTimer`, `EverythingFlushed`: staged bytes always have a tick to come.
- `ImplementsStream`: order, no loss, no duplicate, the end last.

## 5. Snapshots and syncs

**`PtySnapshotSync`** follows one PTY from its SpawnPty message on, through every
goroutine that decides what its client sees. Output is a sequence of chunks
numbered from 1, `terminal` how many of them `PtyTerminal` has been given (a
snapshot shows them all) and `screen` what the client of the current connection
shows, in order of arrival; TASK_START clears it.

| Code | Module |
|---|---|
| connection worker: `Attach_WebsocketConnection`, its callback, read loop, `Teardown_WebsocketConnection`, its callback | `Attach`, `HandleConnected`, `ReceiveSync`, `Teardown`, `HandleDisconnected` |
| reducer: `HandleFlush__SpawnPty`; `HandleFlush__Batch_SyncPty` as critical section, send, submissions | `SendSpawnPty`; `ReadVisibility`, `SendSyncVisibility`, `Submit` |
| resizer: drain and coalesce, the order it sends after the resize | `DrainAndCoalesce`, `SendEmitSnapshot` |
| coordinator: receive and `Apply`; `Execute` of the group by kind | `DrainAndApply`; `Execute`, `Turn(kind)` |
| its handlers | `HandleExit`, `HandleSpawnPty`, `CaptureStatus` and `SpawnSuccess`, `HandleDisconnect` and `Silence`, `HandleConnect`, `HandleSyncVisibility`, `SyncVisibility` and `AlignMode`, `HandleEmitSnapshot` |
| `TransitionMode_PreToPostSnapshot`, `EmitSnapshot_Exited`; `TransitionMode_PostSnapshotToLive` | `Serialize`; `PostToLive` |
| `HandleOutput_Pty`: the id, then the write under that id | `CaptureId`, `WriteOutput` (coordinator); `HandleOutput`, `WriteLive` (dispatcher) |
| `HandleBlockingFlush` under the mutex; its live output after it | `HandleBlockingFlush`; `HandleOutput`, `WriteLive` |

A handler is as many actions as it has critical sections and writes, because
the others run in between; where two of them are one action, a comment in the
module says why nobody can tell. A connection id is compared and used in
different steps exactly where the code does so (`HandleSyncVisibility`,
`CaptureStatus`).

What holds:

- `NoGap`: a client whose PTY is LIVE or in the middle of a snapshot has, or is
  about to get, every chunk the terminal holds
  (`documentation/PtyProxy.LEGACY.md:343`, "zero stdout data loss across mode
  transitions"). `OnTheWay` names the places a chunk may be in. The property is
  claimed once the ends of earlier connections are handled (`Aligned`).
- `HiddenIsSilent`: between handlers a PTY that is not VISIBLE does not stream,
  though visibility and mode are set in different steps and mutexes.
- `NothingBeforeManifest`: syncs and snapshot orders of an old connection, in
  any of three queues, have no effect on the next one.
- `ExitAfterOutput`: a LIVE PTY is retired when its client has got everything.

What the documentation says and the code does not meet, each a run that TLC refutes:

- `ReplayBeforeLive` (`documentation/PtyProxy.LEGACY.md:27`): LIVE is set under
  the mutex, the buffered output emitted after it; a flush in between overtakes.
- `VisibleBecomesLive` (`documentation/WorkspaceController.LEGACY.md:271`): the
  reducer reads a visibility that an order still queued is about to change.
  Hide and show in quick succession leave a visible PTY in PRE_SNAPSHOT.
- `StatusBeforeOutput` (`documentation/WorkspaceController.LEGACY.md:84`): a spawn
  executed after its connection has been replaced streams to a client that was
  never told of the PTY.

## 6. The connection

**`WebsocketController`** models the HTTP handlers that ask for the connection,
one goroutine each, and the worker that owns it. A socket carries the name of the
request it was upgraded from.

| Code | Module |
|---|---|
| `HandleRequest_GetWebsocketConnection`: its critical section, `CloseWithCode` (capture, then close), the non-blocking submission, the select on cancellation and reply | `MarkTakeover`; `CaptureConnection`, `CloseConnection`; `Submit`; `GiveUp`, `ReceiveReply` |
| `RunWorker`: receive, drain; `Update`: status, upgrade with its reply, failure; `Attach` and its callback | `TakeLeading`, `RejectPreceding`; `Update`, `Upgrade`, `UpgradeFailed`; `Attach`, `OnConnected` |
| read loop: any error of a read, the socket being down or not; text frame | `ReadError`; `TextMessage` |
| `Teardown`: critical section, close, callback | `Teardown`; `CloseClosing`; `OnDisconnected` |
| the client closes its end or is lost | `PeerLost` |

`Upgrade` hijacks the TCP connection from its handler. When the handler has
returned, net/http panics, in the worker's goroutine, and the server ends
(`panicked`, no further step). Refused handshakes fail before that.

**`WebsocketFlow`** is what the rest may rely on: the status follows the flows
of `documentation/WebsocketController.LEGACY.md:60-72`, ids grow by one, and Connect and
Disconnect are announced in turn, each connection once. The mapping is the
identity on `status`, `id` and `announced`.

What holds:

- `PointerMatchesStatus`: the read loop dereferences the pointer without the mutex.
- `PendingIsEvicted`: a pending takeover always has a socket that is down or a
  request on its way to close it, for any interleaving of requests with the
  worker; `EvictionCompletes` adds that the connection then ends, if goroutines
  run. Nothing is assumed of peers: the server closes the socket itself.
- `LetGoOnlyBeforeCapture`: sockets are closed by handlers, worker and peers, and a
  takeover's Teardown closes none. A socket that is open is nevertheless always in
  somebody's hand (`Attended`), but for one step: the Teardown of a connection whose
  takeover is marked, while the request that marked it has yet to look for it.
- `ImplementsFlow`: the coordinator never hears of a connection before the end of
  the one before it.

Refuted:

- `OneSocketOpen` (`documentation/WebsocketController.LEGACY.md:50-51`, one session at
  a time, a second client evicts the first): when no request is in the middle of
  its takeover, at most one socket is open. The step that `LetGoOnlyBeforeCapture`
  names breaks it. A request marks the connection; the read loop leaves with the
  socket still open (read deadline, or a frame that breaks the protocol); Teardown
  sees PENDING and leaves the socket to the request; the request finds no
  connection that is CONNECTED, closes nothing, and is upgraded. The old client
  stays connected until it leaves or Go's finalizer closes the descriptor.
- `CanceledIsReleased` (`documentation/WebsocketController.LEGACY.md:10`, canceled
  requests are released cleanly): a canceled request stays queued; if it is the
  newest when the worker drains the queue, it is upgraded after its handler has
  returned.

The model shows one more behaviour that no document excludes: a request that finds
CONNECTING waits behind the connection being established without taking it over.

## 7. The workspace

**`Workspace`** is the composition in which PTYs are born, canceled, shown,
resized, typed into, exit and are removed, while connections come and go. The
queues between its goroutines are bounded and a send waits (`Send`) where the
code's does. Of a session it keeps what `PtySession` promises, of output nothing.

| Code | Module |
|---|---|
| connection worker: attach, its callback, mark of a takeover, end of the read loop, its callback | `Attach`, `HandleConnected`, `CloseForTakeover`, `Teardown`, `HandleDisconnected` |
| read loop: layout, spawn and removal messages to the reducer; terminate to the coordinator; input, captured under the pool's mutex, sent after it | `ReceiveResize`, `ReceiveSync`, `ReceiveSpawn`, `ReceiveRemove`; `ReceiveTerminate`; `ReceiveInput`, `EnqueueInput` |
| reducer: the resize batch, the debounce, sync, spawn and removal, each as its merge, its send and its submissions | `ReduceResize`, `HandleFlush_ResizeOnly`, `ReduceSync`, `ReduceOther`, `SendFlush`, `SubmitFlush` |
| resizer, writer | `RunResizer`, `SendEmitSnapshot`; `RunWriter` |
| `backgroundSpawn`; the exit order of a session | `SpawnReported`; `SessionEnds` |
| coordinator: receive, `Apply`, `Execute` by kind | `ReceiveLeading`, `DrainAndApply`, `Execute`, `Turn(kind)` |
| its handlers | `HandleExit` and `SetExited`, `HandleTerminate`, `HandleRemove`, `HandleSpawn`, `HandleFailure`, `HandleSuccess` (`CancelSpawned`, `Activate`) and `Announce`, `HandleDisconnect`, `HandleConnect`, `HandleSync`, `HandleEmitSnapshot` |

A message is numbered when it arrives; the number is the size its layout carries
and the input it types, so old and new can be told apart. **`LayoutUpdates`** holds
the two merges of layout updates, the reducer's and the resizer's.
**`PtyLifecycle`** is the life of one PTY: announced, one verdict, active, one exit,
removed; a cancellation while it spawns decides the verdict.

- `NoInvalidPath`: the handlers panic on a PTY in an unexpected state ("invalid
  path"), and orders of a group are executed by kind; no order of messages,
  verdicts and exits makes one of them panic.
- `NoOrphan`: a process is in the pool until its session has ended or is canceled.
- `WorkersFollowPty`: a failed, a canceled and a removed PTY each cancel the
  resizer, an exit the writer, none of them too early.
- `ClientKnowsPool`: after its manifest a client knows every PTY, although PTYs
  change state between two connections. The property names the one exception: a
  spawn asked for by an earlier connection and executed after the manifest.
- `InOrder`: four kinds of flush carry sizes, two merges combine them, a resizer's
  queue overflows; no PTY goes back to an older size, nor writes input twice.
- `RoomAgain`: nobody that the coordinator or the reducer waits for waits for them.
- `ImplementsLifecycle`: each PTY implements `PtyLifecycle`.

Behaviours the model shows and no document excludes:

- A SyncVisibility that a spawn overtakes in its group hides the new PTY, which
  the client could not have named.
- A resize received right after the sync that shows its PTY is dropped when the
  pool still says hidden; and a full resizer queue drops the newest size.
- A client that reconnects while a PTY spawns is sent no SUCCESS or FAILURE for
  it, because the order carries the id of the connection that asked.
- A PTY spawned after a Disconnect is VISIBLE without a client.

Documents call the ingress "strictly non-blocking"
(`documentation/WorkspaceController.LEGACY.md`), but the sends to the reducer and
the coordinator wait; `RoomAgain` is why that does no harm.

## 8. A request and its launch

**`PtyMessages`** is the codec as operators on sequences of bytes: a decoder is a
record of what is left, whether something was missing, and the last value. A
byte takes `BYTE` values, words are big-endian, lists carry a count. The loops over lists
are recursive functions of the index, which stop adding elements at the first error.

**`PtySpawn`** is `Spawn_PtyProxy`: program counter, descriptors held, child,
report pipe and reaper. It extends `PtyTeardown`, whose actions begin with
`Handover`; until then its variables do not change.

| Code | Module |
|---|---|
| `Prepare__Command_PtyProcess` | `Prepare__Command` |
| `Open_PtyDescriptor` | `OpenMaster`, `ConfigureMaster`, `OpenSlave` |
| `launchPtyExec__Command_PtyProcess`, `await__Report_PtyExec` | `OpenReportPipe`, `ForkExec`, `await__Report` |
| `Entry_PtyExec` (assembly) | `HelperChdir`, `HelperExecve` |
| the error paths of `Spawn_PtyProcess`, `reapAbandoned__PtyProcess_Pidfd` | `AbandonErrored`, `AbandonUnpollable`, `reapAbandoned` |
| the rest of `Spawn_PtyProxy` | `Watchable`, `Unwind`, `Handover` |

**`SpawnRequest`** composes the two: a payload, whole or cut anywhere or a byte too
long, is decoded; a spawn that decodes is launched, and its session runs to its end.
What a client may ask for is `WellFormed`: its lists and texts are shorter than
`UINT16`, its numbers fit their fields. Exit codes and signals fit an int32
(`NumbersAssumption`).

- `DecodedAsSent`: a payload is decoded as it was meant or refused; a truncated
  one never becomes half a list or zeros. The exception is input, which has no
  length of its own.
- `FramesReadable`: only an exited PTY's bulletin carries an outcome, so
  bulletins have different lengths; a client can still read a manifest and gets
  the outcome the session ended with.
- `FailedLaunchLeavesNothing`: whichever call fails, descriptors are closed, a
  child is killed and reaped, and never by two.
- `LaunchSettles`, `SessionEnds`: only a helper that hangs holds a launch up.

The model also shows that the end of the report pipe does not mean "the shell
has started", as a comment in the assembly says: a helper killed before its
execve looks the same, and becomes a session that ends at once. And
`reapAbandoned` panics when a debugger makes an abandoned child report a trap
(noted in `issues/pidfd-refactor-post-phase-3-followups.md`); the module leaves
such reports out.

## 9. Runs

| Run | Bounds | Shows |
|---|---|---|
| `teardown` | one spawn; exit codes 0 and 2, signal 9, all tracers, all letters, queue 3 (its real size); no bound on steps | of `SpawnRequest`: the eight invariants of section 3, `SignalsReachOwnProcess`, the refinement of `PtySession`, and `FramesReadable` of section 8 with every kind of outcome; about 388,000 states |
| `teardown_kill` | exit code 0, no signals, tracers NONE and FOREIGN, letter R | the refuted statement of section 3 |
| `data_plane` | queue 3, pool 5, 8 chunks | the four invariants, `ImplementsStream`, `EverythingFlushed` |
| `snapshot_sync` | 2 chunks, 2 connections, 2 syncs, resizer queue 1 | the invariants and action properties of section 5; about 1.8 million states |
| `snapshot_replay`, `snapshot_visible` | 2 chunks, 1 connection, 2 syncs, resizer queue 3 | the first two refuted statements of section 5 |
| `snapshot_status` | 1 chunk, 2 connections, 1 sync | the third |
| `websocket` | 3 requests, queue 1 | the three invariants, `LetGoOnlyBeforeCapture`, the refinement of `WebsocketFlow` and `EvictionCompletes` under `FairSpec`; about 68,000 states |
| `websocket_sockets`, `websocket_canceled` | as above | the two refuted statements of section 6 |
| `workspace` | 2 PTYs, queues of 2 (coordinator), 1 (reducer), 2 (resizer) and 1 (input), nine budgets of messages and reconnects | the invariants, `InOrder`, `RoomAgain` and `ImplementsLifecycle` of section 7; about 462,000 states |
| `spawn_request` | 12 requests, at least one of every kind, each cut at every length; a byte of 5 values; exit code 0, no signals, tracers NONE and FOREIGN, letter R | the properties of section 8 but `FramesReadable`, and `SessionEnds` of section 3; about 68,000 states |

The bounds are enough: the actor's behaviour depends on the number of orders
only through the full queue, which has its real size; exit codes only matter as
zero or not. In the data plane eight chunks go round the five buffers with the
queue full, the reader holding one and the dispatcher another. In
`PtySnapshotSync` a resizer queue of one overflows with two syncs; two
connections give every order a stale and a current sender; a chunk is lost or
kept whatever the other chunks do, so one before and one after a mode change
suffice. The same properties hold for three connections with two syncs and two
connections with three syncs (one chunk each, 6 and 7 million states).
`SessionEnds` is checked with the launch before it (`spawn_request`), and without
the values that only the outcome depends on. Everything else about a session is
checked of launched ones (`teardown`), which begin in more states than `Init` of
`PtyTeardown`: the process may have ended before anyone watches it. One spawn is
enough for them, because a session does not depend on its command. Three requests are one connected, one that takes over and one that interferes
with either; a queue of one is full, empty and drained with a submission behind
the leading one. The same properties hold for four requests and a queue of two
(3.3 million states). A request is made once, a client that tries again is
another request.

`Workspace` with all its messages at once is out of reach, so `MC_Workspace`
names nine budgets, each a question: cancellation against verdicts, removal
against exits, reconnects, input across an exit, and every pair of flushes of the
reducer with a reconnect, a removal or a second PTY. Queues of one or two are
full in every one of them, and a resizer's queue of two lets two orders merge. In `spawn_request` a byte has five values: what is
longer than a byte, a word or a string of it is then small; NUL and the slash are
among the five.

Deadlock checking is off in every run because a session that has ended has no
further step, and neither has a data plane whose stream was announced, a PTY
whose bounded number of chunks, connections and syncs is used up, a
connection worker whose requests have all been answered, a workspace whose
budget is spent, or a request that was refused.

Fairness. Every goroutine runs (weak fairness of each local step). A Go select
with several ready cases picks one at random, so a case that is ready again and
again is taken: strong fairness per case. A sender blocked on a full channel is
served before a later send, which makes `HandleReaderFinished` strongly fair. A
flush returns: every websocket write has a deadline
(`DeadlineTimeout_Write__`). A read of a closed master returns. Nothing is
assumed of the process, the kernel, debuggers, the user or the client. The
websocket's worker is one goroutine and has one fairness condition, each
handler one of its own; a read of a socket that is down returns, one of a socket
that is up may wait for ever; cancellations and text frames have no fairness. In `Workspace`
the coordinator and the reducer run, and the reducer's send is strongly fair for
the reason given for `HandleReaderFinished`; client, network, workers and
verdicts may stop. In `PtySpawn` the spawning goroutine and the reaper run, the
session's goroutines as in `PtyTeardown` once they have been started
(`SessionFairness` restates its `Fairness`, which is not a state predicate that
could be guarded); the helper may hang.

Every property of a passing run has a mutant in `PROJECT.json`: a definition of
the module changed as a plausible bug would change it (its variants
stand before the definition they change, marked "Wrong:"), under which TLC
finds the property violated.

## 10. Proofs

Eight modules hold theorems: the six `_proofs` of the system's parts,
`PtyMessages_proofs` and `Recursion`. For every value of the constants that
satisfies the named assumptions they prove every safety invariant the passing runs
check, the action properties `SignalsReachOwnProcess`, `NothingBeforeManifest`,
`ExitAfterOutput`, `LetGoOnlyBeforeCapture` and `InOrder`, and the four refinements. What the end of a
session guarantees is proved of `PtyTeardown`, whose sessions begin with a new
process, and its outcome, its panics and its refinement also of `SpawnRequest`,
whose sessions begin where a launch leaves its child.

**PtyTeardown.** Assumptions: a queue of three or more, exit codes with 0 among
them, sets of tracers and letters as in `PtyProcess`. The invariants are not
inductive: they speak of timers, queue and signals, and hold because of where
the other parties stand. `IInv` adds that
- `WorkerInv`: the published state, the worker's place, the pidfd and the
  kernel agree (Reaped exactly when the kernel has reaped; a closed channel
  exactly when the worker is done);
- `QueueInv`: what the queue can hold for each state of the coordinator, with
  ReaderStarted only at its head and ReaderFinished at most once (this is what
  makes a full queue contain a Terminate);
- `ReaderInv`: how the session's output ended is known before it is reported;
- `EscalationInv`: which timer runs and which signals were sent in each status;
- `ExitInv`: the exit order goes with the actor's exit.
`Invariant` proves `Spec => []IInv`, one lemma per action; the other theorems
follow from it, and `Refinement` maps every step to a step of `PtySession`.

**PtyDataPlane.** Assumptions: a queue of at least one, a pool of at least two
more. The invariant counts buffers (`CountInv`: pool, queue and the two hands
are all there are), says which hand holds one when (`HandsInv`) and that EXIT is
the last order (`ExitInv`). `PoolNeverBlocks` is then arithmetic: a queue and a
dispatcher's hand take at most pool - 1 buffers. The refinement needs
`StreamInv` (chunks are numbered consecutively from those flushed to those
pending) and shows for each action that `Pending` loses a prefix to `flushed`,
gains one chunk at its end, or stays.

**PtySnapshotSync.** Assumptions: a resizer queue of at least one
(`ResizerAssumption`) and positive bounds of chunks, connections and syncs
(`BoundAssumption`). `NoGap` is not inductive: it is true because what the
coordinator emits goes to the connection it compared. If that connection ends,
its Disconnect waits until the coordinator comes to it, and while it waits the
state is not aligned and nothing is claimed. `IInv` adds that
- `PlaceInv`, `OnceInv`, `HandlerInv`: dispatcher, state and mode agree; spawn,
  verdict and exit are ordered once, one after the other; and what the first
  step of a handler established is still so at its last;
- `SilentInv`: a hidden PTY that streams is about to be silenced;
- `EndInv`: offline, with no Disconnect left to handle, nothing is streamed or
  shown. So a new connection that is aligned at once starts from silence;
- `IdsInv`: a sync of the current connection answers its manifest, in each of
  the queues and hands between reducer and coordinator;
- `AlignedInv`: in an aligned state the coordinator works for the connection
  that got the manifest, and a chunk the client has not got is `Coming`. This is
  `OnTheWay` without a live flush under the id of an old connection, which is
  dropped: it is older than the snapshot that replaced it.
`CoveredStep` shows for each action where a chunk that was coming is afterwards.

**WebsocketController.** Assumptions: a queue of at least one, and `NONE` is no
request. Only the worker writes status and pointer, so `PlaceInv` reads both, and
the last announcement, off the place where it stands. `SocketInv` says
that the sockets in somebody's hand exist, and that the worker has one to close
only in the step in which it closes it. With these `PendingIsEvicted` is
inductive: the mark is set while CONNECTED, its handler goes on to capture and
close that connection, and only Teardown changes the status.
`LetGoBeforeCapture` goes by the actor: a handler lets go of a socket by closing it,
the worker likewise, or by handing it on to its next step; Teardown alone drops
one unclosed, if PENDING, and then by `PendingIsEvicted` the socket is down, in the
hand of a handler that has captured it, or marked by one that has not. Each action maps to one step of
`WebsocketFlow` or to none (`FlowStep`).

**Workspace.** Assumptions: at least one PTY (`PtysAssumption`), queues of at
least one (`QueuesAssumption`), and budgets that spawn no more PTYs than there
are (`BudgetsAssumption`). They are the only bounds: the result holds for any
number of PTYs, messages and connections. The invariants are not inductive,
because an order that waits may be about a PTY that has changed since. `Inv` adds
that
- `OrderInv`: an order waits in the queue or in the coordinator's group; a
  verdict and an exit say what their PTY is like (`Fits`), and no two of a kind
  are about the same PTY (`Apart`). So handling one leaves the others true, in
  whatever order a group executes, and no handler meets a state it panics on;
- `BirthInv`, `LifeInv`: ids are taken in order and what is not born is nowhere;
  what was said of a PTY fits its state and its session;
- `HandlerInv`: a handler of several steps finds its order where it left it;
- `ReducerInv`, `SizeInv`, `InputInv`: messages wait in the order of their
  numbers, and each size and input on its way to a PTY is at least as new as
  what the PTY has got, and older than what may still come.
One lemma per part says that a step keeps it. Three case distinctions are made
once and used by several parts: what a step does to the life of a PTY (`Lives`,
which also gives the refinement of `PtyLifecycle`), to its sizes (`Sizes`), and to
the orders that wait. The recursive merge in `DrainAndCoalesce` needs no induction:
if it failed somewhere there would be a first place.

**SpawnRequest.** `LaunchInvariant` says which descriptors are open, where the
child can be and whether there is a reaper for every value of the program counter;
a step of the launch moves from one line of it to the next, the child's steps stay
within one. It needs no assumption and gives `FailedLaunchLeavesNothing`.

A session begins at `Handover`, with a process that may already have exited, or
whose tracer withholds its report, so it does not begin in `Init` of
`PtyTeardown`. `SessionInvariant` proves that `UnbornInv` (before `Handover` the
session's variables are those of a session nobody has started) and the `IInv`
above always hold: `HandoverInv` shows that `IInv` is true where the launch leaves
off, every later step is one of `PtyTeardown` or leaves its variables alone. So
`OutcomeTruthful`, `NoPanic` and `ImplementsSession` hold of launched sessions too.

`DecodedAsSent` and `FramesReadable` are about bytes. Assumptions: a byte of five
values or more (`ByteAssumption`, room for the codes), requests that are
`WellFormed` (`RequestsAssumption`), exit codes and signals that fit an int32
(`NumbersAssumption`). Neither the kinds of requests, nor the lengths of their
texts and lists, nor the value of `BYTE` are bounded. The argument:
- a decoder `Reads` an encoding if, from a buffer that carries the encoding behind
  the cursor, it returns the value and stops behind it; from one that ends before
  the encoding does, it returns an error; and an error stays. One lemma per
  parameter (`Uint16Reads`, `String16Reads`, ...) says this of it, and `ReadsBoth`
  composes two that follow each other;
- a list is a loop. `Recursion` takes the loop's step as a constant operator and
  proves that its states exist (`Exists`), that the function the model writes has
  those states (`Defined`), and induction up to its length (`Induct`), from the
  library's fact that the order of the naturals is well-founded. It is instantiated
  once for each kind of element, because an operator cannot be a parameter of a
  theorem here. `LoopDecodes` and `SliceReads` are then the argument for all lists;
  `PutAll` is the one for the map a layout becomes, in which the last of
  equal ids stays;
- `RequestDecodes` puts the fields of each kind of message together: a whole
  payload gives the request, one that is cut or too long gives `Dropped`, except
  that input takes what there is. `ArrivedInv` remembers what the payload was made
  from, and `MessagesDecodedAsSent` follows;
- frames are read by a client that decides by the status whether an outcome
  follows. `BulletinReads` shows it stops at the right place for both lengths,
  `ManifestReadable` and `ExitReadable` state it for whole frames of any number of
  bulletins, and `OutcomesFit` that every outcome a session can end with is one the
  encoding tells apart, by the type of the exit orders in `IInv` (`ExitOutcomes`):
  only a failure has an exit code, only a death by a signal has a signal.

Only model-checked: liveness (`SessionEnds`, `EverythingFlushed`,
`EvictionCompletes`, `RoomAgain`, `LaunchSettles`), which is out of this prover's
reach, and the refuted statements.

## 11. Limits

Not modelled:

- The shutdown of the server: contexts canceled from `main`, and background
  senders that wait on the coordinator's queue without a context afterwards.
- Durations, and with them how long a session takes to end, how many frames are
  sent per second, and every deadline (what a deadline bounds may happen at any
  moment, or is fair).
- The contents of terminals and snapshots (libghostty is external), formatting,
  logging, and the option values and ioctl arguments the server only passes on.
  A resize that fails is ignored by the code and by the model.
- The ping worker and `EgressMutex` of the websocket, which a write holds for at
  most its deadline, and the kind of error a failed upgrade replies with.
- `main` beyond its wiring of the HTTP handlers, the tests, the container.

Approximations:

- `PtySnapshotSync` follows one PTY, whose spawn neither fails nor is canceled
  and which is not removed; `Workspace` has all of these and no output. Left out
  of the former: resize-only batches and sizes, the TASK_COMPLETE and PTY_EXIT
  frames, the bound of the coordinator's queue, failing writes on a connection
  that still is the current one. The exit order is sent by `ReaderFinished`
  directly; that the actor in between neither loses nor reorders it is what
  `PtyTeardown` shows (`ExitAfterFlush`). A client names a PTY only if it was
  told of it, in both modules.
- `Workspace` has two PTYs in one life of the server (`MaxPtys`), and a spawn is
  not executed once they are used up. Its input queue has room for one; the
  unbuffered variant of that option is not modelled.
- `PtyDataPlane` has chunks for bytes and three kinds of read errors. A read that
  returns bytes and an error at once is excluded: Go's `os.File` returns one or
  the other.
- A client sends well-formed messages, which the network may cut or lengthen; other
  bytes arrive only as an unknown code. What a client does with
  a frame is a reader written from the encoder (external). The signal that stopped
  a process is left out of its outcome, which records only that it was stopped.
- The kernel part of `PtyProcess`, and the child in `PtySpawn`, are environments
  written from how the code uses waitid, ppoll, ptrace, `/proc`, fork and execve,
  and from the contract tests in `tests/contract`. Trap reports of an abandoned
  child are left out (section 8).
- The helper in `PtySpawn` fails, hangs or is killed at its chdir and its execve. Its
  other steps do not fail: a report of one of them is an invalid path of
  `resolve__PathError_PtyExec`, which the repository takes for unreachable.

What could come next: a model of the shutdown, and liveness of the layout path (a
sync that is not overtaken ends in LIVE) under a fair coordinator.
