--------------------------- MODULE Workspace_proofs ---------------------------
(***************************************************************************)
(* Proofs about Workspace: for any number of PTYs, queues of any capacity  *)
(* and any number of messages and connections, no handler takes an invalid *)
(* path, no process is orphaned, workers end with their PTY, the client    *)
(* knows its pool, sizes and input stay in order, and each PTY lives the   *)
(* life of PtyLifecycle.                                                   *)
(*                                                                         *)
(* The argument: orders wait in two places, the queue and the coordinator's*)
(* group. Each verdict and each exit that waits says what its PTY is like, *)
(* and no two of a kind are about the same PTY (OrderInv), so handling one *)
(* leaves what the others say true. Numbers of messages bound every size   *)
(* and input on its way (ReducerInv, SizeInv, InputInv).                   *)
(***************************************************************************)
EXTENDS Workspace, SequenceTheorems, WellFoundedInduction, TLAPS

(* n is older than every message the reducer still has to take.             *)
Settled(n) == n <= number /\ \A i \in DOMAIN reducerQueue : n < reducerQueue[i].number

(* n is no older than the size of p and than those its resizer will set.    *)
Reaches(p, n) == size[p] <= n /\ \A i \in DOMAIN resizerQueue[p] : resizerQueue[p][i].size <= n

(* PTYs are born in the order of their ids; what is not born is nowhere.    *)
BirthInv ==
  /\ idNext <= MaxPtys /\ known <= idNext
  /\ started \cap {p \in Ptys : state[p] = "Spawning"} = {}
  /\ \A p \in Ptys :
       /\ state[p] = "Unborn" <=> p >= idNext
       /\ state[p] = "Unborn" =>
            /\ ~canceled[p] /\ frames[p] = <<>> /\ session[p] = "none" /\ canceledWorkers[p] = {}
            /\ resizerQueue[p] = <<>> /\ tentative[p] = 0 /\ reducer.submission[p] = Resize(0, 0)
            /\ size[p] = 0
            /\ p \notin told /\ p \notin started
            /\ \A i \in DOMAIN reducerQueue : p \notin reducerQueue[i].layout

(* What has been said of a PTY fits its state and its session.              *)
LifeInv ==
  \A p \in Ptys :
    /\ state[p] = "Spawning" => frames[p] = <<"SPAWNING">>
    /\ state[p] = "Active" =>
         /\ session[p] \in {"quiescent", "streaming", "ended"}
         /\ frames[p] = IF session[p] = "quiescent" THEN <<"SPAWNING">> ELSE <<"SPAWNING", "SUCCESS">>

(* What a waiting order says of its PTY, and of the message it comes from.  *)
Fits(o) ==
  /\ o.kind = "SpawnPty" => o.id <= connection /\ Settled(o.number)
  /\ o.kind = "ExitPty" =>
       \E p \in Ptys : o.ptys = {p} /\ state[p] = "Active" /\ session[p] = "ended"
  /\ o.kind = "Status_SpawnPty" =>
       \E p \in Ptys : /\ o.ptys = {p} /\ state[p] = "Spawning"
                       /\ session[p] = IF o.success THEN "quiescent" ELSE "none"

(* No PTY has two exits or two verdicts.                                    *)
Apart(o, q) ==
  o.kind = q.kind /\ o.kind \in {"ExitPty", "Status_SpawnPty"} => o.ptys \cap q.ptys = {}

(* The verdict in the middle of being handled: its PTY is Active already.   *)
Announced(kind, i) == handler = "Announce" /\ kind = "Status_SpawnPty" /\ i = 1

(* Of the orders that wait.                                                 *)
OrderInv ==
  /\ \A i \in DOMAIN queue : Fits(queue[i])
  /\ \A k \in Kinds : \A i \in DOMAIN group[k] :
       group[k][i].kind = k /\ (Announced(k, i) \/ Fits(group[k][i]))
  /\ \A i, j \in DOMAIN queue : i # j => Apart(queue[i], queue[j])
  /\ \A k \in Kinds : \A i, j \in DOMAIN group[k] : i # j => Apart(group[k][i], group[k][j])
  /\ \A k \in Kinds : \A i \in DOMAIN queue, j \in DOMAIN group[k] : Apart(queue[i], group[k][j])

(* What the first half of a handler leaves to the second.                   *)
HandlerInv ==
  /\ handler = "SetExited" =>
       /\ group.ExitPty # <<>>
       /\ \A p \in Head(group.ExitPty).ptys : "writer" \in canceledWorkers[p]
  /\ handler = "Announce" =>
       /\ group.Status_SpawnPty # <<>>
       /\ \E p \in Ptys : /\ Head(group.Status_SpawnPty).ptys = {p}
                          /\ state[p] = "Active" /\ session[p] = "quiescent"

(* Messages wait in order, and what the reducer is sending is older.        *)
ReducerInv ==
  /\ \A i \in DOMAIN reducerQueue :
       reducerQueue[i].id <= connection /\ reducerQueue[i].number <= number
  /\ \A i, j \in DOMAIN reducerQueue : i < j => reducerQueue[i].number < reducerQueue[j].number
  /\ reducer.message.id <= connection /\ Settled(reducer.message.number)
  /\ reducer.at # "Select" => reducer.message.kind \in {"SyncPty", "SpawnPty", "RemovePty"}
  /\ reducer.at # "Select" /\ reducer.message.kind = "SyncPty" => tentative = NoUpdates
  /\ reducer.at = "Select" \/ reducer.message.kind # "SyncPty" => reducer.submission = NoOrders

(* Each size on its way to a PTY is no older than those further along.      *)
SizeInv ==
  \A p \in Ptys :
    /\ Settled(size[p]) /\ Settled(tentative[p]) /\ Settled(reducer.submission[p].size)
    /\ \A i \in DOMAIN resizerQueue[p] :
         size[p] <= resizerQueue[p][i].size /\ Settled(resizerQueue[p][i].size)
    /\ tentative[p] # 0 => Reaches(p, tentative[p])
    /\ reducer.submission[p] # Resize(0, 0) => Reaches(p, reducer.submission[p].size)

(* The same of input.                                                       *)
InputInv ==
  /\ \A p \in Ptys :
       /\ written[p] <= number
       /\ \A i \in DOMAIN inputs[p] : written[p] < inputs[p][i] /\ inputs[p][i] <= number
       /\ \A i, j \in DOMAIN inputs[p] : i < j => inputs[p][i] < inputs[p][j]
  /\ typing # NobodyTypes =>
       /\ typing.number = number
       /\ written[typing.pty] < number
       /\ \A i \in DOMAIN inputs[typing.pty] : inputs[typing.pty][i] < number

Inv ==
  /\ TypeOK /\ NoInvalidPath /\ NoOrphan /\ WorkersFollowPty /\ ClientKnowsPool
  /\ BirthInv /\ LifeInv /\ OrderInv /\ HandlerInv /\ ReducerInv /\ SizeInv /\ InputInv

-----------------------------------------------------------------------------
(* Lemmas about sequences.                                                 *)

(* What a receive leaves.                                                   *)
LEMMA TailFacts ==
  ASSUME NEW S, NEW s \in Seq(S), s # <<>>
  PROVE  /\ Len(s) \in Nat /\ Len(s) >= 1
         /\ Head(s) = s[1] /\ Head(s) \in S
         /\ Tail(s) \in Seq(S) /\ Len(Tail(s)) = Len(s) - 1
         /\ \A i \in 1 .. Len(s) - 1 : Tail(s)[i] = s[i + 1]
  OBVIOUS

(* What a send adds.                                                        *)
LEMMA AppendFacts ==
  ASSUME NEW S, NEW s \in Seq(S), NEW e \in S
  PROVE  /\ Len(s) \in Nat
         /\ Append(s, e) \in Seq(S) /\ Len(Append(s, e)) = Len(s) + 1
         /\ \A i \in 1 .. Len(s) : Append(s, e)[i] = s[i]
         /\ Append(s, e)[Len(s) + 1] = e
  OBVIOUS

(* Appending to a sequence of one makes a pair.                             *)
LEMMA AppendPair ==
  ASSUME NEW S, NEW a \in S, NEW b \in S
  PROVE  Append(<<a>>, b) = <<a, b>>
  <1>1. <<a>> \in Seq(S) /\ <<a, b>> \in Seq(S)
    OBVIOUS
  <1>2. /\ Append(<<a>>, b) \in Seq(S) /\ Len(Append(<<a>>, b)) = 2
        /\ Append(<<a>>, b)[1] = a /\ Append(<<a>>, b)[2] = b
    BY <1>1
  <1>3. Len(<<a, b>>) = 2 /\ <<a, b>>[1] = a /\ <<a, b>>[2] = b
    OBVIOUS
  <1>4. \A i \in 1 .. 2 : i = 1 \/ i = 2
    OBVIOUS
  <1> QED
    BY <1>1, <1>2, <1>3, <1>4, SeqEqual

(* A set of numbers has a least one.                                        *)
LEMMA Least ==
  ASSUME NEW T \in SUBSET Nat, T # {}
  PROVE  \E x \in T : \A y \in T : ~(y < x)
  <1>1. \E x \in T : \A y \in T : ~(<<y, x>> \in OpToRel(<, Nat))
    BY WFMin, NatLessThanWellFounded
  <1> QED
    BY <1>1, Zenon DEF OpToRel

ResizeOrders == [size : Nat, snapshot : Nat]

(* The coalesced order of each prefix, as DrainAndCoalesce computes it.     *)
Coalesces(f, orders, n) ==
  f = [i \in 1 .. n |-> IF i = 1 THEN orders[1] ELSE coalescePair(f[i - 1], orders[i])]

(* The recursive function of DrainAndCoalesce exists: there is no first     *)
(* place at which it could not be continued.                                *)
LEMMA CoalesceExists ==
  ASSUME NEW orders \in Seq(ResizeOrders), orders # <<>>
  PROVE  \E f : Coalesces(f, orders, Len(orders)) /\ f \in [1 .. Len(orders) -> ResizeOrders]
  <1> DEFINE Step(f, i) == IF i = 1 THEN orders[1] ELSE coalescePair(f[i - 1], orders[i])
             Good(n) == \E f \in [1 .. n -> ResizeOrders] : \A i \in 1 .. n : f[i] = Step(f, i)
             T == {n \in 1 .. Len(orders) : ~Good(n)}
  <1>1. SUFFICES Good(Len(orders))
    BY DEF Coalesces
  <1>2. SUFFICES ASSUME T # {} PROVE FALSE
    <2>1. Len(orders) \in 1 .. Len(orders)
      OBVIOUS
    <2> QED
      BY <2>1
  <1>3. PICK n \in T : \A y \in T : ~(y < n)
    <2>1. T \in SUBSET Nat
      OBVIOUS
    <2> HIDE DEF T
    <2> QED
      BY <2>1, <1>2, Least
  <1>4. n # 1
    <2> SUFFICES ASSUME n = 1 PROVE FALSE
      OBVIOUS
    <2> DEFINE f == [i \in 1 .. 1 |-> orders[1]]
    <2>1. f \in [1 .. 1 -> ResizeOrders]
      OBVIOUS
    <2>2. \A i \in 1 .. 1 : i = 1 /\ f[i] = orders[1]
      OBVIOUS
    <2> HIDE DEF f
    <2>3. \A i \in 1 .. 1 : f[i] = Step(f, i)
      BY <2>2
    <2> QED
      BY <2>1, <2>3
  <1>5. Good(n - 1)
    <2>1. n - 1 \in 1 .. Len(orders)
      BY <1>4
    <2>2. n - 1 \notin T
      BY <1>3
    <2> QED
      BY <2>1, <2>2
  <1>6. PICK f \in [1 .. n - 1 -> ResizeOrders] : \A i \in 1 .. n - 1 : f[i] = Step(f, i)
    BY <1>5
  <1> DEFINE g == [i \in 1 .. n |-> IF i = n THEN coalescePair(f[n - 1], orders[n]) ELSE f[i]]
  <1>7. g \in [1 .. n -> ResizeOrders]
    <2>1. orders[n] \in ResizeOrders /\ f[n - 1] \in ResizeOrders
      BY <1>4
    <2>2. coalescePair(f[n - 1], orders[n]) \in ResizeOrders
      BY <2>1 DEF ResizeOrders, coalescePair, Resize
    <2> QED
      BY <2>2
  <1>8. \A i \in 1 .. n : g[i] = Step(g, i)
    BY <1>6, <1>4
  <1> QED
    BY <1>7, <1>8

(* What the resizer applies is the newest size.                             *)
LEMMA DrainFacts ==
  ASSUME NEW orders \in Seq(ResizeOrders), orders # <<>>
  PROVE  /\ DrainAndCoalesce(orders) \in ResizeOrders
         /\ DrainAndCoalesce(orders).size = orders[Len(orders)].size
  <1> DEFINE upTo == CHOOSE f : Coalesces(f, orders, Len(orders))
  <1>1. Coalesces(upTo, orders, Len(orders))
    BY CoalesceExists
  <1>2. DrainAndCoalesce(orders) = upTo[Len(orders)]
    BY DEF DrainAndCoalesce, Coalesces
  <1> HIDE DEF upTo
  <1>3. \A i \in 1 .. Len(orders) : upTo[i] \in ResizeOrders
    <2> DEFINE T == {i \in 1 .. Len(orders) : upTo[i] \notin ResizeOrders}
    <2> SUFFICES ASSUME T # {} PROVE FALSE
      OBVIOUS
    <2>1. PICK n \in T : \A y \in T : ~(y < n)
      <3>1. T \in SUBSET Nat
        OBVIOUS
      <3> HIDE DEF T
      <3> QED
        BY <3>1, Least
    <2>2. upTo[n] = IF n = 1 THEN orders[1] ELSE coalescePair(upTo[n - 1], orders[n])
      BY <1>1 DEF Coalesces
    <2>3. orders[n] \in ResizeOrders
      OBVIOUS
    <2>4. n # 1 => upTo[n - 1] \in ResizeOrders
      <3>1. SUFFICES ASSUME n # 1, n - 1 \in T PROVE FALSE
        OBVIOUS
      <3>2. n - 1 < n
        OBVIOUS
      <3> HIDE DEF T
      <3> QED
        BY <2>1, <3>1, <3>2
    <2> QED
      BY <2>2, <2>3, <2>4 DEF ResizeOrders, coalescePair, Resize
  <1>4. Len(orders) \in 1 .. Len(orders)
    OBVIOUS
  <1>5. upTo[Len(orders)].size = orders[Len(orders)].size
    BY <1>1, <1>4 DEF Coalesces, coalescePair, Resize
  <1> QED
    BY <1>2, <1>3, <1>4, <1>5

-----------------------------------------------------------------------------
(* What each process leaves alone.                                         *)

(* What the connection's worker and the read loop leave alone.              *)
LEMMA ReaderFrame ==
  Reader => UNCHANGED <<reducer, tentative, timer, coordinatorVars, ptyVars, session,
                        resizerVars, written, canceledWorkers>>
  BY DEF Reader, Attach, HandleConnected, CloseForTakeover, Teardown, HandleDisconnected,
         ReceiveSpawn, ReceiveResize, ReceiveSync, ReceiveRemove, ToReducer, ReceiveTerminate,
         ReceiveInput, EnqueueInput, Receiving, connectionUnchanged, reducerVars,
         coordinatorVars, ptyVars, resizerVars, writerVars

(* What the reducer leaves alone.                                           *)
LEMMA ReducerFrame ==
  Reducer => UNCHANGED <<clientVars, coordinatorVars, ptyVars, session, snapshot, size,
                         writerVars, canceledWorkers, panicked>>
  BY DEF Reducer, ReduceResize, HandleFlush_ResizeOnly, ReduceSync, ReduceOther, SendFlush,
         SubmitFlush, reducerUnchanged

(* What resizers, writers and the goroutines of a session leave alone.      *)
LEMMA WorkersFrame ==
  Workers => UNCHANGED <<clientVars, reducerVars, coordinatorVars, ptyVars, canceledWorkers,
                         panicked>>
  BY DEF Workers, RunResizer, SendEmitSnapshot, RunWriter, SpawnReported, SessionEnds,
         workerUnchanged, reducerVars

(* What the coordinator leaves alone.                                       *)
LEMMA CoordinatorFrame ==
  Coordinator => UNCHANGED <<websocket, connection, budget, number, typing, reducerVars,
                             resizerQueue, snapshot, writerVars>>
  BY DEF Coordinator, ReceiveLeading, DrainAndApply, Execute, Group, HandleExit, SetExited,
         HandleTerminate, HandleRemove, HandleSpawn, HandleFailure, HandleSuccess, Announce,
         HandleDisconnect, HandleConnect, HandleSync, HandleEmitSnapshot, Panic,
         coordinatorUnchanged

-----------------------------------------------------------------------------
(* Type correctness, in the parts the processes share.                     *)

WebsocketTypeOK ==
  websocket \in {"attached", "reading", "closing", "torn down", "offline"}

ClientTypeOK ==
  /\ connection \in Nat /\ number \in Nat
  /\ budget \in [Limited -> Nat]
  /\ told \subseteq Ptys /\ started \subseteq Ptys
  /\ typing \in [pty : Ptys, number : Nat]

ReducerTypeOK ==
  /\ reducerQueue \in Seq(Messages) /\ Len(reducerQueue) <= SIZE_QUEUE_REDUCER
  /\ reducer \in [at : {"Select", "Send", "Submit"}, message : Messages,
                  submission : [Ptys -> [size : Nat, snapshot : Nat]]]
  /\ tentative \in [Ptys -> Nat] /\ timer \in BOOLEAN

KnownTypeOK == known \in Nat \cup {-1}

QueueTypeOK == queue \in Seq(Orders) /\ Len(queue) <= SIZE_QUEUE

CoordinatorTypeOK ==
  /\ group \in [Kinds -> Seq(Orders)]
  /\ handler \in {"Select", "Drain", "Announce", "SetExited"}
  /\ idNext \in Nat

PtyTypeOK ==
  /\ state \in [Ptys -> {"Unborn", "Spawning", "Active", "Exited", "Gone"}]
  /\ canceled \in [Ptys -> BOOLEAN]
  /\ visibility \in [Ptys -> {"DISCONNECTED_UNKNOWN", "VISIBLE", "NOT_VISIBLE"}]
  /\ asked \in [Ptys -> Nat]
  /\ canceledWorkers \in [Ptys -> SUBSET {"resizer", "writer"}]
  /\ frames \in [Ptys -> Seq({"SPAWNING", "SUCCESS", "FAILURE", "CANCELED", "EXIT"})]

WorkerTypeOK ==
  /\ session \in [Ptys -> {"none", "spawning", "quiescent", "streaming", "canceled", "ended"}]
  /\ resizerQueue \in [Ptys -> Seq([size : Nat, snapshot : Nat])]
  /\ \A p \in Ptys : Len(resizerQueue[p]) <= SIZE_QUEUE_RESIZER
  /\ snapshot \in [Ptys -> Nat] /\ size \in [Ptys -> Nat]

InputTypeOK ==
  /\ inputs \in [Ptys -> Seq(Nat)] /\ written \in [Ptys -> Nat]
  /\ \A p \in Ptys : Len(inputs[p]) <= SIZE_QUEUE_INPUT

(* The type invariant, one part for each group of variables.                *)
LEMMA TypeParts ==
  TypeOK <=> /\ WebsocketTypeOK /\ ClientTypeOK /\ KnownTypeOK /\ ReducerTypeOK
             /\ QueueTypeOK /\ CoordinatorTypeOK /\ PtyTypeOK /\ WorkerTypeOK
             /\ InputTypeOK /\ panicked \in BOOLEAN
  BY DEF TypeOK, WebsocketTypeOK, ClientTypeOK, KnownTypeOK, ReducerTypeOK, QueueTypeOK,
         CoordinatorTypeOK, PtyTypeOK, WorkerTypeOK, InputTypeOK

(* The ids of PTYs are the numbers below MaxPtys, and there is one.         *)
LEMMA PtysFacts == Ptys \subseteq Nat /\ 0 \in Ptys /\ \A n \in Nat : n < MaxPtys => n \in Ptys
  BY PtysAssumption DEF Ptys

(* An order made of typed parts is an order, and has these parts.           *)
LEMMA OrderType ==
  ASSUME NEW kind \in Kinds, NEW id \in Nat, NEW ptys \in SUBSET Ptys, NEW n \in Nat,
         NEW success \in BOOLEAN
  PROVE  /\ Order(kind, id, ptys, n, success) \in Orders
         /\ Order(kind, id, ptys, n, success).kind = kind
         /\ Order(kind, id, ptys, n, success).id = id
         /\ Order(kind, id, ptys, n, success).ptys = ptys
         /\ Order(kind, id, ptys, n, success).number = n
         /\ Order(kind, id, ptys, n, success).success = success
  BY DEF Order, Orders

(* A send to the coordinator keeps the type and the capacity of its queue.  *)
LEMMA SendType ==
  ASSUME QueueTypeOK, NEW o \in Orders, Send(o)
  PROVE  QueueTypeOK'
  <1>1. Len(Append(queue, o)) = Len(queue) + 1 /\ Append(queue, o) \in Seq(Orders)
    BY AppendFacts DEF QueueTypeOK
  <1> QED
    BY <1>1, QueuesAssumption DEF QueueTypeOK, Send

(* The initial state is well typed.                                         *)
LEMMA InitType == Init => TypeOK
  <1> SUFFICES ASSUME Init PROVE TypeOK
    OBVIOUS
  <1> USE PtysFacts DEF Init
  <1>1. WebsocketTypeOK /\ ClientTypeOK
    <2>1. budget \in [Limited -> Nat]
      BY BudgetsAssumption
    <2> QED
      BY <2>1 DEF WebsocketTypeOK, ClientTypeOK, NobodyTypes
  <1>2. ReducerTypeOK
    <2>1. Message("SyncPty", 0, {}, {}, 0) \in Messages
      BY DEF Message, Messages, MessageKinds
    <2>2. NoOrders \in [Ptys -> [size : Nat, snapshot : Nat]]
      BY DEF NoOrders, Resize
    <2> QED
      BY <2>1, <2>2, QueuesAssumption DEF ReducerTypeOK, IdleReducer, NoUpdates
  <1>3. KnownTypeOK /\ QueueTypeOK /\ CoordinatorTypeOK
    BY QueuesAssumption DEF KnownTypeOK, QueueTypeOK, CoordinatorTypeOK, EmptyGroup
  <1>4. PtyTypeOK /\ WorkerTypeOK /\ InputTypeOK
    BY QueuesAssumption DEF PtyTypeOK, WorkerTypeOK, InputTypeOK
  <1> QED
    BY <1>1, <1>2, <1>3, <1>4, TypeParts

(* A message that is paid for leaves a budget.                              *)
LEMMA SpendType ==
  ASSUME NEW kinds, budget \in [Limited -> Nat], Spending(kinds)
  PROVE  budget' \in [Limited -> Nat]
  <1>1. \A k \in Limited : k \in kinds => budget[k] - 1 \in Nat
    BY DEF Spending
  <1> QED
    BY <1>1 DEF Spending

(* The order a handler is at.                                               *)
LEMMA HeadType ==
  ASSUME CoordinatorTypeOK, NEW k \in Kinds, group[k] # <<>>
  PROVE  /\ Head(group[k]) \in Orders /\ Head(group[k]).ptys \subseteq Ptys
         /\ Head(group[k]).id \in Nat /\ Head(group[k]).number \in Nat
         /\ Head(group[k]).success \in BOOLEAN
  <1>1. Head(group[k]) \in Orders
    <2>1. group[k] \in Seq(Orders)
      BY DEF CoordinatorTypeOK
    <2> QED
      BY <2>1, TailFacts
  <1> QED
    BY <1>1 DEF Orders

(* Three handlers tell the client something.                                *)
LEMMA CoordinatorTells ==
  Coordinator => HandleSpawn \/ Announce \/ HandleConnect \/ UNCHANGED <<told, started, known>>
  BY DEF Coordinator, ReceiveLeading, DrainAndApply, Execute, Group, HandleExit,
         SetExited, HandleTerminate, HandleRemove, HandleFailure, HandleSuccess,
         HandleDisconnect, HandleSync, HandleEmitSnapshot, Panic

(* A step keeps the types of what connection, client and read loop hold.    *)
LEMMA ClientType ==
  ASSUME TypeOK, HandlerInv, Next
  PROVE  ClientTypeOK'
  <1>0. ClientTypeOK /\ CoordinatorTypeOK /\ PtyTypeOK
    BY TypeParts
  <1> USE <1>0, PtysFacts DEF ClientTypeOK
  <1>1. CASE Reader
    <2>2. CASE Attach           BY <2>2 DEF Attach, connectionUnchanged
    <2>3. CASE HandleConnected  BY <2>3 DEF HandleConnected
    <2>4. CASE CloseForTakeover BY <2>4 DEF CloseForTakeover
    <2>5. CASE Teardown         BY <2>5, SpendType DEF Teardown, Spend
    <2>6. CASE HandleDisconnected BY <2>6 DEF HandleDisconnected
    <2>7. CASE ReceiveSpawn \/ ReceiveResize \/ ReceiveSync \/ ReceiveRemove
      <3>1. PICK kind, ptys, layout : ToReducer(kind, ptys, layout)
        BY <2>7 DEF ReceiveSpawn, ReceiveResize, ReceiveSync, ReceiveRemove
      <3>2. budget' \in [Limited -> Nat]
        BY <3>1, SpendType DEF ToReducer
      <3>3. number' = number + 1 /\ UNCHANGED <<websocket, connection, told, started, known, typing>>
        BY <3>1 DEF ToReducer, Receiving
      <3> QED
        BY <3>2, <3>3
    <2>8. CASE ReceiveTerminate BY <2>8, SpendType DEF ReceiveTerminate, Receiving, Spend
    <2>9. CASE ReceiveInput
      <3>1. budget' \in [Limited -> Nat]
        BY <2>9, SpendType DEF ReceiveInput, Spend
      <3>2. PICK p \in started :
              typing' = IF state[p] = "Active" THEN [pty |-> p, number |-> number'] ELSE NobodyTypes
        BY <2>9 DEF ReceiveInput
      <3>3. number' = number + 1 /\ UNCHANGED <<websocket, connection, told, started, known>>
        BY <2>9 DEF ReceiveInput, Receiving
      <3>4. typing' \in [pty : Ptys, number : Nat]
        BY <3>2, <3>3 DEF NobodyTypes
      <3> QED
        BY <3>1, <3>3, <3>4
    <2>10. CASE EnqueueInput    BY <2>10 DEF EnqueueInput, NobodyTypes
    <2> QED
      BY <1>1, <2>2, <2>3, <2>4, <2>5, <2>6, <2>7, <2>8, <2>9, <2>10 DEF Reader
  <1>2. CASE Reducer \/ Workers
    BY <1>2, ReducerFrame, WorkersFrame DEF clientVars
  <1>3. CASE Coordinator
    <2>1. told' \subseteq Ptys /\ started' \subseteq Ptys
      <3>1. CASE HandleSpawn BY <3>1 DEF HandleSpawn, CoordinatorTypeOK
      <3>2. CASE Announce
        <4>1. group["Status_SpawnPty"] # <<>> => Head(group["Status_SpawnPty"]).ptys \subseteq Ptys
          BY HeadType DEF Kinds
        <4>2. PICK p \in Head(group.Status_SpawnPty).ptys : started' = started \/ started' = started \cup {p}
          BY <3>2 DEF Announce
        <4> QED
          BY <3>2, <4>1, <4>2 DEF Announce, HandlerInv
      <3>3. CASE HandleConnect BY <3>3 DEF HandleConnect, Pool, CoordinatorTypeOK
      <3>4. CASE ~(HandleSpawn \/ Announce \/ HandleConnect)
        BY <1>3, <3>4, CoordinatorTells
      <3> QED
        BY <3>1, <3>2, <3>3, <3>4
    <2> QED
      BY <2>1, <1>3, CoordinatorFrame
  <1> QED
    BY <1>1, <1>2, <1>3 DEF Next

(* A step keeps the type of the websocket's state.                          *)
LEMMA WebsocketType ==
  ASSUME TypeOK, Next
  PROVE  WebsocketTypeOK'
  <1>0. WebsocketTypeOK
    BY TypeParts
  <1>1. CASE Reader
    BY <1>0, <1>1 DEF WebsocketTypeOK, Reader, Attach, HandleConnected, CloseForTakeover, Teardown,
         HandleDisconnected, ReceiveSpawn, ReceiveResize, ReceiveSync, ReceiveRemove, ToReducer,
         ReceiveTerminate, ReceiveInput, EnqueueInput, Receiving
  <1>2. CASE Reducer \/ Workers \/ Coordinator
    BY <1>0, <1>2, ReducerFrame, WorkersFrame, CoordinatorFrame DEF WebsocketTypeOK, clientVars
  <1> QED
    BY <1>1, <1>2 DEF Next

(* A step keeps the types of what the client has been told.                 *)
LEMMA KnownType ==
  ASSUME TypeOK, Next
  PROVE  KnownTypeOK'
  <1> USE DEF KnownTypeOK
  <1>0. KnownTypeOK /\ CoordinatorTypeOK
    BY TypeParts
  <1>1. CASE Reader
    <2>1. known' \in {known, -1}
      BY <1>1 DEF Reader, Attach, HandleConnected, CloseForTakeover, Teardown,
           HandleDisconnected, ReceiveSpawn, ReceiveResize, ReceiveSync, ReceiveRemove, ToReducer,
           ReceiveTerminate, ReceiveInput, EnqueueInput, Receiving
    <2> QED
      BY <1>0, <2>1
  <1>2. CASE Reducer \/ Workers
    BY <1>0, <1>2, ReducerFrame, WorkersFrame DEF clientVars
  <1>3. CASE Coordinator
    <2>1. known' \in {known, idNext}
      BY <1>3, CoordinatorTells DEF HandleSpawn, Announce, HandleConnect
    <2> QED
      BY <1>0, <2>1 DEF CoordinatorTypeOK
  <1> QED
    BY <1>1, <1>2, <1>3 DEF Next

(* A message made of typed parts is a message, and has these parts.         *)
LEMMA MessageType ==
  ASSUME NEW kind \in MessageKinds, NEW id \in Nat, NEW ptys \in SUBSET Ptys,
         NEW layout \in SUBSET Ptys, NEW n \in Nat
  PROVE  /\ Message(kind, id, ptys, layout, n) \in Messages
         /\ Message(kind, id, ptys, layout, n).kind = kind
         /\ Message(kind, id, ptys, layout, n).id = id
         /\ Message(kind, id, ptys, layout, n).ptys = ptys
         /\ Message(kind, id, ptys, layout, n).layout = layout
         /\ Message(kind, id, ptys, layout, n).number = n
  BY DEF Message, Messages

(* The four messages for the reducer, and what they may name.               *)
LEMMA ToReducerCases ==
  ASSUME ClientTypeOK, ReceiveSpawn \/ ReceiveResize \/ ReceiveSync \/ ReceiveRemove
  PROVE  \E kind \in MessageKinds, ptys \in SUBSET told, layout \in SUBSET told :
           ToReducer(kind, ptys, layout)
  <1>1. CASE ReceiveSpawn
    BY <1>1 DEF ReceiveSpawn, MessageKinds
  <1>2. CASE ReceiveResize
    <2>1. PICK layout \in SUBSET told \ {{}} : ToReducer("ResizePty", {}, layout)
      BY <1>2 DEF ReceiveResize
    <2> QED
      BY <2>1 DEF MessageKinds
  <1>3. CASE ReceiveSync
    BY <1>3 DEF ReceiveSync, MessageKinds
  <1>4. CASE ReceiveRemove
    <2>1. PICK p \in told, layout \in SUBSET told : ToReducer("RemovePty", {p}, layout)
      BY <1>4 DEF ReceiveRemove
    <2> QED
      BY <2>1 DEF MessageKinds
  <1> QED
    BY <1>1, <1>2, <1>3, <1>4

(* What is appended to the reducer's queue.                                 *)
LEMMA ToReducerType ==
  ASSUME ClientTypeOK, ReducerTypeOK, NEW kind \in MessageKinds, NEW ptys \in SUBSET told,
         NEW layout \in SUBSET told, ToReducer(kind, ptys, layout)
  PROVE  /\ number' = number + 1 /\ number' \in Nat
         /\ Message(kind, connection, ptys, layout, number') \in Messages
         /\ reducerQueue' = Append(reducerQueue, Message(kind, connection, ptys, layout, number'))
         /\ reducerQueue' \in Seq(Messages) /\ Len(reducerQueue') <= SIZE_QUEUE_REDUCER
         /\ UNCHANGED <<websocket, connection, told, started, known, typing, reducer, tentative,
                        timer, queue, coordinatorVars, ptyVars, session, resizerVars, writerVars,
                        canceledWorkers, panicked>>
  <1>1. number' = number + 1 /\ number' \in Nat
    BY DEF ToReducer, ClientTypeOK
  <1>2. Message(kind, connection, ptys, layout, number') \in Messages
    BY <1>1, MessageType DEF ClientTypeOK
  <1>3. /\ reducerQueue' = Append(reducerQueue, Message(kind, connection, ptys, layout, number'))
        /\ Len(reducerQueue) < SIZE_QUEUE_REDUCER
    BY DEF ToReducer
  <1>4. reducerQueue' \in Seq(Messages) /\ Len(reducerQueue') = Len(reducerQueue) + 1
    BY <1>2, <1>3, AppendFacts DEF ReducerTypeOK
  <1>5. Len(reducerQueue') <= SIZE_QUEUE_REDUCER
    BY <1>3, <1>4, QueuesAssumption DEF ReducerTypeOK
  <1>6. UNCHANGED <<websocket, connection, told, started, known, typing, reducer, tentative,
                    timer, queue, coordinatorVars, ptyVars, session, resizerVars, writerVars,
                    canceledWorkers, panicked>>
    BY DEF ToReducer, Receiving
  <1> QED
    BY <1>1, <1>2, <1>3, <1>4, <1>5, <1>6

(* The message the reducer takes.                                           *)
LEMMA TakeType ==
  ASSUME ReducerTypeOK, NEW kind, Take(kind)
  PROVE  /\ Head(reducerQueue) \in Messages /\ Head(reducerQueue) = reducerQueue[1]
         /\ Head(reducerQueue).kind = kind
         /\ Head(reducerQueue).id \in Nat /\ Head(reducerQueue).number \in Nat
         /\ Head(reducerQueue).ptys \subseteq Ptys /\ Head(reducerQueue).layout \subseteq Ptys
         /\ Len(reducerQueue) \in Nat /\ Len(reducerQueue) >= 1
         /\ reducerQueue' \in Seq(Messages) /\ Len(reducerQueue') = Len(reducerQueue) - 1
         /\ \A i \in 1 .. Len(reducerQueue) - 1 : reducerQueue'[i] = reducerQueue[i + 1]
         /\ Len(reducerQueue') <= SIZE_QUEUE_REDUCER
         /\ reducer.at = "Select"
  <1>1. /\ Head(reducerQueue) \in Messages /\ Head(reducerQueue) = reducerQueue[1]
        /\ Len(reducerQueue) \in Nat /\ Len(reducerQueue) >= 1
        /\ reducerQueue' \in Seq(Messages) /\ Len(reducerQueue') = Len(reducerQueue) - 1
        /\ \A i \in 1 .. Len(reducerQueue) - 1 : reducerQueue'[i] = reducerQueue[i + 1]
    BY TailFacts DEF ReducerTypeOK, Take
  <1>2. Head(reducerQueue).kind = kind /\ reducer.at = "Select"
    BY DEF Take
  <1>3. Len(reducerQueue') <= SIZE_QUEUE_REDUCER
    BY <1>1, QueuesAssumption DEF ReducerTypeOK
  <1> QED
    BY <1>1, <1>2, <1>3 DEF Messages

(* Merging a layout into a batch gives a batch.                             *)
LEMMA CoalesceType ==
  ASSUME NEW batch \in [Ptys -> Nat], NEW layout, NEW n \in Nat
  PROVE  Coalesce(batch, layout, n) \in [Ptys -> Nat]
  BY DEF Coalesce

(* What a sync submits is one resize order per PTY.                         *)
LEMMA SubmissionType ==
  ASSUME NEW m \in Messages
  PROVE  SyncSubmission(m) \in [Ptys -> ResizeOrders]
  BY DEF SyncSubmission, Resize, ResizeOrders, Messages

(* The empty values of the reducer are well typed.                          *)
LEMMA IdleReducerType ==
  /\ IdleReducer.message \in Messages
  /\ IdleReducer.at = "Select" /\ IdleReducer.submission = NoOrders
  /\ IdleReducer.message.number = 0 /\ IdleReducer.message.id = 0
  /\ NoOrders \in [Ptys -> ResizeOrders] /\ NoUpdates \in [Ptys -> Nat]
  BY DEF IdleReducer, Message, Messages, MessageKinds, NoOrders, NoUpdates, Resize, ResizeOrders

(* A step keeps the types of the reducer's state.                           *)
LEMMA ReducerType ==
  ASSUME TypeOK, Next
  PROVE  ReducerTypeOK'
  <1>0. ClientTypeOK /\ ReducerTypeOK
    BY TypeParts
  <1> DEFINE Reducers == [at : {"Select", "Send", "Submit"}, message : Messages,
                          submission : [Ptys -> ResizeOrders]]
  <1>a. reducer \in Reducers /\ IdleReducer \in Reducers
    BY <1>0, IdleReducerType DEF ReducerTypeOK, ResizeOrders, IdleReducer
  <1>b. SUFFICES /\ reducerQueue' \in Seq(Messages) /\ Len(reducerQueue') <= SIZE_QUEUE_REDUCER
                 /\ reducer' \in Reducers
                 /\ tentative' \in [Ptys -> Nat] /\ timer' \in BOOLEAN
    BY DEF ReducerTypeOK, ResizeOrders
  <1>c. ReducerTypeOK /\ tentative \in [Ptys -> Nat] /\ timer \in BOOLEAN
    BY <1>0 DEF ReducerTypeOK
  <1>d. reducerQueue \in Seq(Messages) /\ Len(reducerQueue) <= SIZE_QUEUE_REDUCER
    BY <1>0 DEF ReducerTypeOK
  <1> HIDE DEF Reducers
  <1>1. CASE Reader
    <2>1. UNCHANGED <<reducer, tentative, timer>>
      BY <1>1, ReaderFrame
    <2>2. CASE ReceiveSpawn \/ ReceiveResize \/ ReceiveSync \/ ReceiveRemove
      BY <2>1, <2>2, <1>0, <1>a, <1>c, ToReducerCases, ToReducerType
    <2>3. CASE ~(ReceiveSpawn \/ ReceiveResize \/ ReceiveSync \/ ReceiveRemove)
      <3>1. UNCHANGED reducerQueue
        BY <1>1, <2>3 DEF Reader, Attach, HandleConnected, CloseForTakeover, Teardown,
             HandleDisconnected, ReceiveTerminate, ReceiveInput, EnqueueInput,
             connectionUnchanged, reducerVars
      <3> QED
        BY <3>1, <2>1, <1>a, <1>c, <1>d
    <2> QED
      BY <2>2, <2>3
  <1>2. CASE Reducer
    <2>1. CASE ReduceResize
      <3>1. Coalesce(tentative, Head(reducerQueue).layout, Head(reducerQueue).number) \in [Ptys -> Nat]
        BY <2>1, <1>c, TakeType, CoalesceType DEF ReduceResize
      <3> QED
        BY <2>1, <3>1, <1>a, <1>c, TakeType DEF ReduceResize
    <2>2. CASE HandleFlush_ResizeOnly
      BY <2>2, <1>a, <1>d, IdleReducerType DEF HandleFlush_ResizeOnly
    <2>3. CASE ReduceSync
      <3>1. Take("SyncPty") /\ timer' = FALSE /\ tentative' = NoUpdates
            /\ reducer' = [at |-> "Send", message |-> Head(reducerQueue),
                           submission |-> SyncSubmission(Head(reducerQueue))]
        BY <2>3 DEF ReduceSync
      <3>2. reducer' \in Reducers
        BY <3>1, <1>c, TakeType, SubmissionType DEF Reducers
      <3> QED
        BY <3>1, <3>2, <1>c, TakeType, IdleReducerType
    <2>4. CASE ReduceOther
      <3> DEFINE m == Head(reducerQueue)
                 merged == Coalesce(tentative, m.layout, m.number)
      <3>1. (Take("SpawnPty") \/ Take("RemovePty")) /\ timer' = FALSE
            /\ tentative' = [p \in Ptys |-> IF p \in m.ptys THEN 0 ELSE merged[p]]
            /\ reducer' = [at |-> "Send", message |-> m, submission |-> NoOrders]
        BY <2>4 DEF ReduceOther
      <3>2. m \in Messages /\ m.number \in Nat
            /\ reducerQueue' \in Seq(Messages) /\ Len(reducerQueue') <= SIZE_QUEUE_REDUCER
        BY <3>1, <1>c, TakeType
      <3>3. merged \in [Ptys -> Nat]
        BY <3>2, <1>c, CoalesceType
      <3> HIDE DEF m, merged
      <3>4. reducer' \in Reducers
        BY <3>1, <3>2, IdleReducerType DEF Reducers
      <3> QED
        BY <3>1, <3>2, <3>3, <3>4
    <2>5. CASE SendFlush
      <3>1. [reducer EXCEPT !.at = "Submit"] \in Reducers
        BY <1>a DEF Reducers
      <3>2. reducer' \in {IdleReducer, [reducer EXCEPT !.at = "Submit"]}
            /\ UNCHANGED <<reducerQueue, tentative, timer>>
        BY <2>5, Zenon DEF SendFlush
      <3> QED
        BY <3>1, <3>2, <1>a, <1>c, <1>d
    <2>6. CASE SubmitFlush
      <3>1. reducer' = IdleReducer /\ tentative' \in {tentative, NoUpdates}
            /\ UNCHANGED <<reducerQueue, timer>>
        BY <2>6 DEF SubmitFlush
      <3> QED
        BY <3>1, <1>a, <1>c, <1>d, IdleReducerType
    <2> QED
      BY <1>2, <2>1, <2>2, <2>3, <2>4, <2>5, <2>6 DEF Reducer
  <1>3. CASE Workers \/ Coordinator
    BY <1>3, <1>a, <1>c, <1>d, WorkersFrame, CoordinatorFrame DEF reducerVars
  <1> QED
    BY <1>1, <1>2, <1>3 DEF Next

(* The order of a flush.                                                    *)
FlushOrder ==
  LET m == reducer.message
  IN IF m.kind = "SyncPty" THEN Order("SyncVisibility", m.id, m.layout, m.number, FALSE)
     ELSE Order(m.kind, m.id, m.ptys, m.number, FALSE)

(* The order the reducer sends is typed and carries its message's id and    *)
(* number.                                                                  *)
LEMMA FlushOrderType ==
  ASSUME ReducerTypeOK, ReducerInv, reducer.at = "Send"
  PROVE  /\ FlushOrder \in Orders
         /\ FlushOrder.kind \in {"SyncVisibility", "SpawnPty", "RemovePty"}
         /\ FlushOrder.id = reducer.message.id /\ FlushOrder.number = reducer.message.number
  <1> DEFINE m == reducer.message
  <1>1. /\ m \in Messages /\ m.kind \in {"SyncPty", "SpawnPty", "RemovePty"}
        /\ m.id \in Nat /\ m.number \in Nat /\ m.ptys \in SUBSET Ptys /\ m.layout \in SUBSET Ptys
    BY DEF ReducerTypeOK, ReducerInv, Messages
  <1> HIDE DEF m
  <1>2. CASE m.kind = "SyncPty"
    <2>1. FlushOrder = Order("SyncVisibility", m.id, m.layout, m.number, FALSE)
      BY <1>2 DEF FlushOrder, m
    <2> QED
      BY <2>1, <1>1 DEF Kinds, Order, Orders, m
  <1>3. CASE m.kind # "SyncPty"
    <2>1. FlushOrder = Order(m.kind, m.id, m.ptys, m.number, FALSE)
      BY <1>3 DEF FlushOrder, m
    <2>2. m.kind \in {"SpawnPty", "RemovePty"} /\ m.kind \in Kinds
      BY <1>1, <1>3 DEF Kinds
    <2> QED
      BY <2>1, <2>2, <1>1 DEF Order, Orders, m
  <1> QED
    BY <1>2, <1>3

(* Each step sends at most one order, or the coordinator takes one.         *)
LEMMA QueueSteps ==
  ASSUME TypeOK, ReducerInv, Next
  PROVE  \/ UNCHANGED queue
         \/ \E o \in Orders : Send(o)
         \/ queue # <<>> /\ queue' = Tail(queue)
  <1>0. ClientTypeOK /\ ReducerTypeOK /\ PtyTypeOK /\ WorkerTypeOK
    BY TypeParts
  <1>1. CASE Reader
    <2>1. CASE HandleConnected
      <3>1. Order("Connect", connection, {}, 0, FALSE) \in Orders
        BY <1>0 DEF ClientTypeOK, Kinds, Order, Orders
      <3> QED
        BY <2>1, <3>1 DEF HandleConnected
    <2>2. CASE HandleDisconnected
      <3>1. Order("Disconnect", 0, {}, 0, FALSE) \in Orders
        BY DEF Kinds, Order, Orders
      <3> QED
        BY <2>2, <3>1 DEF HandleDisconnected
    <2>3. CASE ReceiveTerminate
      <3>1. PICK p \in told : Send(Order("TerminatePty", connection, {p}, 0, FALSE))
        BY <2>3 DEF ReceiveTerminate
      <3>2. Order("TerminatePty", connection, {p}, 0, FALSE) \in Orders
        BY <1>0 DEF ClientTypeOK, Kinds, Order, Orders
      <3> QED
        BY <3>1, <3>2
    <2>4. CASE ~(HandleConnected \/ HandleDisconnected \/ ReceiveTerminate)
      BY <1>1, <2>4 DEF Reader, Attach, CloseForTakeover, Teardown, ReceiveSpawn, ReceiveResize,
         ReceiveSync, ReceiveRemove, ToReducer, ReceiveInput, EnqueueInput
    <2> QED
      BY <2>1, <2>2, <2>3, <2>4
  <1>2. CASE Reducer
    <2>1. CASE SendFlush
      <3>1. reducer.at = "Send" /\ Send(FlushOrder)
        BY <2>1 DEF SendFlush, FlushOrder
      <3> QED
        BY <3>1, <1>0, FlushOrderType
    <2>2. CASE ~SendFlush
      BY <1>2, <2>2 DEF Reducer, ReduceResize, HandleFlush_ResizeOnly, ReduceSync, ReduceOther,
         SubmitFlush
    <2> QED
      BY <2>1, <2>2
  <1>3. CASE Workers
    <2>1. PICK p \in Ptys : \/ RunResizer(p) \/ SendEmitSnapshot(p) \/ RunWriter(p)
                            \/ SpawnReported(p) \/ SessionEnds(p)
      BY <1>3 DEF Workers
    <2>2. CASE SendEmitSnapshot(p)
      <3>1. Order("EmitSnapshot", snapshot[p], {p}, 0, FALSE) \in Orders
        BY <1>0 DEF WorkerTypeOK, Kinds, Order, Orders
      <3> QED
        BY <2>2, <3>1 DEF SendEmitSnapshot
    <2>3. CASE SpawnReported(p)
      <3>1. PICK success \in BOOLEAN : Send(Order("Status_SpawnPty", asked[p], {p}, 0, success))
        BY <2>3 DEF SpawnReported
      <3>2. Order("Status_SpawnPty", asked[p], {p}, 0, success) \in Orders
        BY <1>0 DEF PtyTypeOK, Kinds, Order, Orders
      <3> QED
        BY <3>1, <3>2
    <2>4. CASE SessionEnds(p)
      <3>1. Order("ExitPty", 0, {p}, 0, FALSE) \in Orders
        BY DEF Kinds, Order, Orders
      <3> QED
        BY <2>4, <3>1 DEF SessionEnds
    <2>5. CASE RunResizer(p) \/ RunWriter(p)
      BY <2>5 DEF RunResizer, RunWriter
    <2> QED
      BY <2>1, <2>2, <2>3, <2>4, <2>5
  <1>4. CASE Coordinator
    BY <1>4 DEF Coordinator, ReceiveLeading, DrainAndApply, Execute, Group, HandleExit, SetExited,
       HandleTerminate, HandleRemove, HandleSpawn, HandleFailure, HandleSuccess, Announce,
       HandleDisconnect, HandleConnect, HandleSync, HandleEmitSnapshot, Panic
  <1> QED
    BY <1>1, <1>2, <1>3, <1>4 DEF Next

(* A step keeps the coordinator's queue typed and within its capacity.      *)
LEMMA QueueType ==
  ASSUME TypeOK, ReducerInv, Next
  PROVE  QueueTypeOK'
  <1>0. QueueTypeOK
    BY TypeParts
  <1>1. CASE queue # <<>> /\ queue' = Tail(queue)
    <2>1. queue' \in Seq(Orders) /\ Len(queue') = Len(queue) - 1 /\ Len(queue) \in Nat
      BY <1>0, <1>1, TailFacts DEF QueueTypeOK
    <2> QED
      BY <1>0, <2>1, QueuesAssumption DEF QueueTypeOK
  <1>2. CASE UNCHANGED queue
    BY <1>0, <1>2 DEF QueueTypeOK
  <1> QED
    BY <1>0, <1>1, <1>2, QueueSteps, SendType

(* What grouping an order does to each list of the group.                   *)
LEMMA ApplyFacts ==
  ASSUME NEW job \in [Kinds -> Seq(Orders)], NEW o \in Orders
  PROVE  /\ Apply(job, o) \in [Kinds -> Seq(Orders)]
         /\ \A k \in Kinds :
              \/ Apply(job, o)[k] = job[k]
              \/ Apply(job, o)[k] = <<>>
              \/ k = o.kind /\ Apply(job, o)[k] \in {<<o>>, Append(job[k], o)}
  <1>1. \A k \in Kinds : /\ job[k] \in Seq(Orders) /\ <<>> \in Seq(Orders) /\ <<o>> \in Seq(Orders)
                         /\ Append(job[k], o) \in Seq(Orders)
    OBVIOUS
  <1>2. \A k \in Kinds :
          \/ Apply(job, o)[k] = job[k]
          \/ Apply(job, o)[k] = <<>>
          \/ k = o.kind /\ Apply(job, o)[k] \in {<<o>>, Append(job[k], o)}
    BY DEF Apply
  <1>3. Apply(job, o) = [k \in Kinds |-> Apply(job, o)[k]]
    BY DEF Apply
  <1> QED
    BY <1>1, <1>2, <1>3

(* Taking the first order of a kind off the group keeps the group typed.    *)
LEMMA DoneType ==
  ASSUME CoordinatorTypeOK, NEW k \in Kinds, group[k] # <<>>, Done(k)
  PROVE  group' \in [Kinds -> Seq(Orders)]
  <1>1. group[k] \in Seq(Orders)
    BY DEF CoordinatorTypeOK
  <1>2. Tail(group[k]) \in Seq(Orders)
    BY <1>1, TailFacts
  <1> QED
    BY <1>2 DEF CoordinatorTypeOK, Done

(* What each step of the coordinator does to group and handler.             *)
LEMMA GroupSteps ==
  ASSUME TypeOK, HandlerInv, Coordinator
  PROVE  \/ UNCHANGED group
         \/ queue # <<>> /\ Group(Head(queue))
         \/ \E k \in Kinds : group[k] # <<>> /\ Done(k)
  <1>1. CASE ReceiveLeading \/ DrainAndApply
    BY <1>1 DEF ReceiveLeading, DrainAndApply
  <1>2. CASE Execute \/ HandleExit
    BY <1>2 DEF Execute, HandleExit
  <1>3. CASE SetExited
    BY <1>3 DEF SetExited, HandlerInv, Kinds
  <1>4. CASE Announce
    BY <1>4 DEF Announce, HandlerInv, Kinds
  <1>5. CASE HandleSuccess
    BY <1>5 DEF HandleSuccess, Turn, CancelSpawned, Activate, Kinds
  <1>6. CASE \/ HandleTerminate \/ HandleRemove \/ HandleSpawn \/ HandleFailure
             \/ HandleDisconnect \/ HandleConnect \/ HandleSync \/ HandleEmitSnapshot
    BY <1>6 DEF HandleTerminate, HandleRemove, HandleSpawn, HandleFailure, HandleDisconnect,
       HandleConnect, HandleSync, HandleEmitSnapshot, Turn, Kinds
  <1> QED
    BY <1>1, <1>2, <1>3, <1>4, <1>5, <1>6 DEF Coordinator

(* A step keeps the types of the coordinator's group and of its place.      *)
LEMMA CoordinatorType ==
  ASSUME TypeOK, HandlerInv, Next
  PROVE  CoordinatorTypeOK'
  <1>0. CoordinatorTypeOK /\ QueueTypeOK
    BY TypeParts
  <1>1. CASE Reader \/ Reducer \/ Workers
    BY <1>0, <1>1, ReaderFrame, ReducerFrame, WorkersFrame DEF CoordinatorTypeOK, coordinatorVars
  <1>2. CASE Coordinator
    <2>1. handler' \in {"Select", "Drain", "Announce", "SetExited"}
      BY <1>0, <1>2 DEF CoordinatorTypeOK, Coordinator, ReceiveLeading, DrainAndApply, Execute,
         Group, HandleExit, SetExited, HandleTerminate, HandleRemove, HandleSpawn, HandleFailure,
         HandleSuccess, CancelSpawned, Activate, Announce, HandleDisconnect, HandleConnect,
         HandleSync, HandleEmitSnapshot, Panic
    <2>2. idNext' \in {idNext, idNext + 1}
      BY <1>2 DEF Coordinator, ReceiveLeading, DrainAndApply, Execute,
         Group, HandleExit, SetExited, HandleTerminate, HandleRemove, HandleSpawn, HandleFailure,
         HandleSuccess, CancelSpawned, Activate, Announce, HandleDisconnect, HandleConnect,
         HandleSync, HandleEmitSnapshot, Panic
    <2>3. group' \in [Kinds -> Seq(Orders)]
      <3>1. CASE UNCHANGED group
        BY <3>1, <1>0 DEF CoordinatorTypeOK
      <3>2. CASE queue # <<>> /\ Group(Head(queue))
        <4>1. Head(queue) \in Orders
          BY <3>2, <1>0, TailFacts DEF QueueTypeOK
        <4> QED
          BY <4>1, <3>2, <1>0, ApplyFacts DEF Group, CoordinatorTypeOK
      <3>3. CASE \E k \in Kinds : group[k] # <<>> /\ Done(k)
        BY <3>3, <1>0, DoneType
      <3> QED
        BY <1>2, <3>1, <3>2, <3>3, GroupSteps
    <2> QED
      BY <1>0, <2>1, <2>2, <2>3 DEF CoordinatorTypeOK
  <1> QED
    BY <1>1, <1>2 DEF Next

FrameTypes == {"SPAWNING", "SUCCESS", "FAILURE", "CANCELED", "EXIT"}
States == {"Unborn", "Spawning", "Active", "Exited", "Gone"}

(* A frame emitted for one PTY is appended to its frames and to no other's. *)
LEMMA EmitType ==
  ASSUME PtyTypeOK, NEW p \in Ptys, NEW frame \in FrameTypes, Emit(p, frame)
  PROVE  /\ frames' \in [Ptys -> Seq(FrameTypes)]
         /\ frames'[p] = Append(frames[p], frame)
         /\ \A q \in Ptys : q # p => frames'[q] = frames[q]
  <1>1. frames \in [Ptys -> Seq(FrameTypes)]
    BY DEF PtyTypeOK, FrameTypes
  <1>2. Append(frames[p], frame) \in Seq(FrameTypes)
    BY <1>1, AppendFacts
  <1> QED
    BY <1>1, <1>2 DEF Emit

(* The order whose turn it is.                                              *)
LEMMA TurnType ==
  ASSUME CoordinatorTypeOK, NEW k \in Kinds, Turn(k)
  PROVE  /\ handler = "Select" /\ group[k] # <<>>
         /\ Head(group[k]) \in Orders /\ Head(group[k]).ptys \subseteq Ptys
         /\ Head(group[k]).id \in Nat /\ Head(group[k]).number \in Nat
         /\ Head(group[k]).success \in BOOLEAN
  <1>1. handler = "Select" /\ group[k] # <<>>
    BY DEF Turn
  <1> QED
    BY <1>1, HeadType

(* A step keeps the types of the pool.                                      *)
LEMMA PtyType ==
  ASSUME TypeOK, HandlerInv, BirthInv, Next
  PROVE  PtyTypeOK'
  <1>0. CoordinatorTypeOK /\ PtyTypeOK
    BY TypeParts
  <1>1. CASE Reader \/ Reducer \/ Workers
    BY <1>0, <1>1, ReaderFrame, ReducerFrame, WorkersFrame DEF PtyTypeOK, ptyVars
  <1>2. CASE Coordinator
    <2>0. PtyTypeOK /\ frames \in [Ptys -> Seq(FrameTypes)]
      BY <1>0 DEF PtyTypeOK, FrameTypes
    <2>a. SUFFICES /\ state' \in [Ptys -> States] /\ canceled' \in [Ptys -> BOOLEAN]
                   /\ visibility' \in [Ptys -> {"DISCONNECTED_UNKNOWN", "VISIBLE", "NOT_VISIBLE"}]
                   /\ asked' \in [Ptys -> Nat]
                   /\ canceledWorkers' \in [Ptys -> SUBSET {"resizer", "writer"}]
                   /\ frames' \in [Ptys -> Seq(FrameTypes)]
      BY DEF PtyTypeOK, FrameTypes, States
    <2>b. /\ state \in [Ptys -> States] /\ canceled \in [Ptys -> BOOLEAN]
          /\ visibility \in [Ptys -> {"DISCONNECTED_UNKNOWN", "VISIBLE", "NOT_VISIBLE"}]
          /\ asked \in [Ptys -> Nat]
          /\ canceledWorkers \in [Ptys -> SUBSET {"resizer", "writer"}]
      BY <1>0 DEF PtyTypeOK, States
    <2>1. CASE ReceiveLeading \/ DrainAndApply \/ Execute \/ HandleConnect \/ HandleEmitSnapshot
      <3>1. UNCHANGED <<ptyVars, canceledWorkers>>
        BY <2>1 DEF ReceiveLeading, DrainAndApply, Group, Execute, HandleConnect, HandleEmitSnapshot
      <3> QED
        BY <3>1, <2>0, <2>b DEF ptyVars
    <2>2. CASE HandleExit
      <3>1. Head(group["ExitPty"]).ptys \subseteq Ptys
        BY <2>2, <1>0, TurnType DEF HandleExit, Kinds
      <3>2. UNCHANGED ptyVars
        BY <2>2 DEF HandleExit, Panic
      <3>3. PICK p \in Head(group.ExitPty).ptys :
              canceledWorkers' \in {canceledWorkers, [canceledWorkers EXCEPT ![p] = @ \cup {"writer"}]}
        BY <2>2 DEF HandleExit, Panic
      <3>4. canceledWorkers' \in [Ptys -> SUBSET {"resizer", "writer"}]
        BY <3>1, <3>3, <2>b
      <3> QED
        BY <3>2, <3>4, <2>0, <2>b DEF ptyVars
    <2>3. CASE SetExited
      <3>1. group["ExitPty"] # <<>> /\ "ExitPty" \in Kinds
        BY <2>3 DEF SetExited, HandlerInv, Kinds
      <3>2. Head(group.ExitPty).ptys \subseteq Ptys
        BY <3>1, <1>0, HeadType
      <3>3. PICK p \in Head(group.ExitPty).ptys :
              state' = [state EXCEPT ![p] = "Exited"] /\ Emit(p, "EXIT")
        BY <2>3 DEF SetExited
      <3>4. frames' \in [Ptys -> Seq(FrameTypes)]
        BY <3>2, <3>3, <2>0, EmitType DEF FrameTypes
      <3> QED
        BY <2>3, <2>b, <3>3, <3>4 DEF SetExited, States
    <2>4. CASE HandleTerminate
      BY <2>4, <2>0, <2>b DEF HandleTerminate
    <2>5. CASE HandleRemove
      BY <2>5, <2>0, <2>b DEF HandleRemove, States
    <2>6. CASE HandleSpawn
      <3>1. idNext \in Ptys
        BY <2>6, <1>0, PtysFacts DEF HandleSpawn, CoordinatorTypeOK
      <3>2. Head(group["SpawnPty"]).id \in Nat
        BY <2>6, <1>0, TurnType DEF HandleSpawn, Kinds
      <3>3. frames' \in [Ptys -> Seq(FrameTypes)]
        BY <2>6, <3>1, <2>0, EmitType DEF HandleSpawn, FrameTypes
      <3> QED
        BY <2>6, <2>b, <3>1, <3>2, <3>3 DEF HandleSpawn, States
    <2>7. CASE HandleFailure
      <3>1. Head(group["Status_SpawnPty"]).ptys \subseteq Ptys
        BY <2>7, <1>0, TurnType DEF HandleFailure, Kinds
      <3>2. PICK p \in Head(group.Status_SpawnPty).ptys :
              IF state[p] # "Spawning"
              THEN Panic
              ELSE /\ state' = [state EXCEPT ![p] = "Gone"]
                   /\ canceledWorkers' = [canceledWorkers EXCEPT ![p] = @ \cup {"resizer"}]
                   /\ Emit(p, IF canceled[p] THEN "CANCELED" ELSE "FAILURE")
                   /\ UNCHANGED <<canceled, visibility, asked>>
        BY <2>7 DEF HandleFailure
      <3>3. CASE state[p] # "Spawning"
        BY <3>2, <3>3, <2>0, <2>b DEF Panic, ptyVars
      <3>4. CASE state[p] = "Spawning"
        <4>1. frames' \in [Ptys -> Seq(FrameTypes)]
          <5>1. (IF canceled[p] THEN "CANCELED" ELSE "FAILURE") \in FrameTypes
            BY DEF FrameTypes
          <5> QED
            BY <5>1, <3>1, <3>2, <3>4, <2>0, EmitType
        <4>2. canceledWorkers' \in [Ptys -> SUBSET {"resizer", "writer"}]
          BY <3>1, <3>2, <3>4, <2>b
        <4> QED
          BY <3>2, <3>4, <4>1, <4>2, <2>b DEF States
      <3> QED
        BY <3>3, <3>4
    <2>8. CASE HandleSuccess
      <3>1. Head(group["Status_SpawnPty"]).ptys \subseteq Ptys
        BY <2>8, <1>0, TurnType DEF HandleSuccess, Kinds
      <3>2. PICK p \in Head(group.Status_SpawnPty).ptys :
              CancelSpawned(p) \/ Activate(p) \/ UNCHANGED <<state, canceledWorkers, frames>>
        BY <2>8 DEF HandleSuccess
      <3>3. UNCHANGED <<canceled, visibility, asked>>
        BY <2>8 DEF HandleSuccess
      <3>4. CASE CancelSpawned(p)
        <4>1. frames' \in [Ptys -> Seq(FrameTypes)]
          BY <3>1, <3>4, <2>0, EmitType DEF CancelSpawned, FrameTypes
        <4> QED
          BY <3>3, <3>4, <4>1, <2>b DEF CancelSpawned, States
      <3>5. CASE Activate(p)
        BY <3>3, <3>5, <2>0, <2>b DEF Activate, States
      <3>6. CASE UNCHANGED <<state, canceledWorkers, frames>>
        BY <3>3, <3>6, <2>0, <2>b
      <3> QED
        BY <3>2, <3>4, <3>5, <3>6
    <2>9. CASE Announce
      <3>1. group["Status_SpawnPty"] # <<>> /\ "Status_SpawnPty" \in Kinds
        BY <2>9 DEF Announce, HandlerInv, Kinds
      <3>2. Head(group.Status_SpawnPty).ptys \subseteq Ptys
        BY <3>1, <1>0, HeadType
      <3>3. PICK p \in Head(group.Status_SpawnPty).ptys : Emit(p, "SUCCESS")
        BY <2>9 DEF Announce
      <3>4. frames' \in [Ptys -> Seq(FrameTypes)]
        BY <3>2, <3>3, <2>0, EmitType DEF FrameTypes
      <3> QED
        BY <2>9, <3>4, <2>b DEF Announce
    <2>10. CASE HandleDisconnect
      BY <2>10, <2>0, <2>b DEF HandleDisconnect
    <2>11. CASE HandleSync
      BY <2>11, <2>0, <2>b DEF HandleSync
    <2> QED
      BY <1>2, <2>1, <2>2, <2>3, <2>4, <2>5, <2>6, <2>7, <2>8, <2>9, <2>10, <2>11 DEF Coordinator
  <1> QED
    BY <1>1, <1>2 DEF Next

(* What a submission adds to the queues of the resizers.                    *)
LEMMA SubmitAllFacts ==
  ASSUME WorkerTypeOK, NEW orders \in [Ptys -> ResizeOrders], SubmitAll(orders)
  PROVE  /\ resizerQueue' \in [Ptys -> Seq(ResizeOrders)]
         /\ \A p \in Ptys :
              /\ Len(resizerQueue'[p]) <= SIZE_QUEUE_RESIZER
              /\ \/ resizerQueue'[p] = resizerQueue[p]
                 \/ /\ orders[p] # Resize(0, 0)
                    /\ resizerQueue'[p] = Append(resizerQueue[p], orders[p])
  <1>1. \A p \in Ptys : /\ resizerQueue[p] \in Seq(ResizeOrders) /\ orders[p] \in ResizeOrders
                        /\ Len(resizerQueue[p]) <= SIZE_QUEUE_RESIZER
    BY DEF WorkerTypeOK, ResizeOrders
  <1>2. \A p \in Ptys : /\ Append(resizerQueue[p], orders[p]) \in Seq(ResizeOrders)
                        /\ Len(Append(resizerQueue[p], orders[p])) = Len(resizerQueue[p]) + 1
                        /\ Len(resizerQueue[p]) \in Nat
    BY <1>1, AppendFacts
  <1>3. \A p \in Ptys :
          \/ resizerQueue'[p] = resizerQueue[p]
          \/ /\ orders[p] # Resize(0, 0) /\ Len(resizerQueue[p]) < SIZE_QUEUE_RESIZER
             /\ resizerQueue'[p] = Append(resizerQueue[p], orders[p])
    BY DEF SubmitAll
  <1>4. \A p \in Ptys : resizerQueue'[p] \in Seq(ResizeOrders)
    BY <1>1, <1>2, <1>3
  <1>5. resizerQueue' = [p \in Ptys |-> resizerQueue'[p]]
    BY DEF SubmitAll
  <1>6. \A p \in Ptys : Len(resizerQueue'[p]) <= SIZE_QUEUE_RESIZER
    BY <1>1, <1>2, <1>3, QueuesAssumption
  <1> QED
    BY <1>3, <1>4, <1>5, <1>6

(* The orders of a batch.                                                   *)
VisibleOrders(batch) == [p \in Ptys |-> Resize(IF p \in Visible THEN batch[p] ELSE 0, 0)]

(* What a resize batch submits, as one resize order per PTY.                *)
LEMMA VisibleOrdersFacts ==
  ASSUME NEW batch \in [Ptys -> Nat]
  PROVE  /\ VisibleOrders(batch) \in [Ptys -> ResizeOrders]
         /\ SubmitVisible(batch) <=> SubmitAll(VisibleOrders(batch))
         /\ \A p \in Ptys : VisibleOrders(batch)[p].size \in {0, batch[p]}
         /\ \A p \in Ptys : VisibleOrders(batch)[p] # Resize(0, 0) =>
                              VisibleOrders(batch)[p].size = batch[p] /\ batch[p] # 0
  BY DEF VisibleOrders, SubmitVisible, Resize, ResizeOrders

(* What the resizer leaves.                                                 *)
LEMMA RunResizerFacts ==
  ASSUME WorkerTypeOK, NEW p \in Ptys, RunResizer(p)
  PROVE  /\ resizerQueue[p] # <<>> /\ resizerQueue[p] \in Seq(ResizeOrders)
         /\ size' = [size EXCEPT ![p] = resizerQueue[p][Len(resizerQueue[p])].size]
         /\ size' \in [Ptys -> Nat] /\ snapshot' \in [Ptys -> Nat]
         /\ resizerQueue' = [resizerQueue EXCEPT ![p] = <<>>]
         /\ UNCHANGED <<queue, session, writerVars, canceledWorkers, panicked>>
  <1>1. resizerQueue[p] # <<>> /\ resizerQueue[p] \in Seq(ResizeOrders)
    BY DEF RunResizer, WorkerTypeOK, ResizeOrders
  <1> DEFINE order == DrainAndCoalesce(resizerQueue[p])
  <1>2. order \in ResizeOrders /\ order.size = resizerQueue[p][Len(resizerQueue[p])].size
    BY <1>1, DrainFacts
  <1>3. size' = [size EXCEPT ![p] = order.size] /\ snapshot' = [snapshot EXCEPT ![p] = order.snapshot]
    BY DEF RunResizer
  <1>4. order.size \in Nat /\ order.snapshot \in Nat
    BY <1>2 DEF ResizeOrders
  <1> HIDE DEF order
  <1>5. size' \in [Ptys -> Nat] /\ snapshot' \in [Ptys -> Nat]
    BY <1>3, <1>4 DEF WorkerTypeOK
  <1> QED
    BY <1>1, <1>2, <1>3, <1>5 DEF RunResizer

Sessions == {"none", "spawning", "quiescent", "streaming", "canceled", "ended"}

(* A step keeps the types of sessions and resizers.                         *)
LEMMA WorkerType ==
  ASSUME TypeOK, HandlerInv, Next
  PROVE  WorkerTypeOK'
  <1>0. ReducerTypeOK /\ CoordinatorTypeOK /\ WorkerTypeOK
    BY TypeParts
  <1>a. SUFFICES /\ session' \in [Ptys -> Sessions]
                 /\ resizerQueue' \in [Ptys -> Seq(ResizeOrders)]
                 /\ \A p \in Ptys : Len(resizerQueue'[p]) <= SIZE_QUEUE_RESIZER
                 /\ snapshot' \in [Ptys -> Nat] /\ size' \in [Ptys -> Nat]
    BY DEF WorkerTypeOK, ResizeOrders, Sessions
  <1>b. /\ session \in [Ptys -> Sessions]
        /\ resizerQueue \in [Ptys -> Seq(ResizeOrders)]
        /\ \A p \in Ptys : Len(resizerQueue[p]) <= SIZE_QUEUE_RESIZER
        /\ snapshot \in [Ptys -> Nat] /\ size \in [Ptys -> Nat]
    BY <1>0 DEF WorkerTypeOK, ResizeOrders, Sessions
  <1>1. CASE Reader
    BY <1>1, <1>b, ReaderFrame DEF resizerVars
  <1>2. CASE Reducer
    <2>1. UNCHANGED <<session, snapshot, size>>
      BY <1>2, ReducerFrame
    <2>2. tentative \in [Ptys -> Nat] /\ reducer.submission \in [Ptys -> ResizeOrders]
      BY <1>0 DEF ReducerTypeOK, ResizeOrders
    <2>3. UNCHANGED resizerQueue \/ SubmitVisible(tentative) \/ SubmitAll(reducer.submission)
      BY <1>2 DEF Reducer, ReduceResize, HandleFlush_ResizeOnly, ReduceSync, ReduceOther,
         SendFlush, SubmitFlush
    <2>4. \/ UNCHANGED resizerQueue
          \/ \E orders \in [Ptys -> ResizeOrders] : SubmitAll(orders)
      BY <2>2, <2>3, VisibleOrdersFacts
    <2> QED
      BY <1>0, <1>b, <2>1, <2>4, SubmitAllFacts
  <1>3. CASE Workers
    <2>1. PICK p \in Ptys : \/ RunResizer(p) \/ SendEmitSnapshot(p) \/ RunWriter(p)
                            \/ SpawnReported(p) \/ SessionEnds(p)
      BY <1>3 DEF Workers
    <2>2. CASE RunResizer(p)
      <3>1. /\ size' \in [Ptys -> Nat] /\ snapshot' \in [Ptys -> Nat]
            /\ resizerQueue' = [resizerQueue EXCEPT ![p] = <<>>] /\ UNCHANGED session
        BY <2>2, <1>0, RunResizerFacts
      <3>2. <<>> \in Seq(ResizeOrders) /\ Len(<<>>) = 0
        OBVIOUS
      <3> QED
        BY <3>1, <3>2, <1>b, QueuesAssumption
    <2>3. CASE SendEmitSnapshot(p)
      BY <2>3, <1>b DEF SendEmitSnapshot
    <2>4. CASE RunWriter(p)
      BY <2>4, <1>b DEF RunWriter, resizerVars
    <2>5. CASE SpawnReported(p)
      BY <2>5, <1>b DEF SpawnReported, resizerVars, Sessions
    <2>6. CASE SessionEnds(p)
      BY <2>6, <1>b DEF SessionEnds, resizerVars, Sessions
    <2> QED
      BY <2>1, <2>2, <2>3, <2>4, <2>5, <2>6
  <1>4. CASE Coordinator
    <2>1. UNCHANGED <<resizerQueue, snapshot>>
      BY <1>4, CoordinatorFrame
    <2>2. CASE HandleSpawn
      <3>1. Head(group["SpawnPty"]).number \in Nat
        BY <2>2, <1>0, TurnType DEF HandleSpawn, Kinds
      <3> QED
        BY <2>1, <2>2, <3>1, <1>b DEF HandleSpawn, Sessions
    <2>3. CASE HandleSuccess
      BY <2>1, <2>3, <1>b DEF HandleSuccess, CancelSpawned, Activate, Sessions
    <2>4. CASE Announce
      BY <2>1, <2>4, <1>b DEF Announce, Sessions
    <2>5. CASE ~(HandleSpawn \/ HandleSuccess \/ Announce)
      <3>1. UNCHANGED <<session, size>>
        BY <1>4, <2>5 DEF Coordinator, ReceiveLeading, DrainAndApply, Execute, Group, HandleExit,
           SetExited, HandleTerminate, HandleRemove, HandleFailure, HandleDisconnect,
           HandleConnect, HandleSync, HandleEmitSnapshot, Panic
      <3> QED
        BY <2>1, <3>1, <1>b
    <2> QED
      BY <2>2, <2>3, <2>4, <2>5
  <1> QED
    BY <1>1, <1>2, <1>3, <1>4 DEF Next

(* A step keeps the types of the input on its way and written.              *)
LEMMA InputType ==
  ASSUME TypeOK, Next
  PROVE  InputTypeOK'
  <1>0. ClientTypeOK /\ InputTypeOK
    BY TypeParts
  <1>1. CASE Reader
    <2>1. CASE EnqueueInput
      <3>1. typing.pty \in Ptys /\ typing.number \in Nat
        BY <1>0 DEF ClientTypeOK
      <3>2. \A p \in Ptys : inputs[p] \in Seq(Nat)
        BY <1>0 DEF InputTypeOK
      <3>3. \A p \in Ptys : /\ Append(inputs[p], typing.number) \in Seq(Nat)
                            /\ Len(Append(inputs[p], typing.number)) = Len(inputs[p]) + 1
                            /\ Len(inputs[p]) \in Nat
        BY <3>1, <3>2, AppendFacts
      <3>4. \/ UNCHANGED inputs
            \/ /\ Len(inputs[typing.pty]) < SIZE_QUEUE_INPUT
               /\ inputs' = [inputs EXCEPT ![typing.pty] = Append(@, typing.number)]
        BY <2>1, <1>0 DEF EnqueueInput, InputTypeOK
      <3>5. UNCHANGED written
        BY <2>1 DEF EnqueueInput
      <3>6. CASE UNCHANGED inputs
        BY <1>0, <3>5, <3>6 DEF InputTypeOK
      <3>7. CASE ~UNCHANGED inputs
        <4>1. /\ Len(inputs[typing.pty]) < SIZE_QUEUE_INPUT
              /\ inputs' = [inputs EXCEPT ![typing.pty] = Append(inputs[typing.pty], typing.number)]
          BY <3>4, <3>7
        <4>2. inputs' \in [Ptys -> Seq(Nat)]
          BY <4>1, <3>1, <3>3, <1>0 DEF InputTypeOK
        <4>3. ASSUME NEW p \in Ptys PROVE Len(inputs'[p]) <= SIZE_QUEUE_INPUT
          <5>1. CASE p = typing.pty
            <6>1. inputs'[p] = Append(inputs[p], typing.number)
              BY <4>1, <5>1, <1>0 DEF InputTypeOK
            <6> QED
              BY <6>1, <4>1, <5>1, <3>3, QueuesAssumption
          <5>2. CASE p # typing.pty
            BY <4>1, <5>2, <1>0 DEF InputTypeOK
          <5> QED
            BY <5>1, <5>2
        <4> QED
          BY <1>0, <4>2, <4>3, <3>5 DEF InputTypeOK
      <3> QED
        BY <3>6, <3>7
    <2>2. CASE ~EnqueueInput
      <3>1. UNCHANGED writerVars
        BY <1>1, <2>2 DEF Reader, Attach, HandleConnected, CloseForTakeover, Teardown,
           HandleDisconnected, ReceiveSpawn, ReceiveResize, ReceiveSync, ReceiveRemove, ToReducer,
           ReceiveTerminate, ReceiveInput, connectionUnchanged
      <3> QED
        BY <1>0, <3>1 DEF InputTypeOK, writerVars
    <2> QED
      BY <2>1, <2>2
  <1>2. CASE Reducer \/ Coordinator
    BY <1>0, <1>2, ReducerFrame, CoordinatorFrame DEF InputTypeOK, writerVars
  <1>3. CASE Workers
    <2>1. PICK p \in Ptys : \/ RunResizer(p) \/ SendEmitSnapshot(p) \/ RunWriter(p)
                            \/ SpawnReported(p) \/ SessionEnds(p)
      BY <1>3 DEF Workers
    <2>2. CASE RunWriter(p)
      <3>1. inputs[p] \in Seq(Nat) /\ inputs[p] # <<>>
        BY <1>0, <2>2 DEF InputTypeOK, RunWriter
      <3>2. Head(inputs[p]) \in Nat /\ Tail(inputs[p]) \in Seq(Nat)
            /\ Len(Tail(inputs[p])) = Len(inputs[p]) - 1 /\ Len(inputs[p]) \in Nat
        BY <3>1, TailFacts
      <3>3. /\ written' = [written EXCEPT ![p] = Head(inputs[p])]
            /\ inputs' = [inputs EXCEPT ![p] = Tail(@)]
        BY <2>2 DEF RunWriter
      <3> QED
        BY <1>0, <3>2, <3>3, QueuesAssumption DEF InputTypeOK
    <2>3. CASE ~RunWriter(p)
      <3>1. UNCHANGED writerVars
        BY <2>1, <2>3 DEF RunResizer, SendEmitSnapshot, SpawnReported, SessionEnds
      <3> QED
        BY <1>0, <3>1 DEF InputTypeOK, writerVars
    <2> QED
      BY <2>2, <2>3
  <1> QED
    BY <1>1, <1>2, <1>3 DEF Next

(* A step keeps the type of the flag of a panic.                            *)
LEMMA PanickedType ==
  ASSUME TypeOK, Next
  PROVE  panicked' \in BOOLEAN
  <1>0. panicked = FALSE
    BY DEF Next, TypeOK
  <1>1. CASE Reader
    BY <1>0, <1>1 DEF Reader, Attach, HandleConnected, CloseForTakeover, Teardown,
       HandleDisconnected, ReceiveSpawn, ReceiveResize, ReceiveSync, ReceiveRemove, ToReducer,
       ReceiveTerminate, ReceiveInput, EnqueueInput, connectionUnchanged
  <1>2. CASE Reducer \/ Workers
    BY <1>0, <1>2, ReducerFrame, WorkersFrame
  <1>3. CASE Coordinator
    BY <1>0, <1>3 DEF Coordinator, ReceiveLeading, DrainAndApply, Execute, Group, HandleExit,
       SetExited, HandleTerminate, HandleRemove, HandleSpawn, HandleFailure, HandleSuccess,
       CancelSpawned, Activate, Announce, HandleDisconnect, HandleConnect, HandleSync,
       HandleEmitSnapshot, Panic
  <1> QED
    BY <1>1, <1>2, <1>3 DEF Next

(* A step keeps the type invariant.                                         *)
LEMMA TypeStep ==
  TypeOK /\ HandlerInv /\ BirthInv /\ ReducerInv /\ [Next]_vars => TypeOK'
  <1>1. CASE Next
    <2> SUFFICES ASSUME TypeOK, HandlerInv, BirthInv, ReducerInv, Next PROVE TypeOK'
      BY <1>1
    <2>1. /\ WebsocketTypeOK' /\ ClientTypeOK' /\ KnownTypeOK' /\ ReducerTypeOK' /\ QueueTypeOK'
          /\ CoordinatorTypeOK' /\ PtyTypeOK' /\ WorkerTypeOK' /\ InputTypeOK'
          /\ (panicked \in BOOLEAN)'
      BY WebsocketType, ClientType, KnownType, ReducerType, QueueType, CoordinatorType, PtyType,
         WorkerType, InputType, PanickedType
    <2> QED
      BY <2>1 DEF TypeOK, WebsocketTypeOK, ClientTypeOK, KnownTypeOK, ReducerTypeOK, QueueTypeOK,
         CoordinatorTypeOK, PtyTypeOK, WorkerTypeOK, InputTypeOK
  <1>2. CASE UNCHANGED vars
    BY <1>2 DEF vars, clientVars, reducerVars, coordinatorVars, ptyVars, resizerVars, writerVars,
       TypeOK
  <1> QED
    BY <1>1, <1>2

-----------------------------------------------------------------------------
(* OrderInv under what can happen to the two places.                       *)

(* Members of the queue and of the group are orders; the head is the first. *)
LEMMA OrderElements ==
  ASSUME QueueTypeOK, CoordinatorTypeOK
  PROVE  /\ Len(queue) \in Nat /\ DOMAIN queue = 1 .. Len(queue)
         /\ \A i \in DOMAIN queue : queue[i] \in Orders
         /\ \A k \in Kinds : /\ Len(group[k]) \in Nat /\ DOMAIN group[k] = 1 .. Len(group[k])
                             /\ group[k] # <<>> => 1 \in DOMAIN group[k] /\ Head(group[k]) = group[k][1]
                             /\ \A i \in DOMAIN group[k] : group[k][i] \in Orders
  <1>1. \A k \in Kinds : group[k] \in Seq(Orders)
    BY DEF CoordinatorTypeOK
  <1> QED
    BY <1>1 DEF QueueTypeOK

(* Nothing moves, and what the orders say stays true.                       *)
LEMMA OrderStay ==
  ASSUME QueueTypeOK, CoordinatorTypeOK, OrderInv, UNCHANGED <<queue, group>>,
         handler # "Announce" \/ handler' = handler,
         \A o \in Orders : Fits(o) => Fits(o)'
  PROVE  OrderInv'
  <1>1. (\A i \in DOMAIN queue : Fits(queue[i]))'
    BY OrderElements DEF OrderInv
  <1>2. (\A k \in Kinds : \A i \in DOMAIN group[k] :
          group[k][i].kind = k /\ (Announced(k, i) \/ Fits(group[k][i])))'
    BY OrderElements DEF OrderInv, Announced
  <1> QED
    BY <1>1, <1>2 DEF OrderInv, Apart

(* An order joins the queue that no other is about the PTY of.              *)
LEMMA OrderAdd ==
  ASSUME QueueTypeOK, CoordinatorTypeOK, OrderInv, HandlerInv, NEW o \in Orders,
         queue' = Append(queue, o), UNCHANGED <<group, handler>>,
         \A q \in Orders : Fits(q) => Fits(q)',
         Fits(o)',
         \A q \in Orders : Fits(q) => Apart(q, o),
         handler = "Announce" => Apart(Head(group.Status_SpawnPty), o)
  PROVE  OrderInv'
  <1>1. /\ Len(queue') = Len(queue) + 1 /\ Len(queue) \in Nat
        /\ DOMAIN queue = 1 .. Len(queue) /\ DOMAIN queue' = 1 .. Len(queue) + 1
        /\ \A i \in 1 .. Len(queue) : queue'[i] = queue[i]
        /\ queue'[Len(queue) + 1] = o
    BY AppendFacts DEF QueueTypeOK
  <1>2. \A i \in DOMAIN queue' : queue'[i] = o \/ (i \in DOMAIN queue /\ queue'[i] = queue[i])
    BY <1>1
  <1>3. \A i, j \in DOMAIN queue' : i # j => \/ i \in DOMAIN queue /\ queue'[i] = queue[i]
                                             \/ j \in DOMAIN queue /\ queue'[j] = queue[j]
    BY <1>1
  <1>4. (\A i \in DOMAIN queue : Fits(queue[i]))'
    BY <1>2, OrderElements DEF OrderInv
  <1>5. (\A k \in Kinds : \A i \in DOMAIN group[k] :
          group[k][i].kind = k /\ (Announced(k, i) \/ Fits(group[k][i])))'
    BY OrderElements DEF OrderInv, Announced
  <1>6. \A i \in DOMAIN queue : Apart(queue[i], o) /\ Apart(o, queue[i])
    BY OrderElements DEF OrderInv, Apart
  <1>7. \A k \in Kinds : \A i \in DOMAIN group[k] : Apart(group[k][i], o) /\ Apart(o, group[k][i])
    <2> SUFFICES ASSUME NEW k \in Kinds, NEW i \in DOMAIN group[k]
                 PROVE  Apart(group[k][i], o)
      BY DEF Apart
    <2>1. CASE Fits(group[k][i])
      BY <2>1, OrderElements
    <2>2. CASE Announced(k, i)
      <3>1. group.Status_SpawnPty # <<>> /\ "Status_SpawnPty" \in Kinds
        BY <2>2 DEF Announced, HandlerInv, Kinds
      <3>2. Head(group.Status_SpawnPty) = group[k][i]
        BY <2>2, <3>1, OrderElements DEF Announced
      <3> QED
        BY <2>2, <3>2 DEF Announced
    <2> QED
      BY <2>1, <2>2 DEF OrderInv
  <1>8. \A i, j \in DOMAIN queue' : i # j => Apart(queue'[i], queue'[j])
    BY <1>2, <1>3, <1>6 DEF OrderInv
  <1>9. \A k \in Kinds : \A i \in DOMAIN queue', j \in DOMAIN group[k] : Apart(queue'[i], group[k][j])
    BY <1>2, <1>7 DEF OrderInv
  <1>10. \A k \in Kinds : \A i, j \in DOMAIN group[k] : i # j => Apart(group[k][i], group[k][j])
    BY DEF OrderInv
  <1> QED
    BY <1>4, <1>5, <1>8, <1>9, <1>10 DEF OrderInv, Apart

(* The coordinator moves an order from the queue to its group.              *)
LEMMA OrderTake ==
  ASSUME QueueTypeOK, CoordinatorTypeOK, OrderInv, handler # "Announce",
         queue # <<>>, Group(Head(queue))
  PROVE  OrderInv'
  <1> DEFINE h == Head(queue)
  <1>1. /\ Len(queue) \in Nat /\ Len(queue) >= 1 /\ h = queue[1] /\ h \in Orders
        /\ Len(queue') = Len(queue) - 1
        /\ DOMAIN queue = 1 .. Len(queue) /\ DOMAIN queue' = 1 .. Len(queue) - 1
        /\ \A i \in 1 .. Len(queue) - 1 : queue'[i] = queue[i + 1]
    BY TailFacts DEF QueueTypeOK, Group
  <1>2. group' = Apply(group, h)
    BY DEF Group
  <1> HIDE DEF h
  <1>3. \A i \in DOMAIN queue' : i + 1 \in DOMAIN queue /\ i + 1 # 1 /\ queue'[i] = queue[i + 1]
    BY <1>1
  <1>4. 1 \in DOMAIN queue
    BY <1>1
  (* What a list of the group holds after the step.                         *)
  <1>5. ASSUME NEW k \in Kinds
        PROVE  /\ DOMAIN group[k] \subseteq Int /\ DOMAIN group'[k] \subseteq Int
               /\ \A j \in DOMAIN group'[k] :
                    \/ j \in DOMAIN group[k] /\ group'[k][j] = group[k][j]
                    \/ group'[k][j] = h /\ h.kind = k
               /\ \A i, j \in DOMAIN group'[k] : i # j =>
                    \/ i \in DOMAIN group[k] /\ group'[k][i] = group[k][i]
                    \/ j \in DOMAIN group[k] /\ group'[k][j] = group[k][j]
    <2>1. group[k] \in Seq(Orders)
      BY DEF CoordinatorTypeOK
    <2>2. \/ group'[k] = group[k]
          \/ group'[k] = <<>>
          \/ k = h.kind /\ group'[k] \in {<<h>>, Append(group[k], h)}
      BY <1>1, <1>2, ApplyFacts DEF CoordinatorTypeOK
    <2>3. CASE group'[k] = group[k]
      BY <2>1, <2>3
    <2>4. CASE group'[k] = <<>>
      BY <2>1, <2>4
    <2>5. CASE k = h.kind /\ group'[k] = <<h>>
      BY <2>1, <2>5
    <2>6. CASE k = h.kind /\ group'[k] = Append(group[k], h)
      <3>1. /\ Len(group[k]) \in Nat /\ Len(group'[k]) = Len(group[k]) + 1
            /\ DOMAIN group[k] = 1 .. Len(group[k]) /\ DOMAIN group'[k] = 1 .. Len(group[k]) + 1
            /\ \A i \in 1 .. Len(group[k]) : group'[k][i] = group[k][i]
            /\ group'[k][Len(group[k]) + 1] = h
        BY <2>1, <2>6, <1>1, AppendFacts
      <3>2. \A j \in DOMAIN group'[k] :
              \/ j \in DOMAIN group[k] /\ group'[k][j] = group[k][j]
              \/ group'[k][j] = h /\ h.kind = k
        BY <3>1, <2>6
      <3>3. \A i, j \in DOMAIN group'[k] : i # j =>
              \/ i \in DOMAIN group[k] /\ group'[k][i] = group[k][i]
              \/ j \in DOMAIN group[k] /\ group'[k][j] = group[k][j]
        BY <3>1
      <3> QED
        BY <3>1, <3>2, <3>3
    <2> QED
      BY <2>2, <2>3, <2>4, <2>5, <2>6
  <1>6. \A o \in Orders : Fits(o) => Fits(o)'
    BY DEF Group, coordinatorUnchanged, reducerVars, ptyVars, Fits, Settled
  <1>7. Fits(h) /\ (\A q \in Orders : q = h => Fits(q)')
    BY <1>1, <1>4, <1>6 DEF OrderInv
  <1>8. \A k \in Kinds : \A j \in DOMAIN group[k] :
          /\ group[k][j].kind = k /\ group[k][j] \in Orders /\ Fits(group[k][j])
          /\ Apart(h, group[k][j]) /\ Apart(group[k][j], h)
    BY <1>1, <1>4, OrderElements DEF OrderInv, Announced, Apart
  <1>9. (\A i \in DOMAIN queue : Fits(queue[i]))'
    BY <1>3, <1>6, OrderElements DEF OrderInv
  <1>10. (\A k \in Kinds : \A i \in DOMAIN group[k] :
           group[k][i].kind = k /\ (Announced(k, i) \/ Fits(group[k][i])))'
    BY <1>5, <1>6, <1>7, <1>8, <1>1
  <1>11. (\A i, j \in DOMAIN queue : i # j => Apart(queue[i], queue[j]))'
    <2> SUFFICES ASSUME NEW i \in DOMAIN queue', NEW j \in DOMAIN queue', i # j
                 PROVE  Apart(queue'[i], queue'[j])
      BY DEF Apart
    <2>1. i + 1 # j + 1
      BY <1>1
    <2> QED
      BY <1>3, <2>1 DEF OrderInv
  <1>12. (\A k \in Kinds : \A i, j \in DOMAIN group[k] : i # j => Apart(group[k][i], group[k][j]))'
    <2> SUFFICES ASSUME NEW k \in Kinds, NEW i \in DOMAIN group'[k], NEW j \in DOMAIN group'[k], i # j
                 PROVE  Apart(group'[k][i], group'[k][j])
      BY DEF Apart
    <2> QED
      BY <1>5, <1>8 DEF OrderInv
  <1>13. (\A k \in Kinds : \A i \in DOMAIN queue, j \in DOMAIN group[k] : Apart(queue[i], group[k][j]))'
    <2> SUFFICES ASSUME NEW k \in Kinds, NEW i \in DOMAIN queue', NEW j \in DOMAIN group'[k]
                 PROVE  Apart(queue'[i], group'[k][j])
      BY DEF Apart
    <2>1. Apart(queue[i + 1], h)
      BY <1>1, <1>3, <1>4 DEF OrderInv
    <2> QED
      BY <1>3, <1>5, <2>1 DEF OrderInv
  <1> QED
    BY <1>9, <1>10, <1>11, <1>12, <1>13 DEF OrderInv

(* An order has been executed; what it changed no other order is about.     *)
LEMMA OrderDone ==
  ASSUME QueueTypeOK, CoordinatorTypeOK, OrderInv, NEW k0 \in Kinds, group[k0] # <<>>, Done(k0),
         UNCHANGED queue, handler = "Announce" => k0 = "Status_SpawnPty", handler' # "Announce",
         \A o \in Orders : Fits(o) /\ Apart(o, Head(group[k0])) => Fits(o)'
  PROVE  OrderInv'
  <1>1. \A k \in Kinds : group[k] \in Seq(Orders)
    BY DEF CoordinatorTypeOK
  <1>2. /\ Len(group[k0]) \in Nat /\ Len(group[k0]) >= 1
        /\ Head(group[k0]) = group[k0][1] /\ 1 \in DOMAIN group[k0]
        /\ DOMAIN group[k0] = 1 .. Len(group[k0])
        /\ DOMAIN Tail(group[k0]) = 1 .. Len(group[k0]) - 1
        /\ \A i \in 1 .. Len(group[k0]) - 1 : Tail(group[k0])[i] = group[k0][i + 1]
    BY <1>1, TailFacts
  <1>3. group'[k0] = Tail(group[k0]) /\ \A k \in Kinds : k # k0 => group'[k] = group[k]
    BY DEF Done, CoordinatorTypeOK
  (* A list without its head, or unchanged.                                 *)
  <1>4. \A k \in Kinds : \E shift \in {0, 1} :
          /\ k = k0 => shift = 1
          /\ \A i \in DOMAIN group'[k] : /\ i \in Int /\ i + shift \in DOMAIN group[k]
                                         /\ group'[k][i] = group[k][i + shift]
                                         /\ k = k0 => i + shift # 1
    <2> SUFFICES ASSUME NEW k \in Kinds
                 PROVE  \E shift \in {0, 1} :
                          /\ k = k0 => shift = 1
                          /\ \A i \in DOMAIN group'[k] :
                               /\ i \in Int /\ i + shift \in DOMAIN group[k]
                               /\ group'[k][i] = group[k][i + shift]
                               /\ k = k0 => i + shift # 1
      OBVIOUS
    <2>1. CASE k = k0
      BY <2>1, <1>2, <1>3
    <2>2. CASE k # k0
      <3>1. DOMAIN group[k] \subseteq Int /\ group'[k] = group[k]
        BY <1>1, <1>3, <2>2
      <3>2. \A i \in DOMAIN group'[k] : i + 0 = i
        BY <3>1
      <3> QED
        BY <2>2, <3>1, <3>2
    <2> QED
      BY <2>1, <2>2
  (* Every other order is apart from the head.                              *)
  <1>5. \A k \in Kinds : \A i \in DOMAIN group[k] :
          (k = k0 => i # 1) => Apart(group[k][i], Head(group[k0])) /\ Fits(group[k][i])
    <2> SUFFICES ASSUME NEW k \in Kinds, NEW i \in DOMAIN group[k], k = k0 => i # 1
                 PROVE  Apart(group[k][i], Head(group[k0])) /\ Fits(group[k][i])
      OBVIOUS
    <2>1. ~Announced(k, i)
      BY DEF Announced
    <2>2. group[k][i].kind = k /\ Head(group[k0]).kind = k0
      BY <1>2 DEF OrderInv
    <2>3. Apart(group[k][i], Head(group[k0]))
      BY <1>2, <2>2 DEF OrderInv, Apart
    <2> QED
      BY <2>1, <2>3 DEF OrderInv
  <1>6. (\A i \in DOMAIN queue : Fits(queue[i]))'
    <2>1. \A i \in DOMAIN queue : Apart(queue[i], Head(group[k0])) /\ queue[i] \in Orders
      BY <1>2, OrderElements DEF OrderInv
    <2> QED
      BY <2>1 DEF OrderInv
  <1>7. (\A k \in Kinds : \A i \in DOMAIN group[k] :
           group[k][i].kind = k /\ (Announced(k, i) \/ Fits(group[k][i])))'
    <2> SUFFICES ASSUME NEW k \in Kinds, NEW i \in DOMAIN group'[k], NEW o, o = group'[k][i]
                 PROVE  o.kind = k /\ Fits(o)'
      OBVIOUS
    <2>1. PICK j \in DOMAIN group[k] : o = group[k][j] /\ (k = k0 => j # 1)
      BY <1>4
    <2> QED
      BY <2>1, <1>5, OrderElements DEF OrderInv
  <1>8. (\A k \in Kinds : \A i, j \in DOMAIN group[k] : i # j => Apart(group[k][i], group[k][j]))'
    <2> SUFFICES ASSUME NEW k \in Kinds, NEW i \in DOMAIN group'[k], NEW j \in DOMAIN group'[k], i # j
                 PROVE  Apart(group'[k][i], group'[k][j])
      BY DEF Apart
    <2>1. PICK shift \in {0, 1} :
            \A n \in DOMAIN group'[k] : /\ n \in Int /\ n + shift \in DOMAIN group[k]
                                        /\ group'[k][n] = group[k][n + shift]
      BY <1>4
    <2>2. i + shift # j + shift
      BY <2>1
    <2> QED
      BY <2>1, <2>2 DEF OrderInv
  <1>9. (\A k \in Kinds : \A i \in DOMAIN queue, j \in DOMAIN group[k] : Apart(queue[i], group[k][j]))'
    <2> SUFFICES ASSUME NEW k \in Kinds, NEW i \in DOMAIN queue, NEW j \in DOMAIN group'[k]
                 PROVE  Apart(queue[i], group'[k][j])
      BY DEF Apart
    <2> QED
      BY <1>4 DEF OrderInv
  <1>10. (\A i, j \in DOMAIN queue : i # j => Apart(queue[i], queue[j]))'
    BY DEF OrderInv, Apart
  <1> QED
    BY <1>6, <1>7, <1>8, <1>9, <1>10 DEF OrderInv

(* The first half of a verdict's handler: the order is still there.         *)
LEMMA OrderAnnounce ==
  ASSUME QueueTypeOK, CoordinatorTypeOK, OrderInv, UNCHANGED <<queue, group>>,
         handler # "Announce", handler' = "Announce", group.Status_SpawnPty # <<>>,
         \A o \in Orders : Fits(o) /\ Apart(o, Head(group.Status_SpawnPty)) => Fits(o)'
  PROVE  OrderInv'
  <1> DEFINE h == Head(group.Status_SpawnPty)
  <1>0. "Status_SpawnPty" \in Kinds
    BY DEF Kinds
  <1>1. h = group["Status_SpawnPty"][1] /\ 1 \in DOMAIN group["Status_SpawnPty"]
    BY <1>0, OrderElements
  <1> HIDE DEF h
  <1>2. h.kind = "Status_SpawnPty"
    BY <1>0, <1>1 DEF OrderInv
  <1>3. \A i \in DOMAIN queue : Apart(queue[i], h)
    BY <1>0, <1>1 DEF OrderInv
  <1>4. \A k \in Kinds : \A i \in DOMAIN group[k] :
          Announced(k, i)' \/ (Apart(group[k][i], h) /\ Fits(group[k][i]))
    <2> SUFFICES ASSUME NEW k \in Kinds, NEW i \in DOMAIN group[k], ~(k = "Status_SpawnPty" /\ i = 1)
                 PROVE  Apart(group[k][i], h) /\ Fits(group[k][i])
      BY DEF Announced
    <2>1. group[k][i].kind = k /\ ~Announced(k, i) /\ Fits(group[k][i])
      BY DEF OrderInv, Announced
    <2> QED
      BY <1>0, <1>1, <1>2, <2>1 DEF OrderInv, Apart
  <1>5. (\A i \in DOMAIN queue : Fits(queue[i]))'
    BY <1>3, OrderElements DEF OrderInv, h
  <1>6. (\A k \in Kinds : \A i \in DOMAIN group[k] :
           group[k][i].kind = k /\ (Announced(k, i) \/ Fits(group[k][i])))'
    <2> SUFFICES ASSUME NEW k \in Kinds, NEW i \in DOMAIN group[k], NEW o, o = group[k][i]
                 PROVE  o.kind = k /\ (Announced(k, i)' \/ Fits(o)')
      OBVIOUS
    <2> QED
      BY <1>4, OrderElements DEF OrderInv, h
  <1> QED
    BY <1>5, <1>6 DEF OrderInv, Apart

-----------------------------------------------------------------------------
(* Numbers and connections only grow.                                      *)

(* Members of the reducer's queue are messages, with their parts typed.     *)
LEMMA MessageElements ==
  ASSUME ReducerTypeOK
  PROVE  /\ Len(reducerQueue) \in Nat /\ DOMAIN reducerQueue = 1 .. Len(reducerQueue)
         /\ \A i \in DOMAIN reducerQueue :
              /\ reducerQueue[i] \in Messages
              /\ reducerQueue[i].number \in Nat /\ reducerQueue[i].id \in Nat
              /\ reducerQueue[i].layout \subseteq Ptys
  <1>1. /\ Len(reducerQueue) \in Nat /\ DOMAIN reducerQueue = 1 .. Len(reducerQueue)
        /\ \A i \in DOMAIN reducerQueue : reducerQueue[i] \in Messages
    BY DEF ReducerTypeOK
  <1>2. \A m \in Messages : m.number \in Nat /\ m.id \in Nat /\ m.layout \subseteq Ptys
    BY DEF Messages
  <1> QED
    BY <1>1, <1>2

(* What is older than something settled is settled.                         *)
LEMMA SettledBelow ==
  ASSUME ClientTypeOK, ReducerTypeOK, NEW n \in Nat, NEW m \in Nat, m <= n, Settled(n)
  PROVE  Settled(m)
  <1>1. \A i \in DOMAIN reducerQueue : reducerQueue[i].number \in Nat
    BY MessageElements
  <1> QED
    BY <1>1 DEF Settled, ClientTypeOK

(* A message joins the reducer's queue, one is taken, or none moves.        *)
LEMMA MessageSteps ==
  ASSUME TypeOK, Next
  PROVE  \/ /\ UNCHANGED reducerQueue
            /\ number' \in {number, number + 1}
         \/ \E m \in Messages :
              /\ Reader
              /\ reducerQueue' = Append(reducerQueue, m)
              /\ number' = number + 1 /\ m.number = number' /\ m.id = connection
              /\ m.layout \subseteq told /\ UNCHANGED <<connection, told>>
         \/ /\ reducerQueue # <<>> /\ reducerQueue' = Tail(reducerQueue)
            /\ UNCHANGED <<number, connection, told>>
  <1>0. ClientTypeOK /\ ReducerTypeOK
    BY TypeParts
  <1>1. CASE Reader
    <2>1. CASE ReceiveSpawn \/ ReceiveResize \/ ReceiveSync \/ ReceiveRemove
      <3>1. PICK kind \in MessageKinds, ptys \in SUBSET told, layout \in SUBSET told :
              ToReducer(kind, ptys, layout)
        BY <1>0, <2>1, ToReducerCases
      <3> DEFINE m == Message(kind, connection, ptys, layout, number')
      <3>2. /\ number' = number + 1 /\ m \in Messages /\ UNCHANGED <<connection, told>>
            /\ reducerQueue' = Append(reducerQueue, m)
        BY <3>1, <1>0, ToReducerType
      <3>3. m.number = number' /\ m.id = connection /\ m.layout = layout
        BY DEF Message
      <3> QED
        BY <1>1, <3>2, <3>3
    <2>2. CASE ~(ReceiveSpawn \/ ReceiveResize \/ ReceiveSync \/ ReceiveRemove)
      BY <1>1, <2>2 DEF Reader, Attach, HandleConnected, CloseForTakeover, Teardown,
         HandleDisconnected, ReceiveTerminate, ReceiveInput, EnqueueInput, connectionUnchanged,
         reducerVars
    <2> QED
      BY <2>1, <2>2
  <1>2. CASE Reducer
    BY <1>2, ReducerFrame DEF clientVars, Reducer, ReduceResize, HandleFlush_ResizeOnly, ReduceSync,
       ReduceOther, SendFlush, SubmitFlush, Take
  <1>3. CASE Workers \/ Coordinator
    BY <1>3, WorkersFrame, CoordinatorFrame DEF clientVars, reducerVars
  <1> QED
    BY <1>1, <1>2, <1>3 DEF Next

(* Ids of connections never go back.                                        *)
LEMMA ConnectionStep ==
  ASSUME TypeOK, Next
  PROVE  connection' \in Nat /\ connection <= connection'
  <1>0. ClientTypeOK
    BY TypeParts
  <1>1. connection' \in {connection, connection + 1}
    <2>1. CASE Reader
      BY <2>1 DEF Reader, Attach, HandleConnected, CloseForTakeover, Teardown,
         HandleDisconnected, ReceiveSpawn, ReceiveResize, ReceiveSync, ReceiveRemove, ToReducer,
         ReceiveTerminate, ReceiveInput, EnqueueInput, Receiving
    <2>2. CASE Reducer \/ Workers \/ Coordinator
      BY <2>2, ReducerFrame, WorkersFrame, CoordinatorFrame DEF clientVars
    <2> QED
      BY <2>1, <2>2 DEF Next
  <1> QED
    BY <1>0, <1>1 DEF ClientTypeOK

(* What is settled stays so, and messages wait in the order of their        *)
(* numbers.                                                                 *)
LEMMA SettledStep ==
  ASSUME TypeOK, ReducerInv, Next
  PROVE  /\ number <= number'
         /\ \A n \in Nat : Settled(n) => Settled(n)'
         /\ (\A i \in DOMAIN reducerQueue :
               reducerQueue[i].id <= connection /\ reducerQueue[i].number <= number)'
         /\ (\A i, j \in DOMAIN reducerQueue : i < j => reducerQueue[i].number < reducerQueue[j].number)'
  <1>0. ClientTypeOK /\ ReducerTypeOK
    BY TypeParts
  <1>a. /\ number \in Nat /\ connection \in Nat
        /\ connection' \in Nat /\ connection <= connection'
    BY <1>0, ConnectionStep DEF ClientTypeOK
  <1>b. /\ Len(reducerQueue) \in Nat /\ DOMAIN reducerQueue = 1 .. Len(reducerQueue)
        /\ \A i \in DOMAIN reducerQueue : reducerQueue[i].number \in Nat /\ reducerQueue[i].id \in Nat
    BY <1>0, MessageElements
  <1>c. /\ \A i \in DOMAIN reducerQueue :
             reducerQueue[i].id <= connection /\ reducerQueue[i].number <= number
        /\ \A i, j \in DOMAIN reducerQueue : i < j => reducerQueue[i].number < reducerQueue[j].number
    BY DEF ReducerInv
  <1>1. CASE UNCHANGED reducerQueue /\ number' \in {number, number + 1}
    BY <1>1, <1>a, <1>b, <1>c DEF Settled
  <1>2. CASE \E m \in Messages :
               /\ reducerQueue' = Append(reducerQueue, m)
               /\ number' = number + 1 /\ m.number = number' /\ m.id = connection
    <2>1. PICK m \in Messages :
               /\ reducerQueue' = Append(reducerQueue, m)
               /\ number' = number + 1 /\ m.number = number' /\ m.id = connection
      BY <1>2
    <2>2. /\ DOMAIN reducerQueue' = 1 .. Len(reducerQueue) + 1
          /\ \A i \in 1 .. Len(reducerQueue) : reducerQueue'[i] = reducerQueue[i]
          /\ reducerQueue'[Len(reducerQueue) + 1] = m
      <3>1. reducerQueue \in Seq(Messages)
        BY <1>0 DEF ReducerTypeOK
      <3>2. /\ reducerQueue' \in Seq(Messages) /\ Len(reducerQueue') = Len(reducerQueue) + 1
            /\ \A i \in 1 .. Len(reducerQueue) : reducerQueue'[i] = reducerQueue[i]
            /\ reducerQueue'[Len(reducerQueue) + 1] = m
        BY <3>1, <2>1, AppendFacts
      <3> QED
        BY <3>2
    <2>3. \A i \in DOMAIN reducerQueue' :
            \/ i \in DOMAIN reducerQueue /\ reducerQueue'[i] = reducerQueue[i]
            \/ i = Len(reducerQueue) + 1 /\ reducerQueue'[i] = m
      BY <1>b, <2>2
    <2>4. number <= number' /\ \A n \in Nat : Settled(n) => Settled(n)'
      BY <1>a, <2>1, <2>3 DEF Settled
    <2>5. \A i \in DOMAIN reducerQueue' :
            reducerQueue'[i].id <= connection' /\ reducerQueue'[i].number <= number'
      BY <1>a, <1>b, <1>c, <2>1, <2>3
    <2>6. \A i, j \in DOMAIN reducerQueue' : i < j => reducerQueue'[i].number < reducerQueue'[j].number
      <3> SUFFICES ASSUME NEW i \in DOMAIN reducerQueue', NEW j \in DOMAIN reducerQueue', i < j
                   PROVE  reducerQueue'[i].number < reducerQueue'[j].number
        OBVIOUS
      <3>1. i \in DOMAIN reducerQueue /\ reducerQueue'[i] = reducerQueue[i]
        BY <1>b, <2>2
      <3> QED
        BY <3>1, <2>1, <2>3, <1>a, <1>b, <1>c
    <2> QED
      BY <2>4, <2>5, <2>6
  <1>3. CASE reducerQueue # <<>> /\ reducerQueue' = Tail(reducerQueue) /\ UNCHANGED number
    <2>1. /\ Len(reducerQueue) >= 1
          /\ DOMAIN reducerQueue' = 1 .. Len(reducerQueue) - 1
          /\ \A i \in DOMAIN reducerQueue' : /\ i \in Int /\ i + 1 \in DOMAIN reducerQueue
                                             /\ reducerQueue'[i] = reducerQueue[i + 1]
      BY <1>0, <1>b, <1>3, TailFacts DEF ReducerTypeOK
    <2>2. \A n \in Nat : Settled(n) => Settled(n)'
      BY <1>3, <2>1 DEF Settled
    <2>3. \A i \in DOMAIN reducerQueue' :
            reducerQueue'[i].id <= connection' /\ reducerQueue'[i].number <= number'
      BY <1>3, <1>a, <1>b, <1>c, <2>1
    <2>4. \A i, j \in DOMAIN reducerQueue' : i < j => reducerQueue'[i].number < reducerQueue'[j].number
      <3> SUFFICES ASSUME NEW i \in DOMAIN reducerQueue', NEW j \in DOMAIN reducerQueue', i < j
                   PROVE  reducerQueue'[i].number < reducerQueue'[j].number
        OBVIOUS
      <3>1. i + 1 < j + 1
        BY <2>1
      <3> QED
        BY <3>1, <2>1, <1>c
    <2> QED
      BY <1>3, <1>a, <2>2, <2>3, <2>4
  <1> QED
    BY <1>1, <1>2, <1>3, MessageSteps

(* The message taken is older than those that stay.                         *)
LEMMA TakeSettles ==
  ASSUME ClientTypeOK, ReducerTypeOK, ReducerInv, UNCHANGED number, NEW kind, Take(kind),
         NEW n \in Nat, n = Head(reducerQueue).number
  PROVE  Settled(n)' /\ \A m \in Nat : Settled(m) => m < n
  <1>1. /\ Len(reducerQueue) \in Nat /\ Len(reducerQueue) >= 1 /\ 1 \in DOMAIN reducerQueue
        /\ n = reducerQueue[1].number /\ n <= number
        /\ DOMAIN reducerQueue' = 1 .. Len(reducerQueue) - 1
        /\ \A i \in DOMAIN reducerQueue' : /\ i + 1 \in DOMAIN reducerQueue /\ 1 < i + 1
                                           /\ reducerQueue'[i] = reducerQueue[i + 1]
    BY TailFacts DEF ReducerTypeOK, Take, ReducerInv
  <1>2. \A i \in DOMAIN reducerQueue' : n < reducerQueue'[i].number
    BY <1>1 DEF ReducerInv
  <1> QED
    BY <1>1, <1>2 DEF Settled

(* A step keeps ReducerInv.                                                 *)
LEMMA ReducerStep ==
  ASSUME TypeOK, ReducerInv, Next
  PROVE  ReducerInv'
  <1>0. ClientTypeOK /\ ReducerTypeOK
    BY TypeParts
  <1>a. /\ reducer.message.number \in Nat /\ reducer.message.id \in Nat
        /\ connection \in Nat /\ connection' \in Nat /\ connection <= connection'
    BY <1>0, ConnectionStep DEF ClientTypeOK, ReducerTypeOK, Messages
  <1>b. /\ Settled(0)' /\ Settled(reducer.message.number)
        /\ \A n \in Nat : n = reducer.message.number => Settled(n)'
        /\ reducer.message.id <= connection'
    <2>1. Settled(0)
      BY <1>0, <1>a, SettledBelow DEF ReducerInv
    <2> QED
      BY <2>1, <1>a, SettledStep DEF ReducerInv
  <1>c. SUFFICES
          (/\ reducer.message.id <= connection /\ Settled(reducer.message.number)
           /\ reducer.at # "Select" => reducer.message.kind \in {"SyncPty", "SpawnPty", "RemovePty"}
           /\ reducer.at # "Select" /\ reducer.message.kind = "SyncPty" => tentative = NoUpdates
           /\ reducer.at = "Select" \/ reducer.message.kind # "SyncPty" => reducer.submission = NoOrders)'
    BY SettledStep DEF ReducerInv
  <1>1. CASE UNCHANGED <<reducer, tentative>>
    BY <1>1, <1>a, <1>b DEF ReducerInv
  <1>2. CASE Reducer
    <2>0. UNCHANGED <<number, connection>>
      BY <1>2, ReducerFrame DEF clientVars
    <2>i. CASE reducer' = IdleReducer
      BY <2>i, <1>a, <1>b, IdleReducerType
    <2>1. CASE ReduceResize \/ HandleFlush_ResizeOnly
      <3>1. reducer.at = "Select" /\ UNCHANGED reducer
        BY <2>1 DEF ReduceResize, HandleFlush_ResizeOnly, Take
      <3> QED
        BY <3>1, <1>a, <1>b DEF ReducerInv
    <2>2. CASE ReduceSync
      <3>1. /\ Take("SyncPty") /\ tentative' = NoUpdates
            /\ reducer' = [at |-> "Send", message |-> Head(reducerQueue),
                           submission |-> SyncSubmission(Head(reducerQueue))]
        BY <2>2 DEF ReduceSync
      <3>2. /\ Head(reducerQueue).kind = "SyncPty" /\ Head(reducerQueue).number \in Nat
            /\ Head(reducerQueue).id <= connection
        BY <3>1, <1>0, TakeType DEF ReducerInv
      <3>3. \A n \in Nat : n = Head(reducerQueue).number => Settled(n)'
        BY <3>1, <2>0, <1>0, TakeSettles
      <3> QED
        BY <3>1, <3>2, <3>3, <2>0, <1>a
    <2>3. CASE ReduceOther
      <3>1. /\ Take("SpawnPty") \/ Take("RemovePty")
            /\ reducer' = [at |-> "Send", message |-> Head(reducerQueue), submission |-> NoOrders]
        BY <2>3 DEF ReduceOther
      <3>2. /\ Head(reducerQueue).kind \in {"SpawnPty", "RemovePty"} /\ Head(reducerQueue).number \in Nat
            /\ Head(reducerQueue).id <= connection
        BY <3>1, <1>0, TakeType DEF ReducerInv
      <3>3. \A n \in Nat : n = Head(reducerQueue).number => Settled(n)'
        BY <3>1, <2>0, <1>0, TakeSettles
      <3> QED
        BY <3>1, <3>2, <3>3, <2>0, <1>a
    <2>4. CASE SendFlush
      <3>1. reducer.at = "Send" /\ UNCHANGED tentative
            /\ reducer' \in {IdleReducer, [reducer EXCEPT !.at = "Submit"]}
        BY <2>4, Zenon DEF SendFlush
      <3>2. CASE reducer' = [reducer EXCEPT !.at = "Submit"]
        <4>1. /\ reducer'.at = "Submit" /\ reducer'.message = reducer.message
              /\ reducer'.submission = reducer.submission
          BY <3>2, <1>0 DEF ReducerTypeOK
        <4> QED
          BY <4>1, <3>1, <1>a, <1>b DEF ReducerInv
      <3> QED
        BY <3>1, <3>2, <2>i
    <2>5. CASE SubmitFlush
      BY <2>5, <2>i DEF SubmitFlush
    <2> QED
      BY <1>2, <2>1, <2>2, <2>3, <2>4, <2>5 DEF Reducer
  <1>3. CASE Reader \/ Workers \/ Coordinator
    BY <1>1, <1>3, ReaderFrame, WorkersFrame, CoordinatorFrame DEF reducerVars
  <1> QED
    BY <1>2, <1>3 DEF Next

-----------------------------------------------------------------------------
(* What one step does to one PTY.                                          *)

Stays(q) ==
  UNCHANGED <<state[q], canceled[q], frames[q], session[q], canceledWorkers[q]>>

IsBorn(q) ==
  /\ q = idNext /\ idNext' = idNext + 1 /\ state[q] = "Unborn"
  /\ state'[q] = "Spawning" /\ session'[q] = "spawning"
  /\ frames'[q] = Append(frames[q], "SPAWNING")
  /\ UNCHANGED <<canceled[q], canceledWorkers[q]>>

IsTerminated(q) ==
  /\ state[q] = "Spawning" /\ canceled'[q]
  /\ UNCHANGED <<state[q], frames[q], session[q], canceledWorkers[q]>>

Fails(q) ==
  /\ state[q] = "Spawning" /\ session[q] = "none"
  /\ state'[q] = "Gone"
  /\ frames'[q] = Append(frames[q], IF canceled[q] THEN "CANCELED" ELSE "FAILURE")
  /\ canceledWorkers'[q] = canceledWorkers[q] \cup {"resizer"}
  /\ UNCHANGED <<canceled[q], session[q]>>

IsCanceled(q) ==
  /\ state[q] = "Spawning" /\ session[q] = "quiescent" /\ canceled[q]
  /\ state'[q] = "Gone" /\ session'[q] = "canceled"
  /\ frames'[q] = Append(frames[q], "CANCELED")
  /\ canceledWorkers'[q] = canceledWorkers[q] \cup {"resizer"}
  /\ UNCHANGED canceled[q]

IsActivated(q) ==
  /\ state[q] = "Spawning" /\ session[q] = "quiescent" /\ ~canceled[q]
  /\ state'[q] = "Active"
  /\ UNCHANGED <<canceled[q], frames[q], session[q], canceledWorkers[q]>>

IsAnnounced(q) ==
  /\ state[q] = "Active" /\ session[q] = "quiescent"
  /\ session'[q] = "streaming"
  /\ frames'[q] = Append(frames[q], "SUCCESS")
  /\ UNCHANGED <<state[q], canceled[q], canceledWorkers[q]>>

(* The two halves of HandleExit_PtyProxy.                                   *)
StopsWriting(q) ==
  /\ state[q] = "Active" /\ session[q] = "ended"
  /\ canceledWorkers'[q] = canceledWorkers[q] \cup {"writer"}
  /\ UNCHANGED <<state[q], canceled[q], frames[q], session[q]>>

Exits(q) ==
  /\ state[q] = "Active" /\ session[q] = "ended" /\ "writer" \in canceledWorkers[q]
  /\ state'[q] = "Exited"
  /\ frames'[q] = Append(frames[q], "EXIT")
  /\ UNCHANGED <<canceled[q], session[q], canceledWorkers[q]>>

IsRemoved(q) ==
  /\ state[q] = "Exited"
  /\ state'[q] = "Gone"
  /\ canceledWorkers'[q] = canceledWorkers[q] \cup {"resizer"}
  /\ UNCHANGED <<canceled[q], frames[q], session[q]>>

IsReported(q) ==
  /\ session[q] = "spawning" /\ session'[q] \in {"quiescent", "none"}
  /\ UNCHANGED <<state[q], canceled[q], frames[q], canceledWorkers[q]>>

Ends(q) ==
  /\ session[q] \in {"streaming", "canceled"} /\ session'[q] = "ended"
  /\ UNCHANGED <<state[q], canceled[q], frames[q], canceledWorkers[q]>>

Lives(q) ==
  \/ Stays(q) \/ IsBorn(q) \/ IsTerminated(q) \/ Fails(q) \/ IsCanceled(q) \/ IsActivated(q)
  \/ IsAnnounced(q) \/ StopsWriting(q) \/ Exits(q) \/ IsRemoved(q) \/ IsReported(q) \/ Ends(q)

(* The order a handler is at says what its PTY is like.                     *)
LEMMA HeadFits ==
  ASSUME QueueTypeOK, CoordinatorTypeOK, OrderInv, handler # "Announce",
         NEW k \in Kinds, group[k] # <<>>
  PROVE  Head(group[k]).kind = k /\ Fits(Head(group[k]))
  <1>1. 1 \in DOMAIN group[k] /\ Head(group[k]) = group[k][1]
    BY OrderElements
  <1>2. ~Announced(k, 1)
    BY DEF Announced
  <1> QED
    BY <1>1, <1>2 DEF OrderInv

(* Those of the handlers that act on what it says.                          *)
LEMMA ExitFits ==
  ASSUME QueueTypeOK, CoordinatorTypeOK, OrderInv, handler # "Announce", group["ExitPty"] # <<>>
  PROVE  \E p \in Ptys : /\ Head(group["ExitPty"]).ptys = {p}
                         /\ state[p] = "Active" /\ session[p] = "ended"
  <1>1. "ExitPty" \in Kinds
    BY DEF Kinds
  <1> QED
    BY <1>1, HeadFits DEF Fits

(* The verdict about to be handled is about a PTY that is still Spawning.   *)
LEMMA VerdictFits ==
  ASSUME QueueTypeOK, CoordinatorTypeOK, OrderInv, handler # "Announce",
         group["Status_SpawnPty"] # <<>>
  PROVE  \E p \in Ptys :
           /\ Head(group["Status_SpawnPty"]).ptys = {p} /\ state[p] = "Spawning"
           /\ session[p] = IF Head(group["Status_SpawnPty"]).success THEN "quiescent" ELSE "none"
  <1>1. "Status_SpawnPty" \in Kinds
    BY DEF Kinds
  <1> QED
    BY <1>1, HeadFits DEF Fits

(* Every handler takes its valid path, and every PTY takes a step of its    *)
(* life or none.                                                            *)
LEMMA LifeSteps ==
  ASSUME TypeOK, BirthInv, OrderInv, HandlerInv, Next
  PROVE  (\A q \in Ptys : Lives(q)) /\ ~panicked'
  <1>0. ClientTypeOK /\ QueueTypeOK /\ CoordinatorTypeOK /\ PtyTypeOK /\ WorkerTypeOK
    BY TypeParts
  <1>f. /\ state \in [Ptys -> States] /\ canceled \in [Ptys -> BOOLEAN]
        /\ session \in [Ptys -> Sessions]
        /\ canceledWorkers \in [Ptys -> SUBSET {"resizer", "writer"}]
        /\ frames \in [Ptys -> Seq(FrameTypes)]
    BY <1>0 DEF PtyTypeOK, WorkerTypeOK, States, Sessions, FrameTypes
  <1>p. ~panicked
    BY DEF Next
  <1>s. ASSUME UNCHANGED <<ptyVars, session, canceledWorkers>>
        PROVE  \A q \in Ptys : Lives(q)
    BY <1>s DEF ptyVars, Lives, Stays
  <1>1. CASE Reader
    <2>1. ~panicked'
      <3>1. CASE ReceiveInput
        <4>1. PICK p \in started : panicked' = (state[p] = "Spawning")
          BY <3>1 DEF ReceiveInput
        <4>2. p \in Ptys /\ state[p] # "Spawning"
          BY <4>1, <1>0 DEF BirthInv, ClientTypeOK
        <4> QED
          BY <4>1, <4>2
      <3>2. CASE ReceiveSpawn \/ ReceiveResize \/ ReceiveSync \/ ReceiveRemove
        BY <3>2, <1>p DEF ReceiveSpawn, ReceiveResize, ReceiveSync, ReceiveRemove, ToReducer
      <3>3. CASE Attach             BY <3>3, <1>p DEF Attach, connectionUnchanged
      <3>4. CASE HandleConnected    BY <3>4, <1>p DEF HandleConnected, connectionUnchanged
      <3>5. CASE CloseForTakeover   BY <3>5, <1>p DEF CloseForTakeover, connectionUnchanged
      <3>6. CASE Teardown           BY <3>6, <1>p, Zenon DEF Teardown, connectionUnchanged
      <3>7. CASE HandleDisconnected BY <3>7, <1>p, Zenon DEF HandleDisconnected, connectionUnchanged
      <3>8. CASE ReceiveTerminate   BY <3>8, <1>p DEF ReceiveTerminate, connectionUnchanged
      <3>9. CASE EnqueueInput       BY <3>9, <1>p DEF EnqueueInput
      <3> QED
        BY <1>1, <3>1, <3>2, <3>3, <3>4, <3>5, <3>6, <3>7, <3>8, <3>9 DEF Reader
    <2> QED
      BY <2>1, <1>1, <1>s, ReaderFrame
  <1>2. CASE Reducer
    BY <1>2, <1>s, <1>p, ReducerFrame
  <1>3. CASE Workers
    <2>1. UNCHANGED <<ptyVars, canceledWorkers, panicked>>
      BY <1>3, WorkersFrame
    <2>2. PICK p \in Ptys : \/ UNCHANGED session
                            \/ SpawnReported(p) \/ SessionEnds(p)
      BY <1>3 DEF Workers, RunResizer, SendEmitSnapshot, RunWriter
    <2>3. CASE SpawnReported(p)
      <3>1. PICK success \in BOOLEAN :
              session' = [session EXCEPT ![p] = IF success THEN "quiescent" ELSE "none"]
        BY <2>3 DEF SpawnReported
      <3>2. session[p] = "spawning"
        BY <2>3 DEF SpawnReported
      <3>3. session'[p] \in {"quiescent", "none"} /\ \A q \in Ptys : q # p => session'[q] = session[q]
        BY <1>f, <3>1
      <3> QED
        BY <2>1, <3>2, <3>3, <1>p DEF ptyVars, Lives, Stays, IsReported
    <2>4. CASE SessionEnds(p)
      <3>1. session[p] \in {"streaming", "canceled"} /\ session' = [session EXCEPT ![p] = "ended"]
        BY <2>4 DEF SessionEnds
      <3>2. session'[p] = "ended" /\ \A q \in Ptys : q # p => session'[q] = session[q]
        BY <1>f, <3>1
      <3> QED
        BY <2>1, <3>1, <3>2, <1>p DEF ptyVars, Lives, Stays, Ends
    <2> QED
      BY <2>1, <2>2, <2>3, <2>4, <1>s, <1>p
  <1>4. CASE Coordinator
    <2>1. CASE ReceiveLeading \/ DrainAndApply \/ Execute
      BY <2>1, <1>s, <1>p DEF ReceiveLeading, DrainAndApply, Execute, Group
    <2>2. CASE HandleExit
      <3>1. PICK p \in Ptys : /\ Head(group["ExitPty"]).ptys = {p}
                              /\ state[p] = "Active" /\ session[p] = "ended"
        BY <2>2, <1>0, ExitFits DEF HandleExit, Turn
      <3>2. /\ canceledWorkers' = [canceledWorkers EXCEPT ![p] = @ \cup {"writer"}]
            /\ UNCHANGED <<ptyVars, session, panicked>>
        BY <2>2, <3>1 DEF HandleExit
      <3>3. /\ canceledWorkers'[p] = canceledWorkers[p] \cup {"writer"}
            /\ \A q \in Ptys : q # p => canceledWorkers'[q] = canceledWorkers[q]
        BY <3>2, <1>f
      <3> QED
        BY <3>1, <3>2, <3>3, <1>p DEF ptyVars, Lives, Stays, StopsWriting
    <2>3. CASE SetExited
      <3>1. PICK p \in Ptys : /\ Head(group["ExitPty"]).ptys = {p}
                              /\ state[p] = "Active" /\ session[p] = "ended"
        BY <2>3, <1>0, ExitFits DEF SetExited, HandlerInv
      <3>2. "writer" \in canceledWorkers[p]
        BY <2>3, <3>1 DEF SetExited, HandlerInv
      <3>3. /\ state' = [state EXCEPT ![p] = "Exited"] /\ Emit(p, "EXIT")
            /\ UNCHANGED <<canceled, session, canceledWorkers, panicked>>
        BY <2>3, <3>1 DEF SetExited
      <3>4. /\ state'[p] = "Exited" /\ frames'[p] = Append(frames[p], "EXIT")
            /\ \A q \in Ptys : q # p => state'[q] = state[q] /\ frames'[q] = frames[q]
        BY <3>3, <1>f, <1>0, EmitType DEF FrameTypes
      <3> QED
        BY <3>1, <3>2, <3>3, <3>4, <1>p DEF Lives, Stays, Exits
    <2>4. CASE HandleTerminate
      <3>1. /\ UNCHANGED <<state, frames, session, canceledWorkers, panicked>>
            /\ \A q \in Ptys : canceled'[q] = (canceled[q] \/ (q \in Head(group.TerminatePty).ptys /\ state[q] = "Spawning"))
        BY <2>4 DEF HandleTerminate
      <3>2. \A q \in Ptys : canceled'[q] = canceled[q] \/ (state[q] = "Spawning" /\ canceled'[q])
        BY <3>1, <1>f, Zenon
      <3> QED
        BY <3>1, <3>2, <1>p DEF Lives, Stays, IsTerminated
    <2>5. CASE HandleRemove
      <3>1. \A q \in Ptys :
              \/ UNCHANGED <<state[q], canceledWorkers[q]>>
              \/ /\ state[q] = "Exited" /\ state'[q] = "Gone"
                 /\ canceledWorkers'[q] = canceledWorkers[q] \cup {"resizer"}
        BY <2>5 DEF HandleRemove
      <3>2. UNCHANGED <<canceled, frames, session, panicked>>
        BY <2>5 DEF HandleRemove
      <3> QED
        BY <3>1, <3>2, <1>p DEF Lives, Stays, IsRemoved
    <2>6. CASE HandleSpawn
      <3>1. idNext \in Ptys /\ state[idNext] = "Unborn"
        BY <2>6, <1>0, PtysFacts DEF HandleSpawn, BirthInv, CoordinatorTypeOK
      <3>2. /\ state' = [state EXCEPT ![idNext] = "Spawning"] /\ Emit(idNext, "SPAWNING")
            /\ session' = [session EXCEPT ![idNext] = "spawning"] /\ idNext' = idNext + 1
            /\ UNCHANGED <<canceled, canceledWorkers, panicked>>
        BY <2>6 DEF HandleSpawn
      <3>3. /\ state'[idNext] = "Spawning" /\ frames'[idNext] = Append(frames[idNext], "SPAWNING")
            /\ session'[idNext] = "spawning"
            /\ \A q \in Ptys : q # idNext => /\ state'[q] = state[q] /\ frames'[q] = frames[q]
                                             /\ session'[q] = session[q]
        BY <3>1, <3>2, <1>f, <1>0, EmitType DEF FrameTypes
      <3> QED
        BY <3>1, <3>2, <3>3, <1>p DEF Lives, Stays, IsBorn
    <2>7. CASE HandleFailure
      <3>1. PICK p \in Ptys :
              /\ Head(group["Status_SpawnPty"]).ptys = {p}
              /\ state[p] = "Spawning" /\ session[p] = "none"
        BY <2>7, <1>0, VerdictFits DEF HandleFailure, Turn
      <3>2. /\ state' = [state EXCEPT ![p] = "Gone"]
            /\ Emit(p, IF canceled[p] THEN "CANCELED" ELSE "FAILURE")
            /\ canceledWorkers' = [canceledWorkers EXCEPT ![p] = @ \cup {"resizer"}]
            /\ UNCHANGED <<canceled, session, panicked>>
        BY <2>7, <3>1 DEF HandleFailure
      <3>3. (IF canceled[p] THEN "CANCELED" ELSE "FAILURE") \in FrameTypes
        BY DEF FrameTypes
      <3>4. /\ state'[p] = "Gone"
            /\ frames'[p] = Append(frames[p], IF canceled[p] THEN "CANCELED" ELSE "FAILURE")
            /\ canceledWorkers'[p] = canceledWorkers[p] \cup {"resizer"}
            /\ \A q \in Ptys : q # p => /\ state'[q] = state[q] /\ frames'[q] = frames[q]
                                        /\ canceledWorkers'[q] = canceledWorkers[q]
        BY <3>2, <3>3, <1>f, <1>0, EmitType
      <3> QED
        BY <3>1, <3>2, <3>4, <1>p DEF Lives, Stays, Fails
    <2>8. CASE HandleSuccess
      <3>1. PICK p \in Head(group["Status_SpawnPty"]).ptys :
              \/ state[p] = "Spawning" /\ canceled[p] /\ CancelSpawned(p)
              \/ state[p] = "Spawning" /\ ~canceled[p] /\ Activate(p)
              \/ state[p] # "Spawning"
        BY <2>8, Zenon DEF HandleSuccess
      <3>2. p \in Ptys /\ state[p] = "Spawning" /\ session[p] = "quiescent" /\ UNCHANGED canceled
        BY <2>8, <1>0, VerdictFits DEF HandleSuccess, Turn
      <3>3. CASE canceled[p] /\ CancelSpawned(p)
        <4>1. /\ state' = [state EXCEPT ![p] = "Gone"] /\ Emit(p, "CANCELED")
              /\ session' = [session EXCEPT ![p] = "canceled"] /\ UNCHANGED panicked
              /\ canceledWorkers' = [canceledWorkers EXCEPT ![p] = @ \cup {"resizer"}]
          BY <3>3 DEF CancelSpawned
        <4>2. /\ state'[p] = "Gone" /\ frames'[p] = Append(frames[p], "CANCELED")
              /\ canceledWorkers'[p] = canceledWorkers[p] \cup {"resizer"} /\ session'[p] = "canceled"
              /\ \A q \in Ptys : q # p => /\ state'[q] = state[q] /\ frames'[q] = frames[q]
                                          /\ canceledWorkers'[q] = canceledWorkers[q]
                                          /\ session'[q] = session[q]
          BY <3>2, <4>1, <1>f, <1>0, EmitType DEF FrameTypes
        <4> QED
          BY <3>2, <3>3, <4>1, <4>2, <1>p DEF Lives, Stays, IsCanceled
      <3>4. CASE ~canceled[p] /\ Activate(p)
        <4>1. state'[p] = "Active" /\ \A q \in Ptys : q # p => state'[q] = state[q]
          BY <3>2, <3>4, <1>f DEF Activate
        <4>2. UNCHANGED <<frames, session, canceledWorkers, panicked>>
          BY <3>4 DEF Activate
        <4> QED
          BY <3>2, <3>4, <4>1, <4>2, <1>p DEF Lives, Stays, IsActivated
      <3> QED
        BY <3>1, <3>2, <3>3, <3>4
    <2>9. CASE Announce
      <3>1. PICK p \in Ptys :
              /\ Head(group["Status_SpawnPty"]).ptys = {p}
              /\ state[p] = "Active" /\ session[p] = "quiescent"
        BY <2>9 DEF Announce, HandlerInv
      <3>2. /\ Emit(p, "SUCCESS") /\ session' = [session EXCEPT ![p] = "streaming"]
            /\ UNCHANGED <<state, canceled, canceledWorkers, panicked>>
        BY <2>9, <3>1 DEF Announce
      <3>3. /\ frames'[p] = Append(frames[p], "SUCCESS") /\ session'[p] = "streaming"
            /\ \A q \in Ptys : q # p => frames'[q] = frames[q] /\ session'[q] = session[q]
        BY <3>2, <1>f, <1>0, EmitType DEF FrameTypes
      <3> QED
        BY <3>1, <3>2, <3>3, <1>p DEF Lives, Stays, IsAnnounced
    <2>10. CASE HandleDisconnect \/ HandleConnect \/ HandleSync \/ HandleEmitSnapshot
      <3>1. UNCHANGED <<state, canceled, frames, session, canceledWorkers, panicked>>
        BY <2>10 DEF HandleDisconnect, HandleConnect, HandleSync, HandleEmitSnapshot, ptyVars
      <3> QED
        BY <3>1, <1>p DEF Lives, Stays
    <2> QED
      BY <1>4, <2>1, <2>2, <2>3, <2>4, <2>5, <2>6, <2>7, <2>8, <2>9, <2>10 DEF Coordinator
  <1> QED
    BY <1>1, <1>2, <1>3, <1>4 DEF Next

-----------------------------------------------------------------------------
(* What one step does to the sizes on their way to one PTY.                *)

Submission(p) == reducer.submission[p]

SizeStays(p) ==
  UNCHANGED <<tentative[p], Submission(p), resizerQueue[p], size[p]>>

(* A message is taken: its number is the newest size.                       *)
SizeTaken(p) ==
  LET m == Head(reducerQueue)
  IN /\ \E kind \in MessageKinds : Take(kind)
     /\ \/ tentative'[p] \in {tentative[p], 0}
        \/ p \in m.layout /\ tentative'[p] = m.number
     /\ \/ Submission(p)' \in {Submission(p), Resize(0, 0)}
        \/ /\ p \in m.layout
           /\ Submission(p)' \in ResizeOrders /\ Submission(p)'.size = m.number
     /\ UNCHANGED <<resizerQueue[p], size[p], number>>

(* A flush hands a size to the resizer, or drops it.                        *)
SizeSubmitted(p) ==
  /\ tentative'[p] \in {tentative[p], 0}
  /\ Submission(p)' \in {Submission(p), Resize(0, 0)}
  /\ \/ UNCHANGED resizerQueue[p]
     \/ /\ tentative'[p] = 0 /\ Submission(p)' = Resize(0, 0)
        /\ \E o \in ResizeOrders :
             /\ resizerQueue'[p] = Append(resizerQueue[p], o)
             /\ (o = Submission(p) /\ o # Resize(0, 0)) \/ (o.size = tentative[p] /\ o.size # 0)
  /\ UNCHANGED size[p]

SizeApplied(p) ==
  /\ resizerQueue[p] # <<>> /\ resizerQueue'[p] = <<>>
  /\ size'[p] = resizerQueue[p][Len(resizerQueue[p])].size
  /\ UNCHANGED <<tentative[p], Submission(p)>>

SizeStarts(p) ==
  /\ p = idNext /\ state'[p] = "Spawning"
  /\ size'[p] \in Nat /\ Settled(size'[p]) /\ UNCHANGED <<number, reducerQueue>>
  /\ UNCHANGED <<tentative[p], Submission(p), resizerQueue[p]>>

Sizes(p) ==
  SizeStays(p) \/ SizeTaken(p) \/ SizeSubmitted(p) \/ SizeApplied(p) \/ SizeStarts(p)

(* Every step does to the sizes of a PTY one of the things Sizes names.     *)
LEMMA SizeSteps ==
  ASSUME TypeOK, BirthInv, OrderInv, ReducerInv, Next
  PROVE  \A p \in Ptys : Sizes(p)
  <1>0. ClientTypeOK /\ ReducerTypeOK /\ QueueTypeOK /\ CoordinatorTypeOK /\ PtyTypeOK /\ WorkerTypeOK
    BY TypeParts
  <1>f. /\ tentative \in [Ptys -> Nat] /\ reducer.submission \in [Ptys -> ResizeOrders]
        /\ size \in [Ptys -> Nat] /\ resizerQueue \in [Ptys -> Seq(ResizeOrders)]
    BY <1>0 DEF ReducerTypeOK, WorkerTypeOK, ResizeOrders
  <1>s. ASSUME UNCHANGED <<reducer, tentative, resizerQueue, size>>
        PROVE  \A p \in Ptys : Sizes(p)
    BY <1>s DEF Sizes, SizeStays, Submission
  <1>1. CASE Reader
    BY <1>1, <1>s, ReaderFrame DEF resizerVars
  <1>2. CASE Reducer
    <2>0. UNCHANGED <<number, size>>
      BY <1>2, ReducerFrame DEF clientVars
    <2>m. ASSUME NEW kind, Take(kind)
          PROVE  Head(reducerQueue) \in Messages /\ Head(reducerQueue).number \in Nat
                 /\ Head(reducerQueue).layout \subseteq Ptys
      BY <2>m, <1>0, TakeType
    <2>1. CASE ReduceResize
      <3>1. /\ Take("ResizePty") /\ UNCHANGED <<reducer, resizerQueue>>
            /\ tentative' = Coalesce(tentative, Head(reducerQueue).layout, Head(reducerQueue).number)
        BY <2>1 DEF ReduceResize
      <3>2. \A p \in Ptys : \/ tentative'[p] = tentative[p]
                            \/ /\ p \in Head(reducerQueue).layout
                               /\ tentative'[p] = Head(reducerQueue).number
        BY <3>1 DEF Coalesce
      <3> QED
        BY <2>0, <3>1, <3>2 DEF Sizes, SizeTaken, Submission, MessageKinds
    <2>2. CASE HandleFlush_ResizeOnly
      <3>1. SubmitAll(VisibleOrders(tentative)) /\ tentative' = NoUpdates /\ UNCHANGED reducer
        BY <2>2, <1>f, VisibleOrdersFacts DEF HandleFlush_ResizeOnly
      <3>2. VisibleOrders(tentative) \in [Ptys -> ResizeOrders]
        BY <1>f, VisibleOrdersFacts
      <3>3. \A p \in Ptys :
              \/ UNCHANGED resizerQueue[p]
              \/ \E o \in ResizeOrders : /\ resizerQueue'[p] = Append(resizerQueue[p], o)
                                         /\ o.size = tentative[p] /\ o.size # 0
        <4>1. \A p \in Ptys : VisibleOrders(tentative)[p] \in ResizeOrders
          BY <3>1, <3>2
        <4>2. \A p \in Ptys : VisibleOrders(tentative)[p] # Resize(0, 0) =>
                VisibleOrders(tentative)[p].size = tentative[p] /\ tentative[p] # 0
          BY <1>f, VisibleOrdersFacts
        <4>3. \A p \in Ptys : \/ resizerQueue'[p] = resizerQueue[p]
                              \/ /\ VisibleOrders(tentative)[p] # Resize(0, 0)
                                 /\ resizerQueue'[p] = Append(resizerQueue[p], VisibleOrders(tentative)[p])
          BY <3>1, <3>2, <1>0, SubmitAllFacts
        <4> QED
          BY <4>1, <4>2, <4>3
      <3>4. \A p \in Ptys : Submission(p) = Resize(0, 0) /\ Submission(p)' = Resize(0, 0) /\ tentative'[p] = 0
        BY <2>2, <3>1 DEF HandleFlush_ResizeOnly, ReducerInv, Submission, NoOrders, NoUpdates
      <3> QED
        BY <2>0, <3>3, <3>4 DEF Sizes, SizeSubmitted
    <2>3. CASE ReduceSync
      <3>1. /\ Take("SyncPty") /\ UNCHANGED resizerQueue /\ tentative' = NoUpdates
            /\ reducer' = [at |-> "Send", message |-> Head(reducerQueue),
                           submission |-> SyncSubmission(Head(reducerQueue))]
        BY <2>3 DEF ReduceSync
      <3>2. SyncSubmission(Head(reducerQueue)) \in [Ptys -> ResizeOrders]
        BY <2>m, <3>1, SubmissionType
      <3>3. reducer'.submission = SyncSubmission(Head(reducerQueue))
        BY <3>1
      <3>4. \A p \in Ptys :
              /\ reducer'.submission[p] \in ResizeOrders
              /\ \/ reducer'.submission[p] = Resize(0, 0)
                 \/ /\ p \in Head(reducerQueue).layout
                    /\ reducer'.submission[p].size = Head(reducerQueue).number
        BY <3>2, <3>3 DEF SyncSubmission, Resize
      <3>5. \A p \in Ptys : tentative'[p] = 0
        BY <3>1 DEF NoUpdates
      <3> QED
        BY <2>0, <3>1, <3>4, <3>5 DEF Sizes, SizeTaken, Submission, MessageKinds
    <2>4. CASE ReduceOther
      <3>1. /\ \E kind \in MessageKinds : Take(kind)
            /\ UNCHANGED resizerQueue
            /\ reducer'.submission = NoOrders
        BY <2>4 DEF ReduceOther, MessageKinds
      <3>2. \A p \in Ptys : \/ tentative'[p] \in {tentative[p], 0}
                            \/ /\ p \in Head(reducerQueue).layout
                               /\ tentative'[p] = Head(reducerQueue).number
        BY <2>4 DEF ReduceOther, Coalesce
      <3>3. \A p \in Ptys : Submission(p)' = Resize(0, 0)
        BY <3>1 DEF Submission, NoOrders
      <3> QED
        BY <2>0, <3>1, <3>2, <3>3 DEF Sizes, SizeTaken
    <2>5. CASE SendFlush
      <3>1. /\ reducer.at = "Send" /\ UNCHANGED <<tentative, resizerQueue>>
            /\ \/ reducer' = IdleReducer
               \/ reducer' = [reducer EXCEPT !.at = "Submit"]
        BY <2>5, Zenon DEF SendFlush
      <3>2. CASE reducer' = IdleReducer
        <4>1. \A p \in Ptys : Submission(p)' = Resize(0, 0)
          BY <3>2, IdleReducerType DEF Submission, NoOrders
        <4> QED
          BY <2>0, <3>1, <4>1 DEF Sizes, SizeSubmitted
      <3>3. CASE reducer' = [reducer EXCEPT !.at = "Submit"]
        <4>1. reducer'.submission = reducer.submission
          BY <3>3, <1>0 DEF ReducerTypeOK
        <4> QED
          BY <2>0, <3>1, <4>1 DEF Sizes, SizeStays, Submission
      <3> QED
        BY <3>1, <3>2, <3>3
    <2>6. CASE SubmitFlush
      <3>1. reducer' = IdleReducer /\ reducer.at = "Submit"
        BY <2>6 DEF SubmitFlush
      <3>2. \A p \in Ptys : Submission(p)' = Resize(0, 0)
        BY <3>1, IdleReducerType DEF Submission, NoOrders
      <3>3. CASE reducer.message.kind = "SyncPty"
        <4>1. SubmitAll(reducer.submission) /\ UNCHANGED tentative /\ tentative = NoUpdates
          BY <2>6, <3>1, <3>3 DEF SubmitFlush, ReducerInv
        <4>2. \A p \in Ptys : tentative'[p] = 0 /\ tentative[p] = 0
          BY <4>1 DEF NoUpdates
        <4>3. \A p \in Ptys :
                \/ UNCHANGED resizerQueue[p]
                \/ \E o \in ResizeOrders : /\ resizerQueue'[p] = Append(resizerQueue[p], o)
                                           /\ o = Submission(p) /\ o # Resize(0, 0)
          BY <4>1, <1>0, <1>f, SubmitAllFacts DEF Submission
        <4> QED
          <5> SUFFICES ASSUME NEW p \in Ptys PROVE SizeSubmitted(p)
            BY DEF Sizes
          <5>1. /\ tentative'[p] \in {tentative[p], 0} /\ tentative'[p] = 0 /\ UNCHANGED size[p]
                /\ Submission(p)' \in {Submission(p), Resize(0, 0)} /\ Submission(p)' = Resize(0, 0)
            BY <2>0, <3>2, <4>2
          <5>2. \/ UNCHANGED resizerQueue[p]
                \/ \E o \in ResizeOrders : /\ resizerQueue'[p] = Append(resizerQueue[p], o)
                                           /\ o = Submission(p) /\ o # Resize(0, 0)
            BY <4>3, Zenon
          <5> QED
            BY <5>1, <5>2, Zenon DEF SizeSubmitted
      <3>4. CASE reducer.message.kind # "SyncPty"
        <4>1. SubmitAll(VisibleOrders(tentative)) /\ tentative' = NoUpdates
          BY <2>6, <3>4, <1>f, VisibleOrdersFacts DEF SubmitFlush
        <4>2. VisibleOrders(tentative) \in [Ptys -> ResizeOrders]
          BY <1>f, VisibleOrdersFacts
        <4>3. \A p \in Ptys :
                \/ UNCHANGED resizerQueue[p]
                \/ \E o \in ResizeOrders : /\ resizerQueue'[p] = Append(resizerQueue[p], o)
                                           /\ o.size = tentative[p] /\ o.size # 0
          <5>1. \A p \in Ptys : VisibleOrders(tentative)[p] \in ResizeOrders
            BY <4>1, <4>2
          <5>2. \A p \in Ptys : VisibleOrders(tentative)[p] # Resize(0, 0) =>
                  VisibleOrders(tentative)[p].size = tentative[p] /\ tentative[p] # 0
            BY <1>f, VisibleOrdersFacts
          <5>3. \A p \in Ptys : \/ resizerQueue'[p] = resizerQueue[p]
                                \/ /\ VisibleOrders(tentative)[p] # Resize(0, 0)
                                   /\ resizerQueue'[p] = Append(resizerQueue[p], VisibleOrders(tentative)[p])
            BY <4>1, <4>2, <1>0, SubmitAllFacts
          <5> QED
            BY <5>1, <5>2, <5>3
        <4>4. \A p \in Ptys : tentative'[p] = 0
          BY <4>1 DEF NoUpdates
        <4> QED
          BY <2>0, <3>2, <4>3, <4>4 DEF Sizes, SizeSubmitted
      <3> QED
        BY <3>3, <3>4
    <2> QED
      BY <1>2, <2>1, <2>2, <2>3, <2>4, <2>5, <2>6 DEF Reducer
  <1>3. CASE Workers
    <2>1. UNCHANGED <<reducer, tentative>>
      BY <1>3, WorkersFrame DEF reducerVars
    <2>2. PICK q \in Ptys : UNCHANGED <<resizerQueue, size>> \/ RunResizer(q)
      BY <1>3 DEF Workers, SendEmitSnapshot, RunWriter, SpawnReported, SessionEnds, resizerVars
    <2>3. CASE RunResizer(q)
      <3>1. /\ resizerQueue[q] # <<>> /\ resizerQueue'[q] = <<>>
            /\ size'[q] = resizerQueue[q][Len(resizerQueue[q])].size
            /\ \A p \in Ptys : p # q => resizerQueue'[p] = resizerQueue[p] /\ size'[p] = size[p]
        BY <2>3, <1>0, <1>f, RunResizerFacts
      <3> QED
        BY <2>1, <3>1 DEF Sizes, SizeStays, SizeApplied, Submission
    <2> QED
      BY <2>1, <2>2, <2>3, <1>s
  <1>4. CASE Coordinator
    <2>1. UNCHANGED <<number, reducerQueue, reducer, tentative, resizerQueue>>
      BY <1>4, CoordinatorFrame DEF reducerVars
    <2>2. CASE HandleSpawn
      <3>1. /\ handler = "Select" /\ group["SpawnPty"] # <<>> /\ "SpawnPty" \in Kinds
        BY <2>2 DEF HandleSpawn, Turn, Kinds
      <3>2. Settled(Head(group["SpawnPty"]).number) /\ Head(group["SpawnPty"]).number \in Nat
        BY <3>1, <1>0, HeadFits, HeadType DEF Fits
      <3>3. idNext \in Ptys
        BY <2>2, <1>0, PtysFacts DEF HandleSpawn, CoordinatorTypeOK
      <3>4. /\ state' = [state EXCEPT ![idNext] = "Spawning"]
            /\ size' = [size EXCEPT ![idNext] = Head(group["SpawnPty"]).number]
        BY <2>2 DEF HandleSpawn
      <3>5. /\ size'[idNext] = Head(group["SpawnPty"]).number /\ state'[idNext] = "Spawning"
            /\ \A p \in Ptys : p # idNext => size'[p] = size[p]
        BY <3>3, <3>4, <1>f, <1>0 DEF PtyTypeOK
      <3> QED
        BY <2>1, <3>2, <3>5 DEF Sizes, SizeStays, SizeStarts, Submission
    <2>3. CASE ~HandleSpawn
      <3>1. UNCHANGED size
        BY <1>4, <2>3 DEF Coordinator, ReceiveLeading, DrainAndApply, Execute, Group, HandleExit,
           SetExited, HandleTerminate, HandleRemove, HandleFailure, HandleSuccess, Announce,
           HandleDisconnect, HandleConnect, HandleSync, HandleEmitSnapshot, Panic
      <3> QED
        BY <2>1, <3>1, <1>s
    <2> QED
      BY <2>2, <2>3
  <1> QED
    BY <1>1, <1>2, <1>3, <1>4 DEF Next

-----------------------------------------------------------------------------
(* What one step tells the client, and births.                             *)

(* What a step can tell a client, and about which PTYs.                     *)
LEMMA TellSteps ==
  ASSUME TypeOK, HandlerInv, Next
  PROVE  /\ \A p \in told' : p \in told \/ (p = idNext /\ HandleSpawn) \/ p \in Pool
         /\ \A p \in started' : p \in started \/ state[p] \in {"Active", "Exited"}
         /\ known' \in {known, idNext, -1}
  <1>1. CASE Reader
    <2>1. \/ UNCHANGED <<told, started, known>>
          \/ told' = {} /\ started' = {} /\ known' = -1
      <3>1. CASE Attach             BY <3>1 DEF Attach
      <3>2. CASE HandleConnected    BY <3>2, Zenon DEF HandleConnected
      <3>3. CASE CloseForTakeover   BY <3>3, Zenon DEF CloseForTakeover
      <3>4. CASE Teardown           BY <3>4, Zenon DEF Teardown
      <3>5. CASE HandleDisconnected BY <3>5, Zenon DEF HandleDisconnected
      <3>6. CASE ReceiveSpawn \/ ReceiveResize \/ ReceiveSync \/ ReceiveRemove
        BY <3>6, Zenon DEF ReceiveSpawn, ReceiveResize, ReceiveSync, ReceiveRemove, ToReducer, Receiving
      <3>7. CASE ReceiveTerminate   BY <3>7, Zenon DEF ReceiveTerminate, Receiving
      <3>8. CASE ReceiveInput       BY <3>8, Zenon DEF ReceiveInput, Receiving
      <3>9. CASE EnqueueInput       BY <3>9, Zenon DEF EnqueueInput
      <3> QED
        BY <1>1, <3>1, <3>2, <3>3, <3>4, <3>5, <3>6, <3>7, <3>8, <3>9, Zenon DEF Reader
    <2> QED
      BY <2>1
  <1>2. CASE Reducer \/ Workers
    BY <1>2, ReducerFrame, WorkersFrame DEF clientVars
  <1>3. CASE Coordinator
    <2>1. CASE HandleSpawn
      <3>1. told' \subseteq told \cup {idNext} /\ UNCHANGED <<started, known>>
        BY <2>1 DEF HandleSpawn
      <3> QED
        BY <2>1, <3>1
    <2>2. CASE Announce
      <3>1. PICK p \in Ptys : /\ Head(group["Status_SpawnPty"]).ptys = {p} /\ state[p] = "Active"
        BY <2>2 DEF Announce, HandlerInv
      <3>2. started' \subseteq started \cup {p} /\ UNCHANGED <<told, known>>
        BY <2>2, <3>1 DEF Announce
      <3> QED
        BY <3>1, <3>2
    <2>3. CASE HandleConnect
      <3>1. /\ told' \subseteq told \cup Pool
            /\ started' \subseteq started \cup {p \in Pool : state[p] # "Spawning"}
            /\ known' \in {known, idNext}
        BY <2>3 DEF HandleConnect
      <3>2. \A p \in Pool : state[p] # "Spawning" => state[p] \in {"Active", "Exited"}
        BY DEF Pool
      <3> QED
        BY <3>1, <3>2
    <2>4. CASE UNCHANGED <<told, started, known>>
      BY <2>4
    <2> QED
      BY <1>3, <2>1, <2>2, <2>3, <2>4, CoordinatorTells
  <1> QED
    BY <1>1, <1>2, <1>3 DEF Next

(* Only a spawn takes an id.                                                *)
LEMMA IdSteps ==
  Next => HandleSpawn \/ UNCHANGED idNext
  BY ReaderFrame, ReducerFrame, WorkersFrame DEF Next, Coordinator, ReceiveLeading, DrainAndApply,
     Execute, Group, HandleExit, SetExited, HandleTerminate, HandleRemove, HandleFailure,
     HandleSuccess, Announce, HandleDisconnect, HandleConnect, HandleSync, HandleEmitSnapshot,
     Panic, coordinatorVars

(* A PTY that is not born yet is nowhere after the step either.             *)
LEMMA UnbornStep ==
  ASSUME TypeOK, BirthInv, OrderInv, HandlerInv, ReducerInv, Next,
         NEW p \in Ptys, state[p] = "Unborn", state'[p] = "Unborn"
  PROVE  /\ ~canceled'[p] /\ frames'[p] = <<>> /\ session'[p] = "none" /\ canceledWorkers'[p] = {}
         /\ resizerQueue'[p] = <<>> /\ tentative'[p] = 0 /\ Submission(p)' = Resize(0, 0)
         /\ size'[p] = 0
         /\ p \notin told' /\ p \notin started'
         /\ \A i \in DOMAIN reducerQueue' : p \notin reducerQueue'[i].layout
  <1>0. ClientTypeOK /\ ReducerTypeOK /\ CoordinatorTypeOK /\ PtyTypeOK
    BY TypeParts
  <1>a. /\ ~canceled[p] /\ frames[p] = <<>> /\ session[p] = "none" /\ canceledWorkers[p] = {}
        /\ resizerQueue[p] = <<>> /\ tentative[p] = 0 /\ Submission(p) = Resize(0, 0)
        /\ size[p] = 0
        /\ p \notin told /\ p \notin started /\ p \notin Pool
        /\ \A i \in DOMAIN reducerQueue : p \notin reducerQueue[i].layout
    BY DEF BirthInv, Submission, Pool
  <1>1. Stays(p)
    <2>1. Lives(p)
      BY LifeSteps
    <2> QED
      BY <2>1, <1>a DEF Lives, IsBorn, IsTerminated, Fails, IsCanceled, IsActivated, IsAnnounced,
         StopsWriting, Exits, IsRemoved, IsReported, Ends
  <1>2. ~canceled'[p] /\ frames'[p] = <<>> /\ session'[p] = "none" /\ canceledWorkers'[p] = {}
    BY <1>1, <1>a DEF Stays
  <1>3. resizerQueue'[p] = <<>> /\ tentative'[p] = 0 /\ Submission(p)' = Resize(0, 0) /\ size'[p] = 0
    <2>1. CASE SizeStays(p)
      BY <2>1, <1>a DEF SizeStays
    <2>2. CASE SizeTaken(p)
      <3>1. p \notin Head(reducerQueue).layout
        <4>1. PICK kind \in MessageKinds : Take(kind)
          BY <2>2 DEF SizeTaken
        <4>2. Head(reducerQueue) = reducerQueue[1] /\ 1 \in DOMAIN reducerQueue
          <5>1. Head(reducerQueue) = reducerQueue[1] /\ Len(reducerQueue) >= 1
            BY <4>1, <1>0, TakeType
          <5> QED
            BY <5>1, <1>0, MessageElements
        <4> QED
          BY <4>2, <1>a
      <3> QED
        BY <2>2, <3>1, <1>a DEF SizeTaken
    <2>3. CASE SizeSubmitted(p)
      BY <2>3, <1>a DEF SizeSubmitted
    <2>4. CASE SizeApplied(p)
      BY <2>4, <1>a DEF SizeApplied
    <2>5. CASE SizeStarts(p)
      BY <2>5 DEF SizeStarts
    <2> QED
      BY <2>1, <2>2, <2>3, <2>4, <2>5, SizeSteps DEF Sizes
  <1>4. p \notin told' /\ p \notin started'
    <2>1. HandleSpawn => p # idNext
      <3> SUFFICES ASSUME HandleSpawn, p = idNext PROVE FALSE
        OBVIOUS
      <3>1. state' = [state EXCEPT ![idNext] = "Spawning"]
        BY DEF HandleSpawn
      <3> QED
        BY <3>1, <1>0 DEF PtyTypeOK
    <2> QED
      BY <2>1, <1>a, TellSteps
  <1>5. \A i \in DOMAIN reducerQueue' : p \notin reducerQueue'[i].layout
    <2>1. CASE UNCHANGED reducerQueue
      BY <2>1, <1>a
    <2>2. CASE \E m \in Messages : reducerQueue' = Append(reducerQueue, m) /\ m.layout \subseteq told
      <3>1. PICK m \in Messages : reducerQueue' = Append(reducerQueue, m) /\ m.layout \subseteq told
        BY <2>2
      <3>2. \A i \in DOMAIN reducerQueue' :
              reducerQueue'[i] = m \/ (i \in DOMAIN reducerQueue /\ reducerQueue'[i] = reducerQueue[i])
        BY <3>1, <1>0, AppendFacts DEF ReducerTypeOK
      <3> QED
        BY <3>1, <3>2, <1>a
    <2>3. CASE reducerQueue # <<>> /\ reducerQueue' = Tail(reducerQueue)
      <3>1. \A i \in DOMAIN reducerQueue' :
              i + 1 \in DOMAIN reducerQueue /\ reducerQueue'[i] = reducerQueue[i + 1]
        BY <2>3, <1>0, TailFacts DEF ReducerTypeOK
      <3> QED
        BY <3>1, <1>a
    <2> QED
      BY <2>1, <2>2, <2>3, MessageSteps
  <1> QED
    BY <1>2, <1>3, <1>4, <1>5

(* A step keeps BirthInv.                                                   *)
LEMMA BirthStep ==
  ASSUME TypeOK, BirthInv, OrderInv, HandlerInv, ReducerInv, Next
  PROVE  BirthInv'
  <1>0. ClientTypeOK /\ KnownTypeOK /\ CoordinatorTypeOK /\ PtyTypeOK
    BY TypeParts
  <1>1. idNext' <= MaxPtys /\ idNext <= idNext' /\ idNext' \in Nat
    <2>1. UNCHANGED idNext \/ (idNext' = idNext + 1 /\ idNext < MaxPtys)
      BY IdSteps DEF HandleSpawn
    <2> QED
      BY <2>1, <1>0, PtysAssumption DEF BirthInv, CoordinatorTypeOK
  <1>2. known' <= idNext'
    BY <1>0, <1>1, TellSteps DEF BirthInv, CoordinatorTypeOK, KnownTypeOK
  <1>3. \A p \in Ptys : state'[p] = "Unborn" <=> p >= idNext'
    <2> SUFFICES ASSUME NEW p \in Ptys PROVE state'[p] = "Unborn" <=> p >= idNext'
      OBVIOUS
    <2>0. p \in Nat /\ idNext \in Nat /\ (state[p] = "Unborn" <=> p >= idNext)
      BY <1>0, PtysFacts DEF BirthInv, CoordinatorTypeOK
    <2>1. CASE IsBorn(p)
      BY <2>0, <2>1 DEF IsBorn
    <2>2. CASE ~IsBorn(p)
      <3>1. state'[p] = "Unborn" <=> state[p] = "Unborn"
        BY <2>2, LifeSteps DEF Lives, Stays, IsTerminated, Fails, IsCanceled, IsActivated,
           IsAnnounced, StopsWriting, Exits, IsRemoved, IsReported, Ends
      <3>2. CASE UNCHANGED idNext
        BY <2>0, <3>1, <3>2
      <3>3. CASE HandleSpawn
        <4>1. idNext' = idNext + 1 /\ state' = [state EXCEPT ![idNext] = "Spawning"]
          BY <3>3 DEF HandleSpawn
        <4>2. p # idNext
          BY <4>1, <3>1, <2>0, <1>0 DEF PtyTypeOK
        <4> QED
          BY <4>1, <4>2, <2>0, <3>1
      <3> QED
        BY <3>2, <3>3, IdSteps
    <2> QED
      BY <2>1, <2>2
  <1>4. started' \cap {p \in Ptys : state'[p] = "Spawning"} = {}
    <2> SUFFICES ASSUME NEW p \in Ptys, p \in started', state'[p] = "Spawning" PROVE FALSE
      OBVIOUS
    <2>1. state[p] \in {"Unborn", "Spawning"}
      BY LifeSteps DEF Lives, Stays, IsBorn, IsTerminated, Fails, IsCanceled, IsActivated,
         IsAnnounced, StopsWriting, Exits, IsRemoved, IsReported, Ends
    <2>2. p \notin started
      BY <2>1 DEF BirthInv
    <2> QED
      BY <2>1, <2>2, TellSteps
  <1>5. \A p \in Ptys : state'[p] = "Unborn" => state[p] = "Unborn"
    BY LifeSteps DEF Lives, Stays, IsBorn, IsTerminated, Fails, IsCanceled, IsActivated,
       IsAnnounced, StopsWriting, Exits, IsRemoved, IsReported, Ends
  <1>6. \A p \in Ptys : state'[p] = "Unborn" =>
         /\ ~canceled'[p] /\ frames'[p] = <<>> /\ session'[p] = "none" /\ canceledWorkers'[p] = {}
         /\ resizerQueue'[p] = <<>> /\ tentative'[p] = 0 /\ reducer'.submission[p] = Resize(0, 0)
         /\ size'[p] = 0
         /\ p \notin told' /\ p \notin started'
         /\ \A i \in DOMAIN reducerQueue' : p \notin reducerQueue'[i].layout
    BY <1>5, UnbornStep DEF Submission
  <1> QED
    BY <1>1, <1>2, <1>3, <1>4, <1>6 DEF BirthInv

(* The life of a PTY, its process and its workers.                          *)
LEMMA LifeStep ==
  ASSUME TypeOK, BirthInv, LifeInv, NoOrphan, WorkersFollowPty, OrderInv, HandlerInv, Next
  PROVE  LifeInv' /\ NoOrphan' /\ WorkersFollowPty'
  <1> SUFFICES ASSUME NEW p \in Ptys
               PROVE  /\ state'[p] = "Spawning" => frames'[p] = <<"SPAWNING">>
                      /\ state'[p] = "Active" =>
                           /\ session'[p] \in {"quiescent", "streaming", "ended"}
                           /\ frames'[p] = IF session'[p] = "quiescent" THEN <<"SPAWNING">>
                                           ELSE <<"SPAWNING", "SUCCESS">>
                      /\ session'[p] \in {"spawning", "quiescent"} => state'[p] \in {"Spawning", "Active"}
                      /\ session'[p] = "streaming" => state'[p] = "Active"
                      /\ "resizer" \in canceledWorkers'[p] <=> state'[p] = "Gone"
                      /\ state'[p] = "Exited" => "writer" \in canceledWorkers'[p]
                      /\ "writer" \in canceledWorkers'[p] => session'[p] = "ended"
    BY DEF LifeInv, NoOrphan, WorkersFollowPty
  <1>1. /\ state[p] = "Unborn" => frames[p] = <<>> /\ session[p] = "none" /\ canceledWorkers[p] = {}
        /\ state[p] = "Spawning" => frames[p] = <<"SPAWNING">>
        /\ state[p] = "Active" =>
             /\ session[p] \in {"quiescent", "streaming", "ended"}
             /\ frames[p] = IF session[p] = "quiescent" THEN <<"SPAWNING">>
                            ELSE <<"SPAWNING", "SUCCESS">>
        /\ session[p] \in {"spawning", "quiescent"} => state[p] \in {"Spawning", "Active"}
        /\ session[p] = "streaming" => state[p] = "Active"
        /\ "resizer" \in canceledWorkers[p] <=> state[p] = "Gone"
        /\ state[p] = "Exited" => "writer" \in canceledWorkers[p]
        /\ "writer" \in canceledWorkers[p] => session[p] = "ended"
    BY DEF BirthInv, LifeInv, NoOrphan, WorkersFollowPty
  <1>2. CASE Stays(p)         BY <1>1, <1>2 DEF Stays
  <1>3. CASE IsBorn(p)
    <2>1. Append(<<>>, "SPAWNING") = <<"SPAWNING">>
      OBVIOUS
    <2> QED
      BY <1>1, <1>3, <2>1 DEF IsBorn
  <1>4. CASE IsTerminated(p)  BY <1>1, <1>4 DEF IsTerminated
  <1>5. CASE Fails(p)         BY <1>1, <1>5 DEF Fails
  <1>6. CASE IsCanceled(p)    BY <1>1, <1>6 DEF IsCanceled
  <1>7. CASE IsActivated(p)   BY <1>1, <1>7 DEF IsActivated
  <1>8. CASE IsAnnounced(p)
    <2>1. Append(<<"SPAWNING">>, "SUCCESS") = <<"SPAWNING", "SUCCESS">>
      <3>1. "SPAWNING" \in FrameTypes /\ "SUCCESS" \in FrameTypes
        BY DEF FrameTypes
      <3> QED
        BY <3>1, AppendPair
    <2> QED
      BY <1>1, <1>8, <2>1 DEF IsAnnounced
  <1>9. CASE StopsWriting(p)  BY <1>1, <1>9 DEF StopsWriting
  <1>10. CASE Exits(p)        BY <1>1, <1>10 DEF Exits
  <1>11. CASE IsRemoved(p)    BY <1>1, <1>11 DEF IsRemoved
  <1>12. CASE IsReported(p)   BY <1>1, <1>12 DEF IsReported
  <1>13. CASE Ends(p)         BY <1>1, <1>13 DEF Ends
  <1> QED
    BY <1>2, <1>3, <1>4, <1>5, <1>6, <1>7, <1>8, <1>9, <1>10, <1>11, <1>12, <1>13, LifeSteps DEF Lives

-----------------------------------------------------------------------------
(* What one step leaves to the coordinator.                                *)

(* Only a session that spawns, streams or is canceled is moved by its       *)
(* goroutines.                                                              *)
LEMMA WorkersSession ==
  ASSUME TypeOK, Workers
  PROVE  \A p \in Ptys : session[p] \in {"spawning", "streaming", "canceled"} \/ session'[p] = session[p]
  <1>0. session \in [Ptys -> Sessions]
    BY TypeParts DEF WorkerTypeOK, Sessions
  <1>1. PICK p \in Ptys : UNCHANGED session \/ SpawnReported(p) \/ SessionEnds(p)
    BY DEF Workers, RunResizer, SendEmitSnapshot, RunWriter
  <1>2. UNCHANGED session \/ \E new : session' = [session EXCEPT ![p] = new]
    BY <1>1 DEF SpawnReported, SessionEnds
  <1>3. UNCHANGED session \/ session[p] \in {"spawning", "streaming", "canceled"}
    BY <1>1 DEF SpawnReported, SessionEnds
  <1> QED
    BY <1>0, <1>2, <1>3

(* A step keeps HandlerInv.                                                 *)
LEMMA HandlerStep ==
  ASSUME TypeOK, BirthInv, OrderInv, HandlerInv, Next
  PROVE  HandlerInv'
  <1>0. QueueTypeOK /\ CoordinatorTypeOK /\ PtyTypeOK
    BY TypeParts
  <1>1. CASE Reader \/ Reducer \/ Workers
    <2>1. UNCHANGED <<group, handler, state, canceledWorkers>>
      BY <1>1, ReaderFrame, ReducerFrame, WorkersFrame DEF coordinatorVars, ptyVars
    <2>2. \A p \in Ptys : state[p] = "Active" /\ session[p] = "quiescent" => session'[p] = "quiescent"
      BY <1>1, ReaderFrame, ReducerFrame, WorkersSession
    <2> QED
      BY <2>1, <2>2 DEF HandlerInv
  <1>2. CASE Coordinator
    <2>1. CASE HandleExit
      <3>1. handler = "Select" /\ group["ExitPty"] # <<>>
        BY <2>1 DEF HandleExit, Turn
      <3>2. PICK p \in Ptys : Head(group["ExitPty"]).ptys = {p} /\ state[p] = "Active"
        BY <3>1, <1>0, ExitFits
      <3>3. /\ canceledWorkers' = [canceledWorkers EXCEPT ![p] = @ \cup {"writer"}]
            /\ handler' = "SetExited" /\ UNCHANGED group
        BY <2>1, <3>2 DEF HandleExit
      <3>4. "writer" \in canceledWorkers'[p]
        BY <3>3, <1>0 DEF PtyTypeOK
      <3> QED
        BY <3>1, <3>2, <3>3, <3>4 DEF HandlerInv
    <2>2. CASE HandleSuccess
      <3>1. handler = "Select" /\ group["Status_SpawnPty"] # <<>>
        BY <2>2 DEF HandleSuccess, Turn
      <3>2. PICK p \in Head(group["Status_SpawnPty"]).ptys :
              \/ UNCHANGED handler
              \/ Activate(p)
        BY <2>2, Zenon DEF HandleSuccess, CancelSpawned
      <3>3. CASE Activate(p)
        <4>1. /\ p \in Ptys /\ Head(group["Status_SpawnPty"]).ptys = {p}
              /\ state[p] = "Spawning" /\ session[p] = "quiescent"
          BY <3>1, <1>0, VerdictFits, <2>2 DEF HandleSuccess
        <4>2. /\ state' = [state EXCEPT ![p] = "Active"] /\ handler' = "Announce"
              /\ UNCHANGED <<group, session>>
          BY <3>3 DEF Activate
        <4> QED
          BY <4>1, <4>2, <3>1, <1>0 DEF HandlerInv, PtyTypeOK
      <3> QED
        BY <3>1, <3>2, <3>3 DEF HandlerInv
    <2>3. CASE ~(HandleExit \/ HandleSuccess)
      <3>1. handler' \in {"Select", "Drain"}
        BY <1>2, <2>3 DEF Coordinator, ReceiveLeading, DrainAndApply, Execute, Group, SetExited,
           HandleTerminate, HandleRemove, HandleSpawn, HandleFailure, Announce, Turn,
           HandleDisconnect, HandleConnect, HandleSync, HandleEmitSnapshot, Panic
      <3> QED
        BY <3>1 DEF HandlerInv
    <2> QED
      BY <2>1, <2>2, <2>3
  <1> QED
    BY <1>1, <1>2 DEF Next

(* An order stays true unless the step is about its PTY.                    *)
LEMMA FitsStep ==
  ASSUME TypeOK, ReducerInv, Next, NEW o \in Orders, Fits(o),
         \A p \in Ptys :
           /\ o.kind \in {"ExitPty", "Status_SpawnPty"} /\ o.ptys = {p}
           /\ state[p] \in {"Active", "Spawning"} /\ session[p] \in {"none", "quiescent", "ended"}
           => state'[p] = state[p] /\ session'[p] = session[p]
  PROVE  Fits(o)'
  <1>1. o.kind = "SpawnPty" => o.id <= connection' /\ Settled(o.number)'
    <2>1. o.number \in Nat /\ o.id \in Nat /\ connection \in Nat
      BY TypeParts DEF Orders, ClientTypeOK
    <2> QED
      BY <2>1, SettledStep, ConnectionStep DEF Fits
  <1>2. o.kind = "ExitPty" => \E p \in Ptys : o.ptys = {p} /\ state'[p] = "Active" /\ session'[p] = "ended"
    BY DEF Fits
  <1>3. o.kind = "Status_SpawnPty" =>
          \E p \in Ptys : /\ o.ptys = {p} /\ state'[p] = "Spawning"
                          /\ session'[p] = IF o.success THEN "quiescent" ELSE "none"
    BY DEF Fits
  <1> QED
    BY <1>1, <1>2, <1>3 DEF Fits

(* Most steps leave the PTYs of all orders alone.                           *)
LEMMA FitsAll ==
  ASSUME TypeOK, ReducerInv, Next,
         \A p \in Ptys :
           state[p] \in {"Active", "Spawning"} /\ session[p] \in {"none", "quiescent", "ended"}
           => state'[p] = state[p] /\ session'[p] = session[p]
  PROVE  \A o \in Orders : Fits(o) => Fits(o)'
  <1> QED
    BY FitsStep

(* An order of the other kinds says nothing of a PTY.                       *)
LEMMA PlainOrder ==
  ASSUME NEW o, o.kind \notin {"SpawnPty", "ExitPty", "Status_SpawnPty"}
  PROVE  Fits(o)' /\ \A q : Apart(q, o)
  BY DEF Fits, Apart

(* A step of the connection's worker keeps OrderInv.                        *)
LEMMA OrderFromReader ==
  ASSUME TypeOK, OrderInv, HandlerInv, ReducerInv, Next, Reader
  PROVE  OrderInv'
  <1>0. ClientTypeOK /\ QueueTypeOK /\ CoordinatorTypeOK
    BY TypeParts
  <1>1. UNCHANGED <<group, handler, state, session>>
    BY ReaderFrame DEF coordinatorVars, ptyVars
  <1>2. \A o \in Orders : Fits(o) => Fits(o)'
    BY <1>1, FitsAll
  <1>3. CASE UNCHANGED queue
    BY <1>0, <1>1, <1>2, <1>3, OrderStay
  <1>4. ASSUME NEW o \in Orders, o.kind \notin {"SpawnPty", "ExitPty", "Status_SpawnPty"}, Send(o)
        PROVE  OrderInv'
    <2>1. queue' = Append(queue, o)
      BY <1>4 DEF Send
    <2> QED
      BY <2>1, <1>0, <1>1, <1>2, <1>4, PlainOrder, OrderAdd
  <1>5. CASE HandleConnected
    <2>1. /\ Order("Connect", connection, {}, 0, FALSE) \in Orders
          /\ Order("Connect", connection, {}, 0, FALSE).kind = "Connect"
      BY <1>0 DEF ClientTypeOK, Kinds, Order, Orders
    <2> QED
      BY <2>1, <1>4, <1>5 DEF HandleConnected
  <1>6. CASE HandleDisconnected
    <2>1. /\ Order("Disconnect", 0, {}, 0, FALSE) \in Orders
          /\ Order("Disconnect", 0, {}, 0, FALSE).kind = "Disconnect"
      BY DEF Kinds, Order, Orders
    <2> QED
      BY <2>1, <1>4, <1>6, Zenon DEF HandleDisconnected
  <1>7. CASE ReceiveTerminate
    <2>1. PICK p \in told : Send(Order("TerminatePty", connection, {p}, 0, FALSE))
      BY <1>7 DEF ReceiveTerminate
    <2>2. /\ Order("TerminatePty", connection, {p}, 0, FALSE) \in Orders
          /\ Order("TerminatePty", connection, {p}, 0, FALSE).kind = "TerminatePty"
      BY <1>0 DEF ClientTypeOK, Kinds, Order, Orders
    <2> QED
      BY <2>1, <2>2, <1>4
  <1>8. CASE ~(HandleConnected \/ HandleDisconnected \/ ReceiveTerminate)
    <2>1. CASE Attach           BY <1>3, <2>1, Zenon DEF Attach
    <2>2. CASE CloseForTakeover BY <1>3, <2>2, Zenon DEF CloseForTakeover
    <2>3. CASE Teardown         BY <1>3, <2>3, Zenon DEF Teardown
    <2>4. CASE ReceiveSpawn \/ ReceiveResize \/ ReceiveSync \/ ReceiveRemove
      BY <1>3, <2>4, Zenon DEF ReceiveSpawn, ReceiveResize, ReceiveSync, ReceiveRemove, ToReducer
    <2>5. CASE ReceiveInput     BY <1>3, <2>5, Zenon DEF ReceiveInput
    <2>6. CASE EnqueueInput     BY <1>3, <2>6, Zenon DEF EnqueueInput
    <2> QED
      BY <1>8, <2>1, <2>2, <2>3, <2>4, <2>5, <2>6, Zenon DEF Reader
  <1> QED
    BY <1>5, <1>6, <1>7, <1>8

(* A step of the reducer keeps OrderInv.                                    *)
LEMMA OrderFromReducer ==
  ASSUME TypeOK, OrderInv, HandlerInv, ReducerInv, Next, Reducer
  PROVE  OrderInv'
  <1>0. ClientTypeOK /\ ReducerTypeOK /\ QueueTypeOK /\ CoordinatorTypeOK
    BY TypeParts
  <1>1. UNCHANGED <<group, handler, state, session>>
    BY ReducerFrame DEF coordinatorVars, ptyVars
  <1>2. \A o \in Orders : Fits(o) => Fits(o)'
    BY <1>1, FitsAll
  <1>3. CASE UNCHANGED queue
    BY <1>0, <1>1, <1>2, <1>3, OrderStay
  <1>4. CASE SendFlush
    <2>1. reducer.at = "Send" /\ Send(FlushOrder)
      BY <1>4 DEF SendFlush, FlushOrder
    <2>2. /\ FlushOrder \in Orders /\ FlushOrder.kind \in {"SyncVisibility", "SpawnPty", "RemovePty"}
          /\ FlushOrder.id = reducer.message.id /\ FlushOrder.number = reducer.message.number
      BY <2>1, <1>0, FlushOrderType
    <2>3. PICK o \in Orders : o = FlushOrder
      BY <2>2
    <2>4. queue' = Append(queue, o)
      BY <2>1, <2>3 DEF Send
    <2>5. Fits(o)
      BY <2>2, <2>3 DEF Fits, ReducerInv
    <2>6. Fits(o)' /\ \A q : Apart(q, o)
      BY <2>2, <2>3, <2>5, <1>2 DEF Apart
    <2> QED
      BY <2>4, <2>6, <1>0, <1>1, <1>2, OrderAdd
  <1>5. CASE ~SendFlush
    <2>1. UNCHANGED queue
      BY <1>5 DEF Reducer, ReduceResize, HandleFlush_ResizeOnly, ReduceSync, ReduceOther, SubmitFlush
    <2> QED
      BY <2>1, <1>3
  <1> QED
    BY <1>4, <1>5

(* A verdict or an exit that is sent fits its PTY and is the only one.      *)
LEMMA OrderFromWorkers ==
  ASSUME TypeOK, BirthInv, LifeInv, NoOrphan, OrderInv, HandlerInv, ReducerInv, Next, Workers
  PROVE  OrderInv'
  <1>0. QueueTypeOK /\ CoordinatorTypeOK /\ PtyTypeOK /\ WorkerTypeOK
    BY TypeParts
  <1>1. UNCHANGED <<group, handler, state>>
    BY WorkersFrame DEF coordinatorVars, ptyVars
  <1>2. \A p \in Ptys : session[p] \in {"none", "quiescent", "ended"} => session'[p] = session[p]
    BY WorkersSession
  <1>3. \A o \in Orders : Fits(o) => Fits(o)'
    BY <1>1, <1>2, FitsAll
  <1>4. CASE UNCHANGED queue
    BY <1>0, <1>1, <1>3, <1>4, OrderStay
  <1>5. PICK p \in Ptys : \/ UNCHANGED queue
                          \/ SendEmitSnapshot(p) \/ SpawnReported(p) \/ SessionEnds(p)
    BY DEF Workers, RunResizer, RunWriter
  <1>6. CASE SendEmitSnapshot(p)
    <2>1. PICK o : o = Order("EmitSnapshot", snapshot[p], {p}, 0, FALSE)
      OBVIOUS
    <2>2. o \in Orders /\ o.kind = "EmitSnapshot"
      BY <2>1, <1>0 DEF WorkerTypeOK, Kinds, Order, Orders
    <2>3. queue' = Append(queue, o)
      BY <1>6, <2>1 DEF SendEmitSnapshot, Send
    <2> QED
      BY <2>2, <2>3, <1>0, <1>1, <1>3, PlainOrder, OrderAdd
  <1>7. CASE SpawnReported(p)
    <2>1. PICK success \in BOOLEAN :
            /\ session' = [session EXCEPT ![p] = IF success THEN "quiescent" ELSE "none"]
            /\ Send(Order("Status_SpawnPty", asked[p], {p}, 0, success))
      BY <1>7 DEF SpawnReported
    <2>2. session[p] = "spawning" /\ state[p] = "Spawning"
      BY <1>7 DEF SpawnReported, NoOrphan, LifeInv
    <2>3. PICK o : o = Order("Status_SpawnPty", asked[p], {p}, 0, success)
      OBVIOUS
    <2>4. o \in Orders /\ o.kind = "Status_SpawnPty" /\ o.ptys = {p} /\ o.success = success
      BY <2>3, <1>0 DEF PtyTypeOK, Kinds, Order, Orders
    <2>5. queue' = Append(queue, o)
      BY <2>1, <2>3 DEF Send
    <2>6. Fits(o)'
      <3>1. session'[p] = IF o.success THEN "quiescent" ELSE "none"
        BY <2>1, <2>4, <1>0 DEF WorkerTypeOK
      <3> QED
        BY <3>1, <2>2, <2>4, <1>1 DEF Fits
    <2>7. \A q \in Orders : Fits(q) => Apart(q, o)
      BY <2>2, <2>4 DEF Fits, Apart
    <2>8. handler = "Announce" => Apart(Head(group.Status_SpawnPty), o)
      BY <2>2, <2>4 DEF HandlerInv, Apart
    <2> QED
      BY <2>4, <2>5, <2>6, <2>7, <2>8, <1>0, <1>1, <1>3, OrderAdd
  <1>8. CASE SessionEnds(p)
    <2>1. CASE session[p] = "canceled" /\ UNCHANGED queue
      BY <2>1, <1>4
    <2>2. CASE session[p] = "streaming" /\ Send(Order("ExitPty", 0, {p}, 0, FALSE))
      <3>1. state[p] = "Active" /\ session'[p] = "ended"
        BY <1>8, <2>2, <1>0 DEF SessionEnds, NoOrphan, WorkerTypeOK
      <3>2. PICK o : o = Order("ExitPty", 0, {p}, 0, FALSE)
        OBVIOUS
      <3>3. o \in Orders /\ o.kind = "ExitPty" /\ o.ptys = {p}
        BY <3>2 DEF Kinds, Order, Orders
      <3>4. queue' = Append(queue, o)
        BY <2>2, <3>2 DEF Send
      <3>5. Fits(o)'
        BY <3>1, <3>3, <1>1 DEF Fits
      <3>6. \A q \in Orders : Fits(q) => Apart(q, o)
        BY <2>2, <3>3 DEF Fits, Apart
      <3>7. handler = "Announce" => Apart(Head(group.Status_SpawnPty), o)
        BY <2>2, <3>3 DEF HandlerInv, Apart
      <3> QED
        BY <3>3, <3>4, <3>5, <3>6, <3>7, <1>0, <1>1, <1>3, OrderAdd
    <2> QED
      BY <1>8, <2>1, <2>2 DEF SessionEnds
  <1> QED
    BY <1>4, <1>5, <1>6, <1>7, <1>8

(* Handling an order leaves what the others say of their PTYs true.         *)
LEMMA OrderFromCoordinator ==
  ASSUME TypeOK, BirthInv, OrderInv, HandlerInv, ReducerInv, Next, Coordinator
  PROVE  OrderInv'
  <1>0. QueueTypeOK /\ CoordinatorTypeOK /\ PtyTypeOK /\ WorkerTypeOK
    BY TypeParts
  <1>f. state \in [Ptys -> States] /\ session \in [Ptys -> Sessions]
    BY <1>0 DEF PtyTypeOK, WorkerTypeOK, States, Sessions
  <1>k. /\ "ExitPty" \in Kinds /\ "TerminatePty" \in Kinds /\ "RemovePty" \in Kinds
        /\ "SpawnPty" \in Kinds /\ "Status_SpawnPty" \in Kinds /\ "Disconnect" \in Kinds
        /\ "Connect" \in Kinds /\ "SyncVisibility" \in Kinds /\ "EmitSnapshot" \in Kinds
    BY DEF Kinds
  (* A handler that leaves alone every PTY an order can be about.           *)
  <1>d. ASSUME NEW k \in Kinds, Turn(k), Done(k), UNCHANGED <<queue, handler>>,
               \A p \in Ptys :
                 state[p] \in {"Active", "Spawning"} /\ session[p] \in {"none", "quiescent", "ended"}
                 => state'[p] = state[p] /\ session'[p] = session[p]
        PROVE  OrderInv'
    <2>1. group[k] # <<>> /\ handler = "Select"
      BY <1>d DEF Turn
    <2>2. \A o \in Orders : Fits(o) => Fits(o)'
      BY <1>d, FitsAll
    <2> QED
      BY <1>0, <1>d, <2>1, <2>2, OrderDone
  (* A handler that is about the one PTY its order is about.                *)
  <1>e. ASSUME NEW h \in Orders, NEW p \in Ptys, h.ptys = {p}, NEW o \in Orders, Fits(o),
               o.kind \in {"ExitPty", "Status_SpawnPty"} => o.ptys # {p},
               \A q \in Ptys : q # p => state'[q] = state[q] /\ session'[q] = session[q]
        PROVE  Fits(o)'
    <2>1. \A q \in Ptys :
            o.kind \in {"ExitPty", "Status_SpawnPty"} /\ o.ptys = {q} =>
              state'[q] = state[q] /\ session'[q] = session[q]
      BY <1>e
    <2> QED
      BY <1>e, <2>1, FitsStep
  <1>1. CASE ReceiveLeading \/ DrainAndApply
    <2>1. handler # "Announce" /\ queue # <<>> /\ Group(Head(queue))
      BY <1>1 DEF ReceiveLeading, DrainAndApply
    <2> QED
      BY <1>0, <2>1, OrderTake
  <1>2. CASE Execute
    <2>1. handler = "Drain" /\ UNCHANGED <<queue, group, state, session>>
      BY <1>2 DEF Execute, ptyVars
    <2>2. \A o \in Orders : Fits(o) => Fits(o)'
      BY <2>1, FitsAll
    <2> QED
      BY <1>0, <2>1, <2>2, OrderStay
  <1>3. CASE HandleExit
    <2>1. handler = "Select" /\ group["ExitPty"] # <<>>
      BY <1>3 DEF HandleExit, Turn
    <2>2. PICK p \in Ptys : Head(group["ExitPty"]).ptys = {p} /\ state[p] = "Active"
      BY <2>1, <1>0, ExitFits
    <2>3. UNCHANGED <<queue, group, state, session>>
      BY <1>3, <2>2 DEF HandleExit, ptyVars
    <2>4. \A o \in Orders : Fits(o) => Fits(o)'
      BY <2>3, FitsAll
    <2> QED
      BY <1>0, <2>1, <2>3, <2>4, OrderStay
  <1>4. CASE SetExited
    <2>1. handler = "SetExited" /\ group["ExitPty"] # <<>> /\ Done("ExitPty") /\ handler' = "Select"
          /\ UNCHANGED <<queue, session>>
      BY <1>4 DEF SetExited, HandlerInv
    <2>2. PICK p \in Ptys : /\ Head(group["ExitPty"]).ptys = {p}
                            /\ state[p] = "Active" /\ session[p] = "ended"
      BY <2>1, <1>0, ExitFits
    <2>3. Head(group["ExitPty"]) \in Orders /\ Head(group["ExitPty"]).kind = "ExitPty"
      BY <2>1, <1>0, <1>k, HeadFits, HeadType
    <2>4. PICK h \in Orders : h = Head(group["ExitPty"])
      BY <2>3
    <2>5. state' = [state EXCEPT ![p] = "Exited"]
      BY <1>4, <2>2 DEF SetExited
    <2>6. \A q \in Ptys : q # p => state'[q] = state[q] /\ session'[q] = session[q]
      BY <2>1, <2>5, <1>f
    <2>7. \A o \in Orders : Fits(o) /\ Apart(o, Head(group["ExitPty"])) =>
            o.kind \notin {"ExitPty", "Status_SpawnPty"} \/ o.ptys # {p}
      <3> SUFFICES ASSUME NEW o \in Orders, Fits(o), Apart(o, h),
                          o.kind \in {"ExitPty", "Status_SpawnPty"}, o.ptys = {p}
                   PROVE  FALSE
        BY <2>4
      <3>1. o.kind = "ExitPty"
        BY <2>2 DEF Fits
      <3> QED
        BY <3>1, <2>2, <2>3, <2>4 DEF Apart
    <2>8. \A o \in Orders : Fits(o) /\ Apart(o, Head(group["ExitPty"])) => Fits(o)'
      BY <1>e, <2>2, <2>4, <2>6, <2>7
    <2> QED
      BY <1>0, <1>k, <2>1, <2>8, OrderDone
  <1>5. CASE HandleTerminate
    BY <1>5, <1>k, <1>d DEF HandleTerminate
  <1>6. CASE HandleRemove
    <2>1. /\ Turn("RemovePty") /\ Done("RemovePty") /\ UNCHANGED <<queue, handler, session>>
          /\ \A p \in Ptys : state[p] = "Exited" \/ state'[p] = state[p]
      BY <1>6 DEF HandleRemove
    <2> QED
      BY <2>1, <1>k, <1>d
  <1>7. CASE HandleSpawn
    <2>1. /\ Turn("SpawnPty") /\ Done("SpawnPty") /\ UNCHANGED <<queue, handler>>
          /\ state' = [state EXCEPT ![idNext] = "Spawning"]
          /\ session' = [session EXCEPT ![idNext] = "spawning"] /\ idNext < MaxPtys
      BY <1>7 DEF HandleSpawn
    <2>2. idNext \in Ptys /\ state[idNext] = "Unborn"
      BY <2>1, <1>0, PtysFacts DEF BirthInv, CoordinatorTypeOK
    <2>3. \A p \in Ptys : state[p] = "Unborn" \/ (state'[p] = state[p] /\ session'[p] = session[p])
      BY <2>1, <2>2, <1>f
    <2> QED
      BY <2>1, <2>3, <1>k, <1>d
  <1>v. ASSUME Turn("Status_SpawnPty")
        PROVE  /\ handler = "Select" /\ group["Status_SpawnPty"] # <<>>
               /\ \E h \in Orders, p \in Ptys :
                    /\ h = Head(group["Status_SpawnPty"]) /\ h.ptys = {p}
                    /\ state[p] = "Spawning"
                    /\ \A o \in Orders : Fits(o) /\ Apart(o, h) =>
                         o.kind \notin {"ExitPty", "Status_SpawnPty"} \/ o.ptys # {p}
    <2>1. handler = "Select" /\ group["Status_SpawnPty"] # <<>>
      BY <1>v DEF Turn
    <2>2. PICK p \in Ptys : Head(group["Status_SpawnPty"]).ptys = {p} /\ state[p] = "Spawning"
      BY <2>1, <1>0, VerdictFits
    <2>3. Head(group["Status_SpawnPty"]) \in Orders /\ Head(group["Status_SpawnPty"]).kind = "Status_SpawnPty"
      BY <2>1, <1>0, <1>k, HeadFits, HeadType
    <2>4. PICK h \in Orders : h = Head(group["Status_SpawnPty"])
      BY <2>3
    <2>5. ASSUME NEW o \in Orders, Fits(o), Apart(o, h),
                 o.kind \in {"ExitPty", "Status_SpawnPty"}, o.ptys = {p}
          PROVE  FALSE
      <3>1. o.kind = "Status_SpawnPty"
        BY <2>2, <2>5 DEF Fits
      <3> QED
        BY <3>1, <2>2, <2>3, <2>4, <2>5 DEF Apart
    <2> QED
      BY <2>1, <2>2, <2>4, <2>5
  <1>8. CASE HandleFailure
    <2>1. Turn("Status_SpawnPty") /\ Done("Status_SpawnPty")
      BY <1>8 DEF HandleFailure
    <2>2. PICK h \in Orders, p \in Ptys :
            /\ h = Head(group["Status_SpawnPty"]) /\ h.ptys = {p} /\ state[p] = "Spawning"
            /\ \A o \in Orders : Fits(o) /\ Apart(o, h) =>
                 o.kind \notin {"ExitPty", "Status_SpawnPty"} \/ o.ptys # {p}
      BY <2>1, <1>v
    <2>3. state' = [state EXCEPT ![p] = "Gone"] /\ UNCHANGED <<queue, handler, session>>
      BY <1>8, <2>2 DEF HandleFailure
    <2>4. \A q \in Ptys : q # p => state'[q] = state[q] /\ session'[q] = session[q]
      BY <2>3, <1>f
    <2>5. \A o \in Orders : Fits(o) /\ Apart(o, Head(group["Status_SpawnPty"])) => Fits(o)'
      BY <1>e, <2>2, <2>4
    <2> QED
      BY <1>0, <1>k, <1>v, <2>1, <2>3, <2>5, OrderDone
  <1>9. CASE HandleSuccess
    <2>1. Turn("Status_SpawnPty") /\ UNCHANGED queue
      BY <1>9 DEF HandleSuccess
    <2>2. PICK h \in Orders, p0 \in Ptys :
            /\ h = Head(group["Status_SpawnPty"]) /\ h.ptys = {p0} /\ state[p0] = "Spawning"
            /\ \A o \in Orders : Fits(o) /\ Apart(o, h) =>
                 o.kind \notin {"ExitPty", "Status_SpawnPty"} \/ o.ptys # {p0}
      BY <2>1, <1>v
    <2>3. PICK p \in Head(group["Status_SpawnPty"]).ptys :
            CancelSpawned(p) \/ Activate(p) \/ state[p] # "Spawning"
      BY <1>9, Zenon DEF HandleSuccess
    <2>4. p \in Ptys /\ p = p0
      BY <2>2
    <2>5. /\ state' = [state EXCEPT ![p] = "Gone"] \/ state' = [state EXCEPT ![p] = "Active"]
          /\ session' = session \/ session' = [session EXCEPT ![p] = "canceled"]
      BY <2>2, <2>3, <2>4 DEF CancelSpawned, Activate
    <2>6. \A q \in Ptys : q # p => state'[q] = state[q] /\ session'[q] = session[q]
      BY <2>4, <2>5, <1>f
    <2>7. \A o \in Orders : Fits(o) /\ Apart(o, Head(group["Status_SpawnPty"])) => Fits(o)'
      BY <1>e, <2>2, <2>4, <2>6
    <2>8. CASE CancelSpawned(p)
      BY <1>0, <1>k, <1>v, <2>1, <2>7, <2>8, OrderDone DEF CancelSpawned
    <2>9. CASE Activate(p)
      BY <1>0, <1>k, <1>v, <2>1, <2>7, <2>9, OrderAnnounce DEF Activate
    <2> QED
      BY <2>2, <2>3, <2>4, <2>8, <2>9
  <1>10. CASE Announce
    <2>1. /\ handler = "Announce" /\ group["Status_SpawnPty"] # <<>> /\ Done("Status_SpawnPty")
          /\ handler' = "Select" /\ UNCHANGED <<queue, state>>
      BY <1>10 DEF Announce, HandlerInv
    <2>2. PICK p \in Ptys : /\ Head(group["Status_SpawnPty"]).ptys = {p}
                            /\ state[p] = "Active" /\ session[p] = "quiescent"
      BY <2>1 DEF HandlerInv
    <2>3. PICK h \in Orders : h = Head(group["Status_SpawnPty"])
      BY <2>1, <1>0, <1>k, HeadType
    <2>4. session' = [session EXCEPT ![p] = "streaming"]
      BY <1>10, <2>2 DEF Announce
    <2>5. \A q \in Ptys : q # p => state'[q] = state[q] /\ session'[q] = session[q]
      BY <2>1, <2>4, <1>f
    <2>6. \A o \in Orders : Fits(o) => o.kind \notin {"ExitPty", "Status_SpawnPty"} \/ o.ptys # {p}
      BY <2>2 DEF Fits
    <2>7. \A o \in Orders : Fits(o) /\ Apart(o, Head(group["Status_SpawnPty"])) => Fits(o)'
      BY <1>e, <2>2, <2>3, <2>5, <2>6
    <2> QED
      BY <1>0, <1>k, <2>1, <2>7, OrderDone
  <1>11. CASE HandleDisconnect
    BY <1>11, <1>k, <1>d DEF HandleDisconnect
  <1>12. CASE HandleConnect
    BY <1>12, <1>k, <1>d DEF HandleConnect, ptyVars
  <1>13. CASE HandleSync
    BY <1>13, <1>k, <1>d DEF HandleSync
  <1>14. CASE HandleEmitSnapshot
    BY <1>14, <1>k, <1>d DEF HandleEmitSnapshot, ptyVars
  <1> QED
    BY <1>1, <1>2, <1>3, <1>4, <1>5, <1>6, <1>7, <1>8, <1>9, <1>10, <1>11, <1>12, <1>13, <1>14
    DEF Coordinator

(* A step keeps OrderInv.                                                   *)
LEMMA OrderStep ==
  ASSUME TypeOK, BirthInv, LifeInv, NoOrphan, OrderInv, HandlerInv, ReducerInv, Next
  PROVE  OrderInv'
  BY OrderFromReader, OrderFromReducer, OrderFromWorkers, OrderFromCoordinator DEF Next

-----------------------------------------------------------------------------
(* What the client knows.                                                  *)

(* A step keeps ClientKnowsPool.                                            *)
LEMMA KnowsStep ==
  ASSUME TypeOK, BirthInv, OrderInv, HandlerInv, ReducerInv, ClientKnowsPool, Next
  PROVE  ClientKnowsPool'
  <1>0. ClientTypeOK /\ KnownTypeOK /\ QueueTypeOK /\ CoordinatorTypeOK /\ PtyTypeOK
    BY TypeParts
  <1>p. \A p \in Ptys : state'[p] \in {"Spawning", "Active", "Exited"} =>
          state[p] \in {"Spawning", "Active", "Exited"} \/ IsBorn(p)
    BY LifeSteps DEF Lives, Stays, IsTerminated, Fails, IsCanceled, IsActivated,
       IsAnnounced, StopsWriting, Exits, IsRemoved, IsReported, Ends
  <1>q. UNCHANGED idNext => Pool' \subseteq Pool
    BY <1>p, <1>0 DEF Pool, IsBorn, CoordinatorTypeOK
  <1>s. ASSUME UNCHANGED <<connection, known, asked, idNext>>, told \subseteq told', Connected' => Connected
        PROVE  ClientKnowsPool'
    BY <1>s, <1>q DEF ClientKnowsPool
  <1>1. CASE Reader
    <2>1. UNCHANGED <<asked, idNext>>
      BY <1>1, ReaderFrame DEF coordinatorVars, ptyVars
    <2>2. CASE Attach
      BY <2>2 DEF Attach, ClientKnowsPool
    <2>3. CASE HandleConnected
      BY <2>1, <2>3, <1>s, Zenon DEF HandleConnected, Connected
    <2>4. CASE CloseForTakeover
      <3>1. websocket' = "closing"
        BY <2>4, Zenon DEF CloseForTakeover
      <3>2. ~Connected'
        BY <3>1, Zenon DEF Connected
      <3> QED
        BY <3>2 DEF ClientKnowsPool
    <2>5. CASE Teardown
      <3>1. websocket' = "torn down"
        BY <2>5, Zenon DEF Teardown
      <3>2. ~Connected'
        BY <3>1, Zenon DEF Connected
      <3> QED
        BY <3>2 DEF ClientKnowsPool
    <2>6. CASE HandleDisconnected
      <3>1. websocket' = "offline"
        BY <2>6, Zenon DEF HandleDisconnected
      <3>2. ~Connected'
        BY <3>1, Zenon DEF Connected
      <3> QED
        BY <3>2 DEF ClientKnowsPool
    <2>7. CASE ReceiveSpawn \/ ReceiveResize \/ ReceiveSync \/ ReceiveRemove
      <3>1. UNCHANGED <<websocket, connection, told, started, known>>
        BY <2>7, Zenon DEF ReceiveSpawn, ReceiveResize, ReceiveSync, ReceiveRemove, ToReducer, Receiving
      <3> QED
        BY <3>1, <2>1, <1>s DEF Connected
    <2>8. CASE ReceiveTerminate \/ ReceiveInput \/ EnqueueInput
      <3>1. UNCHANGED <<websocket, connection, told, started, known>>
        BY <2>8, Zenon DEF ReceiveTerminate, ReceiveInput, EnqueueInput, Receiving
      <3> QED
        BY <3>1, <2>1, <1>s DEF Connected
    <2> QED
      BY <1>1, <2>2, <2>3, <2>4, <2>5, <2>6, <2>7, <2>8 DEF Reader
  <1>2. CASE Reducer \/ Workers
    <2>1. UNCHANGED <<websocket, connection, told, known, asked, idNext>>
      BY <1>2, ReducerFrame, WorkersFrame DEF clientVars, coordinatorVars, ptyVars
    <2> QED
      BY <2>1, <1>s DEF Connected
  <1>3. CASE Coordinator
    <2>1. UNCHANGED <<websocket, connection>> /\ (Connected' <=> Connected)
      BY <1>3, CoordinatorFrame DEF Connected
    <2>2. CASE HandleSpawn
      <3>1. handler = "Select" /\ group["SpawnPty"] # <<>> /\ "SpawnPty" \in Kinds
        BY <2>2 DEF HandleSpawn, Turn, Kinds
      <3>2. Head(group["SpawnPty"]).kind = "SpawnPty" /\ Fits(Head(group["SpawnPty"]))
            /\ Head(group["SpawnPty"]).id \in Nat
        BY <3>1, <1>0, HeadFits, HeadType
      <3>3. PICK id \in Nat : id = Head(group["SpawnPty"]).id
        BY <3>2
      <3>4. id <= connection /\ connection \in Nat
        BY <3>2, <3>3, <1>0 DEF Fits, ClientTypeOK
      <3>5. idNext \in Ptys
        BY <2>2, <1>0, PtysFacts DEF HandleSpawn, CoordinatorTypeOK
      <3>6. /\ asked' = [asked EXCEPT ![idNext] = id] /\ UNCHANGED known
            /\ told' = IF Delivered(id) THEN told \cup {idNext} ELSE told
        BY <2>2, <3>3 DEF HandleSpawn
      <3>7. asked'[idNext] = id /\ \A p \in Ptys : p # idNext => asked'[p] = asked[p]
        BY <3>5, <3>6, <1>0 DEF PtyTypeOK
      <3>8. Pool' \subseteq Pool \cup {idNext}
        BY <1>p DEF Pool, IsBorn
      <3>9. SUFFICES ASSUME known # -1, Connected, NEW p \in Pool' \ told'
                     PROVE  p >= known /\ asked'[p] < connection
        BY <2>1, <3>6 DEF ClientKnowsPool
      <3>10. CASE p = idNext
        <4>1. ~Delivered(id)
          BY <3>9, <3>10, <3>6
        <4>2. id # connection
          BY <4>1, <3>9 DEF Delivered, Established, Connected
        <4> QED
          BY <4>2, <3>4, <3>7, <3>10, <1>0 DEF BirthInv, CoordinatorTypeOK, KnownTypeOK
      <3>11. CASE p # idNext
        <4>1. p \in Pool \ told /\ p \in Ptys
          BY <3>11, <3>9, <3>8, <3>6 DEF Pool
        <4> QED
          BY <4>1, <3>7, <3>9, <3>11 DEF ClientKnowsPool
      <3> QED
        BY <3>10, <3>11
    <2>3. CASE HandleConnect
      <3>1. UNCHANGED <<asked, idNext>>
        BY <2>3 DEF HandleConnect, ptyVars
      <3>2. CASE UNCHANGED <<told, known>>
        BY <3>1, <3>2, <2>1, <1>s
      <3>3. CASE told' = told \cup Pool
        BY <3>1, <3>3, <1>q DEF ClientKnowsPool
      <3> QED
        BY <2>3, <3>2, <3>3 DEF HandleConnect
    <2>4. CASE ~(HandleSpawn \/ HandleConnect)
      <3>1. UNCHANGED <<told, known>>
        BY <1>3, <2>4, CoordinatorTells DEF Announce
      <3>2. UNCHANGED asked
        BY <1>3, <2>4 DEF Coordinator, ReceiveLeading, DrainAndApply, Execute, Group, HandleExit,
           SetExited, HandleTerminate, HandleRemove, HandleFailure, HandleSuccess, Announce,
           HandleDisconnect, HandleSync, HandleEmitSnapshot, Panic, ptyVars
      <3>3. UNCHANGED idNext
        BY <2>4, IdSteps
      <3> QED
        BY <2>1, <3>1, <3>2, <3>3, <1>s
    <2> QED
      BY <2>2, <2>3, <2>4
  <1> QED
    BY <1>1, <1>2, <1>3 DEF Next

-----------------------------------------------------------------------------
(* Sizes and input stay in order.                                          *)

SizeOK(p) ==
  /\ Settled(size[p]) /\ Settled(tentative[p]) /\ Settled(Submission(p).size)
  /\ \A i \in DOMAIN resizerQueue[p] :
       size[p] <= resizerQueue[p][i].size /\ Settled(resizerQueue[p][i].size)
  /\ tentative[p] # 0 => Reaches(p, tentative[p])
  /\ Submission(p) # Resize(0, 0) => Reaches(p, Submission(p).size)

(* A step keeps the sizes on their way to one PTY in order, and its size    *)
(* grows.                                                                   *)
LEMMA SizeStep ==
  ASSUME TypeOK, BirthInv, OrderInv, ReducerInv, SizeInv, Next, NEW p \in Ptys
  PROVE  SizeOK(p)' /\ size[p] <= size'[p]
  <1>0. ClientTypeOK /\ ReducerTypeOK /\ WorkerTypeOK
    BY TypeParts
  <1>f. /\ tentative[p] \in Nat /\ Submission(p) \in ResizeOrders /\ Submission(p).size \in Nat
        /\ size[p] \in Nat /\ resizerQueue[p] \in Seq(ResizeOrders)
        /\ \A i \in DOMAIN resizerQueue[p] : resizerQueue[p][i].size \in Nat
    <2>1. tentative[p] \in Nat /\ reducer.submission[p] \in ResizeOrders
      BY <1>0 DEF ReducerTypeOK, ResizeOrders
    <2>2. size[p] \in Nat /\ resizerQueue[p] \in Seq(ResizeOrders)
      BY <1>0 DEF WorkerTypeOK, ResizeOrders
    <2>3. \A i \in DOMAIN resizerQueue[p] : resizerQueue[p][i] \in ResizeOrders
      BY <2>2
    <2>4. \A o \in ResizeOrders : o.size \in Nat
      BY DEF ResizeOrders
    <2> QED
      BY <2>1, <2>2, <2>3, <2>4 DEF Submission
  <1>i. SizeOK(p)
    BY DEF SizeInv, SizeOK, Submission
  <1>m. \A n \in Nat : Settled(n) => Settled(n)'
    BY SettledStep
  <1>z. Settled(0)' /\ Resize(0, 0).size = 0
    <2>1. Settled(0)
      BY <1>0, <1>f, <1>i, SettledBelow DEF SizeOK
    <2> QED
      BY <2>1, <1>m DEF Resize
  <1>1. CASE SizeStays(p)
    BY <1>1, <1>f, <1>i, <1>m DEF SizeStays, SizeOK, Reaches
  <1>2. CASE SizeTaken(p)
    <2>1. PICK kind \in MessageKinds : Take(kind)
      BY <1>2 DEF SizeTaken
    <2>2. UNCHANGED number
      BY <1>2 DEF SizeTaken
    <2>3. PICK n \in Nat : n = Head(reducerQueue).number
      BY <2>1, <1>0, TakeType
    <2>4. Settled(n)' /\ \A m \in Nat : Settled(m) => m < n
      BY <2>1, <2>2, <2>3, <1>0, TakeSettles
    <2>5. /\ tentative'[p] \in {tentative[p], 0, n}
          /\ \/ Submission(p)' \in {Submission(p), Resize(0, 0)}
             \/ Submission(p)'.size = n
          /\ UNCHANGED <<resizerQueue[p], size[p]>>
      BY <1>2, <2>3 DEF SizeTaken
    <2>6. Reaches(p, n)
      BY <2>4, <1>f, <1>i DEF SizeOK, Reaches
    <2>7. Settled(size[p])' /\ Settled(tentative[p])' /\ Settled(Submission(p).size)'
      BY <2>4, <2>5, <1>f, <1>i, <1>m, <1>z DEF SizeOK
    <2> QED
      BY <2>5, <2>6, <2>7, <1>f, <1>i, <1>m, <1>z DEF SizeOK, Reaches
  <1>3. CASE SizeSubmitted(p)
    <2>1. /\ tentative'[p] \in {tentative[p], 0}
          /\ Submission(p)' \in {Submission(p), Resize(0, 0)}
          /\ UNCHANGED size[p]
      BY <1>3 DEF SizeSubmitted
    <2>2. Settled(size[p])' /\ Settled(tentative[p])' /\ Settled(Submission(p).size)'
      BY <2>1, <1>f, <1>i, <1>m, <1>z DEF SizeOK
    <2>3. CASE UNCHANGED resizerQueue[p]
      BY <2>1, <2>2, <2>3, <1>f, <1>i, <1>m DEF SizeOK, Reaches
    <2>4. CASE ~UNCHANGED resizerQueue[p]
      <3>1. tentative'[p] = 0 /\ Submission(p)' = Resize(0, 0)
        BY <1>3, <2>4 DEF SizeSubmitted
      <3>2. PICK o \in ResizeOrders :
              /\ resizerQueue'[p] = Append(resizerQueue[p], o)
              /\ (o = Submission(p) /\ o # Resize(0, 0)) \/ (o.size = tentative[p] /\ o.size # 0)
        BY <1>3, <2>4 DEF SizeSubmitted
      <3>3. Reaches(p, o.size) /\ Settled(o.size) /\ o.size \in Nat
        BY <3>2, <1>f, <1>i DEF SizeOK, ResizeOrders
      <3>4. \A i \in DOMAIN resizerQueue'[p] :
              \/ i \in DOMAIN resizerQueue[p] /\ resizerQueue'[p][i] = resizerQueue[p][i]
              \/ resizerQueue'[p][i] = o
        BY <3>2, <1>f, AppendFacts
      <3>5. \A i \in DOMAIN resizerQueue'[p] :
              size'[p] <= resizerQueue'[p][i].size /\ Settled(resizerQueue[p][i].size)'
        <4> SUFFICES ASSUME NEW i \in DOMAIN resizerQueue'[p], NEW q, q = resizerQueue'[p][i]
                     PROVE  size'[p] <= q.size /\ Settled(q.size)'
          OBVIOUS
        <4>1. CASE q = o
          BY <4>1, <2>1, <3>3, <1>m DEF Reaches
        <4>2. CASE i \in DOMAIN resizerQueue[p] /\ q = resizerQueue[p][i]
          BY <4>2, <2>1, <1>f, <1>i, <1>m DEF SizeOK
        <4> QED
          BY <4>1, <4>2, <3>4
      <3> QED
        BY <2>1, <2>2, <3>1, <3>5, <1>f DEF SizeOK
    <2> QED
      BY <2>3, <2>4
  <1>4. CASE SizeApplied(p)
    <2>1. /\ resizerQueue'[p] = <<>> /\ UNCHANGED <<tentative[p], Submission(p)>>
          /\ \E i \in DOMAIN resizerQueue[p] : size'[p] = resizerQueue[p][i].size
      <3>1. Len(resizerQueue[p]) \in DOMAIN resizerQueue[p]
        BY <1>4, <1>f DEF SizeApplied
      <3> QED
        BY <1>4, <3>1 DEF SizeApplied
    <2>2. PICK i \in DOMAIN resizerQueue[p] : size'[p] = resizerQueue[p][i].size
      BY <2>1
    <2>3. Settled(size[p])' /\ Settled(tentative[p])' /\ Settled(Submission(p).size)'
      BY <2>1, <2>2, <1>f, <1>i, <1>m DEF SizeOK
    <2> QED
      BY <2>1, <2>2, <2>3, <1>f, <1>i DEF SizeOK, Reaches
  <1>5. CASE SizeStarts(p)
    <2>1. /\ resizerQueue[p] = <<>> /\ tentative[p] = 0 /\ Submission(p) = Resize(0, 0) /\ size[p] = 0
      <3>1. state[p] = "Unborn"
        BY <1>5, PtysFacts, TypeParts DEF SizeStarts, BirthInv, CoordinatorTypeOK
      <3> QED
        BY <3>1 DEF BirthInv, Submission
    <2>2. Settled(size[p])' /\ size'[p] \in Nat
      BY <1>5 DEF SizeStarts, Settled
    <2> QED
      BY <1>5, <2>1, <2>2, <1>z DEF SizeStarts, SizeOK, Reaches
  <1> QED
    BY <1>1, <1>2, <1>3, <1>4, <1>5, SizeSteps DEF Sizes

(* A step keeps SizeInv.                                                    *)
LEMMA SizeInvStep ==
  ASSUME TypeOK, BirthInv, OrderInv, ReducerInv, SizeInv, Next
  PROVE  SizeInv'
  BY SizeStep DEF SizeInv, SizeOK, Submission

(* What one step does to the input of one PTY.                              *)
LEMMA InputStep ==
  ASSUME TypeOK, InputInv, Next
  PROVE  InputInv' /\ \A p \in Ptys : written'[p] # written[p] => written'[p] > written[p]
  <1>0. ClientTypeOK /\ InputTypeOK
    BY TypeParts
  <1>f. /\ number \in Nat /\ typing.pty \in Ptys /\ typing.number \in Nat
        /\ \A p \in Ptys : /\ written[p] \in Nat /\ inputs[p] \in Seq(Nat)
                           /\ Len(inputs[p]) \in Nat /\ DOMAIN inputs[p] = 1 .. Len(inputs[p])
                           /\ \A i \in DOMAIN inputs[p] : inputs[p][i] \in Nat
    <2>1. \A p \in Ptys : written[p] \in Nat /\ inputs[p] \in Seq(Nat)
      BY <1>0 DEF InputTypeOK
    <2>2. \A p \in Ptys : /\ Len(inputs[p]) \in Nat /\ DOMAIN inputs[p] = 1 .. Len(inputs[p])
                          /\ \A i \in DOMAIN inputs[p] : inputs[p][i] \in Nat
      BY <2>1
    <2> QED
      BY <1>0, <2>1, <2>2 DEF ClientTypeOK
  <1>i. /\ \A p \in Ptys :
             /\ written[p] <= number
             /\ \A i \in DOMAIN inputs[p] : written[p] < inputs[p][i] /\ inputs[p][i] <= number
             /\ \A i, j \in DOMAIN inputs[p] : i < j => inputs[p][i] < inputs[p][j]
        /\ typing # NobodyTypes =>
             /\ typing.number = number
             /\ written[typing.pty] < number
             /\ \A i \in DOMAIN inputs[typing.pty] : inputs[typing.pty][i] < number
    BY DEF InputInv
  <1>s. ASSUME UNCHANGED <<inputs, written>>,
               \/ UNCHANGED <<number, typing>>
               \/ /\ number' = number + 1
                  /\ typing' = NobodyTypes \/ (typing'.number = number' /\ typing'.pty \in Ptys)
        PROVE  InputInv' /\ \A p \in Ptys : written'[p] # written[p] => written'[p] > written[p]
    <2>1. CASE UNCHANGED <<number, typing>>
      BY <1>s, <2>1, <1>i DEF InputInv
    <2>2. CASE /\ number' = number + 1
               /\ typing' = NobodyTypes \/ (typing'.number = number' /\ typing'.pty \in Ptys)
      <3>1. \A p \in Ptys :
              /\ written[p] < number'
              /\ \A i \in DOMAIN inputs[p] : inputs[p][i] < number'
        BY <2>2, <1>i, <1>f
      <3> QED
        BY <1>s, <2>2, <3>1, <1>i, <1>f DEF InputInv
    <2> QED
      BY <1>s, <2>1, <2>2
  <1>1. CASE Reader
    <2>1. CASE EnqueueInput
      <3>1. /\ typing # NobodyTypes /\ typing' = NobodyTypes /\ UNCHANGED <<number, written>>
            /\ \/ UNCHANGED inputs
               \/ inputs' = [inputs EXCEPT ![typing.pty] = Append(@, typing.number)]
        <4>1. /\ typing # NobodyTypes /\ typing' = NobodyTypes /\ UNCHANGED <<number, written>>
          BY <2>1 DEF EnqueueInput
        <4>2. \/ inputs' = [inputs EXCEPT ![typing.pty] = inputs[typing.pty]]
              \/ inputs' = [inputs EXCEPT ![typing.pty] = Append(inputs[typing.pty], typing.number)]
          BY <2>1 DEF EnqueueInput
        <4> QED
          BY <4>1, <4>2, <1>0 DEF InputTypeOK
      <3>2. CASE UNCHANGED inputs
        BY <3>1, <3>2, <1>i DEF InputInv
      <3>3. CASE inputs' = [inputs EXCEPT ![typing.pty] = Append(@, typing.number)]
        <4>1. \A p \in Ptys : p # typing.pty => inputs'[p] = inputs[p]
          BY <3>3, <1>0 DEF InputTypeOK
        <4>2. inputs'[typing.pty] = Append(inputs[typing.pty], typing.number)
          BY <3>3, <1>f, <1>0 DEF InputTypeOK
        <4>3. /\ DOMAIN inputs'[typing.pty] = 1 .. Len(inputs[typing.pty]) + 1
              /\ \A i \in 1 .. Len(inputs[typing.pty]) : inputs'[typing.pty][i] = inputs[typing.pty][i]
              /\ inputs'[typing.pty][Len(inputs[typing.pty]) + 1] = number
          <5>1. typing.number = number /\ inputs[typing.pty] \in Seq(Nat)
            BY <3>1, <1>i, <1>f
          <5> QED
            BY <4>2, <5>1, <1>f, AppendFacts
        <4>4. /\ \A i \in DOMAIN inputs'[typing.pty] :
                   written[typing.pty] < inputs'[typing.pty][i] /\ inputs'[typing.pty][i] <= number
              /\ \A i, j \in DOMAIN inputs'[typing.pty] :
                   i < j => inputs'[typing.pty][i] < inputs'[typing.pty][j]
          <5>1. /\ written[typing.pty] < number /\ number \in Nat /\ Len(inputs[typing.pty]) \in Nat
                /\ DOMAIN inputs[typing.pty] = 1 .. Len(inputs[typing.pty])
                /\ \A i \in 1 .. Len(inputs[typing.pty]) :
                     /\ inputs[typing.pty][i] \in Nat
                     /\ written[typing.pty] < inputs[typing.pty][i] /\ inputs[typing.pty][i] < number
                /\ \A i, j \in 1 .. Len(inputs[typing.pty]) :
                     i < j => inputs[typing.pty][i] < inputs[typing.pty][j]
            BY <3>1, <1>i, <1>f
          <5>2. \A i \in DOMAIN inputs'[typing.pty] :
                  \/ i \in 1 .. Len(inputs[typing.pty]) /\ inputs'[typing.pty][i] = inputs[typing.pty][i]
                  \/ i = Len(inputs[typing.pty]) + 1 /\ inputs'[typing.pty][i] = number
            BY <4>3, <5>1
          <5>3. \A i \in DOMAIN inputs'[typing.pty] :
                  written[typing.pty] < inputs'[typing.pty][i] /\ inputs'[typing.pty][i] <= number
            <6> SUFFICES ASSUME NEW i \in DOMAIN inputs'[typing.pty]
                         PROVE  written[typing.pty] < inputs'[typing.pty][i] /\ inputs'[typing.pty][i] <= number
              OBVIOUS
            <6> QED
              BY <5>1, <5>2
          <5>4. ASSUME NEW i \in DOMAIN inputs'[typing.pty], NEW j \in DOMAIN inputs'[typing.pty], i < j
                PROVE  inputs'[typing.pty][i] < inputs'[typing.pty][j]
            <6>1. i \in 1 .. Len(inputs[typing.pty]) /\ inputs'[typing.pty][i] = inputs[typing.pty][i]
              BY <5>4, <4>3, <5>1
            <6> QED
              BY <5>4, <6>1, <5>1, <5>2
          <5> QED
            BY <5>3, <5>4
        <4> QED
          BY <3>1, <4>1, <4>4, <1>i DEF InputInv
      <3> QED
        BY <3>1, <3>2, <3>3
    <2>2. CASE ReceiveInput
      <3>1. PICK p \in started :
              typing' = IF state[p] = "Active" THEN [pty |-> p, number |-> number'] ELSE NobodyTypes
        BY <2>2 DEF ReceiveInput
      <3>2. number' = number + 1 /\ UNCHANGED <<inputs, written>>
        BY <2>2 DEF ReceiveInput, writerVars
      <3>3. typing' = NobodyTypes \/ (typing'.number = number' /\ typing'.pty \in Ptys)
        BY <3>1, <1>0 DEF ClientTypeOK
      <3> QED
        BY <3>2, <3>3, <1>s
    <2>3. CASE ReceiveSpawn \/ ReceiveResize \/ ReceiveSync \/ ReceiveRemove
      <3>1. /\ number' = number + 1 /\ UNCHANGED <<typing, inputs, written>> /\ typing = NobodyTypes
        BY <2>3, Zenon DEF ReceiveSpawn, ReceiveResize, ReceiveSync, ReceiveRemove, ToReducer,
           Receiving, writerVars
      <3> QED
        BY <3>1, <1>s
    <2>4. CASE ~(\/ EnqueueInput \/ ReceiveInput
                 \/ ReceiveSpawn \/ ReceiveResize \/ ReceiveSync \/ ReceiveRemove)
      <3>1. UNCHANGED <<number, typing, inputs, written>>
        BY <1>1, <2>4, Zenon DEF Reader, Attach, HandleConnected, CloseForTakeover, Teardown,
           HandleDisconnected, ReceiveTerminate, connectionUnchanged, writerVars
      <3> QED
        BY <3>1, <1>s
    <2> QED
      BY <2>1, <2>2, <2>3, <2>4
  <1>2. CASE Reducer \/ Coordinator
    BY <1>2, <1>s, ReducerFrame, CoordinatorFrame DEF clientVars, writerVars
  <1>3. CASE Workers
    <2>1. UNCHANGED <<number, typing>>
      BY <1>3, WorkersFrame DEF clientVars
    <2>2. PICK p \in Ptys : UNCHANGED <<inputs, written>> \/ RunWriter(p)
      BY <1>3 DEF Workers, RunResizer, SendEmitSnapshot, SpawnReported, SessionEnds, writerVars
    <2>3. CASE RunWriter(p)
      <3>1. /\ inputs[p] # <<>> /\ written' = [written EXCEPT ![p] = Head(inputs[p])]
            /\ inputs' = [inputs EXCEPT ![p] = Tail(@)]
        BY <2>3 DEF RunWriter
      <3>2. /\ Head(inputs[p]) = inputs[p][1] /\ Len(inputs[p]) >= 1 /\ 1 \in DOMAIN inputs[p]
            /\ DOMAIN Tail(inputs[p]) = 1 .. Len(inputs[p]) - 1
            /\ \A i \in 1 .. Len(inputs[p]) - 1 : Tail(inputs[p])[i] = inputs[p][i + 1]
        BY <3>1, <1>f, TailFacts
      <3>3. /\ written'[p] = inputs[p][1] /\ inputs'[p] = Tail(inputs[p])
            /\ \A q \in Ptys : q # p => written'[q] = written[q] /\ inputs'[q] = inputs[q]
        BY <3>1, <3>2, <1>0 DEF InputTypeOK
      <3>4. \A i \in DOMAIN inputs'[p] : /\ i \in Int /\ i + 1 \in DOMAIN inputs[p] /\ 1 < i + 1
                                         /\ inputs'[p][i] = inputs[p][i + 1]
        BY <3>2, <3>3, <1>f
      <3>5. /\ written[p] < written'[p] /\ written'[p] <= number
            /\ \A i \in DOMAIN inputs'[p] : written'[p] < inputs'[p][i] /\ inputs'[p][i] <= number
            /\ \A i, j \in DOMAIN inputs'[p] : i < j => inputs'[p][i] < inputs'[p][j]
        <4>1. \A i, j \in DOMAIN inputs'[p] : i < j => i + 1 < j + 1
          BY <3>4
        <4> QED
          BY <3>2, <3>3, <3>4, <4>1, <1>i
      <3>6. typing # NobodyTypes =>
              /\ written'[typing.pty] < number
              /\ \A i \in DOMAIN inputs'[typing.pty] : inputs'[typing.pty][i] < number
        <4>1. CASE typing.pty = p
          BY <4>1, <3>2, <3>3, <3>4, <1>i
        <4>2. CASE typing.pty # p
          BY <4>2, <3>3, <1>f, <1>i
        <4> QED
          BY <4>1, <4>2
      <3>7. InputInv'
        BY <2>1, <3>3, <3>5, <3>6, <1>i DEF InputInv
      <3> QED
        BY <3>3, <3>5, <3>7, <1>f
    <2> QED
      BY <2>1, <2>2, <2>3, <1>s
  <1> QED
    BY <1>1, <1>2, <1>3 DEF Next

-----------------------------------------------------------------------------
(* The invariant.                                                          *)

(* The invariant holds initially.                                           *)
LEMMA InitInv == Init => Inv
  <1> SUFFICES ASSUME Init PROVE Inv
    OBVIOUS
  <1>1. TypeOK
    BY InitType
  <1>2. NoInvalidPath /\ ClientKnowsPool
    BY DEF Init, NoInvalidPath, ClientKnowsPool
  <1>3. /\ state = [p \in Ptys |-> "Unborn"] /\ session = [p \in Ptys |-> "none"]
        /\ canceledWorkers = [p \in Ptys |-> {}] /\ frames = [p \in Ptys |-> <<>>]
        /\ queue = <<>> /\ group = EmptyGroup /\ handler = "Select" /\ idNext = 0
        /\ reducerQueue = <<>> /\ reducer = IdleReducer /\ tentative = NoUpdates
        /\ resizerQueue = [p \in Ptys |-> <<>>] /\ size = [p \in Ptys |-> 0]
        /\ inputs = [p \in Ptys |-> <<>>] /\ written = [p \in Ptys |-> 0]
        /\ number = 0 /\ connection = 1 /\ known = -1 /\ told = {} /\ started = {}
        /\ typing = NobodyTypes
    BY Zenon DEF Init
  <1>4. NoOrphan /\ WorkersFollowPty /\ LifeInv
    BY <1>3 DEF NoOrphan, WorkersFollowPty, LifeInv
  <1>5. \A p \in Ptys : ~canceled[p]
    BY DEF Init
  <1>6. \A p \in Ptys : reducer.submission[p] = Resize(0, 0) /\ tentative[p] = 0
    BY <1>3, IdleReducerType DEF NoOrders, NoUpdates
  <1>7. BirthInv
    <2>1. \A p \in Ptys : p >= 0
      BY PtysFacts
    <2> QED
      BY <1>3, <1>5, <1>6, <2>1, PtysAssumption DEF BirthInv
  <1>8. \A k \in Kinds : group[k] = <<>>
    BY <1>3 DEF EmptyGroup
  <1>9. OrderInv
    BY <1>3, <1>8 DEF OrderInv
  <1>10. HandlerInv
    BY <1>3 DEF HandlerInv
  <1>11. Settled(0)
    BY <1>3 DEF Settled
  <1>12. ReducerInv
    BY <1>3, <1>11, IdleReducerType DEF ReducerInv
  <1>13. SizeInv
    BY <1>3, <1>6, <1>11 DEF SizeInv, Resize
  <1>14. InputInv
    BY <1>3 DEF InputInv
  <1> QED
    BY <1>1, <1>2, <1>4, <1>7, <1>9, <1>10, <1>12, <1>13, <1>14 DEF Inv

(* The invariant is inductive.                                              *)
LEMMA StepInv == Inv /\ [Next]_vars => Inv'
  <1> SUFFICES ASSUME Inv, [Next]_vars PROVE Inv'
    OBVIOUS
  <1>1. CASE Next
    <2>1. /\ TypeOK /\ NoInvalidPath /\ NoOrphan /\ WorkersFollowPty /\ ClientKnowsPool
          /\ BirthInv /\ LifeInv /\ OrderInv /\ HandlerInv /\ ReducerInv /\ SizeInv /\ InputInv
      BY DEF Inv
    <2>2. TypeOK'
      BY <1>1, <2>1, TypeStep
    <2>3. NoInvalidPath'
      BY <1>1, <2>1, LifeSteps DEF NoInvalidPath
    <2>4. NoOrphan' /\ WorkersFollowPty' /\ LifeInv'
      BY <1>1, <2>1, LifeStep
    <2>5. ClientKnowsPool'
      BY <1>1, <2>1, KnowsStep
    <2>6. BirthInv' /\ HandlerInv' /\ ReducerInv'
      BY <1>1, <2>1, BirthStep, HandlerStep, ReducerStep
    <2>7. OrderInv'
      BY <1>1, <2>1, OrderStep
    <2>8. SizeInv' /\ InputInv'
      BY <1>1, <2>1, SizeInvStep, InputStep
    <2> QED
      BY <2>2, <2>3, <2>4, <2>5, <2>6, <2>7, <2>8 DEF Inv
  <1>2. CASE UNCHANGED vars
    <2>1. /\ TypeOK /\ NoInvalidPath /\ NoOrphan /\ WorkersFollowPty /\ ClientKnowsPool
          /\ BirthInv /\ LifeInv /\ OrderInv /\ HandlerInv /\ ReducerInv /\ SizeInv /\ InputInv
      BY DEF Inv
    <2>2. TypeOK'
      BY <1>2, <2>1, TypeStep
    <2>3. /\ UNCHANGED <<websocket, connection, budget, number, told, started, known, typing>>
          /\ UNCHANGED <<reducerQueue, reducer, tentative, timer, queue, group, handler, idNext>>
          /\ UNCHANGED <<state, canceled, visibility, asked, frames, session>>
          /\ UNCHANGED <<resizerQueue, snapshot, size, inputs, written, canceledWorkers, panicked>>
      BY <1>2 DEF vars, clientVars, reducerVars, coordinatorVars, ptyVars, resizerVars, writerVars
    <2>4. NoInvalidPath' /\ NoOrphan' /\ WorkersFollowPty' /\ LifeInv' /\ BirthInv'
      BY <2>1, <2>3 DEF NoInvalidPath, NoOrphan, WorkersFollowPty, LifeInv, BirthInv
    <2>5. ClientKnowsPool'
      <3>1. (Connected' <=> Connected) /\ Pool' = Pool
        BY <2>3 DEF Connected, Pool
      <3> QED
        BY <2>1, <2>3, <3>1 DEF ClientKnowsPool
    <2>6. OrderInv' /\ HandlerInv'
      BY <2>1, <2>3 DEF OrderInv, Fits, Settled, Apart, Announced, HandlerInv
    <2>7. ReducerInv' /\ SizeInv' /\ InputInv'
      BY <2>1, <2>3 DEF ReducerInv, Settled, SizeInv, Reaches, InputInv
    <2> QED
      BY <2>2, <2>4, <2>5, <2>6, <2>7 DEF Inv
  <1> QED
    BY <1>1, <1>2

(* The workspace never leaves the invariant.                                *)
THEOREM WorkspaceInvariant == Spec => []Inv
  BY InitInv, StepInv, PTL DEF Spec

-----------------------------------------------------------------------------
(* What it promises.                                                       *)

(* Every variable has its type, and no queue exceeds its capacity.          *)
THEOREM WorkspaceTypes == Spec => []TypeOK
  <1>1. Inv => TypeOK
    BY DEF Inv
  <1> QED
    BY WorkspaceInvariant, <1>1, PTL

(* No handler of the coordinator, and no input of a client, meets a PTY in  *)
(* a state in which the code panics.                                        *)
THEOREM EveryPathValid == Spec => []NoInvalidPath
  <1>1. Inv => NoInvalidPath
    BY DEF Inv
  <1> QED
    BY WorkspaceInvariant, <1>1, PTL

(* A process that runs belongs to a PTY of the pool, or its session has     *)
(* been canceled.                                                           *)
THEOREM NobodyOrphaned == Spec => []NoOrphan
  <1>1. Inv => NoOrphan
    BY DEF Inv
  <1> QED
    BY WorkspaceInvariant, <1>1, PTL

(* The workers of a PTY are canceled when it leaves, and not before.        *)
THEOREM WorkersEndWithPty == Spec => []WorkersFollowPty
  <1>1. Inv => WorkersFollowPty
    BY DEF Inv
  <1> QED
    BY WorkspaceInvariant, <1>1, PTL

(* A client that has its manifest knows the pool, but for the late spawns   *)
(* of an earlier connection.                                                *)
THEOREM PoolKnown == Spec => []ClientKnowsPool
  <1>1. Inv => ClientKnowsPool
    BY DEF Inv
  <1> QED
    BY WorkspaceInvariant, <1>1, PTL

(* No step sets a terminal to an older size or writes input out of order.   *)
THEOREM SizesAndInputInOrder == Spec => InOrder
  <1>1. Inv /\ [Next]_vars =>
          [\A p \in Ptys : size'[p] >= size[p] /\ (written'[p] # written[p] => written'[p] > written[p])]_vars
    <2> SUFFICES ASSUME Inv, Next
                 PROVE  \A p \in Ptys : size'[p] >= size[p] /\ (written'[p] # written[p] => written'[p] > written[p])
      OBVIOUS
    <2>1. /\ TypeOK /\ BirthInv /\ OrderInv /\ ReducerInv /\ SizeInv /\ InputInv
      BY DEF Inv
    <2>2. WorkerTypeOK /\ WorkerTypeOK'
      BY TypeParts, WorkerType DEF Inv
    <2>3. \A p \in Ptys : size[p] \in Nat /\ size'[p] \in Nat
      BY <2>2 DEF WorkerTypeOK
    <2>4. \A p \in Ptys : size'[p] >= size[p]
      BY <2>1, <2>3, SizeStep
    <2> QED
      BY <2>1, <2>4, InputStep
  <1> QED
    BY <1>1, WorkspaceInvariant, PTL DEF InOrder, Spec

(* A step of the workspace is, for every PTY, a step of its abstract life   *)
(* or none.                                                                 *)
LEMMA LifecycleStep ==
  ASSUME Inv, Next, NEW p \in Ptys
  PROVE  [Lifecycle(p)!Next]_(<<state[p], canceled[p], frames[p]>>)
  <1>0. canceled[p] \in BOOLEAN /\ canceled'[p] \in BOOLEAN
    <2>1. PtyTypeOK /\ PtyTypeOK'
      BY TypeParts, PtyType DEF Inv
    <2> QED
      BY <2>1 DEF PtyTypeOK
  <1>1. Lives(p)
    BY LifeSteps DEF Inv
  <1>2. /\ state[p] = "Spawning" => frames[p] = <<"SPAWNING">>
        /\ state[p] = "Active" =>
             frames[p] = IF session[p] = "quiescent" THEN <<"SPAWNING">> ELSE <<"SPAWNING", "SUCCESS">>
    BY DEF Inv, LifeInv
  <1>3. CASE Stays(p) \/ StopsWriting(p) \/ IsReported(p) \/ Ends(p)
    BY <1>3 DEF Stays, StopsWriting, IsReported, Ends
  <1>4. CASE IsBorn(p)
    BY <1>4 DEF IsBorn, Lifecycle!Next, Lifecycle!Spawn, Lifecycle!Say
  <1>5. CASE IsTerminated(p)
    BY <1>0, <1>5 DEF IsTerminated, Lifecycle!Next, Lifecycle!Terminate
  <1>6. CASE Fails(p)
    BY <1>6 DEF Fails, Lifecycle!Next, Lifecycle!Fail, Lifecycle!Say
  <1>7. CASE IsCanceled(p)
    BY <1>7 DEF IsCanceled, Lifecycle!Next, Lifecycle!Cancel, Lifecycle!Say
  <1>8. CASE IsActivated(p)
    BY <1>8 DEF IsActivated, Lifecycle!Next, Lifecycle!Activate
  <1>9. CASE IsAnnounced(p)
    BY <1>2, <1>9 DEF IsAnnounced, Lifecycle!Next, Lifecycle!Announce, Lifecycle!Say
  <1>10. CASE Exits(p)
    BY <1>2, <1>10 DEF Exits, Lifecycle!Next, Lifecycle!Exit, Lifecycle!Say
  <1>11. CASE IsRemoved(p)
    BY <1>11 DEF IsRemoved, Lifecycle!Next, Lifecycle!Remove
  <1> QED
    BY <1>1, <1>3, <1>4, <1>5, <1>6, <1>7, <1>8, <1>9, <1>10, <1>11 DEF Lives

(* Each PTY lives the life of PtyLifecycle, whatever the others and the     *)
(* connections do.                                                          *)
THEOREM LifecycleImplemented == Spec => ImplementsLifecycle
  <1>1. Init => \A p \in Ptys : Lifecycle(p)!Init
    BY DEF Init, Lifecycle!Init
  <1>2. Inv /\ [Next]_vars =>
          [\A p \in Ptys : [Lifecycle(p)!Next]_(<<state[p], canceled[p], frames[p]>>)]_vars
    BY LifecycleStep
  <1> QED
    BY <1>1, <1>2, WorkspaceInvariant, PTL DEF ImplementsLifecycle, Spec
=============================================================================
