------------------------ MODULE PtySnapshotSync_proofs ------------------------
(***************************************************************************)
(* Proofs about PtySnapshotSync: for any number of chunks, connections and *)
(* syncs, a client that is streamed to misses nothing, a PTY nobody shows  *)
(* is silent, orders of an old connection have no effect on a new one, and *)
(* a client has got all output when the exit is handled.                   *)
(*                                                                         *)
(* The argument: what the coordinator streams and is in the middle of is   *)
(* meant for the connection it compared; if that connection ends, its      *)
(* Disconnect waits until the coordinator comes to it (EndInv), and while  *)
(* it waits nothing is claimed. So in an aligned state a snapshot and its  *)
(* replay go to the current connection (AlignedInv), and the only output   *)
(* that may miss it, a live flush under an old id, is older than the       *)
(* snapshot that replaced it.                                              *)
(***************************************************************************)
EXTENDS PtySnapshotSync, SequenceTheorems, WellFoundedInduction, TLAPS

(* An order of this kind is in the queue or in the group.                   *)
Waits(kind) == group[kind] # <<>> \/ \E i \in 1 .. Len(queue) : queue[i].kind = kind

(* Orders of which there is one in the life of the PTY.                     *)
Once == {"ExitPty", "SpawnPty", "Status_SpawnPty"}

Streaming == mode \in {"LIVE", "POST_SNAPSHOT"}

(* The coordinator is in the middle of showing, hiding or a snapshot.       *)
Showing == {"Visibility", "PreToPost", "SerializeExited", "CaptureSnapshot", "WriteSnapshot",
            "PostToLive", "CapturePost", "WritePost"}

(* The dispatcher's place, the state of the PTY and its mode agree.         *)
PlaceInv ==
  /\ dispatcher = "none" <=> state = "Absent"
  /\ dispatcher \in {"spawning", "quiescent"} <=> state = "Spawning"
  /\ dispatcher \in {"Select", "CaptureId", "Write"} => state = "Active"
  /\ state \in {"Absent", "Spawning"} => mode = "SPAWNING" /\ terminal = 0
  /\ state = "Active" => mode \in {"LIVE", "PRE_SNAPSHOT", "POST_SNAPSHOT"}
  /\ state = "Exited" => mode = "EXITED" /\ dispatcher = "finished"
  /\ dispatcher \in {"CaptureId", "Write"} => terminal # 0

(* A spawn, its verdict and the exit are ordered once, one after the other. *)
OnceInv ==
  /\ reducer.at = "SendSpawn" => dispatcher = "none" /\ ~Waits("SpawnPty")
  /\ Waits("SpawnPty") => dispatcher = "none"
  /\ Waits("Status_SpawnPty") => dispatcher = "quiescent" /\ handler # "SetMode"
  /\ handler = "SetMode" => dispatcher = "quiescent"
  /\ Waits("ExitPty") => dispatcher = "finished" /\ state = "Active"
  /\ \A k \in Kinds : Len(group[k]) <= 1
  /\ \A i \in 1 .. Len(queue) :
       queue[i].kind \in Once =>
         /\ group[queue[i].kind] = <<>>
         /\ \A j \in 1 .. Len(queue) : queue[j].kind = queue[i].kind => i = j

(* What the first steps of a handler leave to the last.                     *)
HandlerInv ==
  /\ handler = "Visibility" => group.SyncVisibility # <<>>
  /\ handler = "PreToPost" => state = "Active" /\ visibility = "VISIBLE"
  /\ handler = "SerializeExited" => state = "Exited"
  /\ handler = "PostToLive" => state = "Active"
  /\ handler \in {"CaptureSnapshot", "WriteSnapshot", "PostToLive"} =>
       state = "Exited" \/ (state = "Active" /\ mode = "POST_SNAPSHOT" /\ visibility = "VISIBLE")

(* A hidden PTY that streams is about to be silenced.                       *)
SilentInv == visibility # "VISIBLE" /\ Streaming => handler \in {"Silence", "AlignMode"}

(* Without a connection nothing is streamed or shown, unless the end of the *)
(* last connection waits to be handled.                                     *)
EndInv ==
  websocket = "offline" /\ ~Waits("Disconnect") /\ handler # "Silence" =>
    ~Streaming /\ handler \notin Showing /\ (handler = "SetMode" => captured = 0)

(* A sync of the current connection answers its manifest.                   *)
Answered(id) == id <= connection /\ (id = connection => manifest = connection)

SessionKinds == {"SyncVisibility", "EmitSnapshot"}

IdsInv ==
  /\ Answered(1)
  /\ \A i \in 1 .. Len(reducerQueue) : Answered(reducerQueue[i].id)
  /\ Answered(reducer.id) /\ Answered(reducer.resize)
  /\ \A i \in 1 .. Len(resizerQueue) : Answered(resizerQueue[i])
  /\ Answered(resizer)
  /\ \A i \in 1 .. Len(queue) : queue[i].kind \in SessionKinds => Answered(queue[i].id)
  /\ \A k \in SessionKinds : group[k] # <<>> => Answered(Head(group[k]).id)

(* Output on its way to the current connection: all of OnTheWay but a live  *)
(* flush under the id of an old one.                                        *)
Coming ==
  (IF handler = "PreToPost" THEN 1 .. terminal ELSE {})
  \cup (IF handler \in {"CaptureSnapshot", "WriteSnapshot", "CapturePost", "WritePost"}
        THEN Elements(outgoing) ELSE {})
  \cup (IF mode = "POST_SNAPSHOT" THEN Elements(post) ELSE {})
  \cup (IF dispatcher = "CaptureId" \/ (dispatcher = "Write" /\ dispatcherId = connection)
        THEN {terminal} ELSE {})

(* In an aligned state the coordinator works for the current connection,    *)
(* and what its client has not got is coming.                               *)
AlignedInv ==
  Aligned =>
    /\ handler \in Showing => manifest = connection
    /\ handler \in {"WriteSnapshot", "WritePost"} => captured = connection
    /\ Streaming => \A c \in 1 .. terminal : c \in Elements(screen) \/ c \in Coming

IInv ==
  /\ TypeOK
  /\ PlaceInv /\ OnceInv /\ HandlerInv /\ SilentInv /\ EndInv /\ IdsInv /\ AlignedInv

-----------------------------------------------------------------------------
(* Lemmas about sequences.                                                  *)

(* What a receive leaves.                                                   *)
LEMMA TailFacts ==
  ASSUME NEW S, NEW s \in Seq(S), s # <<>>
  PROVE  /\ Len(s) \in Nat /\ Len(s) >= 1
         /\ Head(s) = s[1] /\ Head(s) \in S
         /\ Tail(s) \in Seq(S) /\ Len(Tail(s)) = Len(s) - 1
         /\ \A i \in 1 .. Len(s) - 1 : Tail(s)[i] = s[i + 1]
  OBVIOUS

(* What a send adds.                                                        *)
LEMMA AppendFacts ==
  ASSUME NEW S, NEW s \in Seq(S), NEW e \in S
  PROVE  /\ Len(s) \in Nat
         /\ Append(s, e) \in Seq(S) /\ Len(Append(s, e)) = Len(s) + 1
         /\ \A i \in 1 .. Len(s) : Append(s, e)[i] = s[i]
         /\ Append(s, e)[Len(s) + 1] = e
  OBVIOUS

(* A group has room for one order of a kind, so handling it empties it.     *)
LEMMA TailOfOne ==
  ASSUME NEW S, NEW s \in Seq(S), Len(s) <= 1, s # <<>>
  PROVE  Tail(s) = <<>>
  OBVIOUS

(* A sequence of one.                                                       *)
LEMMA OneFacts ==
  ASSUME NEW S, NEW e \in S
  PROVE  /\ <<e>> \in Seq(S) /\ Len(<<e>>) = 1 /\ <<e>> # <<>> /\ Head(<<e>>) = e
         /\ <<>> \in Seq(S) /\ Len(<<>>) = 0
  OBVIOUS

(* What concatenation shows.                                                *)
LEMMA ElementsOfConcat ==
  ASSUME NEW S, NEW s \in Seq(S), NEW t \in Seq(S)
  PROVE  s \o t \in Seq(S) /\ Elements(s \o t) = Elements(s) \cup Elements(t)
  <1>1. /\ s \o t \in Seq(S) /\ Len(s \o t) = Len(s) + Len(t) /\ Len(s) \in Nat /\ Len(t) \in Nat
        /\ \A i \in 1 .. Len(s) : (s \o t)[i] = s[i]
        /\ \A i \in 1 .. Len(t) : (s \o t)[Len(s) + i] = t[i]
    OBVIOUS
  <1>2. ASSUME NEW i \in 1 .. Len(s \o t)
        PROVE  (s \o t)[i] \in Elements(s) \cup Elements(t)
    <2>1. CASE i <= Len(s)
      BY <1>1, <2>1 DEF Elements
    <2>2. CASE ~(i <= Len(s))
      <3>1. i - Len(s) \in 1 .. Len(t) /\ Len(s) + (i - Len(s)) = i
        BY <1>1, <2>2
      <3> QED
        BY <1>1, <3>1 DEF Elements
    <2> QED
      BY <2>1, <2>2
  <1>3. ASSUME NEW i \in 1 .. Len(s)
        PROVE  s[i] \in Elements(s \o t)
    BY <1>1 DEF Elements
  <1>4. ASSUME NEW i \in 1 .. Len(t)
        PROVE  t[i] \in Elements(s \o t)
    <2>1. Len(s) + i \in 1 .. Len(s \o t) /\ (s \o t)[Len(s) + i] = t[i]
      BY <1>1
    <2> QED
      BY <2>1, Zenon DEF Elements
  <1>5. /\ Elements(s \o t) \subseteq Elements(s) \cup Elements(t)
        /\ Elements(s) \cup Elements(t) \subseteq Elements(s \o t)
    BY <1>2, <1>3, <1>4, Zenon DEF Elements
  <1> QED
    BY <1>1, <1>5

(* A non-empty set of places has a last one.                                *)
LEMMA Greatest ==
  ASSUME NEW n \in Nat, NEW T \in SUBSET (1 .. n), T # {}
  PROVE  \E x \in T : \A y \in T : y <= x
  <1> DEFINE U == {k \in Nat : n - k \in T}
  <1>1. PICK x \in T : TRUE
    OBVIOUS
  <1>2. n - x \in U
    <2>1. n - x \in Nat /\ n - (n - x) = x
      BY <1>1
    <2> QED
      BY <1>1, <2>1
  <1>3. PICK k \in U : \A j \in U : ~(<<j, k>> \in OpToRel(<, Nat))
    <2> HIDE DEF U
    <2>1. U # {} /\ U \subseteq Nat
      BY <1>2 DEF U
    <2> QED
      BY <2>1, WFMin, NatLessThanWellFounded
  <1>4. \A j \in U : ~(j < k)
    BY <1>3, Zenon DEF OpToRel
  <1>5. ASSUME NEW y \in T PROVE y <= n - k
    <2>1. n - y \in U /\ n - y \in Nat /\ y \in Nat
      <3>1. n - y \in Nat /\ n - (n - y) = y /\ y \in Nat
        OBVIOUS
      <3> QED
        BY <3>1
    <2> QED
      BY <1>4, <2>1
  <1>6. n - k \in T
    OBVIOUS
  <1> QED
    BY <1>5, <1>6

(* The resizer's order is one of those that were queued, or none.           *)
LEMMA CoalescedFacts ==
  ASSUME resizerQueue \in Seq(Ids \cup {JUST})
  PROVE  Coalesced = JUST \/ \E i \in 1 .. Len(resizerQueue) : Coalesced = resizerQueue[i]
  <1> DEFINE emits == {i \in DOMAIN resizerQueue : resizerQueue[i] # JUST}
             last == CHOOSE i \in emits : \A j \in emits : j <= i
  <1>1. DOMAIN resizerQueue = 1 .. Len(resizerQueue) /\ Len(resizerQueue) \in Nat
    OBVIOUS
  <1>2. Coalesced = IF emits = {} THEN JUST ELSE resizerQueue[last]
    BY DEF Coalesced
  <1>3. emits # {} => last \in emits
    <2>1. emits \in SUBSET (1 .. Len(resizerQueue))
      BY <1>1
    <2>2. emits # {} => \E i \in emits : \A j \in emits : j <= i
      <3> HIDE DEF emits
      <3> QED
        BY <1>1, <2>1, Greatest
    <2> HIDE DEF emits
    <2> QED
      BY <2>2
  <1> QED
    BY <1>1, <1>2, <1>3

-----------------------------------------------------------------------------
(* Types.                                                                   *)

(* An order is what it was made of.                                         *)
LEMMA OrderFacts ==
  ASSUME NEW k \in Kinds, NEW id \in 0 .. MaxConnections, NEW visible \in BOOLEAN
  PROVE  /\ Order(k, id, visible) \in Orders
         /\ Order(k, id, visible).kind = k /\ Order(k, id, visible).id = id
  BY DEF Order, Orders

(* A receive and a send keep the type of a queue of orders.                 *)
LEMMA QueueFacts ==
  ASSUME queue \in Seq(Orders)
  PROVE  /\ \A k \in Kinds, id \in 0 .. MaxConnections, v \in BOOLEAN :
              Append(queue, Order(k, id, v)) \in Seq(Orders)
         /\ queue # <<>> => Tail(queue) \in Seq(Orders) /\ Head(queue) \in Orders
  BY OrderFacts, AppendFacts, TailFacts

(* Handling an order leaves a group, with one of the kinds empty.           *)
LEMMA DoneFacts ==
  ASSUME group \in [Kinds -> Seq(Orders)], \A k \in Kinds : Len(group[k]) <= 1,
         NEW kind \in Kinds, group[kind] # <<>>, Done(kind)
  PROVE  /\ group' \in [Kinds -> Seq(Orders)] /\ group'[kind] = <<>>
         /\ \A k \in Kinds : k # kind => group'[k] = group[k]
  <1>1. group[kind] \in Seq(Orders) /\ Len(group[kind]) <= 1
    OBVIOUS
  <1>2. Tail(group[kind]) = <<>> /\ <<>> \in Seq(Orders)
    BY <1>1, TailOfOne
  <1> QED
    BY <1>2 DEF Done

(* What grouping an order changes: the order takes its place or is dropped, *)
(* and a Disconnect drops what an ended session still wanted.               *)
LEMMA ApplyFacts ==
  ASSUME group \in [Kinds -> Seq(Orders)], NEW o \in Orders, Apply(o)
  PROVE  /\ group' \in [Kinds -> Seq(Orders)]
         /\ \A k \in Kinds : \/ group'[k] = group[k]
                             \/ k = o.kind /\ group'[k] = <<o>>
                             \/ k \in {"Connect", "SyncVisibility", "EmitSnapshot"}
                                /\ o.kind = "Disconnect" /\ group'[k] = <<>>
         /\ o.kind \notin SessionKinds => group'[o.kind] = <<o>>
  <1>1. o.kind \in Kinds /\ <<o>> \in Seq(Orders) /\ <<>> \in Seq(Orders)
    BY OneFacts DEF Orders
  <1>2. CASE o.kind \in {"ExitPty", "SpawnPty", "Status_SpawnPty", "Connect"}
    <2>1. group' = [group EXCEPT ![o.kind] = <<o>>]
      BY <1>2 DEF Apply
    <2> QED
      BY <1>1, <1>2, <2>1 DEF SessionKinds
  <1>3. CASE o.kind = "Disconnect"
    <2>1. group' = [group EXCEPT !.Disconnect = <<o>>, !.Connect = <<>>,
                                 !.SyncVisibility = <<>>, !.EmitSnapshot = <<>>]
      BY <1>3 DEF Apply
    <2> QED
      BY <1>1, <1>3, <2>1 DEF Kinds, SessionKinds
  <1>4. CASE o.kind = "SyncVisibility"
    <2>1. group' = [group EXCEPT !.SyncVisibility = <<o>>] \/ group' = group
      BY <1>4 DEF Apply
    <2> QED
      BY <1>1, <1>4, <2>1 DEF Kinds, SessionKinds
  <1>5. CASE o.kind = "EmitSnapshot"
    <2>1. group' = [group EXCEPT !.EmitSnapshot = <<o>>] \/ group' = group
      BY <1>5 DEF Apply
    <2> QED
      BY <1>1, <1>5, <2>1 DEF Kinds, SessionKinds
  <1> QED
    BY <1>1, <1>2, <1>3, <1>4, <1>5 DEF Kinds

PlacesTypeOK ==
  /\ websocket \in {"attached", "reading", "torn down", "offline"}
  /\ handler \in {"Select", "Drain", "Execute", "SetMode", "Silence", "Visibility", "AlignMode",
                  "PreToPost", "SerializeExited", "CaptureSnapshot", "WriteSnapshot",
                  "PostToLive", "CapturePost", "WritePost"}
  /\ state \in {"Absent", "Spawning", "Active", "Exited"}
  /\ visibility \in {"DISCONNECTED_UNKNOWN", "VISIBLE", "NOT_VISIBLE"}
  /\ mode \in {"SPAWNING", "LIVE", "PRE_SNAPSHOT", "POST_SNAPSHOT", "EXITED"}
  /\ dispatcher \in {"none", "spawning", "quiescent", "Select", "CaptureId", "Write", "finished"}

NumbersTypeOK ==
  /\ connection \in Ids /\ manifest \in Ids
  /\ told \in 0 .. MaxConnections /\ captured \in 0 .. MaxConnections
  /\ dispatcherId \in 0 .. MaxConnections
  /\ syncs \in 0 .. MaxSyncs

ReducerTypeOK ==
  /\ reducerQueue \in Seq([id : Ids, visible : BOOLEAN])
  /\ reducer \in [at : {"SendSpawn", "Select", "SendSync", "Submit"}, id : Ids, visible : BOOLEAN,
                  resize : Ids \cup {JUST}]

ResizerTypeOK ==
  /\ resizerQueue \in Seq(Ids \cup {JUST}) /\ Len(resizerQueue) <= SIZE_QUEUE_RESIZER
  /\ resizer \in Ids \cup {JUST}

OrdersTypeOK == queue \in Seq(Orders) /\ group \in [Kinds -> Seq(Orders)]

OutputTypeOK ==
  /\ screen \in Seq(Chunks) /\ outgoing \in Seq(Chunks) /\ post \in Seq(Chunks)
  /\ terminal \in 0 .. MaxChunks

(* The type invariant, one part for each group of variables.                *)
LEMMA TypeParts ==
  TypeOK <=> /\ PlacesTypeOK /\ NumbersTypeOK /\ ReducerTypeOK /\ ResizerTypeOK /\ OrdersTypeOK
             /\ OutputTypeOK
  BY Zenon DEF TypeOK, PlacesTypeOK, NumbersTypeOK, ReducerTypeOK, ResizerTypeOK, OrdersTypeOK,
         OutputTypeOK

(* Connections are numbered from 1.                                         *)
LEMMA IdsFacts ==
  /\ MaxConnections \in Nat /\ MaxSyncs \in Nat /\ MaxChunks \in Nat /\ SIZE_QUEUE_RESIZER \in Nat
  /\ 1 \in Ids /\ Ids \subseteq 0 .. MaxConnections /\ 0 \in 0 .. MaxConnections
  /\ Ids \subseteq Nat
  BY BoundAssumption, ResizerAssumption DEF Ids

(* The initial state is well typed.                                         *)
LEMMA InitType == Init => TypeOK
  <1> SUFFICES ASSUME Init PROVE TypeOK
    OBVIOUS
  <1> USE IdsFacts DEF Init
  <1>1. PlacesTypeOK
    BY DEF PlacesTypeOK
  <1>2. NumbersTypeOK
    BY DEF NumbersTypeOK
  <1>3. ReducerTypeOK
    <2>1. reducer = [at |-> "SendSpawn", id |-> 1, visible |-> FALSE, resize |-> JUST]
      BY DEF IdleReducer
    <2>2. reducer \in [at : {"SendSpawn", "Select", "SendSync", "Submit"}, id : Ids,
                       visible : BOOLEAN, resize : Ids \cup {JUST}]
      <3> HIDE DEF Init
      <3> QED
        BY <2>1
    <2>3. reducerQueue \in Seq([id : Ids, visible : BOOLEAN])
      OBVIOUS
    <2> QED
      BY <2>2, <2>3, Zenon DEF ReducerTypeOK
  <1>4. ResizerTypeOK
    BY DEF ResizerTypeOK, JUST
  <1>5. OrdersTypeOK
    BY DEF OrdersTypeOK, EmptyGroup
  <1>6. OutputTypeOK
    BY DEF OutputTypeOK
  <1> QED
    BY <1>1, <1>2, <1>3, <1>4, <1>5, <1>6, TypeParts

(* A step keeps the types of the places.                                    *)
LEMMA PlacesType ==
  ASSUME PlacesTypeOK, Next
  PROVE  PlacesTypeOK'
  <1> USE DEF PlacesTypeOK, ptyVars, proxyVars, coordinatorVars, dispatcherVars, websocketVars,
              othersUnchanged
  <1>1. CASE Connection
    BY <1>1, Zenon DEF Connection, Attach, HandleConnected, ReceiveSync, Teardown, HandleDisconnected
  <1>2. CASE Layout
    BY <1>2, Zenon DEF Layout, SendSpawnPty, ReadVisibility, SendSyncVisibility, Submit,
                       DrainAndCoalesce, SendEmitSnapshot
  <1>3. CASE Dispatcher
    BY <1>3, Zenon DEF Dispatcher, SpawnReported, HandleBlockingFlush, HandleOutput, WriteLive,
                       ReaderFinished
  <1>4. CASE DrainAndApply \/ Execute \/ HandleExit \/ HandleSpawnPty \/ CaptureStatus
    BY <1>4, Zenon DEF DrainAndApply, Execute, HandleExit, HandleSpawnPty, CaptureStatus
  <1>5. CASE SpawnSuccess \/ HandleDisconnect \/ Silence \/ HandleConnect
    BY <1>5, Zenon DEF SpawnSuccess, HandleDisconnect, Silence, HandleConnect
  <1>6. CASE HandleSyncVisibility \/ SyncVisibility \/ AlignMode
    BY <1>6, Zenon DEF HandleSyncVisibility, SyncVisibility, AlignMode
  <1>7. CASE HandleEmitSnapshot
    <2>1. handler' \in {"Execute", "PreToPost", "SerializeExited"}
      BY <1>7 DEF HandleEmitSnapshot
    <2> QED
      BY <1>7, <2>1, Zenon DEF HandleEmitSnapshot
  <1>8. CASE Serialize \/ CaptureId \/ WriteOutput \/ PostToLive
    BY <1>8, Zenon DEF Serialize, CaptureId, WriteOutput, PostToLive, AfterSnapshot
  <1> QED
    BY <1>1, <1>2, <1>3, <1>4, <1>5, <1>6, <1>7, <1>8, Zenon DEF Next, Coordinator

(* A step keeps the types of the ids.                                       *)
LEMMA NumbersType ==
  ASSUME NumbersTypeOK, Next
  PROVE  NumbersTypeOK'
  <1> USE IdsFacts DEF NumbersTypeOK, clientVars, coordinatorVars, dispatcherVars, websocketVars,
              othersUnchanged
  <1>1. CASE Attach
    BY <1>1 DEF Attach, Ids
  <1>2. CASE ReceiveSync
    BY <1>2 DEF ReceiveSync
  <1>3. CASE HandleConnected \/ Teardown \/ HandleDisconnected
    BY <1>3 DEF HandleConnected, Teardown, HandleDisconnected
  <1>4. CASE Layout
    BY <1>4 DEF Layout, SendSpawnPty, ReadVisibility, SendSyncVisibility, Submit,
                DrainAndCoalesce, SendEmitSnapshot
  <1>5. CASE Dispatcher
    BY <1>5 DEF Dispatcher, SpawnReported, HandleBlockingFlush, HandleOutput, WriteLive,
                ReaderFinished
  <1>6. CASE DrainAndApply \/ Execute \/ HandleExit \/ HandleSpawnPty \/ CaptureStatus
    BY <1>6 DEF DrainAndApply, Execute, HandleExit, HandleSpawnPty, CaptureStatus
  <1>7. CASE SpawnSuccess \/ HandleDisconnect \/ Silence \/ HandleConnect
    BY <1>7 DEF SpawnSuccess, HandleDisconnect, Silence, HandleConnect
  <1>8. CASE HandleSyncVisibility \/ SyncVisibility \/ AlignMode \/ HandleEmitSnapshot
    BY <1>8 DEF HandleSyncVisibility, SyncVisibility, AlignMode, HandleEmitSnapshot
  <1>9. CASE Serialize \/ CaptureId \/ WriteOutput \/ PostToLive
    BY <1>9 DEF Serialize, CaptureId, WriteOutput, PostToLive
  <1> QED
    BY <1>1, <1>2, <1>3, <1>4, <1>5, <1>6, <1>7, <1>8, <1>9, Zenon
    DEF Next, Connection, Coordinator

(* What each part of the server leaves alone.                               *)
LEMMA Frames ==
  /\ Connection => UNCHANGED <<reducer, resizerVars, coordinatorVars, ptyVars, proxyVars,
                               dispatcherVars>>
  /\ Layout => UNCHANGED <<websocketVars, clientVars, coordinatorVars, ptyVars, proxyVars,
                           dispatcherVars>>
  /\ Coordinator => UNCHANGED <<websocketVars, syncs, reducerVars, resizerVars, dispatcherId>>
  /\ Dispatcher => UNCHANGED <<websocketVars, manifest, told, syncs, reducerVars, resizerVars,
                               coordinatorVars, ptyVars, mode>>
  <1> USE DEF clientVars, reducerVars, dispatcherVars, websocketVars, othersUnchanged, proxyVars
  <1>1. Connection => UNCHANGED <<reducer, resizerVars, coordinatorVars, ptyVars, proxyVars,
                                  dispatcherVars>>
    BY DEF Connection, Attach, HandleConnected, ReceiveSync, Teardown, HandleDisconnected
  <1>2. Layout => UNCHANGED <<websocketVars, clientVars, coordinatorVars, ptyVars, proxyVars,
                              dispatcherVars>>
    BY DEF Layout, SendSpawnPty, ReadVisibility, SendSyncVisibility, Submit, DrainAndCoalesce,
           SendEmitSnapshot
  <1>3. Coordinator => UNCHANGED <<websocketVars, syncs, reducerVars, resizerVars, dispatcherId>>
    <2>1. DrainAndApply \/ Execute \/ HandleExit \/ HandleSpawnPty \/ CaptureStatus \/ SpawnSuccess
            => UNCHANGED <<websocketVars, syncs, reducerVars, resizerVars, dispatcherId>>
      BY DEF DrainAndApply, Execute, HandleExit, HandleSpawnPty, CaptureStatus, SpawnSuccess
    <2>2. HandleDisconnect \/ Silence \/ HandleConnect \/ HandleSyncVisibility \/ SyncVisibility
            \/ AlignMode \/ HandleEmitSnapshot
            => UNCHANGED <<websocketVars, syncs, reducerVars, resizerVars, dispatcherId>>
      BY DEF HandleDisconnect, Silence, HandleConnect, HandleSyncVisibility, SyncVisibility,
             AlignMode, HandleEmitSnapshot
    <2>3. Serialize \/ CaptureId \/ WriteOutput \/ PostToLive
            => UNCHANGED <<websocketVars, syncs, reducerVars, resizerVars, dispatcherId>>
      BY DEF Serialize, CaptureId, WriteOutput, PostToLive
    <2> QED
      BY <2>1, <2>2, <2>3, Zenon DEF Coordinator
  <1>4. Dispatcher => UNCHANGED <<websocketVars, manifest, told, syncs, reducerVars, resizerVars,
                                  coordinatorVars, ptyVars, mode>>
    BY DEF Dispatcher, SpawnReported, HandleBlockingFlush, HandleOutput, WriteLive, ReaderFinished
  <1> QED
    BY <1>1, <1>2, <1>3, <1>4

(* A step keeps the types of the reducer's state.                           *)
LEMMA ReducerType ==
  ASSUME NumbersTypeOK, ReducerTypeOK, Next
  PROVE  ReducerTypeOK'
  <1> USE IdsFacts DEF ReducerTypeOK
  <1>i. /\ IdleReducer \in [at : {"SendSpawn", "Select", "SendSync", "Submit"}, id : Ids,
                            visible : BOOLEAN, resize : Ids \cup {JUST}]
    BY DEF IdleReducer
  <1>1. CASE Coordinator \/ Dispatcher
    BY <1>1, Frames DEF reducerVars
  <1>2. CASE ReceiveSync
    <2>1. PICK visible \in BOOLEAN :
            reducerQueue' = Append(reducerQueue, [id |-> connection, visible |-> visible])
      BY <1>2 DEF ReceiveSync
    <2>2. [id |-> connection, visible |-> visible] \in [id : Ids, visible : BOOLEAN]
      BY DEF NumbersTypeOK
    <2> QED
      BY <1>2, <2>1, <2>2, AppendFacts DEF ReceiveSync
  <1>3. CASE Attach \/ HandleConnected \/ Teardown \/ HandleDisconnected
    BY <1>3 DEF Attach, HandleConnected, Teardown, HandleDisconnected, clientVars, reducerVars
  <1>4. CASE ReadVisibility
    <2>1. /\ Head(reducerQueue) \in [id : Ids, visible : BOOLEAN]
          /\ Tail(reducerQueue) \in Seq([id : Ids, visible : BOOLEAN])
      BY <1>4, TailFacts DEF ReadVisibility
    <2> QED
      BY <1>4, <2>1 DEF ReadVisibility
  <1>5. CASE SendSpawnPty \/ SendSyncVisibility \/ Submit
    BY <1>5, <1>i DEF SendSpawnPty, SendSyncVisibility, Submit
  <1>6. CASE DrainAndCoalesce \/ SendEmitSnapshot
    BY <1>6 DEF DrainAndCoalesce, SendEmitSnapshot, reducerVars
  <1> QED
    BY <1>1, <1>2, <1>3, <1>4, <1>5, <1>6, Zenon DEF Next, Connection, Layout

(* A step keeps the types of the resizer's state.                           *)
LEMMA ResizerType ==
  ASSUME ReducerTypeOK, ResizerTypeOK, Next
  PROVE  ResizerTypeOK'
  <1> USE IdsFacts DEF ResizerTypeOK
  <1>1. CASE Connection \/ Coordinator \/ Dispatcher
    BY <1>1, Frames DEF resizerVars
  <1>2. CASE Submit
    <2>1. reducer.resize \in Ids \cup {JUST}
      BY DEF ReducerTypeOK
    <2>2. /\ Append(resizerQueue, reducer.resize) \in Seq(Ids \cup {JUST})
          /\ Len(Append(resizerQueue, reducer.resize)) = Len(resizerQueue) + 1
          /\ Len(resizerQueue) \in Nat
      BY <2>1, AppendFacts
    <2> QED
      BY <1>2, <2>2 DEF Submit
  <1>3. CASE DrainAndCoalesce
    <2>1. Coalesced \in Ids \cup {JUST}
      BY CoalescedFacts
    <2>2. <<>> \in Seq(Ids \cup {JUST}) /\ Len(<<>>) = 0
      OBVIOUS
    <2> QED
      BY <1>3, <2>1, <2>2 DEF DrainAndCoalesce
  <1>4. CASE SendSpawnPty \/ ReadVisibility \/ SendSyncVisibility \/ SendEmitSnapshot
    BY <1>4 DEF SendSpawnPty, ReadVisibility, SendSyncVisibility, SendEmitSnapshot, resizerVars
  <1> QED
    BY <1>1, <1>2, <1>3, <1>4, Zenon DEF Next, Layout

-----------------------------------------------------------------------------
(* Orders.                                                                  *)

(* What a step does to the queue: nothing, a send, or a receive.            *)
LEMMA QueueSteps ==
  ASSUME NumbersTypeOK, ReducerTypeOK, ResizerTypeOK, OrdersTypeOK, Next
  PROVE  \/ UNCHANGED queue
         \/ DrainAndApply
         \/ /\ UNCHANGED group
            /\ \E k \in Kinds, id \in 0 .. MaxConnections, v \in BOOLEAN :
                 /\ queue' = Append(queue, Order(k, id, v))
                 /\ \/ k = "SpawnPty" /\ SendSpawnPty
                    \/ k = "Status_SpawnPty" /\ SpawnReported
                    \/ k = "ExitPty" /\ ReaderFinished
                    \/ k = "Disconnect" /\ HandleDisconnected
                    \/ k = "Connect" /\ HandleConnected
                    \/ k = "SyncVisibility" /\ SendSyncVisibility /\ id = reducer.id
                    \/ k = "EmitSnapshot" /\ SendEmitSnapshot /\ id = resizer
  <1> DEFINE Sent(k, id, v) == queue' = Append(queue, Order(k, id, v)) /\ UNCHANGED group
  <1>t. /\ "SpawnPty" \in Kinds /\ "Status_SpawnPty" \in Kinds /\ "ExitPty" \in Kinds
        /\ "Disconnect" \in Kinds /\ "Connect" \in Kinds /\ "SyncVisibility" \in Kinds
        /\ "EmitSnapshot" \in Kinds
    BY DEF Kinds
  <1>i. /\ connection \in 0 .. MaxConnections /\ reducer.id \in 0 .. MaxConnections
        /\ reducer.visible \in BOOLEAN /\ resizer \in 0 .. MaxConnections
        /\ 0 \in 0 .. MaxConnections /\ 1 \in 0 .. MaxConnections
    BY IdsFacts DEF NumbersTypeOK, ReducerTypeOK, ResizerTypeOK, JUST
  <1> USE DEF coordinatorVars
  <1>1. CASE Connection
    <2>1. CASE HandleConnected
      BY <1>t, <1>i, <2>1 DEF HandleConnected, Send
    <2>2. CASE HandleDisconnected
      BY <1>t, <1>i, <2>2 DEF HandleDisconnected, Send
    <2>3. CASE Attach \/ ReceiveSync \/ Teardown
      BY <2>3 DEF Attach, ReceiveSync, Teardown
    <2> QED
      BY <1>1, <2>1, <2>2, <2>3 DEF Connection
  <1>2. CASE Layout
    <2>1. CASE SendSpawnPty
      BY <1>t, <1>i, <2>1 DEF SendSpawnPty, Send
    <2>2. CASE SendSyncVisibility
      BY <1>t, <1>i, <2>2 DEF SendSyncVisibility, Send
    <2>3. CASE SendEmitSnapshot
      BY <1>t, <1>i, <2>3 DEF SendEmitSnapshot, Send
    <2>4. CASE ReadVisibility \/ Submit \/ DrainAndCoalesce
      BY <2>4 DEF ReadVisibility, Submit, DrainAndCoalesce
    <2> QED
      BY <1>2, <2>1, <2>2, <2>3, <2>4 DEF Layout
  <1>3. CASE Coordinator
    <2>1. CASE Execute \/ HandleExit \/ HandleSpawnPty \/ CaptureStatus \/ SpawnSuccess
      BY <2>1 DEF Execute, HandleExit, HandleSpawnPty, CaptureStatus, SpawnSuccess, othersUnchanged
    <2>2. CASE HandleDisconnect \/ Silence \/ HandleConnect \/ HandleSyncVisibility
               \/ SyncVisibility \/ AlignMode \/ HandleEmitSnapshot
      BY <2>2 DEF HandleDisconnect, Silence, HandleConnect, HandleSyncVisibility, SyncVisibility,
                  AlignMode, HandleEmitSnapshot, othersUnchanged
    <2>3. CASE Serialize \/ CaptureId \/ WriteOutput \/ PostToLive
      BY <2>3 DEF Serialize, CaptureId, WriteOutput, PostToLive, othersUnchanged
    <2> QED
      BY <1>3, <2>1, <2>2, <2>3, Zenon DEF Coordinator
  <1>4. CASE Dispatcher
    <2>1. CASE SpawnReported
      BY <1>t, <1>i, <2>1 DEF SpawnReported, Send
    <2>2. CASE ReaderFinished
      BY <1>t, <1>i, <2>2 DEF ReaderFinished, Send
    <2>3. CASE HandleBlockingFlush \/ HandleOutput \/ WriteLive
      BY <2>3 DEF HandleBlockingFlush, HandleOutput, WriteLive
    <2> QED
      BY <1>4, <2>1, <2>2, <2>3 DEF Dispatcher
  <1> QED
    BY <1>1, <1>2, <1>3, <1>4 DEF Next

(* What a step does to the group: nothing, a receive, or the handling of    *)
(* one order.                                                               *)
LEMMA GroupSteps ==
  ASSUME OrdersTypeOK, OnceInv, HandlerInv, Next
  PROVE  \/ UNCHANGED group
         \/ DrainAndApply
         \/ /\ handler \in {"Execute", "Visibility"}
            /\ UNCHANGED queue
            /\ \E k \in Kinds :
                 /\ group[k] # <<>> /\ Done(k)
                 /\ \/ k = "ExitPty" /\ HandleExit
                    \/ k = "SpawnPty" /\ HandleSpawnPty
                    \/ k = "Status_SpawnPty" /\ CaptureStatus
                    \/ k = "Disconnect" /\ HandleDisconnect
                    \/ k = "Connect" /\ HandleConnect
                    \/ k = "SyncVisibility" /\ (HandleSyncVisibility \/ SyncVisibility)
                    \/ k = "EmitSnapshot" /\ HandleEmitSnapshot
  <1>t. /\ "SpawnPty" \in Kinds /\ "Status_SpawnPty" \in Kinds /\ "ExitPty" \in Kinds
        /\ "Disconnect" \in Kinds /\ "Connect" \in Kinds /\ "SyncVisibility" \in Kinds
        /\ "EmitSnapshot" \in Kinds
    BY DEF Kinds
  <1>1. CASE Connection \/ Layout \/ Dispatcher
    BY <1>1, Frames DEF coordinatorVars
  <1> USE DEF othersUnchanged
  <1>2. CASE HandleExit
    BY <1>t, <1>2 DEF HandleExit, Turn
  <1>3. CASE HandleSpawnPty
    BY <1>t, <1>3 DEF HandleSpawnPty, Turn
  <1>4. CASE CaptureStatus
    BY <1>t, <1>4 DEF CaptureStatus, Turn
  <1>5. CASE HandleDisconnect
    BY <1>t, <1>5 DEF HandleDisconnect, Turn
  <1>6. CASE HandleConnect
    BY <1>t, <1>6 DEF HandleConnect, Turn
  <1>7. CASE HandleSyncVisibility
    BY <1>t, <1>7 DEF HandleSyncVisibility, Turn
  <1>8. CASE SyncVisibility
    BY <1>t, <1>8 DEF SyncVisibility, HandlerInv
  <1>9. CASE HandleEmitSnapshot
    BY <1>t, <1>9 DEF HandleEmitSnapshot, Turn
  <1>10. CASE Execute \/ SpawnSuccess \/ Silence \/ AlignMode
    BY <1>10 DEF Execute, SpawnSuccess, Silence, AlignMode
  <1>11. CASE Serialize \/ CaptureId \/ WriteOutput \/ PostToLive
    BY <1>11 DEF Serialize, CaptureId, WriteOutput, PostToLive
  <1> QED
    BY <1>1, <1>2, <1>3, <1>4, <1>5, <1>6, <1>7, <1>8, <1>9, <1>10, <1>11, Zenon
    DEF Next, Coordinator

(* A step keeps the types of queue and group.                               *)
LEMMA OrdersType ==
  ASSUME NumbersTypeOK, ReducerTypeOK, ResizerTypeOK, OrdersTypeOK, OnceInv, HandlerInv, Next
  PROVE  OrdersTypeOK'
  <1> USE DEF OrdersTypeOK
  <1>1. CASE DrainAndApply
    <2>1. Head(queue) \in Orders /\ Tail(queue) \in Seq(Orders)
      BY <1>1, TailFacts DEF DrainAndApply
    <2> QED
      BY <1>1, <2>1, ApplyFacts DEF DrainAndApply
  <1>2. CASE ~DrainAndApply
    <2>1. queue' \in Seq(Orders)
      BY <1>2, QueueSteps, QueueFacts
    <2>2. group' \in [Kinds -> Seq(Orders)]
      <3>1. ASSUME NEW k \in Kinds, group[k] # <<>>, Done(k)
            PROVE  group' \in [Kinds -> Seq(Orders)]
        BY <3>1, DoneFacts DEF OnceInv
      <3> QED
        BY <1>2, <3>1, GroupSteps
    <2> QED
      BY <2>1, <2>2
  <1> QED
    BY <1>1, <1>2

(* A step keeps the types of the output.                                    *)
LEMMA OutputType ==
  ASSUME PlaceInv, OutputTypeOK, Next
  PROVE  OutputTypeOK'
  <1> USE IdsFacts DEF OutputTypeOK, clientVars, coordinatorVars, proxyVars
  <1>e. <<>> \in Seq(Chunks)
    OBVIOUS
  <1>1. CASE Connection
    <2>1. screen' = <<>> \/ UNCHANGED screen
      BY <1>1 DEF Connection, Attach, HandleConnected, ReceiveSync, Teardown, HandleDisconnected
    <2> QED
      BY <1>1, <1>e, <2>1, Frames
  <1>2. CASE Layout
    BY <1>2, Frames
  <1>3. CASE DrainAndApply \/ Execute \/ HandleExit \/ HandleSpawnPty \/ CaptureStatus \/ SpawnSuccess
    BY <1>3 DEF DrainAndApply, Execute, HandleExit, HandleSpawnPty, CaptureStatus, SpawnSuccess
  <1>4. CASE HandleDisconnect \/ Silence \/ HandleConnect \/ HandleSyncVisibility \/ SyncVisibility
             \/ AlignMode
    BY <1>4 DEF HandleDisconnect, Silence, HandleConnect, HandleSyncVisibility, SyncVisibility,
                AlignMode
  <1>5. CASE HandleEmitSnapshot
    BY <1>e, <1>5 DEF HandleEmitSnapshot
  <1>6. CASE Serialize
    <2>1. [c \in 1 .. terminal |-> c] \in Seq(Chunks)
      BY DEF Chunks
    <2> QED
      BY <1>e, <1>6, <2>1 DEF Serialize
  <1>7. CASE CaptureId
    BY <1>7 DEF CaptureId
  <1>8. CASE WriteOutput
    <2>1. screen' \in Seq(Chunks)
      BY <1>8, ElementsOfConcat DEF WriteOutput, Deliver
    <2> QED
      BY <1>e, <1>8, <2>1 DEF WriteOutput
  <1>9. CASE PostToLive
    BY <1>9 DEF PostToLive
  <1>10. CASE SpawnReported \/ HandleOutput \/ ReaderFinished
    BY <1>10 DEF SpawnReported, HandleOutput, ReaderFinished
  <1>11. CASE HandleBlockingFlush
    <2>1. terminal' \in Chunks /\ terminal' \in 0 .. MaxChunks
      BY <1>11 DEF HandleBlockingFlush, Chunks
    <2>2. Append(post, terminal') \in Seq(Chunks)
      BY <2>1, AppendFacts
    <2> QED
      BY <1>11, <2>1, <2>2 DEF HandleBlockingFlush
  <1>12. CASE WriteLive
    <2>1. terminal \in Chunks
      BY <1>12 DEF WriteLive, PlaceInv, Chunks
    <2>2. <<terminal>> \in Seq(Chunks)
      BY <2>1
    <2>3. screen' \in Seq(Chunks)
      BY <1>12, <2>2, ElementsOfConcat DEF WriteLive, Deliver
    <2> QED
      BY <1>12, <2>3 DEF WriteLive
  <1> QED
    BY <1>1, <1>2, <1>3, <1>4, <1>5, <1>6, <1>7, <1>8, <1>9, <1>10, <1>11, <1>12, Zenon
    DEF Next, Coordinator, Dispatcher

(* A step keeps the type invariant.                                         *)
LEMMA TypeStep ==
  ASSUME TypeOK, PlaceInv, OnceInv, HandlerInv, Next
  PROVE  TypeOK'
  <1>1. /\ PlacesTypeOK /\ NumbersTypeOK /\ ReducerTypeOK /\ ResizerTypeOK /\ OrdersTypeOK
        /\ OutputTypeOK
    BY TypeParts
  <1>2. /\ PlacesTypeOK' /\ NumbersTypeOK' /\ ReducerTypeOK' /\ ResizerTypeOK' /\ OrdersTypeOK'
        /\ OutputTypeOK'
    BY <1>1, PlacesType, NumbersType, ReducerType, ResizerType, OrdersType, OutputType
  <1> QED
    BY <1>2, TypeParts DEF TypeOK, PlacesTypeOK, NumbersTypeOK, ReducerTypeOK, ResizerTypeOK,
                           OrdersTypeOK, OutputTypeOK

(* What waits, waited or has just been sent; what is handled, waits no      *)
(* more; and a Disconnect waits until it is handled.                        *)
LEMMA WaitsSteps ==
  ASSUME NumbersTypeOK, ReducerTypeOK, ResizerTypeOK, OrdersTypeOK, OnceInv, HandlerInv, Next
  PROVE  /\ \A k \in Kinds : Waits(k)' =>
              \/ Waits(k)
              \/ k = "SpawnPty" /\ SendSpawnPty
              \/ k = "Status_SpawnPty" /\ SpawnReported
              \/ k = "ExitPty" /\ ReaderFinished
              \/ k \notin Once
         /\ HandleSpawnPty => Waits("SpawnPty") /\ ~Waits("SpawnPty")'
         /\ CaptureStatus => Waits("Status_SpawnPty") /\ ~Waits("Status_SpawnPty")'
         /\ HandleExit => Waits("ExitPty") /\ ~Waits("ExitPty")'
         /\ Waits("Disconnect") => Waits("Disconnect")' \/ HandleDisconnect
         /\ HandleDisconnected => Waits("Disconnect")'
  <1>q. /\ Len(queue) \in Nat /\ \A i \in 1 .. Len(queue) : queue[i] \in Orders /\ queue[i].kind \in Kinds
        /\ \A k \in Kinds : group[k] \in Seq(Orders)
    <2>1. /\ Len(queue) \in Nat /\ \A i \in 1 .. Len(queue) : queue[i] \in Orders
          /\ \A k \in Kinds : group[k] \in Seq(Orders)
      BY DEF OrdersTypeOK
    <2>2. \A o \in Orders : o.kind \in Kinds
      BY DEF Orders
    <2> QED
      BY <2>1, <2>2
  <1>k. /\ "SpawnPty" \in Kinds /\ "Status_SpawnPty" \in Kinds /\ "ExitPty" \in Kinds
        /\ "Disconnect" \in Kinds
    BY DEF Kinds
  <1>h. HandleDisconnected => Len(queue') = Len(queue) + 1
    <2>1. Order("Disconnect", 0, FALSE) \in Orders
      BY <1>k, IdsFacts, OrderFacts
    <2>2. Len(Append(queue, Order("Disconnect", 0, FALSE))) = Len(queue) + 1
      BY <2>1, AppendFacts DEF OrdersTypeOK
    <2> QED
      BY <2>2, Zenon DEF HandleDisconnected, Send
  <1>s. ASSUME NEW k \in Kinds, NEW id \in 0 .. MaxConnections, NEW v \in BOOLEAN,
               queue' = Append(queue, Order(k, id, v)), UNCHANGED group
        PROVE  /\ Waits(k)'
               /\ \A j \in Kinds : j # k => (Waits(j)' <=> Waits(j))
    <2>1. /\ Len(queue') = Len(queue) + 1 /\ \A i \in 1 .. Len(queue) : queue'[i] = queue[i]
          /\ queue'[Len(queue) + 1] = Order(k, id, v) /\ Order(k, id, v).kind = k
      BY <1>s, OrderFacts, AppendFacts DEF OrdersTypeOK
    <2>2. Len(queue) + 1 \in 1 .. Len(queue')
      BY <1>q, <2>1
    <2>3. \A i \in 1 .. Len(queue') : i \in 1 .. Len(queue) \/ i = Len(queue) + 1
      BY <1>q, <2>1
    <2>4. \A i \in 1 .. Len(queue) : i \in 1 .. Len(queue')
      BY <1>q, <2>1
    <2> QED
      BY <1>s, <2>1, <2>2, <2>3, <2>4, Zenon DEF Waits
  <1>d. ASSUME NEW k \in Kinds, group[k] # <<>>, Done(k), UNCHANGED queue
        PROVE  /\ Waits(k) /\ (k \in Once => ~Waits(k)')
               /\ \A j \in Kinds : j # k => (Waits(j)' <=> Waits(j))
    <2>1. group'[k] = <<>> /\ \A j \in Kinds : j # k => group'[j] = group[j]
      BY <1>d, DoneFacts DEF OrdersTypeOK, OnceInv
    <2>2. k \in Once => \A i \in 1 .. Len(queue) : queue[i].kind # k
      BY <1>d, Zenon DEF OnceInv
    <2> QED
      BY <1>d, <2>1, <2>2, Zenon DEF Waits
  <1>1. CASE DrainAndApply
    <2> DEFINE o == Head(queue)
    <2>1. /\ o = queue[1] /\ o \in Orders /\ o.kind \in Kinds /\ 1 \in 1 .. Len(queue)
          /\ queue' = Tail(queue) /\ Len(queue') = Len(queue) - 1
          /\ \A i \in 1 .. Len(queue) - 1 : queue'[i] = queue[i + 1]
      BY <1>1, <1>q, TailFacts DEF DrainAndApply, OrdersTypeOK
    <2>2. /\ \A k \in Kinds : \/ group'[k] = group[k]
                              \/ k = o.kind
                              \/ k \in {"Connect", "SyncVisibility", "EmitSnapshot"}
          /\ o.kind \notin SessionKinds => group'[o.kind] = <<o>>
      BY <1>1, <2>1, ApplyFacts DEF DrainAndApply, OrdersTypeOK
    <2>3. /\ \A i \in 1 .. Len(queue') : i + 1 \in 1 .. Len(queue) /\ queue'[i] = queue[i + 1]
          /\ \A i \in 1 .. Len(queue) : i = 1 \/ (i - 1 \in 1 .. Len(queue') /\ queue'[i - 1] = queue[i])
      BY <1>q, <2>1
    <2>4. ASSUME NEW k \in Kinds, Waits(k)', k \in Once PROVE Waits(k)
      <3>1. CASE group'[k] # <<>>
        BY <2>1, <2>2, <2>4, <3>1 DEF Waits, Once
      <3>2. CASE \E i \in 1 .. Len(queue') : queue'[i].kind = k
        BY <2>3, <3>2, Zenon DEF Waits
      <3> QED
        BY <2>4, <3>1, <3>2 DEF Waits
    <2>5. ASSUME Waits("Disconnect") PROVE Waits("Disconnect")'
      <3>1. CASE group["Disconnect"] # <<>>
        <4>1. CASE o.kind = "Disconnect"
          BY <2>2, <4>1, OneFacts, <2>1 DEF Waits, SessionKinds
        <4>2. CASE o.kind # "Disconnect"
          BY <1>k, <2>2, <3>1, <4>2 DEF Waits
        <4> QED
          BY <4>1, <4>2
      <3>2. ASSUME NEW i \in 1 .. Len(queue), queue[i].kind = "Disconnect"
            PROVE  Waits("Disconnect")'
        <4>1. CASE i = 1
          BY <2>1, <2>2, <3>2, <4>1, OneFacts DEF Waits, SessionKinds
        <4>2. CASE i # 1
          BY <2>3, <3>2, <4>2, Zenon DEF Waits
        <4> QED
          BY <4>1, <4>2
      <3> QED
        BY <2>5, <3>1, <3>2, Zenon DEF Waits
    <2>6. handler \in {"Select", "Drain"}
      BY <1>1 DEF DrainAndApply
    <2>7. ~HandleSpawnPty /\ ~CaptureStatus /\ ~HandleExit
      BY <2>6 DEF HandleSpawnPty, CaptureStatus, HandleExit, Turn
    <2>8. ~HandleDisconnected
      BY <1>q, <1>h, <2>1
    <2> QED
      BY <2>4, <2>5, <2>7, <2>8
  <1>2. CASE ~DrainAndApply
    <2>1. CASE \E k \in Kinds : group[k] # <<>> /\ Done(k) /\ UNCHANGED queue
                 /\ handler \in {"Execute", "Visibility"}
                 /\ \/ k = "ExitPty" /\ HandleExit
                    \/ k = "SpawnPty" /\ HandleSpawnPty
                    \/ k = "Status_SpawnPty" /\ CaptureStatus
                    \/ k = "Disconnect" /\ HandleDisconnect
                    \/ k \notin Once \cup {"Disconnect"}
      <3>1. PICK k \in Kinds : /\ group[k] # <<>> /\ Done(k) /\ UNCHANGED queue
                               /\ handler \in {"Execute", "Visibility"}
                               /\ \/ k = "ExitPty" /\ HandleExit
                                  \/ k = "SpawnPty" /\ HandleSpawnPty
                                  \/ k = "Status_SpawnPty" /\ CaptureStatus
                                  \/ k = "Disconnect" /\ HandleDisconnect
                                  \/ k \notin Once \cup {"Disconnect"}
        BY <2>1
      <3>2. /\ Waits(k) /\ (k \in Once => ~Waits(k)')
            /\ \A j \in Kinds : j # k => (Waits(j)' <=> Waits(j))
        BY <1>d, <3>1
      <3>3. /\ HandleExit => k = "ExitPty"
            /\ HandleSpawnPty => k = "SpawnPty"
            /\ CaptureStatus => k = "Status_SpawnPty"
        <4>1. group'[k] = <<>> /\ \A j \in Kinds : j # k => group'[j] = group[j]
          BY <3>1, DoneFacts DEF OrdersTypeOK, OnceInv
        <4>2. ASSUME NEW j \in Kinds, group[j] # <<>>, Done(j) PROVE j = k
          <5>1. group'[j] = <<>>
            BY <4>2, DoneFacts DEF OrdersTypeOK, OnceInv
          <5> QED
            BY <4>1, <4>2, <5>1
        <4> QED
          BY <1>k, <4>2 DEF HandleExit, HandleSpawnPty, CaptureStatus, Turn
      <3>4. ~HandleDisconnected
        BY <1>q, <1>h, <3>1
      <3> QED
        BY <1>k, <3>1, <3>2, <3>3, <3>4, Zenon DEF Once
    <2>2. CASE UNCHANGED group
      <3>1. ~HandleExit /\ ~HandleSpawnPty /\ ~CaptureStatus
        <4>1. ASSUME NEW j \in Kinds, group[j] # <<>>, Done(j) PROVE FALSE
          BY <2>2, <4>1, DoneFacts DEF OrdersTypeOK, OnceInv
        <4> QED
          BY <1>k, <4>1 DEF HandleExit, HandleSpawnPty, CaptureStatus, Turn
      <3>2. CASE UNCHANGED queue
        <4>1. \A k \in Kinds : Waits(k)' <=> Waits(k)
          BY <2>2, <3>2, Zenon DEF Waits
        <4>2. ~HandleDisconnected
          BY <1>q, <1>h, <3>2
        <4> QED
          BY <1>k, <3>1, <4>1, <4>2, Zenon
      <3>3. ASSUME NEW k \in Kinds, NEW id \in 0 .. MaxConnections, NEW v \in BOOLEAN,
                   queue' = Append(queue, Order(k, id, v)),
                   \/ k = "SpawnPty" /\ SendSpawnPty
                   \/ k = "Status_SpawnPty" /\ SpawnReported
                   \/ k = "ExitPty" /\ ReaderFinished
                   \/ k \notin Once
            PROVE  /\ \A j \in Kinds : Waits(j)' =>
                        \/ Waits(j)
                        \/ j = "SpawnPty" /\ SendSpawnPty
                        \/ j = "Status_SpawnPty" /\ SpawnReported
                        \/ j = "ExitPty" /\ ReaderFinished
                        \/ j \notin Once
                   /\ Waits("Disconnect") => Waits("Disconnect")'
        BY <1>k, <1>s, <2>2, <3>3, Zenon
      <3>4. HandleDisconnected => Waits("Disconnect")'
        <4>1. HandleDisconnected => queue' = Append(queue, Order("Disconnect", 0, FALSE))
          BY DEF HandleDisconnected, Send
        <4> QED
          BY <1>k, <1>s, <2>2, <4>1, IdsFacts
      <3> QED
        <4>1. CASE UNCHANGED queue
          BY <3>2, <4>1
        <4>2. CASE ~UNCHANGED queue
          <5>1. PICK k \in Kinds, id \in 0 .. MaxConnections, v \in BOOLEAN :
                  /\ queue' = Append(queue, Order(k, id, v))
                  /\ \/ k = "SpawnPty" /\ SendSpawnPty
                     \/ k = "Status_SpawnPty" /\ SpawnReported
                     \/ k = "ExitPty" /\ ReaderFinished
                     \/ k \notin Once
            BY <1>2, <4>2, QueueSteps DEF Once
          <5> QED
            BY <3>1, <3>3, <3>4, <5>1
        <4> QED
          BY <4>1, <4>2
    <2> QED
      BY <1>2, <2>1, <2>2, GroupSteps DEF Once
  <1> QED
    BY <1>1, <1>2

-----------------------------------------------------------------------------
(* The parts of the invariant.                                              *)

(* A step keeps PlaceInv.                                                   *)
LEMMA PlaceStep ==
  ASSUME PlacesTypeOK, OutputTypeOK, PlaceInv, OnceInv, HandlerInv, Next
  PROVE  PlaceInv'
  <1> USE DEF PlaceInv, ptyVars, proxyVars, coordinatorVars, dispatcherVars, othersUnchanged
  <1>1. CASE Connection \/ Layout
    BY <1>1, Frames, Zenon
  <1>2. CASE DrainAndApply \/ Execute \/ CaptureStatus
    BY <1>2, Zenon DEF DrainAndApply, Execute, CaptureStatus
  <1>3. CASE HandleDisconnect \/ HandleConnect \/ HandleSyncVisibility \/ SyncVisibility
    BY <1>3, Zenon DEF HandleDisconnect, HandleConnect, HandleSyncVisibility, SyncVisibility
  <1>4. CASE HandleEmitSnapshot \/ CaptureId \/ WriteOutput
    BY <1>4, Zenon DEF HandleEmitSnapshot, CaptureId, WriteOutput
  <1>5. CASE HandleExit
    <2>1. dispatcher = "finished" /\ state = "Active"
      BY <1>5, Zenon DEF HandleExit, Turn, OnceInv, Waits
    <2> QED
      BY <1>5, <2>1, Zenon DEF HandleExit
  <1>6. CASE HandleSpawnPty
    <2>1. dispatcher = "none"
      BY <1>6, Zenon DEF HandleSpawnPty, Turn, OnceInv, Waits
    <2> QED
      BY <1>6, <2>1, Zenon DEF HandleSpawnPty
  <1>7. CASE SpawnSuccess
    <2>1. mode' \in {"LIVE", "PRE_SNAPSHOT"}
      BY <1>7, Zenon DEF SpawnSuccess
    <2> QED
      BY <1>7, <2>1, Zenon DEF SpawnSuccess
  <1>8. CASE Silence \/ AlignMode
    BY <1>8, Zenon DEF Silence, AlignMode, PlacesTypeOK
  <1>9. CASE Serialize
    BY <1>9, Zenon DEF Serialize, HandlerInv
  <1>10. CASE PostToLive
    BY <1>10, Zenon DEF PostToLive, HandlerInv
  <1>11. CASE SpawnReported \/ HandleOutput
    BY <1>11, Zenon DEF SpawnReported, HandleOutput
  <1>12. CASE HandleBlockingFlush
    <2>1. terminal' # 0
      BY <1>12, IdsFacts DEF HandleBlockingFlush, OutputTypeOK
    <2>2. dispatcher' \in {"Select", "CaptureId"}
      BY <1>12, Zenon DEF HandleBlockingFlush
    <2> QED
      BY <1>12, <2>1, <2>2, Zenon DEF HandleBlockingFlush
  <1>13. CASE WriteLive \/ ReaderFinished
    BY <1>13, Zenon DEF WriteLive, ReaderFinished
  <1> QED
    BY <1>1, <1>2, <1>3, <1>4, <1>5, <1>6, <1>7, <1>8, <1>9, <1>10, <1>11, <1>12, <1>13, Zenon
    DEF Next, Coordinator, Dispatcher

(* Who moves the dispatcher.                                                *)
LEMMA DispatcherSteps ==
  Next => \/ UNCHANGED dispatcher
          \/ HandleSpawnPty
          \/ SpawnSuccess
          \/ SpawnReported
          \/ ReaderFinished
          \/ {dispatcher, dispatcher'} \subseteq {"Select", "CaptureId", "Write"}
  <1> SUFFICES ASSUME Next PROVE \/ UNCHANGED dispatcher
                                 \/ HandleSpawnPty \/ SpawnSuccess \/ SpawnReported \/ ReaderFinished
                                 \/ {dispatcher, dispatcher'} \subseteq {"Select", "CaptureId", "Write"}
    BY Zenon
  <1> USE DEF coordinatorVars, dispatcherVars, othersUnchanged
  <1>1. CASE Connection \/ Layout
    BY <1>1, Frames, Zenon
  <1>2. CASE HandleBlockingFlush \/ HandleOutput \/ WriteLive
    BY <1>2, Zenon DEF HandleBlockingFlush, HandleOutput, WriteLive
  <1>3. CASE DrainAndApply \/ Execute \/ CaptureStatus \/ HandleExit
    BY <1>3, Zenon DEF DrainAndApply, Execute, CaptureStatus, HandleExit
  <1>4. CASE HandleDisconnect \/ HandleConnect \/ HandleSyncVisibility \/ SyncVisibility
             \/ Silence \/ AlignMode
    BY <1>4, Zenon DEF HandleDisconnect, HandleConnect, HandleSyncVisibility, SyncVisibility,
       Silence, AlignMode
  <1>5. CASE HandleEmitSnapshot \/ CaptureId \/ WriteOutput \/ Serialize \/ PostToLive
    BY <1>5, Zenon DEF HandleEmitSnapshot, CaptureId, WriteOutput, Serialize, PostToLive
  <1> QED
    BY <1>1, <1>2, <1>3, <1>4, <1>5, Zenon DEF Next, Coordinator, Dispatcher

(* Who changes the state of the PTY.                                        *)
LEMMA StateSteps ==
  Next => UNCHANGED state \/ HandleSpawnPty \/ SpawnSuccess \/ HandleExit
  <1> SUFFICES ASSUME Next PROVE UNCHANGED state \/ HandleSpawnPty \/ SpawnSuccess \/ HandleExit
    BY Zenon
  <1> USE DEF ptyVars, othersUnchanged
  <1>1. CASE Connection \/ Layout \/ Dispatcher
    BY <1>1, Frames, Zenon
  <1>2. CASE DrainAndApply \/ Execute \/ CaptureStatus
    BY <1>2, Zenon DEF DrainAndApply, Execute, CaptureStatus
  <1>3. CASE HandleDisconnect \/ HandleConnect \/ HandleSyncVisibility \/ SyncVisibility
             \/ Silence \/ AlignMode
    BY <1>3, Zenon DEF HandleDisconnect, HandleConnect, HandleSyncVisibility, SyncVisibility,
       Silence, AlignMode
  <1>4. CASE HandleEmitSnapshot \/ CaptureId \/ WriteOutput \/ Serialize \/ PostToLive
    BY <1>4, Zenon DEF HandleEmitSnapshot, CaptureId, WriteOutput, Serialize, PostToLive
  <1> QED
    BY <1>1, <1>2, <1>3, <1>4, Zenon DEF Next, Coordinator

(* How the success handler comes to its second half.                        *)
LEMMA SetModeSteps ==
  ASSUME Next, handler' = "SetMode"
  PROVE  CaptureStatus \/ (handler = "SetMode" /\ ~SpawnSuccess)
  <1> USE DEF coordinatorVars
  <1>0. ~SpawnSuccess
    BY Zenon DEF SpawnSuccess
  <1>1. CASE Connection \/ Layout \/ Dispatcher
    BY <1>0, <1>1, Frames, Zenon
  <1>2. CASE DrainAndApply \/ Execute \/ HandleExit \/ HandleSpawnPty
    BY <1>0, <1>2, Zenon DEF DrainAndApply, Execute, HandleExit, HandleSpawnPty
  <1>3. CASE HandleDisconnect \/ HandleConnect \/ HandleSyncVisibility \/ SyncVisibility
             \/ Silence \/ AlignMode
    BY <1>0, <1>3, Zenon DEF HandleDisconnect, HandleConnect, HandleSyncVisibility, SyncVisibility,
       Silence, AlignMode
  <1>4. CASE HandleEmitSnapshot
    <2>1. handler' \in {"Execute", "PreToPost", "SerializeExited"}
      BY <1>4 DEF HandleEmitSnapshot
    <2> QED
      BY <2>1, Zenon
  <1>5. CASE CaptureId \/ WriteOutput \/ Serialize \/ PostToLive
    BY <1>0, <1>5, Zenon DEF CaptureId, WriteOutput, Serialize, PostToLive, AfterSnapshot
  <1> QED
    BY <1>0, <1>1, <1>2, <1>3, <1>4, <1>5, Zenon DEF Next, Coordinator

(* The reducer sends its spawn once.                                        *)
LEMMA ReducerSpawnSteps ==
  ASSUME Next, reducer'.at = "SendSpawn"
  PROVE  UNCHANGED reducer /\ ~SendSpawnPty
  <1>i. IdleReducer.at = "Select"
    BY DEF IdleReducer
  <1>0. ~SendSpawnPty
    BY <1>i, Zenon DEF SendSpawnPty
  <1>1. CASE Connection \/ Coordinator \/ Dispatcher
    BY <1>0, <1>1, Frames, Zenon DEF reducerVars
  <1>2. CASE ReadVisibility
    <2>1. reducer'.at = "SendSync"
      BY <1>2 DEF ReadVisibility
    <2> QED
      BY <2>1, Zenon
  <1>3. CASE SendSyncVisibility
    <2>1. reducer'.at = "Submit" \/ reducer'.at = reducer.at \/ reducer' = IdleReducer
      BY <1>3 DEF SendSyncVisibility
    <2>2. reducer.at = "SendSync"
      BY <1>3 DEF SendSyncVisibility
    <2> QED
      BY <1>i, <2>1, <2>2, Zenon
  <1>4. CASE Submit
    BY <1>0, <1>i, <1>4, Zenon DEF Submit
  <1>5. CASE DrainAndCoalesce \/ SendEmitSnapshot
    BY <1>0, <1>5, Zenon DEF DrainAndCoalesce, SendEmitSnapshot, reducerVars
  <1> QED
    BY <1>0, <1>1, <1>2, <1>3, <1>4, <1>5, Zenon DEF Next, Layout

(* A step keeps OnceInv.                                                    *)
LEMMA OnceStep ==
  ASSUME TypeOK, PlaceInv, OnceInv, HandlerInv, Next
  PROVE  OnceInv'
  <1>0. PlacesTypeOK /\ NumbersTypeOK /\ ReducerTypeOK /\ ResizerTypeOK /\ OrdersTypeOK
    BY TypeParts
  <1>w. /\ Waits("SpawnPty")' => Waits("SpawnPty") \/ SendSpawnPty
        /\ Waits("Status_SpawnPty")' => Waits("Status_SpawnPty") \/ SpawnReported
        /\ Waits("ExitPty")' => Waits("ExitPty") \/ ReaderFinished
        /\ HandleSpawnPty => Waits("SpawnPty") /\ ~Waits("SpawnPty")'
        /\ CaptureStatus => Waits("Status_SpawnPty") /\ ~Waits("Status_SpawnPty")'
        /\ HandleExit => Waits("ExitPty") /\ ~Waits("ExitPty")'
    BY <1>0, WaitsSteps DEF Once, Kinds
  <1>d. /\ SpawnSuccess => handler = "SetMode"
        /\ SpawnReported => dispatcher = "spawning" /\ dispatcher' = "quiescent" /\ UNCHANGED handler
        /\ ReaderFinished => dispatcher = "Select" /\ dispatcher' = "finished" /\ UNCHANGED state
        /\ SendSpawnPty => reducer.at = "SendSpawn" /\ UNCHANGED dispatcher
        /\ CaptureStatus => UNCHANGED dispatcher
        /\ HandleExit => UNCHANGED dispatcher
    BY Zenon DEF SpawnSuccess, SpawnReported, ReaderFinished, SendSpawnPty, CaptureStatus, HandleExit,
       coordinatorVars, ptyVars, dispatcherVars, othersUnchanged
  <1>1. reducer'.at = "SendSpawn" => dispatcher' = "none" /\ ~Waits("SpawnPty")'
    BY <1>w, <1>d, DispatcherSteps, ReducerSpawnSteps, Zenon DEF OnceInv
  <1>2. Waits("SpawnPty")' => dispatcher' = "none"
    BY <1>w, <1>d, DispatcherSteps, Zenon DEF OnceInv
  <1>3. Waits("Status_SpawnPty")' => dispatcher' = "quiescent" /\ handler' # "SetMode"
    <2>1. CASE Waits("Status_SpawnPty")
      BY <1>w, <1>d, <2>1, DispatcherSteps, SetModeSteps, Zenon DEF OnceInv
    <2>2. CASE SpawnReported
      BY <1>d, <2>2, Zenon DEF OnceInv
    <2> QED
      BY <1>w, <2>1, <2>2, Zenon
  <1>4. handler' = "SetMode" => dispatcher' = "quiescent"
    BY <1>w, <1>d, DispatcherSteps, SetModeSteps, Zenon DEF OnceInv
  <1>5. Waits("ExitPty")' => dispatcher' = "finished" /\ state' = "Active"
    <2>1. CASE Waits("ExitPty")
      BY <1>w, <1>d, <2>1, DispatcherSteps, StateSteps, Zenon DEF OnceInv
    <2>2. CASE ReaderFinished
      BY <1>d, <2>2, Zenon DEF PlaceInv
    <2> QED
      BY <1>w, <2>1, <2>2, Zenon
  <1>q. /\ Len(queue) \in Nat /\ \A i \in 1 .. Len(queue) : queue[i] \in Orders
        /\ \A o \in Orders : o.kind \in Kinds
    <2>1. \A o \in Orders : o.kind \in Kinds
      BY DEF Orders
    <2> QED
      BY <1>0, <2>1 DEF OrdersTypeOK
  <1>h. DrainAndApply =>
          /\ Head(queue) \in Orders /\ Head(queue) = queue[1] /\ 1 \in 1 .. Len(queue)
          /\ Len(queue') = Len(queue) - 1
          /\ \A i \in 1 .. Len(queue) - 1 : queue'[i] = queue[i + 1]
    BY <1>0, TailFacts DEF DrainAndApply, OrdersTypeOK
  <1>a. DrainAndApply => \A k \in Kinds : \/ group'[k] = group[k]
                                          \/ k = Head(queue).kind /\ group'[k] = <<Head(queue)>>
                                          \/ k \notin Once /\ group'[k] = <<>>
    BY <1>0, <1>h, ApplyFacts DEF DrainAndApply, OrdersTypeOK, Once
  <1>6. \A k \in Kinds : Len(group'[k]) <= 1
    <2>1. CASE DrainAndApply
      <3>1. /\ Len(<<Head(queue)>>) <= 1 /\ Len(<<>>) <= 1
            /\ \A k \in Kinds : Len(group[k]) <= 1
        BY <1>h, <2>1 DEF OnceInv
      <3>2. ASSUME NEW k \in Kinds PROVE Len(group'[k]) <= 1
        <4>1. group'[k] \in {group[k], <<Head(queue)>>, <<>>}
          BY <1>a, <2>1, Zenon
        <4> QED
          BY <3>1, <4>1
      <3> QED
        BY <3>2
    <2>2. CASE UNCHANGED group
      BY <2>2 DEF OnceInv
    <2>3. ASSUME NEW k \in Kinds, group[k] # <<>>, Done(k)
          PROVE  \A j \in Kinds : Len(group'[j]) <= 1
      <3>1. group'[k] = <<>> /\ \A j \in Kinds : j # k => group'[j] = group[j]
        BY <1>0, <2>3, DoneFacts DEF OrdersTypeOK, OnceInv
      <3>2. Len(<<>>) <= 1 /\ \A j \in Kinds : Len(group[j]) <= 1
        BY DEF OnceInv
      <3> QED
        BY <3>1, <3>2
    <2> QED
      BY <1>0, <2>1, <2>2, <2>3, GroupSteps
  <1>7. \A i \in 1 .. Len(queue') :
          queue'[i].kind \in Once =>
            /\ group'[queue'[i].kind] = <<>>
            /\ \A j \in 1 .. Len(queue') : queue'[j].kind = queue'[i].kind => i = j
    <2>o. /\ Once \subseteq Kinds
          /\ \A i \in 1 .. Len(queue) : queue[i].kind \in Once =>
               /\ group[queue[i].kind] = <<>>
               /\ \A j \in 1 .. Len(queue) : queue[j].kind = queue[i].kind => i = j
      BY DEF Once, Kinds, OnceInv
    <2>1. CASE DrainAndApply
      <3>1. ASSUME NEW i \in 1 .. Len(queue'), queue'[i].kind \in Once
            PROVE  /\ group'[queue'[i].kind] = <<>>
                   /\ \A j \in 1 .. Len(queue') : queue'[j].kind = queue'[i].kind => i = j
        <4>1. i + 1 \in 1 .. Len(queue) /\ queue'[i] = queue[i + 1] /\ i + 1 # 1
          BY <1>q, <1>h, <2>1
        <4>2. queue[1].kind # queue[i + 1].kind /\ group[queue[i + 1].kind] = <<>>
          BY <1>h, <2>1, <2>o, <3>1, <4>1
        <4>3. group'[queue'[i].kind] = <<>>
          BY <1>h, <1>a, <2>1, <2>o, <3>1, <4>1, <4>2
        <4>4. ASSUME NEW j \in 1 .. Len(queue'), queue'[j].kind = queue'[i].kind PROVE i = j
          <5>1. j + 1 \in 1 .. Len(queue) /\ queue'[j] = queue[j + 1]
            BY <1>q, <1>h, <2>1
          <5>2. i + 1 = j + 1
            BY <2>o, <3>1, <4>1, <4>4, <5>1
          <5> QED
            BY <1>q, <1>h, <2>1, <5>2
        <4> QED
          BY <4>3, <4>4
      <3> QED
        BY <3>1
    <2>2. CASE UNCHANGED queue /\ ~DrainAndApply
      <3>1. \A k \in Kinds : group[k] = <<>> => group'[k] = <<>>
        <4>1. ASSUME NEW k \in Kinds, group[k] # <<>>, Done(k)
              PROVE  \A j \in Kinds : group[j] = <<>> => group'[j] = <<>>
          <5>1. group'[k] = <<>> /\ \A j \in Kinds : j # k => group'[j] = group[j]
            BY <1>0, <4>1, DoneFacts DEF OrdersTypeOK, OnceInv
          <5> QED
            BY <5>1
        <4> QED
          BY <1>0, <2>2, <4>1, GroupSteps
      <3> QED
        BY <2>o, <2>2, <3>1
    <2>3. CASE ~UNCHANGED queue /\ ~DrainAndApply
      <3>1. PICK k \in Kinds, id \in 0 .. MaxConnections, v \in BOOLEAN :
              /\ queue' = Append(queue, Order(k, id, v)) /\ UNCHANGED group
              /\ \/ k = "SpawnPty" /\ SendSpawnPty
                 \/ k = "Status_SpawnPty" /\ SpawnReported
                 \/ k = "ExitPty" /\ ReaderFinished
                 \/ k \notin Once
        BY <1>0, <2>3, QueueSteps DEF Once
      <3>2. k \in Once => ~Waits(k)
        BY <1>d, <3>1, Zenon DEF OnceInv
      <3>3. /\ Len(queue') = Len(queue) + 1 /\ \A i \in 1 .. Len(queue) : queue'[i] = queue[i]
            /\ queue'[Len(queue) + 1].kind = k
        BY <1>0, <3>1, OrderFacts, AppendFacts DEF OrdersTypeOK
      <3>4. \A i \in 1 .. Len(queue') : i \in 1 .. Len(queue) \/ i = Len(queue) + 1
        BY <1>q, <3>3
      <3>5. k \in Once => group[k] = <<>> /\ \A i \in 1 .. Len(queue) : queue[i].kind # k
        BY <3>2, Zenon DEF Waits
      <3>6. ASSUME NEW i \in 1 .. Len(queue'), queue'[i].kind \in Once
            PROVE  /\ group'[queue'[i].kind] = <<>>
                   /\ \A j \in 1 .. Len(queue') : queue'[j].kind = queue'[i].kind => i = j
        <4>1. CASE i = Len(queue) + 1
          BY <3>1, <3>3, <3>4, <3>5, <3>6, <4>1, Zenon
        <4>2. CASE i \in 1 .. Len(queue)
          <5>1. queue'[i] = queue[i]
            BY <3>3, <4>2
          <5>2. queue[i].kind # k
            BY <3>5, <3>6, <4>2, <5>1, Zenon
          <5> QED
            BY <2>o, <3>1, <3>3, <3>4, <3>6, <4>2, <5>1, <5>2, Zenon
        <4> QED
          BY <3>4, <4>1, <4>2
      <3> QED
        BY <3>6
    <2> QED
      BY <2>1, <2>2, <2>3
  <1> QED
    BY <1>1, <1>2, <1>3, <1>4, <1>5, <1>6, <1>7, Zenon DEF OnceInv

(* A step keeps HandlerInv.                                                 *)
LEMMA HandlerStep ==
  ASSUME PlacesTypeOK, PlaceInv, OnceInv, HandlerInv, Next
  PROVE  HandlerInv'
  <1> USE DEF HandlerInv, ptyVars, proxyVars, coordinatorVars, othersUnchanged
  <1>1. CASE Connection \/ Layout \/ Dispatcher
    BY <1>1, Frames, Zenon
  <1>2. CASE DrainAndApply \/ Execute \/ CaptureStatus \/ HandleDisconnect
    BY <1>2, Zenon DEF DrainAndApply, Execute, CaptureStatus, HandleDisconnect
  <1>3. CASE HandleExit \/ HandleSpawnPty \/ HandleConnect
    BY <1>3, Zenon DEF HandleExit, HandleSpawnPty, HandleConnect, Turn
  <1>4. CASE SpawnSuccess \/ Silence \/ AlignMode \/ SyncVisibility
    BY <1>4, Zenon DEF SpawnSuccess, Silence, AlignMode, SyncVisibility
  <1>5. CASE HandleSyncVisibility
    <2>1. handler' = "Visibility" => group' = group
      BY <1>5, Zenon DEF HandleSyncVisibility, Turn
    <2>2. handler = "Execute" /\ group["SyncVisibility"] # <<>> /\ handler' \in {"Execute", "Visibility"}
      BY <1>5, Zenon DEF HandleSyncVisibility, Turn
    <2> QED
      BY <1>5, <2>1, <2>2, Zenon DEF HandleSyncVisibility
  <1>6. CASE HandleEmitSnapshot
    <2>1. /\ handler' \in {"Execute", "PreToPost", "SerializeExited"}
          /\ handler' = "PreToPost" => state = "Active" /\ visibility = "VISIBLE"
          /\ handler' = "SerializeExited" => state = "Exited"
      BY <1>6 DEF HandleEmitSnapshot
    <2> QED
      BY <1>6, <2>1, Zenon DEF HandleEmitSnapshot
  <1>7. CASE Serialize
    <2>1. /\ state = "Exited" \/ (state = "Active" /\ mode' = "POST_SNAPSHOT" /\ visibility = "VISIBLE")
          /\ handler' \in {"CaptureSnapshot", "Execute", "PostToLive"}
          /\ handler' = "PostToLive" => state = "Active"
      BY <1>7, Zenon DEF Serialize, AfterSnapshot
    <2> QED
      BY <1>7, <2>1, Zenon DEF Serialize
  <1>8. CASE CaptureId
    <2>1. handler \in {"CaptureSnapshot", "CapturePost"} /\ handler' \in {"WriteSnapshot", "WritePost"}
          /\ (handler' = "WriteSnapshot" => handler = "CaptureSnapshot")
      BY <1>8, Zenon DEF CaptureId
    <2> QED
      BY <1>8, <2>1, Zenon DEF CaptureId
  <1>9. CASE WriteOutput
    <2>1. /\ handler' \in {"Execute", "PostToLive"}
          /\ handler' = "PostToLive" => state = "Active" /\ handler = "WriteSnapshot"
      BY <1>9, Zenon DEF WriteOutput, AfterSnapshot
    <2> QED
      BY <1>9, <2>1, Zenon DEF WriteOutput
  <1>10. CASE PostToLive
    BY <1>10, Zenon DEF PostToLive
  <1> QED
    BY <1>1, <1>2, <1>3, <1>4, <1>5, <1>6, <1>7, <1>8, <1>9, <1>10, Zenon DEF Next, Coordinator

(* A step keeps SilentInv.                                                  *)
LEMMA SilentStep ==
  ASSUME PlacesTypeOK, PlaceInv, OnceInv, HandlerInv, SilentInv, Next
  PROVE  SilentInv'
  <1> USE DEF SilentInv, Streaming, ptyVars, proxyVars, coordinatorVars, othersUnchanged
  <1>1. CASE Connection \/ Layout \/ Dispatcher
    BY <1>1, Frames, Zenon
  <1>2. CASE DrainAndApply \/ Execute \/ CaptureStatus
    BY <1>2, Zenon DEF DrainAndApply, Execute, CaptureStatus, Turn
  <1>3. CASE HandleDisconnect
    BY <1>3, Zenon DEF HandleDisconnect
  <1>4. CASE HandleExit \/ HandleSpawnPty \/ HandleConnect
    BY <1>4, Zenon DEF HandleExit, HandleSpawnPty, HandleConnect, Turn
  <1>5. CASE SpawnSuccess
    BY <1>5, Zenon DEF SpawnSuccess
  <1>6. CASE Silence \/ AlignMode
    BY <1>6, Zenon DEF Silence, AlignMode, PlaceInv, PlacesTypeOK
  <1>7. CASE SyncVisibility
    BY <1>7, Zenon DEF SyncVisibility
  <1>8. CASE HandleSyncVisibility \/ HandleEmitSnapshot
    BY <1>8, Zenon DEF HandleSyncVisibility, HandleEmitSnapshot, Turn
  <1>9. CASE Serialize
    BY <1>9, Zenon DEF Serialize, HandlerInv
  <1>10. CASE CaptureId \/ WriteOutput
    BY <1>10, Zenon DEF CaptureId, WriteOutput
  <1>11. CASE PostToLive
    BY <1>11, Zenon DEF PostToLive, HandlerInv, PlaceInv
  <1> QED
    BY <1>1, <1>2, <1>3, <1>4, <1>5, <1>6, <1>7, <1>8, <1>9, <1>10, <1>11, Zenon
    DEF Next, Coordinator

(* A step keeps EndInv.                                                     *)
LEMMA EndStep ==
  ASSUME TypeOK, PlaceInv, OnceInv, HandlerInv, EndInv, Next
  PROVE  EndInv'
  <1>0. PlacesTypeOK /\ NumbersTypeOK /\ ReducerTypeOK /\ ResizerTypeOK /\ OrdersTypeOK
    BY TypeParts
  <1>w. /\ Waits("Disconnect") => Waits("Disconnect")' \/ HandleDisconnect
        /\ HandleDisconnected => Waits("Disconnect")'
    BY <1>0, WaitsSteps
  <1> SUFFICES ASSUME websocket' = "offline", ~Waits("Disconnect")', handler' # "Silence"
               PROVE  /\ ~Streaming' /\ handler' \notin Showing
                      /\ handler' = "SetMode" => captured' = 0
    BY Zenon DEF EndInv, Showing, Streaming
  <1>d. ~HandleDisconnect
    BY Zenon DEF HandleDisconnect
  <1> USE DEF ptyVars, proxyVars, coordinatorVars, websocketVars, othersUnchanged
  <1>1. CASE Connection
    <2>1. websocket = "offline"
      BY <1>1, <1>w, Zenon DEF Connection, Attach, HandleConnected, ReceiveSync, Teardown,
         HandleDisconnected
    <2> QED
      BY <1>1, <1>w, <1>d, <2>1, Frames, Zenon DEF EndInv, Streaming
  <1>2. CASE ~Connection
    <2>1. websocket = "offline" /\ ~Waits("Disconnect")
      BY <1>2, <1>w, <1>d, Frames, Zenon DEF Next
    <2>c. ~Connected
      BY <2>1, Zenon DEF Connected
    <2>2. CASE handler = "Silence"
      <3>1. ASSUME Silence
            PROVE  /\ ~Streaming' /\ handler' \notin Showing
                   /\ handler' = "SetMode" => captured' = 0
        <4>1. handler' = "Execute"
          BY <3>1, Zenon DEF Silence
        <4>2. ~Streaming'
          BY <1>0, <3>1, Zenon DEF Silence, Streaming, PlaceInv, PlacesTypeOK
        <4> QED
          BY <4>1, <4>2, Zenon DEF Showing
      <3>2. ASSUME Coordinator PROVE Silence
        BY <2>2, <3>2, Zenon DEF Coordinator, DrainAndApply, Execute, HandleExit, HandleSpawnPty,
           CaptureStatus, SpawnSuccess, HandleDisconnect, HandleConnect, HandleSyncVisibility,
           SyncVisibility, AlignMode, HandleEmitSnapshot, Serialize, CaptureId, WriteOutput,
           PostToLive, Turn
      <3>3. Coordinator
        BY <1>2, <2>2, Frames, Zenon DEF Next
      <3> QED
        BY <3>1, <3>2, <3>3
    <2>3. CASE handler # "Silence"
      <3>1. ~Streaming /\ handler \notin Showing /\ (handler = "SetMode" => captured = 0)
        BY <1>0, <2>1, <2>3, Zenon DEF EndInv
      <3>2. CASE Layout \/ Dispatcher
        BY <3>1, <3>2, Frames, Zenon DEF Streaming
      <3>3. CASE DrainAndApply \/ Execute \/ HandleExit \/ HandleSpawnPty \/ HandleConnect
        BY <3>1, <3>3, Zenon DEF DrainAndApply, Execute, HandleExit, HandleSpawnPty, HandleConnect,
           Turn, Streaming, Showing
      <3>4. CASE CaptureStatus
        BY <2>c, <3>1, <3>4, Zenon DEF CaptureStatus, Streaming, Showing
      <3>5. CASE SpawnSuccess
        <4>1. captured = 0
          BY <3>1, <3>5, Zenon DEF SpawnSuccess
        <4>2. mode' = "PRE_SNAPSHOT" /\ handler' = "Execute"
          BY <3>5, <4>1 DEF SpawnSuccess
        <4> QED
          BY <4>2, Zenon DEF Streaming, Showing
      <3>6. CASE HandleSyncVisibility
        <4>1. handler' = "Execute" /\ UNCHANGED mode
          BY <2>c, <3>6, Zenon DEF HandleSyncVisibility, ForCurrent, Turn
        <4> QED
          BY <3>1, <4>1, Zenon DEF Streaming, Showing
      <3>7. CASE HandleEmitSnapshot
        <4>1. handler' = "Execute" /\ UNCHANGED mode
          BY <2>c, <3>7 DEF HandleEmitSnapshot, ForCurrent
        <4> QED
          BY <3>1, <4>1, Zenon DEF Streaming, Showing
      <3>8. CASE AlignMode
        BY <3>1, <3>8, Zenon DEF AlignMode, Streaming, Showing
      <3>9. CASE SyncVisibility \/ Serialize \/ CaptureId \/ WriteOutput \/ PostToLive \/ Silence
        BY <2>3, <3>1, <3>9, Zenon DEF SyncVisibility, Serialize, CaptureId, WriteOutput,
           PostToLive, Silence, Showing
      <3> QED
        BY <1>2, <1>d, <3>2, <3>3, <3>4, <3>5, <3>6, <3>7, <3>8, <3>9, Zenon DEF Next, Coordinator
    <2> QED
      BY <2>2, <2>3
  <1> QED
    BY <1>1, <1>2

(* Connections follow one another, and a manifest is that of the current    *)
(* one.                                                                     *)
LEMMA ConnectionSteps ==
  ASSUME NumbersTypeOK, Next
  PROVE  \/ connection' = connection /\ manifest' \in {manifest, connection}
         \/ connection' = connection + 1 /\ manifest' = manifest /\ Attach
  <1> USE DEF clientVars, websocketVars, othersUnchanged
  <1>1. CASE Layout \/ Dispatcher
    BY <1>1, Frames, Zenon
  <1>2. CASE Connection
    BY <1>2, Zenon DEF Connection, Attach, HandleConnected, ReceiveSync, Teardown, HandleDisconnected
  <1>3. CASE DrainAndApply \/ Execute \/ CaptureStatus \/ HandleExit \/ HandleSpawnPty
    BY <1>3, Zenon DEF DrainAndApply, Execute, CaptureStatus, HandleExit, HandleSpawnPty
  <1>4. CASE HandleDisconnect \/ HandleConnect \/ HandleSyncVisibility \/ SyncVisibility
             \/ Silence \/ AlignMode \/ SpawnSuccess
    BY <1>4, Zenon DEF HandleDisconnect, HandleConnect, HandleSyncVisibility, SyncVisibility,
       Silence, AlignMode, SpawnSuccess
  <1>5. CASE HandleEmitSnapshot \/ CaptureId \/ WriteOutput \/ Serialize \/ PostToLive
    BY <1>5, Zenon DEF HandleEmitSnapshot, CaptureId, WriteOutput, Serialize, PostToLive
  <1> QED
    BY <1>1, <1>2, <1>3, <1>4, <1>5, Zenon DEF Next, Coordinator

(* What is answered stays so.                                               *)
LEMMA AnsweredStep ==
  ASSUME NumbersTypeOK, Next, NEW id \in Nat, Answered(id)
  PROVE  id <= connection' /\ (id = connection' => manifest' = connection')
  <1>1. connection \in Nat /\ manifest \in Nat
    BY IdsFacts DEF NumbersTypeOK
  <1>2. id <= connection /\ (id = connection => manifest = connection)
    BY DEF Answered
  <1>3. \/ connection' = connection /\ manifest' \in {manifest, connection}
        \/ connection' = connection + 1 /\ manifest' = manifest
    BY ConnectionSteps
  <1> QED
    BY <1>1, <1>2, <1>3

(* A step keeps IdsInv.                                                     *)
LEMMA IdsStep ==
  ASSUME TypeOK, OnceInv, HandlerInv, IdsInv, Next
  PROVE  IdsInv'
  <1>0. NumbersTypeOK /\ ReducerTypeOK /\ ResizerTypeOK /\ OrdersTypeOK
    BY TypeParts
  <1> DEFINE StaysAnswered(id) == id <= connection' /\ (id = connection' => manifest' = connection')
  <1>k. ASSUME NEW id \in Nat, Answered(id) PROVE StaysAnswered(id)
    BY <1>0, <1>k, AnsweredStep
  <1>n. /\ Len(reducerQueue) \in Nat
        /\ \A i \in 1 .. Len(reducerQueue) : reducerQueue[i].id \in Nat
        /\ reducer.id \in Nat /\ reducer.resize \in Nat /\ resizer \in Nat
        /\ Len(resizerQueue) \in Nat /\ \A i \in 1 .. Len(resizerQueue) : resizerQueue[i] \in Nat
    <2>1. Ids \cup {JUST} \subseteq Nat
      BY IdsFacts DEF JUST
    <2>2. reducer.id \in Ids /\ reducer.resize \in Ids \cup {JUST}
      <3>1. reducer \in [at : {"SendSpawn", "Select", "SendSync", "Submit"}, id : Ids,
                         visible : BOOLEAN, resize : Ids \cup {JUST}]
        BY <1>0, Zenon DEF ReducerTypeOK
      <3> QED
        BY <3>1
    <2>3. /\ Len(reducerQueue) \in Nat
          /\ \A i \in 1 .. Len(reducerQueue) : reducerQueue[i] \in [id : Ids, visible : BOOLEAN]
      <3> DEFINE Syncs == [id : Ids, visible : BOOLEAN]
      <3>1. reducerQueue \in Seq(Syncs)
        BY <1>0, Zenon DEF ReducerTypeOK
      <3> HIDE DEF Syncs
      <3>2. Len(reducerQueue) \in Nat /\ \A i \in 1 .. Len(reducerQueue) : reducerQueue[i] \in Syncs
        BY <3>1
      <3> QED
        BY <3>2 DEF Syncs
    <2>4. \A sync \in [id : Ids, visible : BOOLEAN] : sync.id \in Ids
      OBVIOUS
    <2>5. resizer \in Nat
      BY <1>0, <2>1 DEF ResizerTypeOK
    <2>6. Len(resizerQueue) \in Nat /\ \A i \in 1 .. Len(resizerQueue) : resizerQueue[i] \in Ids \cup {JUST}
      BY <1>0 DEF ResizerTypeOK
    <2> QED
      BY <2>1, <2>2, <2>3, <2>4, <2>5, <2>6
  <1>o. /\ Len(queue) \in Nat
        /\ \A i \in 1 .. Len(queue) : queue[i] \in Orders /\ queue[i].kind \in Kinds /\ queue[i].id \in Nat
        /\ \A k \in Kinds : group[k] # <<>> => Head(group[k]) \in Orders /\ Head(group[k]).id \in Nat
    <2>1. \A o \in Orders : o.kind \in Kinds /\ o.id \in Nat
      <3>1. \A n \in 0 .. MaxConnections : n \in Nat
        BY IdsFacts
      <3>2. \A o \in Orders : o.kind \in Kinds /\ o.id \in 0 .. MaxConnections
        BY DEF Orders
      <3> QED
        BY <3>1, <3>2
    <2>2. Len(queue) \in Nat /\ \A i \in 1 .. Len(queue) : queue[i] \in Orders
      BY <1>0 DEF OrdersTypeOK
    <2>3. ASSUME NEW k \in Kinds, group[k] # <<>> PROVE Head(group[k]) \in Orders
      <3>1. group[k] \in Seq(Orders)
        BY <1>0 DEF OrdersTypeOK
      <3> QED
        BY <2>3, <3>1, TailFacts
    <2> QED
      BY <2>1, <2>2, <2>3
  <1>i. /\ Answered(1)
        /\ \A i \in 1 .. Len(reducerQueue) : Answered(reducerQueue[i].id)
        /\ Answered(reducer.id) /\ Answered(reducer.resize)
        /\ \A i \in 1 .. Len(resizerQueue) : Answered(resizerQueue[i])
        /\ Answered(resizer)
        /\ \A i \in 1 .. Len(queue) : queue[i].kind \in SessionKinds => Answered(queue[i].id)
        /\ \A k \in SessionKinds : group[k] # <<>> => Answered(Head(group[k]).id)
    BY DEF IdsInv
  <1>z. StaysAnswered(1) /\ StaysAnswered(JUST)
    <2>1. StaysAnswered(1)
      BY <1>i, <1>k
    <2>2. connection \in Nat /\ connection >= 1
      BY <1>0, IdsFacts DEF NumbersTypeOK, Ids
    <2>3. Answered(JUST)
      BY <2>2 DEF Answered, JUST
    <2> QED
      BY <1>k, <2>1, <2>3 DEF JUST
  <1>1. \A i \in 1 .. Len(reducerQueue') : StaysAnswered(reducerQueue'[i].id)
    <2>1. CASE UNCHANGED reducerQueue
      BY <1>i, <1>k, <1>n, <2>1
    <2>2. CASE ReceiveSync
      <3>1. PICK visible \in BOOLEAN :
              reducerQueue' = Append(reducerQueue, [id |-> connection, visible |-> visible])
        BY <2>2 DEF ReceiveSync
      <3> DEFINE sync == [id |-> connection, visible |-> visible]
      <3>2. sync \in [id : Ids, visible : BOOLEAN] /\ sync.id = connection
        BY <1>0 DEF NumbersTypeOK
      <3>3. /\ Len(reducerQueue') = Len(reducerQueue) + 1
            /\ \A i \in 1 .. Len(reducerQueue) : reducerQueue'[i] = reducerQueue[i]
            /\ reducerQueue'[Len(reducerQueue) + 1] = sync
        <4> HIDE DEF sync
        <4>1. reducerQueue' = Append(reducerQueue, sync)
          BY <3>1 DEF sync
        <4> QED
          BY <1>0, <3>2, <4>1, AppendFacts DEF ReducerTypeOK
      <3>4. StaysAnswered(connection)
        <4>1. connection \in Nat /\ Answered(connection)
          BY <1>0, <2>2, IdsFacts DEF NumbersTypeOK, ReceiveSync, Answered
        <4> QED
          BY <1>k, <4>1
      <3>5. \A i \in 1 .. Len(reducerQueue') : i \in 1 .. Len(reducerQueue) \/ i = Len(reducerQueue) + 1
        BY <1>n, <3>3
      <3> HIDE DEF StaysAnswered, sync
      <3> QED
        BY <1>i, <1>k, <1>n, <3>2, <3>3, <3>4, <3>5, Zenon
    <2>3. CASE ReadVisibility
      <3>1. /\ Len(reducerQueue') = Len(reducerQueue) - 1
            /\ \A i \in 1 .. Len(reducerQueue) - 1 : reducerQueue'[i] = reducerQueue[i + 1]
        BY <1>0, <2>3, TailFacts DEF ReadVisibility, ReducerTypeOK
      <3>2. \A i \in 1 .. Len(reducerQueue') : i + 1 \in 1 .. Len(reducerQueue) /\ reducerQueue'[i] = reducerQueue[i + 1]
        BY <1>n, <3>1
      <3> HIDE DEF StaysAnswered
      <3> QED
        BY <1>i, <1>k, <1>n, <3>2
    <2>4. UNCHANGED reducerQueue \/ ReceiveSync \/ ReadVisibility
      BY Frames, Zenon DEF Next, Connection, Layout, Attach, HandleConnected, Teardown,
         HandleDisconnected, SendSpawnPty, SendSyncVisibility, Submit, DrainAndCoalesce,
         SendEmitSnapshot, reducerVars, clientVars
    <2> QED
      BY <2>1, <2>2, <2>3, <2>4
  <1>2. StaysAnswered(reducer'.id) /\ StaysAnswered(reducer'.resize)
    <2>i. IdleReducer.id = 1 /\ IdleReducer.resize = JUST
      BY DEF IdleReducer
    <2>1. CASE UNCHANGED reducer
      BY <1>i, <1>k, <1>n, <2>1
    <2>2. CASE ReadVisibility
      <3>1. /\ reducer'.id = Head(reducerQueue).id
            /\ reducer'.resize \in {JUST, Head(reducerQueue).id}
        BY <2>2 DEF ReadVisibility
      <3>2. Head(reducerQueue) = reducerQueue[1] /\ 1 \in 1 .. Len(reducerQueue)
        BY <1>0, <2>2, TailFacts DEF ReadVisibility, ReducerTypeOK
      <3>3. StaysAnswered(Head(reducerQueue).id)
        BY <1>i, <1>k, <1>n, <3>2
      <3> HIDE DEF StaysAnswered
      <3> QED
        BY <1>z, <3>1, <3>3
    <2>3. CASE SendSpawnPty \/ Submit
      <3>1. reducer' = IdleReducer
        BY <2>3 DEF SendSpawnPty, Submit
      <3> HIDE DEF StaysAnswered
      <3> QED
        BY <1>z, <2>i, <3>1, Zenon
    <2>4. CASE SendSyncVisibility
      <3>1. reducer' = IdleReducer \/ (reducer'.id = reducer.id /\ reducer'.resize = reducer.resize)
        BY <1>0, <2>4 DEF SendSyncVisibility, ReducerTypeOK
      <3> HIDE DEF StaysAnswered
      <3> QED
        BY <1>i, <1>k, <1>n, <1>z, <2>i, <3>1, Zenon
    <2>5. UNCHANGED reducer \/ ReadVisibility \/ SendSpawnPty \/ Submit \/ SendSyncVisibility
      BY Frames, Zenon DEF Next, Layout, DrainAndCoalesce, SendEmitSnapshot, reducerVars
    <2> QED
      BY <2>1, <2>2, <2>3, <2>4, <2>5
  <1>3. StaysAnswered(resizer') /\ \A i \in 1 .. Len(resizerQueue') : StaysAnswered(resizerQueue'[i])
    <2>1. StaysAnswered(resizer) /\ \A i \in 1 .. Len(resizerQueue) : StaysAnswered(resizerQueue[i])
      BY <1>i, <1>k, <1>n
    <2>2. CASE Submit
      <3>1. /\ Len(Append(resizerQueue, reducer.resize)) = Len(resizerQueue) + 1
            /\ \A i \in 1 .. Len(resizerQueue) : Append(resizerQueue, reducer.resize)[i] = resizerQueue[i]
            /\ Append(resizerQueue, reducer.resize)[Len(resizerQueue) + 1] = reducer.resize
        <4>1. resizerQueue \in Seq(Ids \cup {JUST}) /\ reducer.resize \in Ids \cup {JUST}
          BY <1>0 DEF ResizerTypeOK, ReducerTypeOK
        <4> QED
          BY <4>1, AppendFacts
      <3>2. StaysAnswered(reducer.resize)
        BY <1>i, <1>k, <1>n
      <3>3. resizerQueue' \in {resizerQueue, Append(resizerQueue, reducer.resize)} /\ resizer' = resizer
        BY <2>2, Zenon DEF Submit
      <3>4. \A i \in 1 .. Len(resizerQueue) + 1 : i \in 1 .. Len(resizerQueue) \/ i = Len(resizerQueue) + 1
        BY <1>n
      <3> HIDE DEF StaysAnswered
      <3> QED
        BY <2>1, <3>1, <3>2, <3>3, <3>4
    <2>3. CASE DrainAndCoalesce
      <3>1. Coalesced = JUST \/ \E i \in 1 .. Len(resizerQueue) : Coalesced = resizerQueue[i]
        BY <1>0, CoalescedFacts DEF ResizerTypeOK
      <3>2. resizer' = Coalesced /\ resizerQueue' = <<>> /\ Len(<<>>) = 0
        BY <2>3 DEF DrainAndCoalesce
      <3> HIDE DEF StaysAnswered
      <3> QED
        BY <1>z, <2>1, <3>1, <3>2
    <2>4. CASE SendEmitSnapshot
      <3>1. resizer' = JUST /\ resizerQueue' = resizerQueue
        BY <2>4, Zenon DEF SendEmitSnapshot
      <3> HIDE DEF StaysAnswered
      <3> QED
        BY <1>z, <2>1, <3>1
    <2>5. UNCHANGED <<resizer, resizerQueue>> \/ Submit \/ DrainAndCoalesce \/ SendEmitSnapshot
      BY Frames, Zenon DEF Next, Layout, ReadVisibility, SendSpawnPty, SendSyncVisibility, resizerVars
    <2> HIDE DEF StaysAnswered
    <2> QED
      BY <2>1, <2>2, <2>3, <2>4, <2>5
  <1>4. \A i \in 1 .. Len(queue') : queue'[i].kind \in SessionKinds => StaysAnswered(queue'[i].id)
    <2>1. \A i \in 1 .. Len(queue) : queue[i].kind \in SessionKinds => StaysAnswered(queue[i].id)
      BY <1>i, <1>k, <1>o
    <2>2. CASE DrainAndApply
      <3>1. /\ Len(queue') = Len(queue) - 1
            /\ \A i \in 1 .. Len(queue) - 1 : queue'[i] = queue[i + 1]
        BY <1>0, <2>2, TailFacts DEF DrainAndApply, OrdersTypeOK
      <3>2. \A i \in 1 .. Len(queue') : i + 1 \in 1 .. Len(queue) /\ queue'[i] = queue[i + 1]
        BY <1>o, <3>1
      <3> HIDE DEF StaysAnswered
      <3> QED
        BY <2>1, <3>2
    <2>3. CASE ~DrainAndApply /\ ~UNCHANGED queue
      <3>1. PICK k \in Kinds, id \in 0 .. MaxConnections, v \in BOOLEAN :
              /\ queue' = Append(queue, Order(k, id, v))
              /\ k \notin SessionKinds \/ id = reducer.id \/ id = resizer
        BY <1>0, <2>3, QueueSteps DEF SessionKinds
      <3>2. k \in SessionKinds => StaysAnswered(id)
        BY <1>i, <1>k, <1>n, <3>1
      <3>3. /\ Len(queue') = Len(queue) + 1 /\ \A i \in 1 .. Len(queue) : queue'[i] = queue[i]
            /\ queue'[Len(queue) + 1].kind = k /\ queue'[Len(queue) + 1].id = id
        BY <1>0, <3>1, OrderFacts, AppendFacts DEF OrdersTypeOK
      <3>4. \A i \in 1 .. Len(queue') : i \in 1 .. Len(queue) \/ i = Len(queue) + 1
        BY <1>o, <3>3
      <3> HIDE DEF StaysAnswered
      <3> QED
        BY <2>1, <3>2, <3>3, <3>4, Zenon
    <2>4. CASE UNCHANGED queue
      <3> HIDE DEF StaysAnswered
      <3> QED
        BY <2>1, <2>4
    <2> QED
      BY <2>2, <2>3, <2>4
  <1>5. \A k \in SessionKinds : group'[k] # <<>> => StaysAnswered(Head(group'[k]).id)
    <2>1. \A k \in SessionKinds : group[k] # <<>> => StaysAnswered(Head(group[k]).id)
      BY <1>i, <1>k, <1>o DEF SessionKinds, Kinds
    <2>k. SessionKinds \subseteq Kinds
      BY DEF SessionKinds, Kinds
    <2>2. CASE DrainAndApply
      <3>1. Head(queue) = queue[1] /\ 1 \in 1 .. Len(queue) /\ Head(queue) \in Orders
        BY <1>0, <2>2, TailFacts DEF DrainAndApply, OrdersTypeOK
      <3>2. \A k \in Kinds : \/ group'[k] = group[k] \/ group'[k] = <<>>
                             \/ k = Head(queue).kind /\ group'[k] = <<Head(queue)>>
        BY <1>0, <2>2, <3>1, ApplyFacts DEF DrainAndApply, OrdersTypeOK
      <3>3. Head(<<Head(queue)>>) = Head(queue)
        OBVIOUS
      <3>4. Head(queue).kind \in SessionKinds => StaysAnswered(Head(queue).id)
        BY <1>i, <1>k, <1>o, <3>1
      <3> HIDE DEF StaysAnswered
      <3> QED
        BY <2>1, <2>k, <3>2, <3>3, <3>4
    <2>3. ASSUME NEW j \in Kinds, group[j] # <<>>, Done(j)
          PROVE  \A k \in SessionKinds : group'[k] # <<>> => StaysAnswered(Head(group'[k]).id)
      <3>1. group'[j] = <<>> /\ \A k \in Kinds : k # j => group'[k] = group[k]
        BY <1>0, <2>3, DoneFacts DEF OrdersTypeOK, OnceInv
      <3> HIDE DEF StaysAnswered
      <3> QED
        BY <2>1, <2>k, <3>1
    <2>4. CASE UNCHANGED group
      <3> HIDE DEF StaysAnswered
      <3> QED
        BY <2>1, <2>4
    <2> QED
      BY <1>0, <2>2, <2>3, <2>4, GroupSteps
  <1> QED
    BY <1>z, <1>1, <1>2, <1>3, <1>4, <1>5, Zenon DEF IdsInv, Answered

-----------------------------------------------------------------------------
(* Aligned states.                                                          *)

(* A Disconnect that does not wait is in neither place.                     *)
LEMMA AlignedMeans ==
  ASSUME OrdersTypeOK
  PROVE  Aligned <=> Connected /\ ~Waits("Disconnect") /\ handler # "Silence"
  BY Zenon DEF Aligned, Waits

(* A state becomes aligned by a new connection, when no end of an old one   *)
(* is left, or by the last step of the handling of such an end; in both     *)
(* nothing is streamed. Otherwise it was aligned, by the same connection.   *)
LEMMA AlignedSteps ==
  ASSUME TypeOK, PlaceInv, OnceInv, HandlerInv, EndInv, Next, Aligned'
  PROVE  \/ /\ Aligned /\ connection' = connection /\ Connected
         \/ /\ mode' \notin {"LIVE", "POST_SNAPSHOT"} /\ handler' \notin Showing
            /\ Attach \/ Silence
  <1>0. PlacesTypeOK /\ NumbersTypeOK /\ ReducerTypeOK /\ ResizerTypeOK /\ OrdersTypeOK
    BY TypeParts
  <1>1. Connected' /\ ~Waits("Disconnect")' /\ handler' # "Silence"
    BY Zenon DEF Aligned, Waits
  <1>2. ~Waits("Disconnect")
    <2>1. ~HandleDisconnect
      BY <1>1, Zenon DEF HandleDisconnect
    <2> QED
      BY <1>0, <1>1, <2>1, WaitsSteps
  <1> USE DEF websocketVars, coordinatorVars, ptyVars, proxyVars
  <1>3. CASE Attach
    <2>1. websocket = "offline" /\ UNCHANGED <<handler, mode>>
      BY <1>3, Zenon DEF Attach
    <2>2. handler # "Silence"
      BY <1>1, <2>1, Zenon
    <2>3. ~Streaming /\ handler \notin Showing
      BY <1>2, <2>1, <2>2, Zenon DEF EndInv
    <2> QED
      BY <1>3, <2>1, <2>3, Zenon DEF Streaming
  <1>4. CASE Silence
    <2>1. handler' = "Execute"
      BY <1>4, Zenon DEF Silence
    <2>2. mode' \notin {"LIVE", "POST_SNAPSHOT"}
      BY <1>0, <1>4, Zenon DEF Silence, PlaceInv, PlacesTypeOK
    <2> QED
      BY <1>4, <2>1, <2>2, Zenon DEF Showing
  <1>5. CASE ~Attach /\ ~Silence
    <2>1. connection' = connection
      BY <1>0, <1>5, ConnectionSteps
    <2>2. Connected
      <3>1. CASE Connection
        BY <1>1, <1>5, <3>1, Zenon DEF Connection, HandleConnected, ReceiveSync, Teardown,
           HandleDisconnected, Connected
      <3>2. CASE ~Connection
        BY <1>1, <3>2, Frames, Zenon DEF Next, Connected
      <3> QED
        BY <3>1, <3>2
    <2>3. handler # "Silence"
      <3>1. CASE Coordinator
        BY <1>5, <3>1, Zenon DEF Coordinator, DrainAndApply, Execute, HandleExit, HandleSpawnPty,
           CaptureStatus, SpawnSuccess, HandleDisconnect, HandleConnect, HandleSyncVisibility,
           SyncVisibility, AlignMode, HandleEmitSnapshot, Serialize, CaptureId, WriteOutput,
           PostToLive, Turn
      <3>2. CASE ~Coordinator
        BY <1>1, <3>2, Frames, Zenon DEF Next
      <3> QED
        BY <3>1, <3>2
    <2> QED
      BY <1>0, <1>2, <2>1, <2>2, <2>3, AlignedMeans
  <1> QED
    BY <1>3, <1>4, <1>5

(* In an aligned state the coordinator shows to the client that got the     *)
(* manifest, and writes under its connection.                               *)
LEMMA ShowingStep ==
  ASSUME TypeOK, PlaceInv, OnceInv, HandlerInv, EndInv, IdsInv, AlignedInv, Next, Aligned'
  PROVE  /\ handler' \in Showing => manifest' = connection'
         /\ handler' \in {"WriteSnapshot", "WritePost"} => captured' = connection'
  <1>0. PlacesTypeOK /\ NumbersTypeOK /\ ReducerTypeOK /\ ResizerTypeOK /\ OrdersTypeOK
    BY TypeParts
  <1>1. CASE handler' \notin Showing
    BY <1>1, Zenon DEF Showing
  <1>2. CASE handler' \in Showing
    <2>1. Aligned /\ connection' = connection /\ Connected
      BY <1>2, AlignedSteps, Zenon
    <2>2. manifest' \in {manifest, connection}
      BY <1>0, <2>1, ConnectionSteps, IdsFacts DEF NumbersTypeOK
    <2>3. /\ handler \in Showing => manifest = connection
          /\ handler \in {"WriteSnapshot", "WritePost"} => captured = connection
      BY <2>1, Zenon DEF AlignedInv
    <2> USE DEF coordinatorVars, othersUnchanged
    <2>4. CASE Connection \/ Layout \/ Dispatcher
      BY <2>1, <2>2, <2>3, <2>4, <1>2, Frames, Zenon DEF Showing
    <2>5. CASE HandleSyncVisibility
      <3>1. handler' = "Visibility" /\ ForCurrent("SyncVisibility") /\ group["SyncVisibility"] # <<>>
        BY <1>2, <2>5, Zenon DEF HandleSyncVisibility, Turn, Showing
      <3>2. manifest = connection
        BY <3>1, Zenon DEF IdsInv, Answered, ForCurrent, SessionKinds
      <3> QED
        BY <2>1, <2>2, <3>1, <3>2, Zenon
    <2>6. CASE HandleEmitSnapshot
      <3>1. handler' \in {"Execute", "PreToPost", "SerializeExited"}
        BY <2>6 DEF HandleEmitSnapshot
      <3>2. handler' # "Execute" => ForCurrent("EmitSnapshot")
        BY <2>6 DEF HandleEmitSnapshot
      <3>3. group["EmitSnapshot"] # <<>>
        BY <2>6, Zenon DEF HandleEmitSnapshot, Turn
      <3>4. manifest = connection
        BY <1>2, <3>1, <3>2, <3>3, Zenon DEF IdsInv, Answered, ForCurrent, SessionKinds, Showing
      <3> QED
        BY <2>1, <2>2, <3>1, <3>4, Zenon
    <2>7. CASE Serialize
      <3>1. handler \in Showing /\ handler' \notin {"WriteSnapshot", "WritePost"}
        BY <2>7, Zenon DEF Serialize, Showing, AfterSnapshot
      <3> QED
        BY <2>1, <2>2, <2>3, <3>1, Zenon
    <2>8. CASE CaptureId
      <3>1. handler \in Showing /\ captured' = connection
        BY <2>8, Zenon DEF CaptureId, Showing
      <3> QED
        BY <2>1, <2>2, <2>3, <3>1, Zenon
    <2>9. CASE WriteOutput \/ PostToLive
      <3>1. handler \in Showing /\ handler' \notin {"WriteSnapshot", "WritePost"}
        BY <2>9, Zenon DEF WriteOutput, PostToLive, Showing, AfterSnapshot
      <3> QED
        BY <2>1, <2>2, <2>3, <3>1, Zenon
    <2>10. CASE DrainAndApply \/ Execute \/ CaptureStatus \/ HandleExit \/ HandleSpawnPty
      <3>1. handler' \notin Showing
        BY <2>10, Zenon DEF DrainAndApply, Execute, CaptureStatus, HandleExit, HandleSpawnPty, Turn,
           Showing
      <3> QED
        BY <1>2, <3>1
    <2>11. CASE HandleDisconnect \/ HandleConnect \/ SyncVisibility \/ Silence \/ AlignMode
                \/ SpawnSuccess
      <3>1. handler' \notin Showing
        BY <2>11, Zenon DEF HandleDisconnect, HandleConnect, SyncVisibility, Silence, AlignMode,
           SpawnSuccess, Turn, Showing
      <3> QED
        BY <1>2, <3>1
    <2> QED
      BY <2>4, <2>5, <2>6, <2>7, <2>8, <2>9, <2>10, <2>11, Zenon DEF Next, Coordinator
  <1> QED
    BY <1>1, <1>2

(* The coordinator holds output it is emitting.                             *)
Emitting == {"CaptureSnapshot", "WriteSnapshot", "CapturePost", "WritePost"}

Live == dispatcher = "CaptureId" \/ (dispatcher = "Write" /\ dispatcherId = connection)

(* Where a chunk may be that is coming, before and after a step.            *)
LEMMA ComingMeans ==
  /\ \A c : c \in Coming <=> \/ handler = "PreToPost" /\ c \in 1 .. terminal
                             \/ handler \in Emitting /\ c \in Elements(outgoing)
                             \/ mode = "POST_SNAPSHOT" /\ c \in Elements(post)
                             \/ Live /\ c = terminal
  /\ \A c : c \in Coming' <=> \/ handler' = "PreToPost" /\ c \in 1 .. terminal'
                              \/ handler' \in Emitting /\ c \in Elements(outgoing')
                              \/ mode' = "POST_SNAPSHOT" /\ c \in Elements(post')
                              \/ Live' /\ c = terminal'
  <1>1. \A c : c \in Coming <=> \/ handler = "PreToPost" /\ c \in 1 .. terminal
                                \/ handler \in Emitting /\ c \in Elements(outgoing)
                                \/ mode = "POST_SNAPSHOT" /\ c \in Elements(post)
                                \/ Live /\ c = terminal
    BY DEF Coming, Emitting, Live
  <1>2. \A c : c \in Coming' <=> \/ handler' = "PreToPost" /\ c \in 1 .. terminal'
                                 \/ handler' \in Emitting /\ c \in Elements(outgoing')
                                 \/ mode' = "POST_SNAPSHOT" /\ c \in Elements(post')
                                 \/ Live' /\ c = terminal'
    BY DEF Coming, Emitting, Live
  <1> QED
    BY <1>1, <1>2

(* What is coming stays so, unless the coordinator has emitted it.          *)
LEMMA StaysComing ==
  ASSUME UNCHANGED <<mode, terminal, post>>, Live => Live',
         handler = "PreToPost" => handler' = "PreToPost"
  PROVE  \A c : c \in Coming => \/ c \in Coming'
                                \/ /\ handler \in Emitting /\ c \in Elements(outgoing)
                                   /\ ~(handler' \in Emitting /\ outgoing' = outgoing)
  <1> SUFFICES ASSUME NEW c, c \in Coming
               PROVE  \/ c \in Coming'
                      \/ /\ handler \in Emitting /\ c \in Elements(outgoing)
                         /\ ~(handler' \in Emitting /\ outgoing' = outgoing)
    OBVIOUS
  <1>1. \/ handler = "PreToPost" /\ c \in 1 .. terminal
        \/ handler \in Emitting /\ c \in Elements(outgoing)
        \/ mode = "POST_SNAPSHOT" /\ c \in Elements(post)
        \/ Live /\ c = terminal
    BY ComingMeans
  <1>2. CASE handler = "PreToPost" /\ c \in 1 .. terminal
    <2>1. handler' = "PreToPost" /\ c \in 1 .. terminal'
      BY <1>2
    <2> QED
      BY <2>1, ComingMeans
  <1>3. CASE handler \in Emitting /\ c \in Elements(outgoing)
    <2>1. CASE handler' \in Emitting /\ outgoing' = outgoing
      <3>1. c \in Elements(outgoing')
        BY <1>3, <2>1
      <3> QED
        BY <2>1, <3>1, ComingMeans
    <2> QED
      BY <1>3, <2>1
  <1>4. CASE mode = "POST_SNAPSHOT" /\ c \in Elements(post)
    <2>1. mode' = "POST_SNAPSHOT" /\ c \in Elements(post')
      BY <1>4
    <2> QED
      BY <2>1, ComingMeans
  <1>5. CASE Live /\ c = terminal
    <2>1. Live' /\ c = terminal'
      BY <1>5
    <2> QED
      BY <2>1, ComingMeans
  <1> QED
    BY <1>1, <1>2, <1>3, <1>4, <1>5

(* Whatever the terminal holds, the client has got or is about to get,      *)
(* while it is streamed to or in the middle of a snapshot.                  *)
LEMMA CoveredStep ==
  ASSUME TypeOK, PlaceInv, OnceInv, HandlerInv, EndInv, AlignedInv, Next, Aligned', Streaming'
  PROVE  \A c \in 1 .. terminal' : c \in Elements(screen') \/ c \in Coming'
  <1>0. PlacesTypeOK /\ NumbersTypeOK /\ ReducerTypeOK /\ ResizerTypeOK /\ OrdersTypeOK /\ OutputTypeOK
    BY TypeParts
  <1>1. Aligned /\ connection' = connection /\ Connected /\ ~Attach /\ ~Silence
    <2>1. ~Attach \/ connection' # connection
      BY <1>0, IdsFacts DEF Attach, NumbersTypeOK
    <2>2. ~(mode' \notin {"LIVE", "POST_SNAPSHOT"})
      BY Zenon DEF Streaming
    <2>3. Aligned /\ connection' = connection /\ Connected
      BY <2>2, AlignedSteps, Zenon
    <2>4. ~Silence
      BY <1>0, <2>2, Zenon DEF Silence, PlaceInv, PlacesTypeOK, ptyVars, proxyVars
    <2> QED
      BY <2>1, <2>3, <2>4
  <1>2. Streaming => \A c \in 1 .. terminal : c \in Elements(screen) \/ c \in Coming
    BY <1>1, Zenon DEF AlignedInv
  <1>3. mode' \in {"LIVE", "POST_SNAPSHOT"}
    BY Zenon DEF Streaming
  <1>4. /\ screen \in Seq(Chunks) /\ outgoing \in Seq(Chunks) /\ post \in Seq(Chunks)
        /\ terminal \in Nat
    BY <1>0, IdsFacts DEF OutputTypeOK
  <1>q. ASSUME handler \notin {"PreToPost"} \cup Emitting \/ UNCHANGED <<handler, outgoing>>,
               UNCHANGED <<screen, mode, terminal, post, dispatcher, dispatcherId>>
        PROVE  \A c \in 1 .. terminal' : c \in Elements(screen') \/ c \in Coming'
    <2>1. Streaming
      BY <1>q, <1>3, Zenon DEF Streaming
    <2>2. Live' <=> Live
      BY <1>q, <1>1, Zenon DEF Live
    <2>3. ASSUME NEW c, c \in Coming PROVE c \in Coming'
      <3>1. handler = "PreToPost" => handler' = "PreToPost"
        BY <1>q, Zenon
      <3>2. handler \in Emitting => handler' \in Emitting /\ outgoing' = outgoing
        BY <1>q, Zenon
      <3> QED
        BY <1>q, <2>2, <2>3, <3>1, <3>2, StaysComing, Zenon
    <2> QED
      BY <1>q, <1>2, <2>1, <2>3, Zenon
  <1> USE DEF coordinatorVars, ptyVars, proxyVars, clientVars, dispatcherVars, othersUnchanged
  <1>5. CASE Connection
    <2>1. UNCHANGED screen
      BY <1>1, <1>5, Zenon DEF Connection, HandleConnected, ReceiveSync, Teardown, HandleDisconnected
    <2> QED
      BY <1>5, <1>q, <2>1, Frames, Zenon
  <1>6. CASE Layout
    BY <1>6, <1>q, Frames, Zenon
  <1>7. CASE DrainAndApply \/ Execute \/ CaptureStatus
    <2>1. /\ handler \notin {"PreToPost"} \cup Emitting
          /\ UNCHANGED <<screen, mode, terminal, post, dispatcher, dispatcherId>>
      BY <1>7, Zenon DEF DrainAndApply, Execute, CaptureStatus, Turn, Emitting
    <2> QED
      BY <1>q, <2>1, Zenon
  <1>8. CASE HandleDisconnect \/ HandleConnect \/ HandleSyncVisibility \/ SyncVisibility
    <2>1. /\ handler \notin {"PreToPost"} \cup Emitting
          /\ UNCHANGED <<screen, mode, terminal, post, dispatcher, dispatcherId>>
      BY <1>8, Zenon DEF HandleDisconnect, HandleConnect, HandleSyncVisibility, SyncVisibility, Turn,
         Emitting
    <2> QED
      BY <1>q, <2>1, Zenon
  <1>9. CASE HandleExit
    BY <1>3, <1>9, Zenon DEF HandleExit
  <1>10. CASE HandleSpawnPty
    <2>1. dispatcher = "none"
      BY <1>10, Zenon DEF HandleSpawnPty, Turn, OnceInv, Waits
    <2>2. mode' = "SPAWNING"
      BY <1>10, <2>1, Zenon DEF HandleSpawnPty, PlaceInv
    <2> QED
      BY <1>3, <2>2, Zenon
  <1>11. CASE SpawnSuccess
    <2>1. terminal = 0 /\ terminal' = terminal
      BY <1>11, Zenon DEF SpawnSuccess, OnceInv, PlaceInv
    <2> QED
      BY <2>1
  <1>12. CASE AlignMode
    <2>1. mode' \notin {"LIVE", "POST_SNAPSHOT"}
      BY <1>0, <1>12, Zenon DEF AlignMode, PlaceInv, PlacesTypeOK
    <2> QED
      BY <1>3, <2>1
  <1>13. CASE HandleEmitSnapshot
    <2>1. UNCHANGED <<mode, terminal, post, state>>
      BY <1>13, Zenon DEF HandleEmitSnapshot
    <2>2. state # "Exited"
      BY <1>3, <2>1, Zenon DEF PlaceInv
    <2>3. \/ handler' = "PreToPost"
          \/ handler' = "Execute" /\ screen' = screen
      BY <1>13, <2>2 DEF HandleEmitSnapshot
    <2>4. CASE handler' = "PreToPost"
      BY <2>4, ComingMeans, Zenon
    <2>5. CASE screen' = screen
      <3>1. /\ handler \notin {"PreToPost"} \cup Emitting
            /\ UNCHANGED <<screen, mode, terminal, post, dispatcher, dispatcherId>>
        BY <1>13, <2>5, Zenon DEF HandleEmitSnapshot, Turn, Emitting
      <3> QED
        BY <1>q, <3>1, Zenon
    <2> QED
      BY <2>3, <2>4, <2>5
  <1>14. CASE Serialize
    <2>1. terminal' = terminal /\ outgoing' = [c \in 1 .. terminal |-> c]
      BY <1>14, Zenon DEF Serialize
    <2>2. Elements(outgoing') = 1 .. terminal
      <3>1. Len(outgoing') = terminal /\ \A c \in 1 .. terminal : outgoing'[c] = c
        BY <1>4, <2>1
      <3> QED
        BY <3>1 DEF Elements
    <2>3. CASE terminal > 0
      <3>1. handler' = "CaptureSnapshot"
        BY <1>14, <2>3, Zenon DEF Serialize
      <3> QED
        BY <2>1, <2>2, <3>1, ComingMeans, Zenon DEF Emitting
    <2>4. CASE ~(terminal > 0)
      BY <1>4, <2>1, <2>4
    <2> QED
      BY <2>3, <2>4
  <1>15. CASE CaptureId
    <2>1. /\ handler \in Emitting /\ handler' \in Emitting
          /\ UNCHANGED <<screen, mode, terminal, post, outgoing, dispatcher, dispatcherId>>
      BY <1>15, Zenon DEF CaptureId, Emitting
    <2>2. Streaming
      BY <1>3, <2>1, Zenon DEF Streaming
    <2>3. Live' <=> Live
      BY <1>1, <2>1, Zenon DEF Live
    <2>4. ASSUME NEW c, c \in Coming PROVE c \in Coming'
      <3>1. handler # "PreToPost"
        BY <2>1, Zenon DEF Emitting
      <3> QED
        BY <2>1, <2>3, <2>4, <3>1, StaysComing, Zenon
    <2> QED
      BY <1>2, <2>1, <2>2, <2>4, Zenon
  <1>16. CASE WriteOutput
    <2>1. /\ handler \in {"WriteSnapshot", "WritePost"}
          /\ UNCHANGED <<mode, terminal, post, dispatcher, dispatcherId>>
      BY <1>16, Zenon DEF WriteOutput
    <2>2. captured = connection
      BY <1>1, <2>1, Zenon DEF AlignedInv
    <2>3. screen' = screen \o outgoing
      BY <1>1, <1>16, <2>2, Zenon DEF WriteOutput, Deliver
    <2>4. Elements(screen') = Elements(screen) \cup Elements(outgoing)
      BY <1>4, <2>3, ElementsOfConcat
    <2>5. Streaming
      BY <1>3, <2>1, Zenon DEF Streaming
    <2>6. Live' <=> Live
      BY <1>1, <2>1, Zenon DEF Live
    <2>7. ASSUME NEW c, c \in Coming PROVE c \in Elements(outgoing) \/ c \in Coming'
      <3>1. handler # "PreToPost"
        BY <2>1, Zenon
      <3> QED
        BY <2>1, <2>6, <2>7, <3>1, StaysComing, Zenon
    <2> QED
      BY <1>2, <2>1, <2>4, <2>5, <2>7, Zenon
  <1>17. CASE PostToLive
    <2>1. /\ handler = "PostToLive" /\ outgoing' = post
          /\ UNCHANGED <<screen, terminal, dispatcher, dispatcherId>>
          /\ handler' = IF post # <<>> THEN "CapturePost" ELSE "Execute"
      BY <1>17, Zenon DEF PostToLive
    <2>2. Streaming
      BY <2>1, Zenon DEF HandlerInv, Streaming
    <2>3. Live' <=> Live
      BY <1>1, <2>1, Zenon DEF Live
    <2>4. post = <<>> => Elements(post) = {}
      <3>1. Len(<<>>) = 0
        OBVIOUS
      <3> QED
        BY <3>1 DEF Elements
    <2>5. ASSUME NEW c, c \in Coming PROVE c \in Coming'
      <3>1. c \in Elements(post) \/ (Live /\ c = terminal)
        BY <2>1, <2>5, ComingMeans, Zenon DEF Emitting
      <3>2. CASE c \in Elements(post)
        <4>1. post # <<>>
          BY <2>4, <3>2
        <4>2. handler' = "CapturePost"
          BY <2>1, <4>1
        <4> QED
          BY <2>1, <3>2, <4>2, ComingMeans, Zenon DEF Emitting
      <3> QED
        BY <2>1, <2>3, <3>1, <3>2, ComingMeans, Zenon
    <2> QED
      BY <1>2, <2>1, <2>2, <2>5, Zenon
  <1>18. CASE SpawnReported \/ ReaderFinished \/ HandleOutput
    <2>1. UNCHANGED <<screen, mode, terminal, post, handler, outgoing>>
      BY <1>18, Zenon DEF SpawnReported, ReaderFinished, HandleOutput
    <2>2. Live => Live'
      BY <1>1, <1>18, Zenon DEF SpawnReported, ReaderFinished, HandleOutput, Live
    <2>3. Streaming
      BY <1>3, <2>1, Zenon DEF Streaming
    <2>4. ASSUME NEW c, c \in Coming PROVE c \in Coming'
      BY <2>1, <2>2, <2>4, StaysComing, Zenon
    <2> QED
      BY <1>2, <2>1, <2>3, <2>4, Zenon
  <1>19. CASE HandleBlockingFlush
    <2>1. /\ dispatcher = "Select" /\ terminal' = terminal + 1
          /\ UNCHANGED <<screen, mode, handler, outgoing>>
          /\ post' = IF mode = "POST_SNAPSHOT" THEN Append(post, terminal') ELSE post
          /\ dispatcher' = IF mode = "LIVE" THEN "CaptureId" ELSE "Select"
      BY <1>19, Zenon DEF HandleBlockingFlush
    <2>2. Streaming /\ ~Live
      BY <1>3, <2>1, Zenon DEF Streaming, Live
    <2>3. mode = "POST_SNAPSHOT" => Elements(post') = Elements(post) \cup {terminal'}
      <3>1. terminal' \in Chunks
        BY <1>0, <1>19, IdsFacts DEF HandleBlockingFlush, OutputTypeOK, Chunks
      <3>2. /\ Len(Append(post, terminal')) = Len(post) + 1 /\ Len(post) \in Nat
            /\ \A i \in 1 .. Len(post) : Append(post, terminal')[i] = post[i]
            /\ Append(post, terminal')[Len(post) + 1] = terminal'
        BY <1>4, <3>1, AppendFacts
      <3>3. \A i \in 1 .. Len(post) + 1 : i \in 1 .. Len(post) \/ i = Len(post) + 1
        BY <3>2
      <3>4. Len(post) + 1 \in 1 .. Len(post) + 1 /\ \A i \in 1 .. Len(post) : i \in 1 .. Len(post) + 1
        BY <3>2
      <3>5. Elements(Append(post, terminal')) = Elements(post) \cup {terminal'}
        BY <3>2, <3>3, <3>4 DEF Elements
      <3> QED
        BY <2>1, <3>5, Zenon
    <2>4. terminal' \in Coming'
      <3>1. mode = "LIVE" => dispatcher' = "CaptureId"
        BY <2>1, Zenon
      <3> QED
        BY <1>3, <2>1, <2>3, <3>1, ComingMeans, Zenon DEF Live
    <2>5. \A c \in 1 .. terminal' : c \in 1 .. terminal \/ c = terminal'
      BY <1>4, <2>1
    <2>6. ASSUME NEW c \in 1 .. terminal, c \in Coming PROVE c \in Coming'
      <3>1. c \in 1 .. terminal'
        BY <1>4, <2>1
      <3> QED
        BY <2>1, <2>2, <2>3, <2>6, <3>1, ComingMeans, Zenon
    <2> QED
      BY <1>2, <2>1, <2>2, <2>4, <2>5, <2>6, Zenon
  <1>20. CASE WriteLive
    <2>1. /\ dispatcher = "Write" /\ UNCHANGED <<mode, terminal, post, handler, outgoing>>
          /\ Deliver(dispatcherId, <<terminal>>)
      BY <1>20, Zenon DEF WriteLive
    <2>2. Streaming
      BY <1>3, <2>1, Zenon DEF Streaming
    <2>3. terminal \in Chunks /\ <<terminal>> \in Seq(Chunks) /\ Elements(<<terminal>>) = {terminal}
      <3>1. terminal \in Chunks
        BY <1>0, <2>1, IdsFacts DEF PlaceInv, OutputTypeOK, Chunks
      <3>2. Len(<<terminal>>) = 1 /\ <<terminal>>[1] = terminal /\ <<terminal>> \in Seq(Chunks)
        BY <3>1
      <3>3. \A i : i \in 1 .. 1 <=> i = 1
        OBVIOUS
      <3> QED
        BY <3>1, <3>2, <3>3 DEF Elements
    <2>4. CASE Live
      <3>1. screen' = screen \o <<terminal>>
        BY <1>1, <2>1, <2>4, Zenon DEF Live, Deliver
      <3>2. Elements(screen') = Elements(screen) \cup {terminal}
        <4>1. Elements(screen \o <<terminal>>) = Elements(screen) \cup Elements(<<terminal>>)
          BY <1>4, <2>3, ElementsOfConcat
        <4> QED
          BY <2>3, <3>1, <4>1, Zenon
      <3>3. ASSUME NEW c, c \in Coming PROVE c = terminal \/ c \in Coming'
        BY <2>1, <3>3, ComingMeans, Zenon
      <3> QED
        BY <1>2, <2>1, <2>2, <3>2, <3>3, Zenon
    <2>5. CASE ~Live
      <3>1. screen' = screen
        BY <2>1, <2>5, Zenon DEF Live, Deliver
      <3>2. ASSUME NEW c, c \in Coming PROVE c \in Coming'
        BY <2>1, <2>5, <3>2, ComingMeans, Zenon
      <3> QED
        BY <1>2, <2>1, <2>2, <3>1, <3>2, Zenon
    <2> QED
      BY <2>4, <2>5
  <1> QED
    BY <1>1, <1>5, <1>6, <1>7, <1>8, <1>9, <1>10, <1>11, <1>12, <1>13, <1>14, <1>15, <1>16, <1>17,
       <1>18, <1>19, <1>20, Zenon DEF Next, Coordinator, Dispatcher

-----------------------------------------------------------------------------
(* The invariant.                                                          *)

(* A step into an aligned state, from the two lemmas above.                 *)
LEMMA AlignedStep ==
  ASSUME TypeOK, PlaceInv, OnceInv, HandlerInv, EndInv, IdsInv, AlignedInv, Next
  PROVE  AlignedInv'
  <1>1. CASE ~Aligned'
    BY <1>1, Zenon DEF AlignedInv
  <1>2. CASE Aligned'
    <2>1. /\ handler' \in Showing => manifest' = connection'
          /\ handler' \in {"WriteSnapshot", "WritePost"} => captured' = connection'
      BY <1>2, ShowingStep
    <2>2. Streaming' => \A c \in 1 .. terminal' : c \in Elements(screen') \/ c \in Coming'
      BY <1>2, CoveredStep, Zenon
    <2> QED
      BY <2>1, <2>2, Zenon DEF AlignedInv, Elements
  <1> QED
    BY <1>1, <1>2

(* It holds when the client's SpawnPty is all there is.                     *)
LEMMA InitInv == Init => IInv
  <1> SUFFICES ASSUME Init PROVE IInv
    OBVIOUS
  <1>1. TypeOK
    BY InitType
  <1>2. /\ Len(queue) = 0 /\ Len(reducerQueue) = 0 /\ Len(resizerQueue) = 0
        /\ \A k \in Kinds : group[k] = <<>> /\ Len(group[k]) = 0
    BY DEF Init, EmptyGroup
  <1>3. \A k \in Kinds : ~Waits(k)
    BY <1>2 DEF Waits
  <1>4. /\ handler = "Select" /\ mode = "SPAWNING" /\ state = "Absent" /\ dispatcher = "none"
        /\ terminal = 0 /\ visibility = "DISCONNECTED_UNKNOWN" /\ websocket = "reading"
        /\ connection = 1 /\ manifest = 1
    BY Zenon DEF Init
  <1>5. PlaceInv
    BY <1>4 DEF PlaceInv
  <1>6. OnceInv
    BY <1>2, <1>3, <1>4 DEF OnceInv, Kinds
  <1>7. HandlerInv /\ SilentInv /\ EndInv
    BY <1>4 DEF HandlerInv, SilentInv, EndInv, Streaming
  <1>8. IdsInv
    <2>1. Answered(1) /\ Answered(0)
      BY <1>4 DEF Answered
    <2>2. reducer.id = 1 /\ reducer.resize = 0 /\ resizer = 0
      BY DEF Init, IdleReducer, JUST
    <2> QED
      BY <1>2, <2>1, <2>2 DEF IdsInv, SessionKinds, Kinds
  <1>9. AlignedInv
    BY <1>4 DEF AlignedInv, Streaming, Showing
  <1> QED
    BY <1>1, <1>5, <1>6, <1>7, <1>8, <1>9 DEF IInv

(* A step that moves nobody keeps the types of the places.                  *)
LEMMA PlacesSame ==
  ASSUME PlacesTypeOK, UNCHANGED <<websocket, handler, state, visibility, mode, dispatcher>>
  PROVE  PlacesTypeOK'
  <1>1. /\ websocket' = websocket /\ handler' = handler /\ state' = state
        /\ visibility' = visibility /\ mode' = mode /\ dispatcher' = dispatcher
    OBVIOUS
  <1>2. ASSUME NEW S PROVE handler \in S => handler' \in S
    BY <1>1
  <1>3. handler' \in {"Select", "Drain", "Execute", "SetMode", "Silence", "Visibility", "AlignMode",
                     "PreToPost", "SerializeExited", "CaptureSnapshot", "WriteSnapshot",
                     "PostToLive", "CapturePost", "WritePost"}
    BY <1>2 DEF PlacesTypeOK
  <1> QED
    BY <1>1, <1>3 DEF PlacesTypeOK

(* Every step keeps it.                                                     *)
LEMMA StepInv == IInv /\ [Next]_vars => IInv'
  <1> SUFFICES ASSUME IInv, [Next]_vars PROVE IInv'
    OBVIOUS
  <1>1. /\ TypeOK /\ PlaceInv /\ OnceInv /\ HandlerInv /\ SilentInv /\ EndInv /\ IdsInv
        /\ AlignedInv
    BY Zenon DEF IInv
  <1>2. CASE Next
    <2>0. PlacesTypeOK /\ OutputTypeOK
      BY <1>1, TypeParts
    <2>1. TypeOK'
      BY <1>1, <1>2, TypeStep
    <2>2. PlaceInv'
      BY <1>1, <1>2, <2>0, PlaceStep
    <2>3. OnceInv'
      BY <1>1, <1>2, OnceStep
    <2>4. HandlerInv' /\ SilentInv'
      BY <1>1, <1>2, <2>0, HandlerStep, SilentStep
    <2>5. EndInv'
      BY <1>1, <1>2, EndStep
    <2>6. IdsInv'
      BY <1>1, <1>2, IdsStep
    <2>7. AlignedInv'
      BY <1>1, <1>2, AlignedStep
    <2> QED
      BY <2>1, <2>2, <2>3, <2>4, <2>5, <2>6, <2>7, Zenon DEF IInv
  <1>3. CASE UNCHANGED vars
    <2> USE <1>1, <1>3 DEF vars, websocketVars, clientVars, reducerVars, resizerVars,
          coordinatorVars, ptyVars, proxyVars, dispatcherVars
    <2>1. TypeOK'
      <3>0. /\ PlacesTypeOK /\ NumbersTypeOK /\ ReducerTypeOK /\ ResizerTypeOK /\ OrdersTypeOK
            /\ OutputTypeOK
        BY TypeParts
      <3>1. PlacesTypeOK' /\ NumbersTypeOK'
        <4>1. UNCHANGED <<websocket, connection, manifest, told, syncs, handler, captured, state,
                          visibility, mode, terminal, dispatcher, dispatcherId>>
          OBVIOUS
        <4> HIDE <1>3 DEF vars
        <4>2. PlacesTypeOK'
          BY <3>0, <4>1, PlacesSame
        <4>3. NumbersTypeOK'
          BY <3>0, <4>1 DEF NumbersTypeOK
        <4> QED
          BY <4>2, <4>3
      <3>2. ReducerTypeOK' /\ ResizerTypeOK'
        BY <3>0, Zenon DEF ReducerTypeOK, ResizerTypeOK
      <3>3. OrdersTypeOK' /\ OutputTypeOK'
        BY <3>0, Zenon DEF OrdersTypeOK, OutputTypeOK
      <3> QED
        BY <3>1, <3>2, <3>3, Zenon DEF TypeOK, PlacesTypeOK, NumbersTypeOK, ReducerTypeOK,
           ResizerTypeOK, OrdersTypeOK, OutputTypeOK
    <2>2. PlaceInv'
      BY Zenon DEF PlaceInv
    <2>3. OnceInv'
      BY DEF OnceInv, Waits
    <2>4. HandlerInv' /\ SilentInv'
      BY Zenon DEF HandlerInv, SilentInv, Streaming
    <2>5. EndInv'
      BY DEF EndInv, Waits, Streaming, Showing
    <2>6. IdsInv'
      BY DEF IdsInv, Answered
    <2>7. AlignedInv'
      BY DEF AlignedInv, Aligned, Connected, Streaming, Showing, Coming, Elements
    <2> QED
      BY <2>1, <2>2, <2>3, <2>4, <2>5, <2>6, <2>7, Zenon DEF IInv
  <1> QED
    BY <1>2, <1>3

(* Shows, syncs, output and connections never leave the invariant.          *)
THEOREM SnapshotInvariant == Spec => []IInv
  BY InitInv, StepInv, PTL DEF Spec

-----------------------------------------------------------------------------
(* What a client can rely on.                                              *)

(* Every variable has its type, and the resizer's queue its capacity.       *)
THEOREM SnapshotTypes == Spec => []TypeOK
  <1>1. IInv => TypeOK
    BY Zenon DEF IInv
  <1> QED
    BY SnapshotInvariant, <1>1, PTL

(* What is coming is on the way.                                            *)
LEMMA ComingIsOnTheWay == Coming \subseteq OnTheWay
  BY DEF Coming, OnTheWay

(* Whatever the terminal holds, a client that is streamed to, or in the     *)
(* middle of a snapshot, has received or is about to receive.               *)
THEOREM NoGapHolds == Spec => []NoGap
  <1>1. IInv => NoGap
    <2> SUFFICES ASSUME AlignedInv, Aligned, mode \in {"LIVE", "POST_SNAPSHOT"}
                 PROVE  1 .. terminal \subseteq Elements(screen) \cup OnTheWay
      BY Zenon DEF IInv, NoGap
    <2>1. \A c \in 1 .. terminal : c \in Elements(screen) \/ c \in Coming
      BY Zenon DEF AlignedInv, Streaming
    <2> QED
      BY <2>1, ComingIsOnTheWay, Zenon
  <1> QED
    BY SnapshotInvariant, <1>1, PTL

(* Between handlers a PTY that nobody is known to show streams nothing.     *)
THEOREM HiddenSilent == Spec => []HiddenIsSilent
  <1>1. IInv => HiddenIsSilent
    BY Zenon DEF IInv, SilentInv, HiddenIsSilent, Streaming
  <1> QED
    BY SnapshotInvariant, <1>1, PTL

-----------------------------------------------------------------------------
(* What a step may never do.                                               *)

(* The steps that make a PTY visible.                                       *)
LEMMA VisibleSteps ==
  ASSUME Next, visibility' = "VISIBLE"
  PROVE  visibility = "VISIBLE" \/ HandleSpawnPty \/ SyncVisibility
  <1> USE DEF ptyVars, othersUnchanged
  <1>1. CASE Connection \/ Layout \/ Dispatcher
    BY <1>1, Frames, Zenon
  <1>2. CASE HandleDisconnect
    BY <1>2, Zenon DEF HandleDisconnect
  <1>3. CASE DrainAndApply \/ Execute \/ HandleExit \/ CaptureStatus \/ SpawnSuccess
    BY <1>3, Zenon DEF DrainAndApply, Execute, HandleExit, CaptureStatus, SpawnSuccess
  <1>4. CASE Silence \/ HandleConnect \/ HandleSyncVisibility \/ AlignMode \/ HandleEmitSnapshot
    BY <1>4, Zenon DEF Silence, HandleConnect, HandleSyncVisibility, AlignMode, HandleEmitSnapshot
  <1>5. CASE Serialize \/ CaptureId \/ WriteOutput \/ PostToLive
    BY <1>5, Zenon DEF Serialize, CaptureId, WriteOutput, PostToLive
  <1> QED
    BY <1>1, <1>2, <1>3, <1>4, <1>5, Zenon DEF Next, Coordinator

(* The steps that start to stream a PTY.                                    *)
LEMMA StreamSteps ==
  ASSUME PlacesTypeOK, Next, mode' \in {"LIVE", "POST_SNAPSHOT"}
  PROVE  mode \in {"LIVE", "POST_SNAPSHOT"} \/ SpawnSuccess \/ handler \in {"PreToPost", "PostToLive"}
  <1> USE DEF proxyVars, othersUnchanged
  <1>1. CASE Connection \/ Layout
    BY <1>1, Frames, Zenon
  <1>2. CASE Dispatcher
    BY <1>2, Frames, Zenon
  <1>3. CASE DrainAndApply \/ Execute \/ HandleExit \/ CaptureStatus \/ HandleSpawnPty
    BY <1>3, Zenon DEF DrainAndApply, Execute, HandleExit, CaptureStatus, HandleSpawnPty
  <1>4. CASE HandleConnect \/ HandleDisconnect \/ HandleSyncVisibility \/ SyncVisibility
             \/ HandleEmitSnapshot
    BY <1>4, Zenon DEF HandleConnect, HandleDisconnect, HandleSyncVisibility, SyncVisibility,
       HandleEmitSnapshot
  <1>5. CASE Silence \/ AlignMode
    BY <1>5, Zenon DEF Silence, AlignMode
  <1>6. CASE Serialize \/ CaptureId \/ WriteOutput \/ PostToLive
    BY <1>6, Zenon DEF Serialize, CaptureId, WriteOutput, PostToLive
  <1> QED
    BY <1>1, <1>2, <1>3, <1>4, <1>5, <1>6, Zenon DEF Next, Coordinator

(* Until the new client has got its manifest, no order of an old connection *)
(* shows a hidden PTY or makes it stream.                                   *)
THEOREM ManifestFirst == Spec => NothingBeforeManifest
  <1>1. ASSUME IInv, Next, Aligned, manifest # connection, state # "Absent"
        PROVE  /\ visibility' = "VISIBLE" => visibility = "VISIBLE"
               /\ mode' \in {"LIVE", "POST_SNAPSHOT"} => mode \in {"SPAWNING", "LIVE", "POST_SNAPSHOT"}
    <2>0. /\ PlacesTypeOK /\ PlaceInv /\ OnceInv
          /\ handler \notin Showing
      BY <1>1, TypeParts, Zenon DEF IInv, AlignedInv
    <2>1. ~HandleSpawnPty
      BY <1>1, <2>0, Zenon DEF HandleSpawnPty, Turn, OnceInv, PlaceInv, Waits
    <2>2. ~SyncVisibility
      BY <2>0, Zenon DEF SyncVisibility, Showing
    <2>3. SpawnSuccess => mode = "SPAWNING"
      BY <2>0, Zenon DEF SpawnSuccess, OnceInv, PlaceInv
    <2>4. handler \notin {"PreToPost", "PostToLive"}
      BY <2>0, Zenon DEF Showing
    <2> QED
      BY <1>1, <2>0, <2>1, <2>2, <2>3, <2>4, VisibleSteps, StreamSteps, Zenon
  <1>2. IInv /\ [Next]_vars =>
          [Aligned /\ manifest # connection /\ state # "Absent"
             => /\ visibility' = "VISIBLE" => visibility = "VISIBLE"
                /\ mode' \in {"LIVE", "POST_SNAPSHOT"} => mode \in {"SPAWNING", "LIVE", "POST_SNAPSHOT"}]_vars
    BY <1>1, Zenon
  <1> QED
    BY <1>2, SnapshotInvariant, PTL DEF Spec, NothingBeforeManifest

(* The step that ends the mode of a PTY that is streamed.                   *)
LEMMA ExitSteps ==
  ASSUME PlacesTypeOK, PlaceInv, OnceInv, Next, mode = "LIVE", mode' = "EXITED"
  PROVE  HandleExit
  <1> USE DEF proxyVars, othersUnchanged
  <1>1. CASE Connection \/ Layout
    BY <1>1, Frames, Zenon
  <1>2. CASE Dispatcher
    BY <1>2, Frames, Zenon
  <1>3. CASE DrainAndApply \/ Execute \/ CaptureStatus \/ HandleSpawnPty
    BY <1>3, Zenon DEF DrainAndApply, Execute, CaptureStatus, HandleSpawnPty
  <1>4. CASE HandleConnect \/ HandleDisconnect \/ HandleSyncVisibility \/ SyncVisibility
             \/ HandleEmitSnapshot
    BY <1>4, Zenon DEF HandleConnect, HandleDisconnect, HandleSyncVisibility, SyncVisibility,
       HandleEmitSnapshot
  <1>5. CASE Silence \/ AlignMode
    BY <1>5, Zenon DEF Silence, AlignMode
  <1>6. CASE Serialize \/ CaptureId \/ WriteOutput \/ PostToLive
    BY <1>6, Zenon DEF Serialize, CaptureId, WriteOutput, PostToLive
  <1>7. CASE SpawnSuccess
    BY <1>7, Zenon DEF SpawnSuccess
  <1> QED
    BY <1>1, <1>2, <1>3, <1>4, <1>5, <1>6, <1>7, Zenon DEF Next, Coordinator

(* The exit of a streamed PTY is handled after its client has got all of    *)
(* its output.                                                              *)
THEOREM ExitAfterOutputHolds == Spec => ExitAfterOutput
  <1>1. ASSUME IInv, Next, mode = "LIVE", mode' = "EXITED", Aligned
        PROVE  1 .. terminal \subseteq Elements(screen)
    <2>0. PlacesTypeOK /\ PlaceInv /\ OnceInv
      BY <1>1, TypeParts, Zenon DEF IInv
    <2>1. HandleExit
      BY <1>1, <2>0, ExitSteps
    <2>2. handler = "Execute" /\ dispatcher = "finished"
      BY <2>0, <2>1, Zenon DEF HandleExit, Turn, OnceInv, Waits
    <2>3. Coming = {}
      BY <1>1, <2>2 DEF Coming
    <2>4. \A c \in 1 .. terminal : c \in Elements(screen) \/ c \in Coming
      BY <1>1, Zenon DEF IInv, AlignedInv, Streaming
    <2> QED
      BY <2>3, <2>4, Zenon
  <1>2. IInv /\ [Next]_vars =>
          [mode = "LIVE" /\ mode' = "EXITED" /\ Aligned => 1 .. terminal \subseteq Elements(screen)]_vars
    BY <1>1, Zenon
  <1> QED
    BY <1>2, SnapshotInvariant, PTL DEF Spec, ExitAfterOutput
=============================================================================
