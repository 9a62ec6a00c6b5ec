---------------------- MODULE WebsocketController_proofs ----------------------
(***************************************************************************)
(* Proofs about WebsocketController, for any set of requests and any size   *)
(* of the queue: a pending takeover has somebody who carries it out, an     *)
(* open socket is let go of in one situation only, and the coordinator      *)
(* hears of connections as WebsocketFlow says.                              *)
(*                                                                         *)
(* The argument is the worker's: only it changes the status and the         *)
(* pointer, so the place it stands at determines both. The handlers share   *)
(* takeover and sockets with it, and what they may do to these is little.   *)
(***************************************************************************)
EXTENDS WebsocketController, SequenceTheorems, TLAPS

(* What the worker's place says of status, pointer and announcement.        *)
PlaceInv ==
  /\ status = "CONNECTED" <=> worker \in {"OnConnected", "Read", "Teardown"}
  /\ status = "CONNECTED" <=> current # NONE
  /\ latest # NONE <=> worker \in {"Drain", "Upgrade", "Attach", "Fail", "panicked"}
  /\ worker \in {"Upgrade", "Attach", "Fail"} => status \in {"CONNECTING", "TAKEOVER_CONNECTING"}
  /\ worker \in {"Select", "Drain"} => status # "CONNECTING"
  /\ worker \in {"Close", "OnDisconnected"} => status \in {"DISCONNECTED", "TAKEOVER_CONNECTING"}
  /\ worker \in {"Read", "Teardown", "Close", "OnDisconnected"} => announced = id
  /\ worker \notin {"Read", "Teardown", "Close", "OnDisconnected"} => announced = 0

(* Which sockets exist, and when one waits to be closed by the worker.      *)
SocketInv ==
  /\ closing # NONE => worker = "Close"
  /\ current # NONE => sockets[current] # "none"
  /\ worker = "Attach" => sockets[latest] # "none"
  /\ \A r \in Requests : handlers[r] = "close" => captured[r] \in Requests /\ sockets[captured[r]] # "none"

IInv == TypeOK /\ PlaceInv /\ SocketInv /\ PendingIsEvicted

-----------------------------------------------------------------------------
(* What a receive and a send do to a queue.                                 *)
LEMMA TailFacts ==
  ASSUME NEW S, NEW s \in Seq(S), s # <<>>
  PROVE  Head(s) \in S /\ Tail(s) \in Seq(S) /\ Len(Tail(s)) = Len(s) - 1 /\ Len(s) \in Nat
  OBVIOUS

LEMMA AppendFacts ==
  ASSUME NEW S, NEW s \in Seq(S), NEW e \in S
  PROVE  Append(s, e) \in Seq(S) /\ Len(Append(s, e)) = Len(s) + 1 /\ Len(s) \in Nat
  OBVIOUS

LEMMA Initially == Init => IInv
  BY QueueAssumption, RequestAssumption
  DEF Init, IInv, TypeOK, PlaceInv, SocketInv, PendingIsEvicted, Statuses

-----------------------------------------------------------------------------
(* The steps of the handlers and of the peers.                              *)

LEMMA MarkTakeoverKeeps ==
  ASSUME IInv, NEW r \in Requests, MarkTakeover(r)
  PROVE  IInv'
  <1> USE DEF IInv, TypeOK, stateVars, workerVars, MarkTakeover
  <1>1. TypeOK'
    OBVIOUS
  <1>2. PlaceInv' /\ SocketInv'
    BY DEF PlaceInv, SocketInv
  <1>3. PendingIsEvicted'
    BY DEF PendingIsEvicted
  <1> QED
    BY <1>1, <1>2, <1>3

LEMMA CaptureConnectionKeeps ==
  ASSUME IInv, NEW r \in Requests, CaptureConnection(r)
  PROVE  IInv'
  <1> USE RequestAssumption DEF IInv, TypeOK, stateVars, workerVars, CaptureConnection
  <1>1. TypeOK'
    OBVIOUS
  <1>2. PlaceInv' /\ SocketInv'
    BY DEF PlaceInv, SocketInv
  <1>3. PendingIsEvicted'
    BY DEF PendingIsEvicted
  <1> QED
    BY <1>1, <1>2, <1>3

LEMMA CloseConnectionKeeps ==
  ASSUME IInv, NEW r \in Requests, CloseConnection(r)
  PROVE  IInv'
  <1> USE RequestAssumption DEF IInv, TypeOK, stateVars, workerVars, CloseConnection
  <1>1. TypeOK'
    OBVIOUS
  <1>2. PlaceInv' /\ SocketInv'
    BY DEF PlaceInv, SocketInv
  <1>3. PendingIsEvicted'
    BY DEF PendingIsEvicted, SocketInv, PlaceInv
  <1> QED
    BY <1>1, <1>2, <1>3

LEMMA SubmitKeeps ==
  ASSUME IInv, NEW r \in Requests, Submit(r)
  PROVE  IInv'
  <1> USE DEF IInv, TypeOK, stateVars, workerVars, Submit
  <1>1. TypeOK'
    <2>1. CASE Len(queue) < SIZE_QUEUE
      <3>1. Append(queue, r) \in Seq(Requests) /\ Len(Append(queue, r)) <= SIZE_QUEUE
        BY <2>1, AppendFacts, QueueAssumption
      <3>2. handlers' = [handlers EXCEPT ![r] = "wait"] /\ queue' = Append(queue, r)
        BY <2>1, AppendFacts, QueueAssumption
      <3> QED
        BY <3>1, <3>2
    <2>2. CASE ~(Len(queue) < SIZE_QUEUE)
      BY <2>2
    <2> QED
      BY <2>1, <2>2
  <1>2. PlaceInv' /\ SocketInv'
    BY DEF PlaceInv, SocketInv
  <1>3. PendingIsEvicted'
    BY DEF PendingIsEvicted
  <1> QED
    BY <1>1, <1>2, <1>3

LEMMA ReturnKeeps ==
  ASSUME IInv, NEW r \in Requests, GiveUp(r) \/ ReceiveReply(r)
  PROVE  IInv'
  <1> USE DEF IInv, TypeOK, stateVars, workerVars, GiveUp, ReceiveReply
  <1>1. TypeOK'
    OBVIOUS
  <1>2. PlaceInv' /\ SocketInv'
    BY DEF PlaceInv, SocketInv
  <1>3. PendingIsEvicted'
    BY DEF PendingIsEvicted
  <1> QED
    BY <1>1, <1>2, <1>3

LEMMA PeerLostKeeps ==
  ASSUME IInv, NEW r \in Requests, PeerLost(r)
  PROVE  IInv'
  <1> USE RequestAssumption DEF IInv, TypeOK, stateVars, requestVars, workerVars, PeerLost
  <1>1. TypeOK'
    OBVIOUS
  <1>2. PlaceInv' /\ SocketInv'
    BY DEF PlaceInv, SocketInv
  <1>3. PendingIsEvicted'
    BY DEF PendingIsEvicted, PlaceInv
  <1> QED
    BY <1>1, <1>2, <1>3

-----------------------------------------------------------------------------
(* The steps of the worker.                                                 *)

LEMMA QueueStepsKeep ==
  ASSUME IInv, TakeLeading \/ RejectPreceding
  PROVE  IInv'
  <1> USE RequestAssumption
      DEF IInv, TypeOK, stateVars, requestVars, TakeLeading, RejectPreceding
  <1>1. Head(queue) \in Requests /\ Tail(queue) \in Seq(Requests) /\ Len(Tail(queue)) <= SIZE_QUEUE
    BY TailFacts, QueueAssumption
  <1>2. TypeOK'
    <2>1. CASE TakeLeading
      BY <1>1, <2>1
    <2>2. CASE RejectPreceding
      BY <1>1, <2>2
    <2> QED
      BY <2>1, <2>2
  <1>3. PlaceInv' /\ SocketInv'
    BY <1>1 DEF PlaceInv, SocketInv
  <1>4. PendingIsEvicted'
    BY DEF PendingIsEvicted
  <1> QED
    BY <1>2, <1>3, <1>4

LEMMA UpdateKeeps ==
  ASSUME IInv, Update \/ UpgradeFailed
  PROVE  IInv'
  <1> USE RequestAssumption
      DEF IInv, TypeOK, requestVars, Update, UpgradeFailed, Statuses
  <1>1. TypeOK'
    OBVIOUS
  <1>2. PlaceInv'
    BY DEF PlaceInv
  <1>3. SocketInv' /\ PendingIsEvicted'
    BY DEF PlaceInv, SocketInv, PendingIsEvicted
  <1> QED
    BY <1>1, <1>2, <1>3

LEMMA UpgradeKeeps ==
  ASSUME IInv, Upgrade
  PROVE  IInv'
  <1> USE RequestAssumption
      DEF IInv, TypeOK, stateVars, requestVars, Upgrade, Statuses
  <1>1. latest \in Requests
    BY DEF PlaceInv
  <1>2. TypeOK'
    BY <1>1
  <1>3. PlaceInv'
    BY DEF PlaceInv
  <1>4. SocketInv' /\ PendingIsEvicted'
    BY <1>1 DEF PlaceInv, SocketInv, PendingIsEvicted
  <1> QED
    BY <1>2, <1>3, <1>4

LEMMA AttachKeeps ==
  ASSUME IInv, Attach
  PROVE  IInv'
  <1> USE RequestAssumption
      DEF IInv, TypeOK, requestVars, Attach, Statuses
  <1>1. latest \in Requests
    BY DEF PlaceInv
  <1>2. TypeOK'
    BY <1>1
  <1>3. PlaceInv'
    BY <1>1 DEF PlaceInv
  <1>4. SocketInv' /\ PendingIsEvicted'
    BY <1>1 DEF PlaceInv, SocketInv, PendingIsEvicted
  <1> QED
    BY <1>2, <1>3, <1>4

LEMMA ReadKeeps ==
  ASSUME IInv, OnConnected \/ ReadError \/ TextMessage
  PROVE  IInv'
  <1> USE RequestAssumption
      DEF IInv, TypeOK, stateVars, requestVars, OnConnected, ReadError, TextMessage, Statuses
  <1>1. current \in Requests
    BY DEF PlaceInv
  <1>2. TypeOK'
    BY <1>1
  <1>3. PlaceInv'
    BY DEF PlaceInv
  <1>4. SocketInv' /\ PendingIsEvicted'
    BY <1>1 DEF PlaceInv, SocketInv, PendingIsEvicted
  <1> QED
    BY <1>2, <1>3, <1>4

LEMMA TeardownKeeps ==
  ASSUME IInv, Teardown
  PROVE  IInv'
  <1> USE RequestAssumption
      DEF IInv, TypeOK, requestVars, Teardown, Statuses
  <1>1. TypeOK'
    OBVIOUS
  <1>2. PlaceInv'
    BY DEF PlaceInv
  <1>3. SocketInv' /\ PendingIsEvicted'
    BY DEF PlaceInv, SocketInv, PendingIsEvicted
  <1> QED
    BY <1>1, <1>2, <1>3

LEMMA DisconnectedKeeps ==
  ASSUME IInv, CloseClosing \/ OnDisconnected
  PROVE  IInv'
  <1> USE RequestAssumption
      DEF IInv, TypeOK, stateVars, requestVars, CloseClosing, OnDisconnected, Statuses
  <1>1. TypeOK'
    OBVIOUS
  <1>2. PlaceInv'
    BY DEF PlaceInv
  <1>3. SocketInv' /\ PendingIsEvicted'
    BY DEF PlaceInv, SocketInv, PendingIsEvicted
  <1> QED
    BY <1>1, <1>2, <1>3

-----------------------------------------------------------------------------
LEMMA Inductive == IInv /\ [Next]_vars => IInv'
  <1> SUFFICES ASSUME IInv, [Next]_vars PROVE IInv'
    OBVIOUS
  <1>1. ASSUME NEW r \in Requests, Handler(r) \/ GiveUp(r) \/ PeerLost(r)
        PROVE  IInv'
    BY <1>1, MarkTakeoverKeeps, CaptureConnectionKeeps, CloseConnectionKeeps, SubmitKeeps,
       ReturnKeeps, PeerLostKeeps DEF Handler
  <1>2. ASSUME Worker \/ ReadError \/ TextMessage
        PROVE  IInv'
    BY <1>2, QueueStepsKeep, UpdateKeeps, UpgradeKeeps, AttachKeeps, ReadKeeps, TeardownKeeps,
       DisconnectedKeeps DEF Worker
  <1>3. CASE UNCHANGED vars
    BY <1>3 DEF vars, stateVars, requestVars, workerVars, IInv, TypeOK, PlaceInv, SocketInv,
                PendingIsEvicted
  <1> QED
    BY <1>1, <1>2, <1>3 DEF Next

(* The joint invariant of worker, handlers and peers.                       *)
THEOREM Invariant == Spec => []IInv
  BY Initially, Inductive, PTL DEF Spec

(* Every variable keeps its type, and the queue its capacity.               *)
THEOREM TypeCorrect == Spec => []TypeOK
  <1>1. IInv => TypeOK
    BY DEF IInv
  <1> QED
    BY <1>1, Invariant, PTL

(* The pointer the read loop dereferences is that of an established         *)
(* connection, and is there exactly while the status says so.               *)
THEOREM PointerCorrect == Spec => []PointerMatchesStatus
  <1>1. IInv => PointerMatchesStatus
    BY DEF IInv, PlaceInv, SocketInv, PointerMatchesStatus
  <1> QED
    BY <1>1, Invariant, PTL

(* A pending takeover is carried out by somebody.                           *)
THEOREM TakeoverCarriedOut == Spec => []PendingIsEvicted
  <1>1. IInv => PendingIsEvicted
    BY DEF IInv
  <1> QED
    BY <1>1, Invariant, PTL

-----------------------------------------------------------------------------
(* Sockets are let go of in one situation only.                             *)

(* A socket that is open and in nobody's hand after a step.                 *)
Forgotten(r) == sockets[r] = "open" /\ ~Attended(r)

(* The situation: the connection is taken over, by a request that has not   *)
(* looked for it yet.                                                       *)
BeforeCapture == takeover = "PENDING" /\ \E q \in Requests : handlers[q] = "evict"

(* A handler that has closed a socket leaves it closed; one that has found  *)
(* a connection has it in hand.                                             *)
LEMMA HandlersLetGo ==
  ASSUME IInv, NEW q \in Requests, Handler(q) \/ GiveUp(q) \/ PeerLost(q),
         NEW r \in Requests, Forgotten(r)'
  PROVE  Forgotten(r)
  <1> USE DEF IInv, TypeOK, Forgotten, Attended, stateVars, requestVars, workerVars
  <1>1. CASE MarkTakeover(q) \/ CaptureConnection(q) \/ Submit(q)
    BY <1>1 DEF MarkTakeover, CaptureConnection, Submit
  <1>2. CASE CloseConnection(q)
    BY <1>2 DEF CloseConnection
  <1>3. CASE ReceiveReply(q) \/ GiveUp(q)
    BY <1>3 DEF ReceiveReply, GiveUp
  <1>4. CASE PeerLost(q)
    BY <1>4 DEF PeerLost
  <1> QED
    BY <1>1, <1>2, <1>3, <1>4 DEF Handler

(* The worker's steps but Teardown: a socket it opens, or closes, is in its *)
(* hand until then.                                                         *)
LEMMA WorkerLetsGo ==
  ASSUME IInv, Worker \/ ReadError \/ TextMessage, ~Teardown, NEW r \in Requests, Forgotten(r)'
  PROVE  Forgotten(r)
  <1> USE RequestAssumption
      DEF IInv, TypeOK, PlaceInv, SocketInv, Forgotten, Attended, stateVars, requestVars
  <1>1. CASE TakeLeading \/ RejectPreceding \/ Update \/ UpgradeFailed
    BY <1>1 DEF TakeLeading, RejectPreceding, Update, UpgradeFailed
  <1>2. CASE Upgrade
    BY <1>2 DEF Upgrade
  <1>3. CASE Attach
    BY <1>3 DEF Attach
  <1>4. CASE OnConnected \/ ReadError \/ TextMessage \/ OnDisconnected
    BY <1>4 DEF OnConnected, ReadError, TextMessage, OnDisconnected
  <1>5. CASE CloseClosing
    BY <1>5 DEF CloseClosing
  <1> QED
    BY <1>1, <1>2, <1>3, <1>4, <1>5 DEF Worker

(* Teardown closes the socket unless the connection is taken over, and then *)
(* a handler has captured it, or is about to look for it.                   *)
LEMMA TeardownLetsGo ==
  ASSUME IInv, Teardown, NEW r \in Requests, Forgotten(r)'
  PROVE  sockets[r] = "open" /\ (Attended(r) => BeforeCapture)
  <1> USE RequestAssumption DEF IInv, TypeOK, PlaceInv, SocketInv, Teardown, requestVars
  <1>1. sockets[r] = "open"
    BY DEF Forgotten
  <1>2. ASSUME Attended(r) PROVE r = current /\ takeover = "PENDING"
    BY <1>2 DEF Forgotten, Attended
  <1>3. ASSUME Attended(r) PROVE BeforeCapture
    <2>1. ~(\E q \in Requests : handlers[q] = "close" /\ captured[q] = r)
      BY DEF Forgotten, Attended
    <2> QED
      BY <1>1, <1>2, <1>3, <2>1 DEF PendingIsEvicted, BeforeCapture
  <1> QED
    BY <1>1, <1>3

(* An open socket is forgotten only by a takeover whose request has not     *)
(* looked for the connection when the worker tears it down.                 *)
THEOREM LetGoBeforeCapture == Spec => LetGoOnlyBeforeCapture
  <1>1. IInv /\ [Next]_vars =>
          [\A r \in Requests :
             sockets'[r] = "open" /\ ~Attended(r)' =>
               /\ sockets[r] = "open"
               /\ Attended(r) => /\ takeover = "PENDING"
                                 /\ \E q \in Requests : handlers[q] = "evict"]_vars
    <2> SUFFICES ASSUME IInv, Next, NEW r \in Requests, Forgotten(r)'
                 PROVE  sockets[r] = "open" /\ (Attended(r) => BeforeCapture)
      BY DEF Forgotten, BeforeCapture
    <2> QED
      BY HandlersLetGo, WorkerLetsGo, TeardownLetsGo DEF Next, Forgotten
  <1> QED
    BY <1>1, Invariant, PTL DEF Spec, LetGoOnlyBeforeCapture

-----------------------------------------------------------------------------
(* The refinement of WebsocketFlow.                                         *)

LEMMA FlowInitially == Init => Flow!Init
  BY DEF Init, Flow!Init

LEMMA FlowStep == IInv /\ [Next]_vars => [Flow!Next]_(Flow!vars)
  <1> SUFFICES ASSUME IInv, [Next]_vars PROVE [Flow!Next]_(Flow!vars)
    OBVIOUS
  <1> USE DEF Flow!vars
  <1>1. ASSUME NEW r \in Requests, Handler(r) \/ GiveUp(r) \/ PeerLost(r)
        PROVE  UNCHANGED Flow!vars
    BY <1>1 DEF Handler, MarkTakeover, CaptureConnection, CloseConnection, Submit, ReceiveReply,
                GiveUp, PeerLost, stateVars, workerVars
  <1>2. CASE TakeLeading \/ RejectPreceding \/ Upgrade \/ ReadError \/ TextMessage \/ CloseClosing
    BY <1>2 DEF TakeLeading, RejectPreceding, Upgrade, ReadError, TextMessage, CloseClosing,
                stateVars
  <1>3. CASE Update
    <2>1. CASE status = "TAKEOVER_CONNECTING"
      BY <1>3, <2>1 DEF Update
    <2>2. CASE status # "TAKEOVER_CONNECTING"
      <3>1. status \in {"STANDBY", "DISCONNECTED"} \cup Flow!Failed /\ announced = 0
        BY <1>3, <2>2 DEF Update, IInv, TypeOK, Statuses, PlaceInv, Flow!Failed
      <3>2. Flow!Begin
        BY <1>3, <2>2, <3>1 DEF Update, Flow!Begin
      <3> QED
        BY <3>2 DEF Flow!Next
    <2> QED
      BY <2>1, <2>2
  <1>4. CASE UpgradeFailed
    <2>1. Flow!Fail
      BY <1>4 DEF UpgradeFailed, IInv, PlaceInv, Flow!Fail
    <2> QED
      BY <2>1 DEF Flow!Next
  <1>5. CASE Attach
    <2>1. Flow!Connect
      BY <1>5 DEF Attach, IInv, PlaceInv, Flow!Connect, Flow!Connecting
    <2> QED
      BY <2>1 DEF Flow!Next
  <1>6. CASE OnConnected
    <2>1. Flow!AnnounceConnect
      BY <1>6 DEF OnConnected, IInv, PlaceInv, Flow!AnnounceConnect, stateVars
    <2> QED
      BY <2>1 DEF Flow!Next
  <1>7. CASE Teardown
    <2>1. Flow!Disconnect
      BY <1>7 DEF Teardown, IInv, PlaceInv, Flow!Disconnect
    <2> QED
      BY <2>1 DEF Flow!Next
  <1>8. CASE OnDisconnected
    <2>1. Flow!AnnounceDisconnect
      BY <1>8 DEF OnDisconnected, IInv, PlaceInv, Flow!AnnounceDisconnect, stateVars
    <2> QED
      BY <2>1 DEF Flow!Next
  <1>9. CASE UNCHANGED vars
    BY <1>9 DEF vars, stateVars, workerVars
  <1> QED
    BY <1>1, <1>2, <1>3, <1>4, <1>5, <1>6, <1>7, <1>8, <1>9 DEF Next, Worker

(* The worker and its handlers together do what WebsocketFlow says.         *)
THEOREM Refinement == Spec => ImplementsFlow
  BY Invariant, FlowInitially, FlowStep, PTL DEF Spec, Flow!Spec, ImplementsFlow
=============================================================================
