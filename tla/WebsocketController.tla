------------------------- MODULE WebsocketController -------------------------
(***************************************************************************)
(* _WebsocketController_: HTTP handlers that ask for the connection, each  *)
(* in a goroutine of its own, and the worker that upgrades one of them at a *)
(* time and reads from it. A step is a critical section of the mutex, a     *)
(* channel operation, or the closing of a socket.                           *)
(*                                                                         *)
(* Each request is one HTTP request; the socket it is upgraded to carries   *)
(* its name.                                                               *)
(***************************************************************************)
EXTENDS Naturals, Sequences

CONSTANTS
  Requests,        \* HTTP requests for the websocket
  SIZE_QUEUE,      \* capacity of QueueChannel__Submission_GetWebsocketConnection
  NONE             \* no connection: nil

ASSUME QueueAssumption == SIZE_QUEUE \in Nat \ {0}
ASSUME RequestAssumption == NONE \notin Requests

VARIABLES
  status,          \* Status_WebsocketConnection_state
  takeover,        \* TakeoverStatus_WebsocketConnection_state
  id,              \* Id_WebsocketConnection_state
  current,         \* WebsocketConnection_state
  sockets,         \* per request: no socket, open, broken (peer gone), or closed by the server
  handlers,        \* where HandleRequest_GetWebsocketConnection stands for each request
  captured,        \* the connection CloseWithCode has captured for it
  replies,         \* its ReplyChannel
  queue,           \* QueueChannel__Submission_GetWebsocketConnection
  worker,          \* where RunWorker__Submission_GetWebsocketConnection stands
  latest,          \* the submission it works on
  closing,         \* WebsocketConnection_closing of Teardown
  announced        \* id of the connection last reported to the coordinator, 0 after its end

stateVars == <<status, takeover, id, current>>
requestVars == <<handlers, captured, replies>>
workerVars == <<worker, latest, closing, announced>>
vars == <<stateVars, sockets, requestVars, queue, workerVars>>

Statuses == {"STANDBY", "CONNECTING", "TAKEOVER_CONNECTING", "UPGRADE_FAILED",
             "TAKEOVER_UPGRADE_FAILED", "CONNECTED", "DISCONNECTED"}

TypeOK ==
  /\ status \in Statuses
  /\ takeover \in {"NOT_PENDING", "PENDING"}
  /\ id \in Nat
  /\ current \in Requests \cup {NONE}
  /\ sockets \in [Requests -> {"none", "open", "broken", "closed"}]
  /\ handlers \in [Requests -> {"new", "evict", "close", "submit", "wait", "returned"}]
  /\ captured \in [Requests -> Requests \cup {NONE}]
  /\ replies \in [Requests -> {"none", "superseded", "upgraded", "failed"}]
  /\ queue \in Seq(Requests) /\ Len(queue) <= SIZE_QUEUE
  /\ worker \in {"Select", "Drain", "Upgrade", "Attach", "Fail", "OnConnected", "Read",
                 "Teardown", "Close", "OnDisconnected", "panicked"}
  /\ latest \in Requests \cup {NONE}
  /\ closing \in Requests \cup {NONE}
  /\ announced \in Nat

Init ==
  /\ status = "STANDBY" /\ takeover = "NOT_PENDING" /\ id = 0 /\ current = NONE
  /\ sockets = [r \in Requests |-> "none"]
  /\ handlers = [r \in Requests |-> "new"]
  /\ captured = [r \in Requests |-> NONE]
  /\ replies = [r \in Requests |-> "none"]
  /\ queue = <<>>
  /\ worker = "Select" /\ latest = NONE /\ closing = NONE /\ announced = 0

Running == worker # "panicked"

-----------------------------------------------------------------------------
(* HandleRequest_GetWebsocketConnection, in the goroutine of the request.   *)

MarkTakeover(r) ==
  /\ handlers[r] = "new"
  /\ takeover' = IF status = "CONNECTED" THEN "PENDING" ELSE takeover
  /\ handlers' = [handlers EXCEPT ![r] = IF status = "CONNECTED" THEN "evict" ELSE "submit"]
  /\ UNCHANGED <<status, id, current, sockets, captured, replies, queue, workerVars>>

(* CloseWithCode looks at the connection again: it may be another by now.   *)
CaptureConnection(r) ==
  /\ handlers[r] = "evict"
  /\ \/ /\ status = "CONNECTED"
        /\ captured' = [captured EXCEPT ![r] = current]
        /\ handlers' = [handlers EXCEPT ![r] = "close"]
     \/ /\ status # "CONNECTED"
        /\ handlers' = [handlers EXCEPT ![r] = "submit"]
        /\ UNCHANGED captured
  /\ UNCHANGED <<stateVars, sockets, replies, queue, workerVars>>

(* Wrong: sends the close frame and leaves the socket to its peer.          *)
CloseConnection_FrameOnly(r) ==
  /\ handlers[r] = "close"
  /\ handlers' = [handlers EXCEPT ![r] = "submit"]
  /\ UNCHANGED <<stateVars, sockets, captured, replies, queue, workerVars>>

CloseConnection(r) ==
  /\ handlers[r] = "close"
  /\ sockets' = [sockets EXCEPT ![captured[r]] = "closed"]
  /\ handlers' = [handlers EXCEPT ![r] = "submit"]
  /\ UNCHANGED <<stateVars, captured, replies, queue, workerVars>>

(* Wrong: queues beyond the capacity.                                       *)
Submit_Unbounded(r) ==
  /\ handlers[r] = "submit"
  /\ queue' = Append(queue, r)
  /\ handlers' = [handlers EXCEPT ![r] = "wait"]
  /\ UNCHANGED <<stateVars, sockets, captured, replies, workerVars>>

(* 503 when the queue is full.                                              *)
Submit(r) ==
  /\ handlers[r] = "submit"
  /\ \/ /\ Len(queue) < SIZE_QUEUE
        /\ queue' = Append(queue, r)
        /\ handlers' = [handlers EXCEPT ![r] = "wait"]
     \/ /\ Len(queue) >= SIZE_QUEUE
        /\ handlers' = [handlers EXCEPT ![r] = "returned"]
        /\ UNCHANGED queue
  /\ UNCHANGED <<stateVars, sockets, captured, replies, workerVars>>

(* The request is canceled; its submission stays where it is.               *)
GiveUp(r) ==
  /\ handlers[r] = "wait"
  /\ handlers' = [handlers EXCEPT ![r] = "returned"]
  /\ UNCHANGED <<stateVars, sockets, captured, replies, queue, workerVars>>

ReceiveReply(r) ==
  /\ handlers[r] = "wait"
  /\ replies[r] # "none"
  /\ handlers' = [handlers EXCEPT ![r] = "returned"]
  /\ UNCHANGED <<stateVars, sockets, captured, replies, queue, workerVars>>

Handler(r) == MarkTakeover(r) \/ CaptureConnection(r) \/ CloseConnection(r) \/ Submit(r) \/ ReceiveReply(r)

(* The peer closes its end or is lost: noticed by a read, at the latest     *)
(* when the read deadline has passed.                                       *)
PeerLost(r) ==
  /\ sockets[r] = "open"
  /\ sockets' = [sockets EXCEPT ![r] = "broken"]
  /\ UNCHANGED <<stateVars, requestVars, queue, workerVars>>

-----------------------------------------------------------------------------
(* RunWorker__Submission_GetWebsocketConnection.                            *)

TakeLeading ==
  /\ worker = "Select"
  /\ queue # <<>>
  /\ latest' = Head(queue)
  /\ queue' = Tail(queue)
  /\ worker' = "Drain"
  /\ UNCHANGED <<stateVars, sockets, requestVars, closing, announced>>

RejectPreceding ==
  /\ worker = "Drain"
  /\ queue # <<>>
  /\ replies' = [replies EXCEPT ![latest] = "superseded"]
  /\ latest' = Head(queue)
  /\ queue' = Tail(queue)
  /\ UNCHANGED <<stateVars, sockets, handlers, captured, worker, closing, announced>>

(* Wrong: forgets that the connection before was taken over.                *)
Update_ForgetsTakeover ==
  /\ worker = "Drain"
  /\ queue = <<>>
  /\ status' = "CONNECTING"
  /\ worker' = "Upgrade"
  /\ UNCHANGED <<takeover, id, current, sockets, requestVars, queue, latest, closing, announced>>

Update ==
  /\ worker = "Drain"
  /\ queue = <<>>
  /\ status' = IF status = "TAKEOVER_CONNECTING" THEN status ELSE "CONNECTING"
  /\ worker' = "Upgrade"
  /\ UNCHANGED <<takeover, id, current, sockets, requestVars, queue, latest, closing, announced>>

(* Hijacking the connection of a handler that has returned panics (net/http *)
(* "Hijack called after ServeHTTP finished"); a refused handshake does not  *)
(* get that far.                                                            *)
Upgrade ==
  /\ worker = "Upgrade"
  /\ \/ /\ handlers[latest] # "returned"
        /\ sockets' = [sockets EXCEPT ![latest] = "open"]
        /\ replies' = [replies EXCEPT ![latest] = "upgraded"]
        /\ worker' = "Attach"
     \/ /\ replies' = [replies EXCEPT ![latest] = "failed"]
        /\ worker' = "Fail"
        /\ UNCHANGED sockets
     \/ /\ handlers[latest] = "returned"
        /\ worker' = "panicked"
        /\ UNCHANGED <<sockets, replies>>
  /\ UNCHANGED <<stateVars, handlers, captured, queue, latest, closing, announced>>

UpgradeFailed ==
  /\ worker = "Fail"
  /\ status' = IF status = "TAKEOVER_CONNECTING" THEN "TAKEOVER_UPGRADE_FAILED" ELSE "UPGRADE_FAILED"
  /\ worker' = "Select" /\ latest' = NONE
  /\ UNCHANGED <<takeover, id, current, sockets, requestVars, queue, closing, announced>>

Attach ==
  /\ worker = "Attach"
  /\ id' = id + 1
  /\ current' = latest
  /\ status' = "CONNECTED"
  /\ worker' = "OnConnected" /\ latest' = NONE
  /\ UNCHANGED <<takeover, sockets, requestVars, queue, closing, announced>>

OnConnected ==
  /\ worker = "OnConnected"
  /\ announced' = id
  /\ worker' = "Read"
  /\ UNCHANGED <<stateVars, sockets, requestVars, queue, latest, closing>>

(* ReadMessage fails: the socket is down, or it is not and the read deadline *)
(* has passed without a pong, or the peer has broken the protocol.          *)
ReadError ==
  /\ worker = "Read"
  /\ worker' = "Teardown"
  /\ UNCHANGED <<stateVars, sockets, requestVars, queue, latest, closing, announced>>

(* CloseWithCode by the worker itself: nobody else changes the status, so   *)
(* it closes the connection it reads from. The text may have been buffered  *)
(* before the socket went down.                                             *)
TextMessage ==
  /\ worker = "Read"
  /\ sockets' = [sockets EXCEPT ![current] = "closed"]
  /\ worker' = "Teardown"
  /\ UNCHANGED <<stateVars, requestVars, queue, latest, closing, announced>>

(* Wrong: the takeover stays pending for the next connection.               *)
Teardown_KeepsPending ==
  /\ worker = "Teardown"
  /\ status' = IF takeover = "PENDING" THEN "TAKEOVER_CONNECTING" ELSE "DISCONNECTED"
  /\ closing' = IF takeover = "PENDING" THEN NONE ELSE current
  /\ current' = NONE
  /\ worker' = "Close"
  /\ UNCHANGED <<takeover, id, sockets, requestVars, queue, latest, announced>>

(* Wrong: leaves the pointer to the old connection.                         *)
Teardown_KeepsPointer ==
  /\ worker = "Teardown"
  /\ status' = IF takeover = "PENDING" THEN "TAKEOVER_CONNECTING" ELSE "DISCONNECTED"
  /\ takeover' = "NOT_PENDING"
  /\ closing' = IF takeover = "PENDING" THEN NONE ELSE current
  /\ worker' = "Close"
  /\ UNCHANGED <<id, current, sockets, requestVars, queue, latest, announced>>

(* Wrong: takes a socket that could not be read for one that is down.       *)
Teardown_LeavesSocket ==
  /\ worker = "Teardown"
  /\ status' = IF takeover = "PENDING" THEN "TAKEOVER_CONNECTING" ELSE "DISCONNECTED"
  /\ takeover' = "NOT_PENDING"
  /\ current' = NONE
  /\ worker' = "Close"
  /\ UNCHANGED <<id, sockets, requestVars, queue, latest, closing, announced>>

(* After a takeover the socket is left to the request that takes over.      *)
Teardown ==
  /\ worker = "Teardown"
  /\ status' = IF takeover = "PENDING" THEN "TAKEOVER_CONNECTING" ELSE "DISCONNECTED"
  /\ takeover' = "NOT_PENDING"
  /\ closing' = IF takeover = "PENDING" THEN NONE ELSE current
  /\ current' = NONE
  /\ worker' = "Close"
  /\ UNCHANGED <<id, sockets, requestVars, queue, latest, announced>>

CloseClosing ==
  /\ worker = "Close"
  /\ sockets' = [r \in Requests |-> IF r = closing THEN "closed" ELSE sockets[r]]
  /\ closing' = NONE
  /\ worker' = "OnDisconnected"
  /\ UNCHANGED <<stateVars, requestVars, queue, latest, announced>>

OnDisconnected ==
  /\ worker = "OnDisconnected"
  /\ announced' = 0
  /\ worker' = "Select"
  /\ UNCHANGED <<stateVars, sockets, requestVars, queue, latest, closing>>

Worker ==
  \/ TakeLeading \/ RejectPreceding \/ Update \/ Upgrade \/ UpgradeFailed
  \/ Attach \/ OnConnected \/ Teardown \/ CloseClosing \/ OnDisconnected

-----------------------------------------------------------------------------
Next ==
  /\ Running
  /\ \/ \E r \in Requests : Handler(r) \/ GiveUp(r) \/ PeerLost(r)
     \/ Worker
     \/ ReadError \/ TextMessage

Spec == Init /\ [][Next]_vars

(* Goroutines run. A close and an announcement end: writes have a deadline, *)
(* and the coordinator takes its orders. A read of a socket that is down    *)
(* returns; of one that is up it may wait for ever. Nothing is assumed of   *)
(* peers.                                                                  *)
FairSpec ==
  /\ Spec
  /\ WF_vars(Running /\ (Worker \/ (ReadError /\ sockets[current] # "open")))
  /\ \A r \in Requests : WF_vars(Running /\ Handler(r))

-----------------------------------------------------------------------------
(* The read loop dereferences WebsocketConnection_state without the mutex   *)
(* and CloseWithCode takes it for an open connection when the status is     *)
(* CONNECTED: pointer, status and the worker's place agree.                 *)
PointerMatchesStatus ==
  /\ status = "CONNECTED" <=> current # NONE
  /\ worker \in {"OnConnected", "Read", "Teardown"} => current # NONE
  /\ current # NONE => sockets[current] # "none"

(* A takeover is pending only for an established connection that is being   *)
(* closed: its socket is down, or a request is on its way to close it       *)
(* (documentation/WebsocketController.LEGACY.md:9).                         *)
PendingIsEvicted ==
  takeover = "PENDING"
    => /\ status = "CONNECTED"
       /\ \/ sockets[current] # "open"
          \/ \E r \in Requests : \/ handlers[r] = "evict"
                                 \/ handlers[r] = "close" /\ captured[r] = current

(* Somebody has the socket in hand: the worker, as its connection or to     *)
(* close it, or a handler that is about to close it.                        *)
Attended(r) ==
  \/ r = current
  \/ worker = "Attach" /\ r = latest
  \/ r = closing
  \/ \E q \in Requests : handlers[q] = "close" /\ captured[q] = r

(* No open socket is forgotten, by a teardown, a closing handler or a new   *)
(* connection in its place, but in one situation: the connection is torn    *)
(* down as taken over while the request that takes it over has not looked   *)
(* for it yet (WebsocketController.go:76-80, 138; Teardown leaves it to it). *)
LetGoOnlyBeforeCapture ==
  [][\A r \in Requests :
       sockets'[r] = "open" /\ ~Attended(r)' =>
         /\ sockets[r] = "open"
         /\ Attended(r) => /\ takeover = "PENDING"
                           /\ \E q \in Requests : handlers[q] = "evict"]_vars

(* The coordinator hears of connections in turn, and the status follows the *)
(* flows of documentation/WebsocketController.LEGACY.md:60-72.              *)
Flow == INSTANCE WebsocketFlow
ImplementsFlow == Flow!Spec

(* A connection that is being taken over comes to its end, however many     *)
(* requests come and go.                                                    *)
EvictionCompletes == takeover = "PENDING" ~> takeover = "NOT_PENDING"

(* What documentation/WebsocketController.LEGACY.md:10 promises of requests *)
(* that are canceled: they release their handler, cleanly. So nobody        *)
(* upgrades one whose handler has returned.                                 *)
CanceledIsReleased == Running

(* What documentation/WebsocketController.LEGACY.md:50-51 says: one session *)
(* at a time, a second client evicts the first. So when every request that  *)
(* takes over has done its part, no two sockets are open.                   *)
OneSocketOpen ==
  (\A r \in Requests : handlers[r] \notin {"evict", "close"}) =>
    \A r, q \in Requests : sockets[r] = "open" /\ sockets[q] = "open" => r = q
=============================================================================
