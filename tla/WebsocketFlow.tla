---------------------------- MODULE WebsocketFlow ----------------------------
(***************************************************************************)
(* What the rest of the server may rely on when it is told of connections: *)
(* the status follows documentation/WebsocketController.LEGACY.md:60-72,    *)
(* ids grow, and Connect and Disconnect are announced in turn, each         *)
(* connection once, between the moments it begins and the next one begins.  *)
(***************************************************************************)
EXTENDS Naturals

VARIABLES
  status,      \* Status_WebsocketConnection_state
  id,          \* Id_WebsocketConnection_state
  announced    \* the connection announced last, 0 after its end was announced

vars == <<status, id, announced>>

Failed == {"UPGRADE_FAILED", "TAKEOVER_UPGRADE_FAILED"}
Connecting == {"CONNECTING", "TAKEOVER_CONNECTING"}

Init == status = "STANDBY" /\ id = 0 /\ announced = 0

Begin ==
  /\ announced = 0
  /\ status \in {"STANDBY", "DISCONNECTED"} \cup Failed
  /\ status' = "CONNECTING"
  /\ UNCHANGED <<id, announced>>

Fail ==
  /\ \/ status = "CONNECTING" /\ status' = "UPGRADE_FAILED"
     \/ status = "TAKEOVER_CONNECTING" /\ announced = 0 /\ status' = "TAKEOVER_UPGRADE_FAILED"
  /\ UNCHANGED <<id, announced>>

Connect ==
  /\ status \in Connecting /\ announced = 0
  /\ status' = "CONNECTED"
  /\ id' = id + 1
  /\ UNCHANGED announced

AnnounceConnect ==
  /\ status = "CONNECTED" /\ announced = 0
  /\ announced' = id
  /\ UNCHANGED <<status, id>>

Disconnect ==
  /\ status = "CONNECTED" /\ announced = id
  /\ status' \in {"DISCONNECTED", "TAKEOVER_CONNECTING"}
  /\ UNCHANGED <<id, announced>>

AnnounceDisconnect ==
  /\ status # "CONNECTED" /\ announced = id
  /\ announced' = 0
  /\ UNCHANGED <<status, id>>

Next == Begin \/ Fail \/ Connect \/ AnnounceConnect \/ Disconnect \/ AnnounceDisconnect

Spec == Init /\ [][Next]_vars
=============================================================================
