----------------------------- MODULE PtyLifecycle -----------------------------
(***************************************************************************)
(* What the workspace promises of one PTY, whatever else happens in it: it *)
(* is announced, spawns, gets one verdict, may become active, exits once   *)
(* and stays until it is removed. A termination asked for while it spawns  *)
(* is kept: the PTY never becomes active and its verdict is CANCELED.      *)
(***************************************************************************)
EXTENDS Sequences

VARIABLES
  phase,      \* "Unborn", "Spawning", "Active", "Exited" or "Gone"
  canceled,   \* a termination was asked for while it was spawning
  frames      \* the frames sent about it, in order

lifecycleVars == <<phase, canceled, frames>>

Init == phase = "Unborn" /\ ~canceled /\ frames = <<>>

Say(frame) == frames' = Append(frames, frame)

Spawn ==
  /\ phase = "Unborn"
  /\ phase' = "Spawning"
  /\ Say("SPAWNING")
  /\ UNCHANGED canceled

Terminate ==
  /\ phase = "Spawning"
  /\ canceled' = TRUE
  /\ UNCHANGED <<phase, frames>>

Fail ==
  /\ phase = "Spawning"
  /\ phase' = "Gone"
  /\ Say(IF canceled THEN "CANCELED" ELSE "FAILURE")
  /\ UNCHANGED canceled

Cancel ==
  /\ phase = "Spawning" /\ canceled
  /\ phase' = "Gone"
  /\ Say("CANCELED")
  /\ UNCHANGED canceled

Activate ==
  /\ phase = "Spawning" /\ ~canceled
  /\ phase' = "Active"
  /\ UNCHANGED <<canceled, frames>>

(* The client hears of it once it can use it.                               *)
Announce ==
  /\ phase = "Active"
  /\ frames = <<"SPAWNING">>
  /\ Say("SUCCESS")
  /\ UNCHANGED <<phase, canceled>>

Exit ==
  /\ phase = "Active"
  /\ frames = <<"SPAWNING", "SUCCESS">>
  /\ phase' = "Exited"
  /\ Say("EXIT")
  /\ UNCHANGED canceled

Remove ==
  /\ phase = "Exited"
  /\ phase' = "Gone"
  /\ UNCHANGED <<canceled, frames>>

Next == Spawn \/ Terminate \/ Fail \/ Cancel \/ Activate \/ Announce \/ Exit \/ Remove

Spec == Init /\ [][Next]_lifecycleVars
=============================================================================
