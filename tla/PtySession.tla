------------------------------ MODULE PtySession ------------------------------
(***************************************************************************)
(* What _PtyTeardown_ promises the rest of the server, without its timers, *)
(* its queue or the process: a session is streamed or canceled; its master *)
(* closes once, and never before a reader exists unless the session is     *)
(* canceled; a streamed session ends with one exit order, sent when its    *)
(* output has been read to the end and the master is closed; a canceled    *)
(* one ends with none.                                                     *)
(***************************************************************************)
EXTENDS Sequences

CONSTANT ExitOutcomes   \* what an exit order may carry

VARIABLES
  phase,       \* "Pending", "Streaming", "Drained", "Silent" or "Ended"
  master,      \* "OPEN" or "CLOSED"
  exitOrders   \* the exit orders sent so far

sessionVars == <<phase, master, exitOrders>>

Init == phase = "Pending" /\ master = "OPEN" /\ exitOrders = <<>>

Start ==
  /\ phase = "Pending"
  /\ phase' = "Streaming"
  /\ UNCHANGED <<master, exitOrders>>

(* No reader will run: the terminal goes at once.                           *)
Cancel ==
  /\ phase = "Pending"
  /\ phase' = "Silent"
  /\ master' = "CLOSED"
  /\ UNCHANGED exitOrders

(* The forced unplug of a session whose output is still being read.         *)
Unplug ==
  /\ phase = "Streaming"
  /\ master = "OPEN"
  /\ master' = "CLOSED"
  /\ UNCHANGED <<phase, exitOrders>>

(* All the output has been read and flushed.                                *)
Drain ==
  /\ phase = "Streaming"
  /\ phase' = "Drained"
  /\ master' = "CLOSED"
  /\ UNCHANGED exitOrders

End ==
  /\ phase = "Drained"
  /\ phase' = "Ended"
  /\ \E o \in ExitOutcomes : exitOrders' = Append(exitOrders, o)
  /\ UNCHANGED master

EndSilently ==
  /\ phase = "Silent"
  /\ phase' = "Ended"
  /\ UNCHANGED <<master, exitOrders>>

Next == Start \/ Cancel \/ Unplug \/ Drain \/ End \/ EndSilently

Spec == Init /\ [][Next]_sessionVars
=============================================================================
