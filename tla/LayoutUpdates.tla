---------------------------- MODULE LayoutUpdates ----------------------------
(***************************************************************************)
(* The two places where layout updates are merged: the tentative batch of  *)
(* the reducer and the queue of a resizer. A size is the number of the     *)
(* message that carried it, so a larger one is newer; 0 is no size.        *)
(***************************************************************************)
EXTENDS Integers, Sequences

CONSTANT MaxPtys   \* bound of the model: PTYs spawned in one life of the server

ASSUME PtysAssumption == MaxPtys \in Nat \ {0}

Ptys == 0 .. MaxPtys - 1

NoUpdates == [p \in Ptys |-> 0]

(* Coalesce__OrderBatch_LayoutUpdate: the incoming size replaces the one    *)
(* the batch holds.                                                         *)
Coalesce(batch, layout, size) ==
  [p \in Ptys |-> IF p \in layout THEN size ELSE batch[p]]

(* The orders of a resizer: ResizePty_Just has snapshot 0, EmitSnapshot the *)
(* connection that wants one.                                               *)
Resize(size, snapshot) == [size |-> size, snapshot |-> snapshot]

(* The newest size always, and a snapshot once it has been asked for.       *)
coalescePair(existing, incoming) ==
  Resize(incoming.size, IF incoming.snapshot # 0 THEN incoming.snapshot ELSE existing.snapshot)

DrainAndCoalesce(orders) ==
  LET upTo[i \in 1 .. Len(orders)] ==
        IF i = 1 THEN orders[1] ELSE coalescePair(upTo[i - 1], orders[i])
  IN upTo[Len(orders)]
=============================================================================
