----------------------------- MODULE MC_Workspace -----------------------------
(***************************************************************************)
(* Constants for TLC. A run explores each budget on its own.               *)
(***************************************************************************)
EXTENDS Workspace

Budget(spawns, resizes, syncs, layouts, terminates, removes, writes, teardowns) ==
  [SpawnPty |-> spawns, ResizePty |-> resizes, SyncPty |-> syncs, Layout |-> layouts,
   TerminatePty |-> terminates, RemovePty |-> removes, WriteInput |-> writes, Teardown |-> teardowns]

MCBudgets ==
  {\* lives: canceled spawns, removals, reconnects, input across an exit
   Budget(2, 0, 0, 0, 1, 1, 0, 0), Budget(2, 0, 0, 0, 1, 0, 0, 1), Budget(1, 0, 0, 0, 1, 1, 1, 1),
   Budget(1, 0, 0, 0, 0, 0, 2, 0),
   \* layouts: every pair of flushes, with a reconnect, with a removal, with two PTYs
   Budget(1, 2, 1, 0, 0, 0, 1, 0), Budget(1, 1, 1, 0, 0, 0, 0, 1), Budget(1, 1, 0, 1, 1, 1, 0, 0),
   Budget(2, 1, 0, 1, 0, 0, 0, 0), Budget(2, 0, 1, 0, 0, 0, 0, 0)}
=============================================================================
