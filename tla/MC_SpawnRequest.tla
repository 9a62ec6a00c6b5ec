--------------------------- MODULE MC_SpawnRequest ---------------------------
(***************************************************************************)
(* Constants for TLC: one request of every kind, with empty and filled     *)
(* lists, a key twice in a layout, an option nobody knows, an opcode nobody *)
(* knows, and shells and directories of every class of PtySpawn!Commands.   *)
(***************************************************************************)
EXTENDS SpawnRequest

Entry(id, columns, rows) == [key |-> id, value |-> <<columns, rows>>]

Spawn(shell, directory, environment, options, layout) ==
  [code |-> SPAWN_PTY, size |-> <<20, 7>>, shell |-> shell, directory |-> directory,
   environment |-> environment, options |-> options, layout |-> layout]

TwiceTheSame == <<Entry(3, 4, 5), Entry(600, 6, 7), Entry(3, 8, 9)>>

MCRequests ==
  {Spawn(<<SLASH, 2>>, <<>>, <<>>, <<>>, <<>>),
   Spawn(<<2>>, <<SLASH, 3>>, <<<<2, 3>>, <<>>>>, <<<<1, 300>>, <<4, 0>>>>, TwiceTheSame),
   Spawn(<<0>>, <<>>, <<>>, <<>>, <<>>),
   Spawn(<<>>, <<0>>, <<>>, <<>>, <<>>),
   Spawn(<<SLASH>>, <<>>, <<<<3, 0>>>>, <<>>, <<>>),
   Spawn(<<2>>, <<>>, <<>>, <<<<3, 1>>, <<2, 1>>>>, <<>>),
   [code |-> BATCH__RESIZE_PTY, layout |-> TwiceTheSame],
   [code |-> BATCH__SYNC_PTY, layout |-> <<>>],
   [code |-> TERMINATE_PTY, id |-> 624],
   [code |-> BATCH__REMOVE_PTY, ids |-> <<5, 600>>, layout |-> <<Entry(7, 1, 0)>>],
   [code |-> WRITE_INPUT__PTY, id |-> 3, input |-> <<4, 0, 1>>],
   [code |-> 5]}

(* What ends a session does not depend on the command it was started with.  *)
MCSessionRequests == {Spawn(<<SLASH, 2>>, <<>>, <<>>, <<>>, <<>>)}
=============================================================================
