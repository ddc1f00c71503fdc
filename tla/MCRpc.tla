-------------------------------- MODULE MCRpc --------------------------------
(***************************************************************************)
(* Rpc with headers of two bytes and buffers of eight, so that every cut   *)
(* of the streams is tried and buffers fill up; and with the sizes of the  *)
(* code and the text function of its tests.                                *)
(***************************************************************************)
EXTENDS Rpc

NoText(at, size) == [at |-> at, size |-> size, text |-> FALSE]
TextOf(at, length) == [at |-> at, size |-> 1 + length, text |-> TRUE]

\* Like CheckInitialized, DoHash, and a call of a function the server does not export.
MCFunctions ==
  {[exported |-> TRUE, args |-> {}, size |-> 0, res |-> NoText(0, 1)],
   [exported |-> TRUE, args |-> {NoText(0, 1), TextOf(1, 0)}, size |-> 2, res |-> TextOf(0, 1)],
   [exported |-> FALSE, args |-> {NoText(0, 1)}, size |-> 1, res |-> NoText(0, 1)]}

\* Like Guess, when it answers with eleven letters.
MCTexts ==
  {[exported |-> TRUE, args |-> {NoText(0, 4)}, size |-> 4, res |-> TextOf(0, 11)]}

=============================================================================
