--------------------------- MODULE MCDropCascade ---------------------------
(***************************************************************************)
(* DropCascade on the schema of MCEasyDB, with every insert and drop and   *)
(* the updates that move a reference.                                      *)
(***************************************************************************)
EXTENDS DropCascade, MCEasyDB

MCRequestsCascade ==
  UNION {[cmd : {"insert"}, table : {t}, vals : GoodVals(t)] : t \in 1..3}
  \cup [cmd : {"insert"}, table : {1}, vals : {<<Number(1)>>}]
  \cup [cmd : {"insert"}, table : {2}, vals : {<<Null>>}]
  \cup [cmd : {"update"}, table : {3}, id : 3..4, version : {1}, vals : GoodVals(3)]
  \cup Drops

=============================================================================
