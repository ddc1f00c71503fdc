------------------------------ MODULE MCEasyDB ------------------------------
(***************************************************************************)
(* EasyDB on a schema of three tables: table 2 refers to table 1, table 3  *)
(* to both, so that the rows of table 3 can depend on one row of table 1   *)
(* along two paths.                                                        *)
(***************************************************************************)
EXTENDS EasyDB

Number(n) == [kind |-> "integer", v |-> n]
Text == [kind |-> "string", v |-> 0]
Null == [kind |-> "null", v |-> 0]
Ref(n) == [kind |-> "foreign", v |-> n]

RefTo(t) == [type |-> "foreign", ref |-> t]

MCSchema == << <<[type |-> "integer", ref |-> 0]>>, <<RefTo(1)>>, <<RefTo(2), RefTo(1)>> >>

MCIds == 1..4

\* Values each table accepts, and values it must refuse: a reference in an "integer" column
\* (its name has the 7 letters of "foreign"), a missing value, a string for a reference.
GoodVals(t) ==
  CASE t = 1 -> {<<Number(0)>>}
    [] t = 2 -> {<<Ref(n)>> : n \in 1..3}
    [] t = 3 -> {<<Ref(n), Ref(m)>> : n \in 2..3, m \in 1..2}

BadVals(t) ==
  CASE t = 1 -> {<<Ref(1)>>, <<Null>>, <<>>}
    [] t = 2 -> {<<Text>>, <<Number(1)>>}
    [] t = 3 -> {<<Ref(2)>>, <<Ref(2), Null>>, <<Text, Ref(9)>>, <<Ref(9), Text>>}

Inserts ==
  UNION {[cmd : {"insert"}, table : {t}, vals : GoodVals(t) \cup BadVals(t)] : t \in 1..3}
  \cup [cmd : {"insert"}, table : {0, 4}, vals : {<<Ref(1)>>}]

Updates(versions) ==
  UNION {[cmd : {"update"}, table : {t}, id : MCIds, version : versions, vals : GoodVals(t)]
           : t \in 1..3}
  \cup UNION {[cmd : {"update"}, table : {t}, id : {1, 3}, version : {1}, vals : BadVals(t)]
           : t \in 1..3}
  \cup [cmd : {"update"}, table : {4}, id : {1}, version : {1}, vals : {<<Ref(1)>>}]

Drops == [cmd : {"drop"}, table : 0..4, id : MCIds]
Gets == [cmd : {"get"}, table : 0..4, id : MCIds]

Queries(columns, ops) ==
  [cmd : {"query"}, table : 0..4, column : columns, op : ops, value : {Null, Ref(2), Number(1)}]

\* The columns the driver can name are those of the table, and 0; -1 it cannot send.
ColumnsOf(t) == IF t \in DOMAIN MCSchema THEN -1..Len(MCSchema[t]) ELSE -1..1

KnownQueries == {q \in Queries(-1..2, 1..7) : q.column \in ColumnsOf(q.table)}

MCRequestsBlind == Inserts \cup Updates({0, 1}) \cup Drops \cup Gets \cup KnownQueries

=============================================================================
