------------------------------- MODULE EasyDB -------------------------------
(***************************************************************************)
(* The tables of the EasyDB server and the five commands on them           *)
(* (Concurrent Database/database.rs), each handled in one step: the server *)
(* runs handle_request under the database mutex (module Server) and nobody *)
(* sees a half-done command.  The recursion of handle_drop is refined in   *)
(* module DropCascade.                                                     *)
(***************************************************************************)
EXTENDS Integers, Sequences, FiniteSets

CONSTANTS Schema,    \* types_tables: a sequence of tables, each a sequence of columns
          Requests,  \* the requests clients may send
          MaxRowId   \* bound: inserts stop at this row id

VARIABLES data,      \* data_tables, one map from <<table, row id>> to the row
          row_num,   \* the id of the last row inserted in any table
          response   \* what handle_request last returned

vars == <<data, row_num, response>>

(***************************************************************************)
(* Schema, values and requests.                                            *)
(***************************************************************************)
Kinds == {"null", "integer", "float", "string", "foreign"}

Value == [kind : Kinds, v : Int]

Column == [type : Kinds \ {"null"}, ref : Nat]

Tables == DOMAIN Schema

\* What schema::parse returns: a foreign column names a table parsed before its own.
SchemaAssumption ==
  /\ Schema \in Seq(Seq(Column))
  /\ \A t \in DOMAIN Schema : \A i \in DOMAIN Schema[t] :
        IF Schema[t][i].type = "foreign"
        THEN Schema[t][i].ref \in 1..(t - 1)
        ELSE Schema[t][i].ref = 0

Request ==
  [cmd : {"insert"}, table : Int, vals : Seq(Value)]
  \cup [cmd : {"update"}, table : Int, id : Int, version : Int, vals : Seq(Value)]
  \cup [cmd : {"drop", "get"}, table : Int, id : Int]
  \cup [cmd : {"query"}, table : Int, column : Int, op : Int, value : Value]

RequestAssumption == \A r \in Requests : r \in Request

BoundAssumption == MaxRowId \in Nat

ASSUME EasyDBAssumption == SchemaAssumption /\ RequestAssumption /\ BoundAssumption

(***************************************************************************)
(* Responses.  PANIC is no packet: the thread running the command dies.    *)
(***************************************************************************)
OP_AL == 1
OP_EQ == 2
OP_NE == 3
OP_LT == 4
OP_GT == 5
OP_LE == 6
OP_GE == 7

Errors == {"NOT_FOUND", "BAD_TABLE", "BAD_QUERY", "TXN_ABORT", "BAD_VALUE",
           "BAD_ROW", "BAD_FOREIGN", "PANIC"}

Error(code) == [code |-> code]

Response ==
  [code : Errors]
  \cup [code : {"OK"}]
  \cup [code : {"OK"}, id : Int, version : Int]
  \cup [code : {"OK"}, version : Int]
  \cup [code : {"OK"}, version : Int, vals : Seq(Value)]
  \cup [code : {"OK"}, ids : SUBSET Int]

Fail(code) == /\ response' = Error(code)
              /\ UNCHANGED <<data, row_num>>

(***************************************************************************)
(* The checks insert and update share.                                     *)
(***************************************************************************)
Key == Tables \X Int

Exists(t, id) == <<t, id>> \in DOMAIN data

\* The column's type is not the value's ("foreign(r)" is compared on its first 7 letters).
\* (Slips: type names compared by length; Null accepted for every column, as in a query.)
WrongLength(col, val) ==
  val.kind # col.type /\ {val.kind, col.type} # {"integer", "foreign"}
WrongTypeOrNull(col, val) == val.kind \notin {col.type, "null"}
WrongType(col, val) == val.kind # col.type

\* handle_get finds no such row in the table the column refers to.
Dangling(col, val) == val.kind = "foreign" /\ ~Exists(col.ref, val.v)

BadColumns(t, vals) ==
  {i \in DOMAIN Schema[t] : \/ WrongType(Schema[t][i], vals[i])
                            \/ Dangling(Schema[t][i], vals[i])}

\* The columns are checked in order: the first bad one decides the error.
ColumnError(t, vals) ==
  LET bad == BadColumns(t, vals)
      i   == CHOOSE n \in bad : \A m \in bad : n <= m
  IN  IF WrongType(Schema[t][i], vals[i]) THEN "BAD_VALUE" ELSE "BAD_FOREIGN"

InsertCode(t, vals) ==
  IF t \notin Tables THEN "BAD_TABLE"
  ELSE IF Len(vals) # Len(Schema[t]) THEN "BAD_ROW"
  ELSE IF BadColumns(t, vals) # {} THEN ColumnError(t, vals)
  ELSE "OK"

UpdateCode(t, id, version, vals) ==
  IF t \notin Tables THEN "BAD_TABLE"
  ELSE IF Len(vals) # Len(Schema[t]) THEN "BAD_ROW"
  ELSE IF ~Exists(t, id) THEN "NOT_FOUND"
  ELSE IF BadColumns(t, vals) # {} THEN ColumnError(t, vals)
  ELSE IF version # 0 /\ data[<<t, id>>].ver # version THEN "TXN_ABORT"
  ELSE "OK"

(***************************************************************************)
(* The commands.                                                           *)
(***************************************************************************)
\* One counter for all tables.  (Slips: a counter per table; the first id that is free.)
NewIdPerTable(t) == 1 + Cardinality({k \in DOMAIN data : k[1] = t})
FirstFreeId(t) == CHOOSE n \in 1..(MaxRowId + 1) :
                    /\ \A k \in DOMAIN data : k[2] # n
                    /\ \A m \in 1..(n - 1) : \E k \in DOMAIN data : k[2] = m
NewId(t) == row_num + 1

Insert(t, vals) ==
  LET code == InsertCode(t, vals)
      key  == <<t, NewId(t)>>
  IN  \/ /\ code = "OK"
         /\ NewId(t) <= MaxRowId
         /\ data' = [k \in DOMAIN data \cup {key} |->
                       IF k = key THEN [vals |-> vals, ver |-> 1] ELSE data[k]]
         /\ row_num' = NewId(t)
         /\ response' = [code |-> "OK", id |-> NewId(t), version |-> 1]
      \/ /\ code # "OK"
         /\ Fail(code)

\* The new version is the version sent plus one, also when the version sent is 0.
NewVersion(version, current) == version + 1

Update(t, id, version, vals) ==
  LET code == UpdateCode(t, id, version, vals)
      key  == <<t, id>>
      v    == NewVersion(version, data[key].ver)
  IN  \/ /\ code = "OK"
         /\ data' = [data EXCEPT ![key] = [vals |-> vals, ver |-> v]]
         /\ response' = [code |-> "OK", version |-> v]
         /\ UNCHANGED row_num
      \/ /\ code # "OK"
         /\ Fail(code)

\* Row r holds a foreign key, in one of its columns, to the row key of table key[1].
\* (Slip: the table the column refers to is not looked at.)
ReferencesAnyTable(r, key) ==
  \E i \in DOMAIN Schema[r[1]] :
     /\ Schema[r[1]][i].type = "foreign"
     /\ data[r].vals[i].v = key[2]
References(r, key) ==
  \E i \in DOMAIN Schema[r[1]] :
     /\ Schema[r[1]][i].ref = key[1]
     /\ data[r].vals[i].v = key[2]

\* S holds the row key, if it exists, and every row that refers to key or to a row of S.
ClosedUnderDrop(key, S) ==
  /\ key \in DOMAIN data => key \in S
  /\ \A r \in DOMAIN data :
       (References(r, key) \/ \E s \in S : References(r, s)) => r \in S

\* The rows handle_drop(key) removes: the smallest such set.
\* (Slip: the rows that refer to the dropped row are removed, but not what refers to them.)
DoomedDirectly(key) == {r \in DOMAIN data : r = key \/ References(r, key)}
Doomed(key) ==
  {r \in DOMAIN data :
     \A S \in SUBSET DOMAIN data : ClosedUnderDrop(key, S) => r \in S}

Without(rows) == [k \in DOMAIN data \ rows |-> data[k]]

\* The cascade runs before the row itself is looked up.
Drop(t, id) ==
  \/ /\ t \notin Tables
     /\ Fail("BAD_TABLE")
  \/ /\ t \in Tables
     /\ data' = Without(Doomed(<<t, id>>))
     /\ response' = IF Exists(t, id) THEN [code |-> "OK"] ELSE Error("NOT_FOUND")
     /\ UNCHANGED row_num

Get(t, id) ==
  /\ response' = IF t \notin Tables THEN Error("BAD_TABLE")
                 ELSE IF Exists(t, id)
                      THEN [code |-> "OK", version |-> data[<<t, id>>].ver,
                            vals |-> data[<<t, id>>].vals]
                      ELSE Error("NOT_FOUND")
  /\ UNCHANGED <<data, row_num>>

\* Value derives PartialOrd: variants in the order they are declared, then their contents.
Rank(kind) == CASE kind = "null" -> 0 [] kind = "integer" -> 1 [] kind = "float" -> 2
                [] kind = "string" -> 3 [] kind = "foreign" -> 4

Less(a, b) == \/ Rank(a.kind) < Rank(b.kind)
              \/ a.kind = b.kind /\ a.v < b.v

\* An operator outside 1..7 matches no row: the range check of handle_query is never true.
Matches(op, a, b) ==
  \/ op = OP_AL
  \/ op = OP_EQ /\ a = b
  \/ op = OP_NE /\ a # b
  \/ op = OP_LT /\ Less(a, b)
  \/ op = OP_GT /\ Less(b, a)
  \/ op = OP_LE /\ (Less(a, b) \/ a = b)
  \/ op = OP_GE /\ (Less(b, a) \/ a = b)

\* Column 0 stands for the first column.  (column - 1) as usize wraps below 0, so a negative
\* column is out of range; column Len + 1 passes the check and indexes past the columns.
QueryColumn(column) == IF column = 0 THEN 1 ELSE column

QueryCode(t, column, op, other) ==
  IF t \notin Tables THEN "BAD_TABLE"
  ELSE IF column < 0 \/ Len(Schema[t]) < QueryColumn(column) - 1 THEN "BAD_QUERY"
  ELSE IF QueryColumn(column) > Len(Schema[t]) THEN "PANIC"
  ELSE IF \/ other.kind \notin {Schema[t][QueryColumn(column)].type, "null"}
          \/ op = OP_AL /\ column # 0
          \/ other.kind = "foreign" /\ op \notin {OP_EQ, OP_NE}
          \/ column = 0 /\ op \notin {OP_EQ, OP_NE, OP_AL}
       THEN "BAD_QUERY"
  ELSE "OK"

Query(t, column, op, other) ==
  LET code == QueryCode(t, column, op, other)
      hits == {r \in DOMAIN data :
                 r[1] = t /\ Matches(op, data[r].vals[QueryColumn(column)], other)}
  IN  /\ response' = IF code = "OK" THEN [code |-> "OK", ids |-> {r[2] : r \in hits}]
                     ELSE Error(code)
      /\ UNCHANGED <<data, row_num>>

HandleRequest(r) ==
  \/ r.cmd = "insert" /\ Insert(r.table, r.vals)
  \/ r.cmd = "update" /\ Update(r.table, r.id, r.version, r.vals)
  \/ r.cmd = "drop"   /\ Drop(r.table, r.id)
  \/ r.cmd = "get"    /\ Get(r.table, r.id)
  \/ r.cmd = "query"  /\ Query(r.table, r.column, r.op, r.value)

Init ==
  /\ data = [k \in {} |-> [vals |-> <<>>, ver |-> 0]]
  /\ row_num = 0
  /\ response = [code |-> "OK"]

Next == \E r \in Requests : HandleRequest(r)

Spec == Init /\ [][Next]_vars

-----------------------------------------------------------------------------
(***************************************************************************)
(* Properties.                                                             *)
(***************************************************************************)
\* Every row lies in a table of the schema under an id already given out.
TypeOK ==
  /\ row_num \in 0..MaxRowId
  /\ DOMAIN data \subseteq Tables \X (1..row_num)
  /\ data \in [DOMAIN data -> [vals : Seq(Value), ver : Int]]
  /\ response \in Response

\* A stored row has one value per column of its table, of the column's type: what the panic
\* of handle_drop and the unchecked vals[correct_col] of handle_query rely on.
RowsWellTyped ==
  \A k \in DOMAIN data :
    /\ Len(data[k].vals) = Len(Schema[k[1]])
    /\ \A i \in DOMAIN Schema[k[1]] : data[k].vals[i].kind = Schema[k[1]][i].type

\* Every foreign key of a stored row names a stored row, whatever was dropped meanwhile:
\* the cascade of handle_drop reaches every row whose checks in insert or update it undoes.
ReferentialIntegrity ==
  \A k \in DOMAIN data : \A i \in DOMAIN Schema[k[1]] :
    data[k].vals[i].kind = "foreign" => Exists(Schema[k[1]][i].ref, data[k].vals[i].v)

\* One counter serves all tables: no two rows of any tables share an id.
IdsUnique == \A j, k \in DOMAIN data : j[2] = k[2] => j = k

\* A row id is given out once: what a step adds is new, so an id that a client kept over a
\* drop, or over somebody's cascade, never comes to name another row.
NoResurrection ==
  [][\A k \in DOMAIN data' \ DOMAIN data : k[2] > row_num]_vars

\* A command that is answered with an error changes nothing.  For a drop this needs
\* ReferentialIntegrity: handle_drop cascades before it finds that the row is missing.
RejectedIsNoop ==
  [][response'.code # "OK" => UNCHANGED <<data, row_num>>]_vars

\* A row never changes under the same or a lower version: a client that updates on the
\* version it read cannot overwrite a change it has not seen.
VersionAdvances ==
  [][\A k \in DOMAIN data \cap DOMAIN data' :
       data'[k] # data[k] => data'[k].ver > data[k].ver]_vars

\* handle_request always returns a response, as long as no client scans a column past the
\* table's last: no other command takes its thread, and with it the database mutex, down.
NoPanic == response.code # "PANIC"

=============================================================================
