---------------------------- MODULE EasyDBProofs ----------------------------
(***************************************************************************)
(* What EasyDB promises for every schema, every set of requests and every  *)
(* bound on the row ids.  The inductive invariant is the conjunction of    *)
(* the four invariants of EasyDB: a drop keeps references whole because    *)
(* the rows it removes are closed under "refers to", and leaves nothing    *)
(* dangling only if nothing dangled before.                                *)
(***************************************************************************)
EXTENDS EasyDB, TLAPS

IInv == TypeOK /\ RowsWellTyped /\ ReferentialIntegrity /\ IdsUnique

Row == [vals : Seq(Value), ver : Int]

-----------------------------------------------------------------------------
(***************************************************************************)
(* The requests, by command.                                               *)
(***************************************************************************)
LEMMA RequestFields ==
  ASSUME NEW r \in Requests
  PROVE  /\ r.cmd = "insert" => r.table \in Int /\ r.vals \in Seq(Value)
         /\ r.cmd = "update" => /\ r.table \in Int /\ r.id \in Int
                                /\ r.version \in Int /\ r.vals \in Seq(Value)
         /\ r.cmd \in {"drop", "get"} => r.table \in Int /\ r.id \in Int
         /\ r.cmd = "query" => /\ r.table \in Int /\ r.column \in Int
                               /\ r.op \in Int /\ r.value \in Value
<1>1. r \in Request
  BY EasyDBAssumption DEF RequestAssumption
<1> QED
  BY <1>1 DEF Request

LEMMA SchemaColumns ==
  ASSUME NEW t \in Tables
  PROVE  /\ t \in Nat /\ t >= 1
         /\ Schema[t] \in Seq(Column)
         /\ \A i \in DOMAIN Schema[t] :
              /\ Schema[t][i] \in Column
              /\ IF Schema[t][i].type = "foreign"
                 THEN Schema[t][i].ref \in 1..(t - 1)
                 ELSE Schema[t][i].ref = 0
<1>1. Schema \in Seq(Seq(Column)) /\ t \in DOMAIN Schema
  BY EasyDBAssumption DEF SchemaAssumption, Tables
<1>2. t \in 1..Len(Schema) /\ Schema[t] \in Seq(Column)
  BY <1>1
<1>3. \A i \in DOMAIN Schema[t] : Schema[t][i] \in Column
  BY <1>2
<1> QED
  BY <1>1, <1>2, <1>3, EasyDBAssumption DEF SchemaAssumption

-----------------------------------------------------------------------------
LEMMA InitIInv == Init => IInv
<1> SUFFICES ASSUME Init PROVE IInv
  OBVIOUS
<1>1. DOMAIN data = {}
  BY DEF Init
<1>2. TypeOK
  BY <1>1, EasyDBAssumption DEF Init, TypeOK, BoundAssumption, Response
<1> QED
  BY <1>1, <1>2 DEF IInv, RowsWellTyped, ReferentialIntegrity, IdsUnique

LEMMA FailKeepsIInv ==
  ASSUME IInv, NEW code \in Errors, Fail(code)
  PROVE  IInv'
<1>1. response' \in Response
  BY DEF Fail, Error, Response
<1> QED
  BY <1>1 DEF Fail, IInv, TypeOK, RowsWellTyped, ReferentialIntegrity, IdsUnique, Exists

-----------------------------------------------------------------------------
(***************************************************************************)
(* Insert and update store a row whose columns they have checked.          *)
(***************************************************************************)
LEMMA ColumnErrorIsError ==
  ASSUME NEW t, NEW vals
  PROVE  ColumnError(t, vals) \in Errors /\ ColumnError(t, vals) # "OK"
BY DEF ColumnError, Errors

LEMMA StoreRow ==
  ASSUME IInv, NEW t \in Tables, NEW id \in Int, NEW row \in Row,
         Len(row.vals) = Len(Schema[t]), BadColumns(t, row.vals) = {},
         data' = [k \in DOMAIN data \cup {<<t, id>>} |->
                    IF k = <<t, id>> THEN row ELSE data[k]]
  PROVE  /\ DOMAIN data' = DOMAIN data \cup {<<t, id>>}
         /\ data' \in [DOMAIN data' -> Row]
         /\ RowsWellTyped'
         /\ ReferentialIntegrity'
<1> DEFINE key == <<t, id>>
<1>1. DOMAIN data' = DOMAIN data \cup {key}
  OBVIOUS
<1>2. data'[key] = row /\ \A k \in DOMAIN data \ {key} : data'[k] = data[k]
  OBVIOUS
<1>3. data' \in [DOMAIN data' -> Row]
  BY DEF IInv, TypeOK, Row
<1>4. \A i \in DOMAIN Schema[t] : /\ ~WrongType(Schema[t][i], row.vals[i])
                                  /\ ~Dangling(Schema[t][i], row.vals[i])
  BY DEF BadColumns
<1>5. key[1] = t
  OBVIOUS
<1> HIDE DEF key
<1>6. RowsWellTyped'
  <2> SUFFICES ASSUME NEW k \in DOMAIN data'
               PROVE  /\ Len(data'[k].vals) = Len(Schema[k[1]])
                      /\ \A i \in DOMAIN Schema[k[1]] :
                           data'[k].vals[i].kind = Schema[k[1]][i].type
    BY DEF RowsWellTyped
  <2>1. CASE k = key
    BY <2>1, <1>2, <1>4, <1>5 DEF WrongType
  <2>2. CASE k # key
    BY <2>2, <1>1, <1>2 DEF IInv, RowsWellTyped
  <2> QED
    BY <2>1, <2>2
<1>7. ReferentialIntegrity'
  <2> SUFFICES ASSUME NEW k \in DOMAIN data', NEW i \in DOMAIN Schema[k[1]],
                      data'[k].vals[i].kind = "foreign"
               PROVE  <<Schema[k[1]][i].ref, data'[k].vals[i].v>> \in DOMAIN data'
    BY DEF ReferentialIntegrity, Exists
  <2>1. CASE k = key
    BY <2>1, <1>1, <1>2, <1>4, <1>5 DEF Dangling, Exists
  <2>2. CASE k # key
    BY <2>2, <1>1, <1>2 DEF IInv, ReferentialIntegrity, Exists
  <2> QED
    BY <2>1, <2>2
<1> QED
  BY <1>1, <1>3, <1>6, <1>7 DEF key

LEMMA InsertKeepsIInv ==
  ASSUME IInv, NEW t \in Int, NEW vals \in Seq(Value), Insert(t, vals)
  PROVE  IInv'
<1> DEFINE code == InsertCode(t, vals)
           id == row_num + 1
           row == [vals |-> vals, ver |-> 1]
<1>1. CASE code # "OK"
  <2>1. code \in Errors
    BY <1>1, ColumnErrorIsError DEF InsertCode, Errors
  <2>2. Fail(code)
    BY <1>1 DEF Insert
  <2> QED
    BY <2>1, <2>2, FailKeepsIInv
<1>2. CASE code = "OK"
  <2>1. t \in Tables /\ Len(vals) = Len(Schema[t]) /\ BadColumns(t, vals) = {}
    BY <1>2, ColumnErrorIsError DEF InsertCode
  <2>2. /\ id <= MaxRowId
        /\ data' = [k \in DOMAIN data \cup {<<t, id>>} |->
                      IF k = <<t, id>> THEN row ELSE data[k]]
        /\ row_num' = id
        /\ response' = [code |-> "OK", id |-> id, version |-> 1]
    BY <1>2 DEF Insert, NewId
  <2>3. row_num \in Nat /\ id \in Int /\ id \in 1..MaxRowId /\ row_num \in 0..id
    BY <2>2, EasyDBAssumption DEF IInv, TypeOK, BoundAssumption
  <2>4. row \in Row
    BY DEF Row
  <2> HIDE DEF row, id
  <2>5. row.vals = vals
    BY DEF row
  <2>6. /\ DOMAIN data' = DOMAIN data \cup {<<t, id>>}
        /\ data' \in [DOMAIN data' -> Row]
        /\ RowsWellTyped'
        /\ ReferentialIntegrity'
    BY <2>1, <2>2, <2>3, <2>4, <2>5, StoreRow
  <2>7. \A k \in DOMAIN data : k \in Tables \X (1..row_num) /\ k[2] < id
    BY DEF IInv, TypeOK, id
  <2>8. TypeOK'
    <3>1. DOMAIN data' \subseteq Tables \X (1..row_num')
      BY <2>1, <2>2, <2>3, <2>6, <2>7
    <3>2. response' \in Response
      BY <2>2, <2>3 DEF Response
    <3> QED
      BY <3>1, <3>2, <2>2, <2>3, <2>6 DEF TypeOK, Row
  <2>9. IdsUnique'
    BY <2>3, <2>6, <2>7 DEF IInv, IdsUnique
  <2> QED
    BY <2>6, <2>8, <2>9 DEF IInv
<1> QED
  BY <1>1, <1>2

LEMMA UpdateKeepsIInv ==
  ASSUME IInv, NEW t \in Int, NEW id \in Int, NEW version \in Int, NEW vals \in Seq(Value),
         Update(t, id, version, vals)
  PROVE  IInv'
<1> DEFINE code == UpdateCode(t, id, version, vals)
           key == <<t, id>>
           row == [vals |-> vals, ver |-> version + 1]
<1>1. CASE code # "OK"
  <2>1. code \in Errors
    BY <1>1, ColumnErrorIsError DEF UpdateCode, Errors
  <2>2. Fail(code)
    BY <1>1 DEF Update
  <2> QED
    BY <2>1, <2>2, FailKeepsIInv
<1>2. CASE code = "OK"
  <2>1. /\ t \in Tables /\ Len(vals) = Len(Schema[t]) /\ BadColumns(t, vals) = {}
        /\ key \in DOMAIN data
    BY <1>2, ColumnErrorIsError DEF UpdateCode, Exists
  <2>2. /\ data' = [data EXCEPT ![key] = row]
        /\ response' = [code |-> "OK", version |-> version + 1]
        /\ row_num' = row_num
    BY <1>2 DEF Update, NewVersion
  <2>3. row \in Row
    BY DEF Row
  <2> HIDE DEF row
  <2>4. row.vals = vals
    BY DEF row
  <2>5. data' = [k \in DOMAIN data \cup {<<t, id>>} |-> IF k = <<t, id>> THEN row ELSE data[k]]
    BY <2>1, <2>2 DEF IInv, TypeOK
  <2>6. /\ DOMAIN data' = DOMAIN data
        /\ data' \in [DOMAIN data' -> Row]
        /\ RowsWellTyped'
        /\ ReferentialIntegrity'
    BY <2>1, <2>3, <2>4, <2>5, StoreRow
  <2>7. response' \in Response
    BY <2>2 DEF Response
  <2>8. TypeOK'
    BY <2>2, <2>6, <2>7 DEF IInv, TypeOK, Row
  <2>9. IdsUnique'
    BY <2>6 DEF IInv, IdsUnique
  <2> QED
    BY <2>6, <2>8, <2>9 DEF IInv
<1> QED
  BY <1>1, <1>2

-----------------------------------------------------------------------------
(***************************************************************************)
(* Drop: the removed rows are closed under "refers to".                    *)
(***************************************************************************)
\* A row that refers to a removed row is removed: it lies in every closed set the other is in.
LEMMA DoomedIsClosed ==
  ASSUME NEW key, NEW r \in DOMAIN data, NEW s \in Doomed(key), References(r, s)
  PROVE  r \in Doomed(key)
<1> SUFFICES ASSUME NEW S \in SUBSET DOMAIN data, ClosedUnderDrop(key, S)
             PROVE  r \in S
  BY DEF Doomed
<1>1. s \in S
  BY DEF Doomed
<1> QED
  BY <1>1 DEF ClosedUnderDrop

\* In a stored row, a column that names a table in its schema holds a key of that table.
LEMMA ReferenceIsForeign ==
  ASSUME IInv, NEW r \in DOMAIN data, NEW i \in DOMAIN Schema[r[1]],
         Schema[r[1]][i].ref \in Tables
  PROVE  data[r].vals[i].kind = "foreign"
<1>1. r[1] \in Tables
  BY DEF IInv, TypeOK
<1>2. Schema[r[1]][i].ref # 0
  BY SchemaColumns
<1>3. Schema[r[1]][i].type = "foreign"
  BY <1>1, <1>2, SchemaColumns
<1> QED
  BY <1>3 DEF IInv, RowsWellTyped

\* Without a row there is nothing that refers to it: dropping it removes nothing.
LEMMA NothingDoomed ==
  ASSUME IInv, NEW t \in Tables, NEW id, <<t, id>> \notin DOMAIN data
  PROVE  Doomed(<<t, id>>) = {}
<1> DEFINE key == <<t, id>>
<1>1. \A r \in DOMAIN data : ~References(r, key)
  <2> SUFFICES ASSUME NEW r \in DOMAIN data, NEW i \in DOMAIN Schema[r[1]],
                      Schema[r[1]][i].ref = t, data[r].vals[i].v = id
               PROVE  FALSE
    BY DEF References
  <2>1. data[r].vals[i].kind = "foreign"
    BY ReferenceIsForeign
  <2> QED
    BY <2>1 DEF IInv, ReferentialIntegrity, Exists
<1>2. ClosedUnderDrop(key, {})
  BY <1>1 DEF ClosedUnderDrop
<1> QED
  BY <1>2 DEF Doomed

LEMMA DropKeepsIInv ==
  ASSUME IInv, NEW t \in Int, NEW id \in Int, Drop(t, id)
  PROVE  IInv'
<1> DEFINE D == Doomed(<<t, id>>)
<1>1. CASE t \notin Tables
  <2>1. Fail("BAD_TABLE")
    BY <1>1 DEF Drop
  <2> QED
    BY <2>1, FailKeepsIInv DEF Errors
<1>2. CASE t \in Tables
  <2>1. /\ data' = [k \in DOMAIN data \ D |-> data[k]]
        /\ response' = IF Exists(t, id) THEN [code |-> "OK"] ELSE Error("NOT_FOUND")
        /\ row_num' = row_num
    BY <1>2 DEF Drop, Without
  <2>2. DOMAIN data' = DOMAIN data \ D
    BY <2>1
  <2>3. \A k \in DOMAIN data' : data'[k] = data[k]
    BY <2>1
  <2>4. TypeOK'
    <3>1. response' \in Response
      BY <2>1 DEF Error, Errors, Response
    <3>2. data' \in [DOMAIN data' -> [vals : Seq(Value), ver : Int]]
      BY <2>1, <2>2 DEF IInv, TypeOK
    <3> QED
      BY <2>1, <2>2, <3>1, <3>2 DEF IInv, TypeOK
  <2>5. RowsWellTyped'
    BY <2>2, <2>3 DEF IInv, RowsWellTyped
  <2>6. ReferentialIntegrity'
    <3> SUFFICES ASSUME NEW k \in DOMAIN data', NEW i \in DOMAIN Schema[k[1]],
                        data'[k].vals[i].kind = "foreign"
                 PROVE  <<Schema[k[1]][i].ref, data'[k].vals[i].v>> \in DOMAIN data'
      BY DEF ReferentialIntegrity, Exists
    <3> DEFINE s == <<Schema[k[1]][i].ref, data[k].vals[i].v>>
    <3>1. k \in DOMAIN data /\ k \notin D /\ data'[k] = data[k]
      BY <2>2, <2>3
    <3>2. s \in DOMAIN data
      BY <3>1 DEF IInv, ReferentialIntegrity, Exists
    <3>3. References(k, s)
      BY DEF References
    <3>4. s \notin D
      BY <3>1, <3>3, DoomedIsClosed
    <3> QED
      BY <2>2, <3>1, <3>2, <3>4
  <2>7. IdsUnique'
    BY <2>2 DEF IInv, IdsUnique
  <2> QED
    BY <2>4, <2>5, <2>6, <2>7 DEF IInv
<1> QED
  BY <1>1, <1>2

-----------------------------------------------------------------------------
(***************************************************************************)
(* Get and query leave the tables alone.                                   *)
(***************************************************************************)
LEMMA ResponseOnly ==
  ASSUME IInv, response' \in Response, UNCHANGED <<data, row_num>>
  PROVE  IInv'
BY DEF IInv, TypeOK, RowsWellTyped, ReferentialIntegrity, IdsUnique, Exists

LEMMA GetKeepsIInv ==
  ASSUME IInv, NEW t \in Int, NEW id \in Int, Get(t, id)
  PROVE  IInv'
<1> DEFINE key == <<t, id>>
<1>1. CASE t \in Tables /\ Exists(t, id)
  <2>1. data[key] \in [vals : Seq(Value), ver : Int]
    BY <1>1 DEF IInv, TypeOK, Exists
  <2>2. response' = [code |-> "OK", version |-> data[key].ver, vals |-> data[key].vals]
    BY <1>1 DEF Get
  <2>3. data[key].ver \in Int /\ data[key].vals \in Seq(Value)
    BY <2>1
  <2> HIDE DEF key
  <2>4. response' \in Response
    BY <2>2, <2>3 DEF Response
  <2> QED
    BY <2>4, ResponseOnly DEF Get
<1>2. CASE ~(t \in Tables /\ Exists(t, id))
  <2>1. response' \in Response
    BY <1>2 DEF Get, Error, Errors, Response
  <2> QED
    BY <2>1, ResponseOnly DEF Get
<1> QED
  BY <1>1, <1>2

LEMMA QueryKeepsIInv ==
  ASSUME IInv, NEW t \in Int, NEW column \in Int, NEW op \in Int, NEW other \in Value,
         Query(t, column, op, other)
  PROVE  IInv'
<1> DEFINE code == QueryCode(t, column, op, other)
           hits == {r \in DOMAIN data :
                      r[1] = t /\ Matches(op, data[r].vals[QueryColumn(column)], other)}
           ids == {r[2] : r \in hits}
<1>1. response' = IF code = "OK" THEN [code |-> "OK", ids |-> ids] ELSE Error(code)
  BY DEF Query
<1>2. ids \subseteq Int
  BY DEF IInv, TypeOK
<1>3. code \in Errors \cup {"OK"}
  BY DEF QueryCode, Errors
<1> HIDE DEF code, ids
<1>4. response' \in Response
  BY <1>1, <1>2, <1>3 DEF Error, Response
<1> QED
  BY <1>4, ResponseOnly DEF Query

-----------------------------------------------------------------------------
LEMMA NextKeepsIInv == IInv /\ [Next]_vars => IInv'
<1> SUFFICES ASSUME IInv, [Next]_vars PROVE IInv'
  OBVIOUS
<1>1. CASE UNCHANGED vars
  BY <1>1 DEF vars, IInv, TypeOK, RowsWellTyped, ReferentialIntegrity, IdsUnique, Exists
<1>2. ASSUME NEW r \in Requests, HandleRequest(r) PROVE IInv'
  <2>1. CASE r.cmd = "insert" /\ Insert(r.table, r.vals)
    BY <2>1, RequestFields, InsertKeepsIInv
  <2>2. CASE r.cmd = "update" /\ Update(r.table, r.id, r.version, r.vals)
    BY <2>2, RequestFields, UpdateKeepsIInv
  <2>3. CASE r.cmd = "drop" /\ Drop(r.table, r.id)
    BY <2>3, RequestFields, DropKeepsIInv
  <2>4. CASE r.cmd = "get" /\ Get(r.table, r.id)
    BY <2>4, RequestFields, GetKeepsIInv
  <2>5. CASE r.cmd = "query" /\ Query(r.table, r.column, r.op, r.value)
    BY <2>5, RequestFields, QueryKeepsIInv
  <2> QED
    BY <1>2, <2>1, <2>2, <2>3, <2>4, <2>5 DEF HandleRequest
<1> QED
  BY <1>1, <1>2 DEF Next

\* The tables of every reachable state have their types, their columns and their references,
\* and no two rows an id in common.
THEOREM InvariantHolds == Spec => []IInv
BY InitIInv, NextKeepsIInv, PTL DEF Spec

\* Values keep their types for every schema, whatever the five commands do.
THEOREM TypeCorrect == Spec => []TypeOK
<1>1. IInv => TypeOK
  BY DEF IInv
<1> QED
  BY <1>1, InvariantHolds, PTL

\* A stored row always has the columns of its table: the panic of handle_drop is unreachable.
THEOREM RowsAlwaysWellTyped == Spec => []RowsWellTyped
<1>1. IInv => RowsWellTyped
  BY DEF IInv
<1> QED
  BY <1>1, InvariantHolds, PTL

\* No sequence of inserts, updates and cascading drops leaves a foreign key dangling.
THEOREM ReferencesAlwaysHold == Spec => []ReferentialIntegrity
<1>1. IInv => ReferentialIntegrity
  BY DEF IInv
<1> QED
  BY <1>1, InvariantHolds, PTL

\* One counter for all tables keeps the ids of all rows apart.
THEOREM IdsAlwaysUnique == Spec => []IdsUnique
<1>1. IInv => IdsUnique
  BY DEF IInv
<1> QED
  BY <1>1, InvariantHolds, PTL

-----------------------------------------------------------------------------
(***************************************************************************)
(* Action properties.                                                      *)
(***************************************************************************)
\* Only an insert adds a key to the tables, and it takes the next id.
LEMMA OnlyInsertAdds ==
  ASSUME IInv, NEW r, HandleRequest(r), NEW k \in DOMAIN data', k \notin DOMAIN data
  PROVE  k[2] > row_num
<1>1. row_num \in Int
  BY EasyDBAssumption DEF IInv, TypeOK, BoundAssumption
<1>2. CASE r.cmd = "insert" /\ Insert(r.table, r.vals)
  BY <1>1, <1>2 DEF Insert, NewId, Fail
<1>3. CASE r.cmd = "update" /\ Update(r.table, r.id, r.version, r.vals)
  BY <1>3 DEF Update, Fail
<1>4. CASE r.cmd = "drop" /\ Drop(r.table, r.id)
  BY <1>4 DEF Drop, Fail, Without
<1>5. CASE r.cmd = "get" /\ Get(r.table, r.id)
  BY <1>5 DEF Get
<1>6. CASE r.cmd = "query" /\ Query(r.table, r.column, r.op, r.value)
  BY <1>6 DEF Query
<1> QED
  BY <1>2, <1>3, <1>4, <1>5, <1>6 DEF HandleRequest

\* An id that was given out never names a row again once its row is gone.
THEOREM IdsNeverReused == Spec => NoResurrection
<1>1. IInv /\ [Next]_vars => [\A k \in DOMAIN data' \ DOMAIN data : k[2] > row_num]_vars
  BY OnlyInsertAdds DEF Next, vars
<1> QED
  BY <1>1, InvariantHolds, PTL DEF Spec, NoResurrection

LEMMA ErrorChangesNothing ==
  ASSUME IInv, NEW r, HandleRequest(r), response'.code # "OK"
  PROVE  UNCHANGED <<data, row_num>>
<1>1. CASE r.cmd = "insert" /\ Insert(r.table, r.vals)
  BY <1>1 DEF Insert, NewId, Fail
<1>2. CASE r.cmd = "update" /\ Update(r.table, r.id, r.version, r.vals)
  BY <1>2 DEF Update, Fail
<1>3. CASE r.cmd = "drop" /\ Drop(r.table, r.id)
  <2>1. CASE r.table \notin Tables
    BY <1>3, <2>1 DEF Drop, Fail
  <2>2. CASE r.table \in Tables
    <3>1. /\ data' = Without(Doomed(<<r.table, r.id>>))
          /\ row_num' = row_num
          /\ <<r.table, r.id>> \notin DOMAIN data
      BY <1>3, <2>2 DEF Drop, Exists
    <3>2. data' = [k \in DOMAIN data |-> data[k]]
      BY <2>2, <3>1, NothingDoomed DEF Without
    <3>3. data = [k \in DOMAIN data |-> data[k]]
      BY DEF IInv, TypeOK
    <3> QED
      BY <3>1, <3>2, <3>3
  <2> QED
    BY <2>1, <2>2
<1>4. CASE r.cmd = "get" /\ Get(r.table, r.id)
  BY <1>4 DEF Get
<1>5. CASE r.cmd = "query" /\ Query(r.table, r.column, r.op, r.value)
  BY <1>5 DEF Query
<1> QED
  BY <1>1, <1>2, <1>3, <1>4, <1>5 DEF HandleRequest

\* A command answered with an error changes nothing; a drop that finds no row has had
\* nothing to cascade to.
THEOREM RejectedChangesNothing == Spec => RejectedIsNoop
<1>1. IInv /\ [Next]_vars => [response'.code # "OK" => UNCHANGED <<data, row_num>>]_vars
  BY ErrorChangesNothing DEF Next
<1> QED
  BY <1>1, InvariantHolds, PTL DEF Spec, RejectedIsNoop

-----------------------------------------------------------------------------
\* No client sends an update with version 0.
NoBlindUpdates == \A r \in Requests : r.cmd = "update" => r.version # 0

LEMMA ChangeRaisesVersion ==
  ASSUME NoBlindUpdates, IInv, NEW r \in Requests, HandleRequest(r),
         NEW k \in DOMAIN data, k \in DOMAIN data', data'[k] # data[k]
  PROVE  data'[k].ver > data[k].ver
<1>1. CASE r.cmd = "insert" /\ Insert(r.table, r.vals)
  <2>1. <<r.table, row_num + 1>> \notin DOMAIN data
    BY EasyDBAssumption DEF IInv, TypeOK, BoundAssumption
  <2> QED
    BY <1>1, <2>1 DEF Insert, NewId, Fail
<1>2. CASE r.cmd = "update" /\ Update(r.table, r.id, r.version, r.vals)
  <2>1. r.version # 0 /\ r.version \in Int
    BY <1>2, RequestFields DEF NoBlindUpdates
  <2>2. UpdateCode(r.table, r.id, r.version, r.vals) = "OK"
    BY <1>2 DEF Update, Fail
  <2>3. data[<<r.table, r.id>>].ver = r.version
    BY <2>1, <2>2, ColumnErrorIsError DEF UpdateCode
  <2> DEFINE key == <<r.table, r.id>>
             row == [vals |-> r.vals, ver |-> r.version + 1]
  <2>4. data' = [data EXCEPT ![key] = row]
    BY <1>2, <2>2 DEF Update, NewVersion
  <2>5. row.ver = r.version + 1
    OBVIOUS
  <2> HIDE DEF key, row
  <2>6. k = key /\ data'[k] = row
    BY <2>4
  <2> QED
    BY <2>1, <2>3, <2>5, <2>6 DEF key
<1>3. CASE r.cmd = "drop" /\ Drop(r.table, r.id)
  BY <1>3 DEF Drop, Fail, Without
<1>4. CASE r.cmd = "get" /\ Get(r.table, r.id)
  BY <1>4 DEF Get
<1>5. CASE r.cmd = "query" /\ Query(r.table, r.column, r.op, r.value)
  BY <1>5 DEF Query
<1> QED
  BY <1>1, <1>2, <1>3, <1>4, <1>5 DEF HandleRequest

\* As long as nobody updates blindly, a row that changes gets a higher version, so an update
\* on the version a client has read never overwrites a change it has not seen.
THEOREM VersionsOnlyGrow == NoBlindUpdates => (Spec => VersionAdvances)
<1> SUFFICES ASSUME NoBlindUpdates PROVE Spec => VersionAdvances
  OBVIOUS
<1>1. IInv /\ [Next]_vars
        => [\A k \in DOMAIN data \cap DOMAIN data' :
              data'[k] # data[k] => data'[k].ver > data[k].ver]_vars
  BY ChangeRaisesVersion DEF Next
<1> QED
  BY <1>1, InvariantHolds, PTL DEF Spec, VersionAdvances

=============================================================================
