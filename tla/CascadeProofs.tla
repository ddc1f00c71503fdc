--------------------------- MODULE CascadeProofs ---------------------------
(***************************************************************************)
(* handle_drop implements the one step Drop of EasyDB, for every schema    *)
(* and all tables, and its recursion goes no deeper than there are tables. *)
(* Of the rows that refer to a call's row, its list names all it has not   *)
(* got to (Listed), so none is left when the row goes; and a call is made  *)
(* only for rows that every set closed under "refers to" must hold         *)
(* (OnlyDoomed), so in the end the rows gone are the smallest such set.    *)
(***************************************************************************)
EXTENDS DropCascade, EasyDBProofs, SequenceTheorems

-----------------------------------------------------------------------------
(***************************************************************************)
(* Doomed, of any tables d.                                                *)
(***************************************************************************)
RefersIn(d, r, key) ==
  \E i \in DOMAIN Schema[r[1]] : Schema[r[1]][i].ref = key[1] /\ d[r].vals[i].v = key[2]

ClosedIn(d, key, S) ==
  /\ key \in DOMAIN d => key \in S
  /\ \A r \in DOMAIN d :
       (RefersIn(d, r, key) \/ \E s \in S : RefersIn(d, r, s)) => r \in S

DoomedIn(d, key) ==
  {r \in DOMAIN d : \A S \in SUBSET DOMAIN d : ClosedIn(d, key, S) => r \in S}

LEMMA DoomedInShown ==
  ASSUME NEW key
  PROVE  Atomic!Doomed(key) = DoomedIn(Shown, key)
BY DEF Atomic!Doomed, Atomic!ClosedUnderDrop, Atomic!References, DoomedIn, ClosedIn, RefersIn

LEMMA DoomedInClosed ==
  ASSUME NEW d, NEW key, NEW r \in DOMAIN d,
         RefersIn(d, r, key) \/ \E s \in DoomedIn(d, key) : RefersIn(d, r, s)
  PROVE  r \in DoomedIn(d, key)
<1> SUFFICES ASSUME NEW S \in SUBSET DOMAIN d, ClosedIn(d, key, S)
             PROVE  r \in S
  BY DEF DoomedIn
<1>1. CASE RefersIn(d, r, key)
  BY <1>1 DEF ClosedIn
<1>2. CASE \E s \in DoomedIn(d, key) : RefersIn(d, r, s)
  <2>1. PICK s \in DoomedIn(d, key) : RefersIn(d, r, s)
    BY <1>2
  <2>2. s \in S
    BY DEF DoomedIn
  <2> QED
    BY <2>1, <2>2 DEF ClosedIn
<1> QED
  BY <1>1, <1>2

LEMMA KeyIsDoomed ==
  ASSUME NEW d, NEW key \in DOMAIN d
  PROVE  key \in DoomedIn(d, key)
BY DEF DoomedIn, ClosedIn

-----------------------------------------------------------------------------
(***************************************************************************)
(* The strengthening.                                                      *)
(***************************************************************************)
\* Each call is for a row of a later table than the one before it.
GoesDown ==
  \A i \in DOMAIN stack :
    /\ stack[i].key[1] >= stack[1].key[1] + i - 1
    /\ \A e \in stack[i].to_drop : e[1][1] > stack[i].key[1]

\* A row that refers to a call's row is still on its list, or being dropped.
Listed ==
  \A i \in DOMAIN stack : \A r \in DOMAIN data :
    References(r, stack[i].key) =>
      \/ \E e \in stack[i].to_drop : e[1] = r
      \/ i < Len(stack) /\ stack[i + 1].key = r

\* Nothing is gone, being dropped or listed but what the drop must remove.
OnlyDoomed ==
  LET D == DoomedIn(before, stack[1].key)
  IN  /\ DOMAIN before \ DOMAIN data \subseteq D
      /\ \A i \in DOMAIN stack : /\ i # 1 => stack[i].key \in D
                                /\ \A e \in stack[i].to_drop : e[1] \in D

\* The rows that are left are as they were; the first to be named is the last to go.
OnlyRemoved ==
  /\ DOMAIN data \subseteq DOMAIN before
  /\ \A k \in DOMAIN data : data[k] = before[k]
  /\ stack[1].key \in DOMAIN before => stack[1].key \in DOMAIN data

\* The outermost call was asked for.
Requested == \E r \in Requests : r.cmd = "drop" /\ stack[1].key = <<r.table, r.id>>

CInv ==
  /\ IInv
  /\ stack \in Seq(Frame)
  /\ DOMAIN before \subseteq Key
  /\ Running => GoesDown /\ Listed /\ OnlyDoomed /\ OnlyRemoved /\ Requested

-----------------------------------------------------------------------------
(***************************************************************************)
(* The helpers of handle_drop.                                             *)
(***************************************************************************)
\* The panic of handle_drop needs a stored row that does not fit its table.
LEMMA ScanNeverPanics ==
  ASSUME IInv, NEW t \in Tables
  PROVE  ~ScanPanics(t)
<1> SUFFICES ASSUME NEW fk \in ForeignKeys(t), NEW r \in DOMAIN data, r[1] = fk[1],
                    data[r].vals[fk[2]].kind # "foreign"
             PROVE  FALSE
  BY DEF ScanPanics
<1>1. fk[2] \in DOMAIN Schema[r[1]] /\ Schema[r[1]][fk[2]].ref = t
  BY DEF ForeignKeys
<1> QED
  BY <1>1, ReferenceIsForeign

LEMMA ToDropMeans ==
  ASSUME IInv, NEW key
  PROVE  /\ \A e \in ToDrop(key) : /\ e \in Key \X Nat
                                    /\ e[1] \in DOMAIN data
                                    /\ References(e[1], key)
                                    /\ <<e[1][1], e[2]>> \in ForeignKeys(key[1])
         /\ \A r \in DOMAIN data : References(r, key) => \E e \in ToDrop(key) : e[1] = r
<1>0. DOMAIN data \subseteq Key /\ \A r \in DOMAIN data : r[1] \in Tables
  BY DEF IInv, TypeOK, Key
<1>1. ASSUME NEW e \in ToDrop(key)
      PROVE  /\ e \in Key \X Nat /\ e[1] \in DOMAIN data /\ References(e[1], key)
             /\ <<e[1][1], e[2]>> \in ForeignKeys(key[1])
  <2>1. PICK fk \in ForeignKeys(key[1]) :
               e \in {<<r, fk[2]>> : r \in {k \in DOMAIN data :
                        k[1] = fk[1] /\ data[k].vals[fk[2]].v = key[2]}}
    BY DEF ToDrop
  <2>2. PICK r \in DOMAIN data :
               e = <<r, fk[2]>> /\ r[1] = fk[1] /\ data[r].vals[fk[2]].v = key[2]
    BY <2>1
  <2>3. fk[1] \in Tables /\ fk[2] \in DOMAIN Schema[fk[1]] /\ Schema[fk[1]][fk[2]].ref = key[1]
    BY DEF ForeignKeys
  <2>4. fk[2] \in Nat
    BY <2>3, SchemaColumns
  <2>5. e \in Key \X Nat /\ e[1] \in DOMAIN data /\ References(e[1], key)
    BY <1>0, <2>2, <2>3, <2>4 DEF References
  <2>6. fk = <<fk[1], fk[2]>>
    BY DEF ForeignKeys
  <2> QED
    BY <2>2, <2>5, <2>6
<1>2. ASSUME NEW r \in DOMAIN data, References(r, key)
      PROVE  \E e \in ToDrop(key) : e[1] = r
  <2>1. PICK i \in DOMAIN Schema[r[1]] : /\ Schema[r[1]][i].ref = key[1]
                                         /\ data[r].vals[i].v = key[2]
    BY <1>2 DEF References
  <2> DEFINE fk == <<r[1], i>>
  <2>2. fk \in ForeignKeys(key[1])
    BY <1>0, <2>1 DEF ForeignKeys
  <2>3. <<r, fk[2]>> \in {<<q, fk[2]>> : q \in {k \in DOMAIN data :
                            k[1] = fk[1] /\ data[k].vals[fk[2]].v = key[2]}}
    BY <2>1
  <2>4. <<r, fk[2]>> \in ToDrop(key)
    BY <2>2, <2>3 DEF ToDrop
  <2> QED
    BY <2>4
<1> QED
  BY <1>1, <1>2

\* A row refers only to rows of earlier tables.
LEMMA RefersBack ==
  ASSUME IInv, NEW r \in DOMAIN data, NEW key \in Key, References(r, key)
  PROVE  r[1] \in Nat /\ r[1] > key[1]
<1>1. r[1] \in Tables /\ key[1] \in Tables
  BY DEF IInv, TypeOK, Key
<1>2. PICK i \in DOMAIN Schema[r[1]] : Schema[r[1]][i].ref = key[1]
  BY DEF References
<1> QED
  BY <1>1, <1>2, SchemaColumns

\* A row to which nothing refers can go.
LEMMA RemoveKeepsIInv ==
  ASSUME IInv, NEW key, \A r \in DOMAIN data : ~References(r, key),
         data' = Without({key}), row_num' = row_num, response' \in Response
  PROVE  IInv'
<1>1. DOMAIN data' = DOMAIN data \ {key} /\ \A k \in DOMAIN data' : data'[k] = data[k]
  BY DEF Without
<1>2. TypeOK'
  <2>1. data' \in [DOMAIN data' -> [vals : Seq(Value), ver : Int]]
    BY <1>1 DEF IInv, TypeOK, Without
  <2> QED
    BY <1>1, <2>1 DEF IInv, TypeOK
<1>3. RowsWellTyped'
  BY <1>1 DEF IInv, RowsWellTyped
<1>4. ReferentialIntegrity'
  <2> SUFFICES ASSUME NEW k \in DOMAIN data', NEW i \in DOMAIN Schema[k[1]],
                      data'[k].vals[i].kind = "foreign"
               PROVE  <<Schema[k[1]][i].ref, data'[k].vals[i].v>> \in DOMAIN data'
    BY DEF ReferentialIntegrity, Exists
  <2> DEFINE s == <<Schema[k[1]][i].ref, data[k].vals[i].v>>
  <2>1. k \in DOMAIN data /\ data'[k] = data[k]
    BY <1>1
  <2>2. s \in DOMAIN data
    BY <2>1 DEF IInv, ReferentialIntegrity, Exists
  <2>3. References(k, s)
    BY DEF References
  <2> QED
    BY <1>1, <2>1, <2>2, <2>3
<1>5. IdsUnique'
  BY <1>1 DEF IInv, IdsUnique
<1> QED
  BY <1>2, <1>3, <1>4, <1>5 DEF IInv

-----------------------------------------------------------------------------
(***************************************************************************)
(* Between two drops Atomic and EasyDB see the same tables.                *)
(***************************************************************************)
LEMMA SameExists ==
  ASSUME Shown = data, NEW t, NEW id
  PROVE  Atomic!Exists(t, id) = Exists(t, id)
BY DEF Atomic!Exists, Exists

LEMMA SameBadColumns ==
  ASSUME Shown = data, NEW t, NEW vals
  PROVE  Atomic!BadColumns(t, vals) = BadColumns(t, vals)
<1>1. \A col, val : Atomic!Dangling(col, val) = Dangling(col, val)
  BY SameExists DEF Atomic!Dangling, Dangling
<1> QED
  BY <1>1 DEF Atomic!BadColumns, BadColumns, Atomic!WrongType, WrongType

LEMMA SameColumnError ==
  ASSUME Shown = data, NEW t, NEW vals
  PROVE  Atomic!ColumnError(t, vals) = ColumnError(t, vals)
BY SameBadColumns DEF Atomic!ColumnError, ColumnError, Atomic!WrongType, WrongType

LEMMA SameInsertCode ==
  ASSUME Shown = data, NEW t, NEW vals
  PROVE  Atomic!InsertCode(t, vals) = InsertCode(t, vals)
BY SameBadColumns, SameColumnError DEF Atomic!InsertCode, InsertCode, Atomic!Tables, Tables

LEMMA SameUpdateCode ==
  ASSUME Shown = data, NEW t, NEW id, NEW version, NEW vals
  PROVE  Atomic!UpdateCode(t, id, version, vals) = UpdateCode(t, id, version, vals)
BY SameBadColumns, SameColumnError, SameExists
   DEF Atomic!UpdateCode, UpdateCode, Atomic!Tables, Tables

LEMMA SameCommand ==
  ASSUME Shown = data, Shown' = data', NEW r \in Requests, r.cmd # "drop", HandleRequest(r)
  PROVE  Atomic!HandleRequest(r)
<1>1. CASE r.cmd = "insert" /\ Insert(r.table, r.vals)
  BY <1>1, SameInsertCode DEF Atomic!HandleRequest, Atomic!Insert, Insert, Atomic!NewId, NewId,
     Atomic!Fail, Fail, Atomic!Error, Error
<1>2. CASE r.cmd = "update" /\ Update(r.table, r.id, r.version, r.vals)
  BY <1>2, SameUpdateCode DEF Atomic!HandleRequest, Atomic!Update, Update, Atomic!NewVersion,
     NewVersion, Atomic!Fail, Fail, Atomic!Error, Error
<1>4. CASE r.cmd = "get" /\ Get(r.table, r.id)
  BY <1>4, SameExists DEF Atomic!HandleRequest, Atomic!Get, Get, Atomic!Tables, Tables,
     Atomic!Error, Error
<1>5. CASE r.cmd = "query" /\ Query(r.table, r.column, r.op, r.value)
  <2>1. Atomic!QueryCode(r.table, r.column, r.op, r.value)
          = QueryCode(r.table, r.column, r.op, r.value)
    BY DEF Atomic!QueryCode, QueryCode, Atomic!Tables, Tables, Atomic!QueryColumn, QueryColumn,
       Atomic!OP_AL, OP_AL, Atomic!OP_EQ, OP_EQ, Atomic!OP_NE, OP_NE
  <2>2. \A op, a, b : Atomic!Matches(op, a, b) = Matches(op, a, b)
    BY DEF Atomic!Matches, Matches, Atomic!Less, Less, Atomic!Rank, Rank, Atomic!OP_AL, OP_AL,
       Atomic!OP_EQ, OP_EQ, Atomic!OP_NE, OP_NE, Atomic!OP_LT, OP_LT, Atomic!OP_GT, OP_GT,
       Atomic!OP_LE, OP_LE, Atomic!OP_GE, OP_GE
  <2> QED
    BY <1>5, <2>1, <2>2 DEF Atomic!HandleRequest, Atomic!Query, Query, Atomic!QueryColumn,
       QueryColumn, Atomic!Error, Error
<1> QED
  BY <1>1, <1>2, <1>4, <1>5 DEF HandleRequest
-----------------------------------------------------------------------------
(***************************************************************************)
(* The steps.                                                              *)
(***************************************************************************)
LEMMA EnterPushes ==
  ASSUME IInv, NEW key \in Key, NEW s, Enter(key, s)
  PROVE  /\ stack' = Append(s, [key |-> key, to_drop |-> ToDrop(key)])
         /\ response' = response
BY ScanNeverPanics DEF Enter, Key

LEMMA IInvUnchanged ==
  ASSUME IInv, UNCHANGED vars
  PROVE  IInv'
BY NextKeepsIInv

\* The call that handle_drop enters is typed.
LEMMA NewFrame ==
  ASSUME IInv, NEW key \in Key
  PROVE  [key |-> key, to_drop |-> ToDrop(key)] \in Frame
<1> DEFINE frame == [key |-> key, to_drop |-> ToDrop(key)]
<1>1. ToDrop(key) \subseteq Key \X Nat
  BY ToDropMeans
<1>2. \A e \in ToDrop(key) : <<e[1][1], e[2]>> \in ForeignKeys(key[1])
  BY ToDropMeans
<1>3. frame.key = key /\ frame.to_drop = ToDrop(key)
  OBVIOUS
<1>4. frame \in [key : Key, to_drop : SUBSET (Key \X Nat)]
  BY <1>1
<1> HIDE DEF frame
<1>5. frame \in Frame
  BY <1>2, <1>3, <1>4 DEF Frame
<1> QED
  BY <1>5 DEF frame

LEMMA StartStep ==
  ASSUME CInv, NEW r \in Requests, r.cmd = "drop", StartDrop(r.table, r.id)
  PROVE  CInv' /\ [Atomic!Next]_(Atomic!vars)
<1>1. CASE r.table \notin Tables
  <2>1. Fail("BAD_TABLE") /\ UNCHANGED <<stack, before>> /\ ~Running
    BY <1>1 DEF StartDrop
  <2>2. IInv'
    BY <2>1, FailKeepsIInv DEF CInv, Errors
  <2>3. CInv'
    BY <2>1, <2>2 DEF CInv, Running
  <2>4. Atomic!Fail("BAD_TABLE")
    BY <2>1 DEF Atomic!Fail, Fail, Atomic!Error, Error, Shown, Running
  <2>5. Atomic!HandleRequest(r)
    BY <1>1, <2>4 DEF Atomic!HandleRequest, Atomic!Drop, Atomic!Tables, Tables
  <2> QED
    BY <2>3, <2>5 DEF Atomic!Next
<1>2. CASE r.table \in Tables
  <2> DEFINE key == <<r.table, r.id>>
             frame == [key |-> key, to_drop |-> ToDrop(key)]
  <2>1. r.id \in Int /\ key \in Key /\ key[1] \in Nat
    BY <1>2, RequestFields, SchemaColumns DEF Key
  <2>2. /\ ~Running /\ Enter(key, <<>>)
        /\ before' = data /\ UNCHANGED <<data, row_num>>
    BY <1>2 DEF StartDrop
  <2>3. stack' = <<frame>> /\ response' = response
    <3> HIDE DEF key, frame
    <3>1. stack' = Append(<<>>, [key |-> key, to_drop |-> ToDrop(key)]) /\ response' = response
      BY <2>1, <2>2, EnterPushes DEF CInv
    <3> QED
      BY <3>1 DEF frame
  <2>4. IInv'
    BY <2>2, <2>3, IInvUnchanged DEF CInv, vars
  <2>5. frame \in Frame /\ DOMAIN data \subseteq Key
    <3>1. frame \in Frame
      BY <2>1, NewFrame DEF CInv
    <3>2. DOMAIN data \subseteq Key
      BY DEF CInv, IInv, TypeOK, Key
    <3> QED
      BY <3>1, <3>2
  <2>6. frame.key = key /\ frame.to_drop = ToDrop(key)
    OBVIOUS
  <2> HIDE DEF frame
  <2>7. /\ stack' \in Seq(Frame) /\ DOMAIN stack' = {1} /\ Len(stack') = 1
        /\ stack'[1].key = key /\ stack'[1].to_drop = ToDrop(key)
    BY <2>3, <2>5, <2>6
  <2>8. \A e \in ToDrop(key) : e[1] \in DOMAIN data /\ References(e[1], key)
    BY ToDropMeans DEF CInv
  <2>9. GoesDown'
    BY <2>1, <2>7, <2>8, RefersBack DEF GoesDown, CInv
  <2>10. Listed'
    <3>1. \A q, k : References(q, k)' <=> References(q, k)
      BY <2>2 DEF References
    <3>2. \A q \in DOMAIN data : References(q, key) => \E e \in ToDrop(key) : e[1] = q
      BY ToDropMeans DEF CInv
    <3> QED
      BY <2>2, <2>7, <3>1, <3>2 DEF Listed
  <2>11. OnlyDoomed'
    <3>1. \A e \in ToDrop(key) : RefersIn(data, e[1], key)
      BY <2>8 DEF References, RefersIn
    <3>2. \A e \in ToDrop(key) : e[1] \in DoomedIn(data, key)
      BY <2>8, <3>1, DoomedInClosed
    <3> QED
      BY <2>2, <2>7, <3>2 DEF OnlyDoomed
  <2>12. OnlyRemoved' /\ Requested'
    BY <2>2, <2>7 DEF OnlyRemoved, Requested
  <2>13. CInv'
    BY <2>2, <2>4, <2>5, <2>7, <2>9, <2>10, <2>11, <2>12 DEF CInv
  <2>14. UNCHANGED Atomic!vars
    BY <2>2, <2>3, <2>7 DEF Atomic!vars, Shown, Running
  <2> QED
    BY <2>13, <2>14
<1> QED
  BY <1>1, <1>2

LEMMA RecurseStep ==
  ASSUME CInv, Recurse
  PROVE  CInv' /\ UNCHANGED Atomic!vars
<1> DEFINE n == Len(stack)
           D == DoomedIn(before, stack[1].key)
<1>1. PICK entry \in Top.to_drop :
        Enter(entry[1], [stack EXCEPT ![Len(stack)].to_drop = @ \ {entry}])
  BY DEF Recurse
<1> DEFINE key == entry[1]
           s == [stack EXCEPT ![Len(stack)].to_drop = @ \ {entry}]
           frame == [key |-> key, to_drop |-> ToDrop(key)]
<1>2. /\ Running /\ UNCHANGED <<data, row_num, before>>
      /\ GoesDown /\ Listed /\ OnlyDoomed /\ OnlyRemoved /\ Requested
  BY DEF Recurse, CInv
<1>3. n \in Nat /\ n >= 1 /\ DOMAIN stack = 1..n /\ Top = stack[n]
      /\ \A i \in 1..n : stack[i] \in Frame
  BY <1>2 DEF CInv, Running, Top
<1>4. key \in Key /\ entry \in stack[n].to_drop
  BY <1>1, <1>3 DEF Frame
<1>5. frame \in Frame /\ frame.key = key /\ frame.to_drop = ToDrop(key)
  BY <1>4, NewFrame DEF CInv
<1>6. s \in Seq(Frame) /\ Len(s) = n
      /\ \A i \in 1..n : /\ s[i].key = stack[i].key
                         /\ s[i].to_drop = IF i = n THEN stack[i].to_drop \ {entry}
                                           ELSE stack[i].to_drop
  <2> DEFINE shorter == [stack[n] EXCEPT !.to_drop = @ \ {entry}]
  <2>1. /\ shorter \in Frame /\ shorter.key = stack[n].key
        /\ shorter.to_drop = stack[n].to_drop \ {entry}
    BY <1>3 DEF Frame
  <2>2. s = [stack EXCEPT ![n] = shorter]
    OBVIOUS
  <2> HIDE DEF shorter, s
  <2>3. s \in Seq(Frame) /\ Len(s) = n
    BY <1>3, <2>1, <2>2, ExceptSeq DEF CInv
  <2>4. \A i \in 1..n : s[i] = IF i = n THEN shorter ELSE stack[i]
    BY <1>3, <2>2
  <2> QED
    BY <2>1, <2>3, <2>4
<1>7. Enter(key, s)
  BY <1>1
<1> HIDE DEF key, s
<1>7a. stack' = Append(s, frame) /\ response' = response
  BY <1>4, <1>7, EnterPushes DEF CInv
<1> HIDE DEF frame
<1>8. /\ stack' \in Seq(Frame) /\ Len(stack') = n + 1 /\ DOMAIN stack' = 1..(n + 1)
      /\ \A i \in 1..n : stack'[i] = s[i]
      /\ stack'[n + 1] = frame
  <2> HIDE DEF n
  <2>1. /\ stack' \in Seq(Frame) /\ Len(stack') = n + 1
        /\ \A i \in 1..n : stack'[i] = s[i]
        /\ stack'[n + 1] = frame
    BY <1>5, <1>6, <1>7a, AppendProperties
  <2> QED
    BY <1>3, <2>1
<1> HIDE DEF n
<1>9. IInv'
  BY <1>2, <1>7a, IInvUnchanged DEF CInv, vars
<1>9a. ASSUME NEW i \in 1..n
       PROVE  /\ stack'[i].key = stack[i].key
              /\ stack'[i].to_drop = IF i = n THEN stack[i].to_drop \ {entry} ELSE stack[i].to_drop
  <2>1. stack'[i] = s[i]
    BY <1>8
  <2> QED
    BY <1>6, <2>1
<1>9b. 1 \in 1..n /\ n \in 1..n /\ n + 1 \in 1..(n + 1) /\ \A i \in 1..n : i \in 1..(n + 1)
  BY <1>3
<1>10. stack'[1].key = stack[1].key
  BY <1>9a, <1>9b
<1>11. \A e \in ToDrop(key) : e[1] \in DOMAIN data /\ References(e[1], key)
  BY ToDropMeans DEF CInv
<1>12. GoesDown'
  <2> SUFFICES ASSUME NEW i \in 1..(n + 1)
               PROVE  /\ stack'[i].key[1] >= stack[1].key[1] + i - 1
                      /\ \A e \in stack'[i].to_drop : e[1][1] > stack'[i].key[1]
    BY <1>8, <1>10 DEF GoesDown
  <2>1. CASE i \in 1..n
    BY <1>2, <1>3, <1>6, <1>8, <2>1 DEF GoesDown
  <2>2. CASE i = n + 1
    <3>1. \A e \in ToDrop(key) : e[1][1] > key[1]
      BY <1>4, <1>11, RefersBack DEF CInv
    <3>2. key[1] > stack[n].key[1] /\ stack[n].key[1] >= stack[1].key[1] + n - 1
      BY <1>2, <1>3, <1>4 DEF GoesDown, key
    <3>3. key[1] \in Int /\ stack[n].key[1] \in Int /\ stack[1].key[1] \in Int
      <4>1. \A k \in Key : k[1] \in Int
        BY SchemaColumns DEF Key
      <4> QED
        BY <1>3, <1>4, <4>1 DEF Frame
    <3>4. key[1] >= stack[1].key[1] + (n + 1) - 1
      BY <1>3, <3>2, <3>3
    <3> QED
      BY <1>5, <1>8, <2>2, <3>1, <3>4
  <2> QED
    BY <1>3, <2>1, <2>2
<1>13. Listed'
  <2>1. \A q, k : References(q, k)' <=> References(q, k)
    BY <1>2 DEF References
  <2> SUFFICES ASSUME NEW i \in 1..(n + 1), NEW r \in DOMAIN data, References(r, stack'[i].key)
               PROVE  \/ \E e \in stack'[i].to_drop : e[1] = r
                      \/ i < n + 1 /\ stack'[i + 1].key = r
    BY <1>2, <1>8, <2>1 DEF Listed
  <2>2. CASE i \in 1..(n - 1)
    <3>1. i \in 1..n /\ i + 1 \in 1..n /\ i # n
      BY <1>3, <2>2
    <3>2. \/ \E e \in stack[i].to_drop : e[1] = r
          \/ stack[i + 1].key = r
      BY <1>2, <1>3, <1>9a, <3>1 DEF Listed
    <3>3. stack'[i].to_drop = stack[i].to_drop /\ stack'[i + 1].key = stack[i + 1].key
      BY <1>9a, <3>1
    <3>4. i < n + 1
      BY <1>3, <3>1
    <3> QED
      BY <3>2, <3>3, <3>4
  <2>3. CASE i = n
    <3>1a. References(r, stack[n].key) /\ n \in DOMAIN stack /\ ~(n < Len(stack))
      <4>1. stack'[i].key = stack[n].key
        BY <1>9a, <1>9b, <2>3
      <4>2. n \in DOMAIN stack
        BY <1>3, <1>9b
      <4>3. ~(n < Len(stack))
        BY <1>3 DEF n
      <4> QED
        BY <4>1, <4>2, <4>3
    <3>1. \E e \in stack[n].to_drop : e[1] = r
      BY <1>2, <3>1a DEF Listed
    <3>2. stack'[n + 1].key = entry[1]
      BY <1>5, <1>8 DEF key
    <3>3. stack'[n].to_drop = stack[n].to_drop \ {entry}
      BY <1>9a, <1>9b
    <3> QED
      BY <1>3, <2>3, <3>1, <3>2, <3>3
  <2>4. CASE i = n + 1
    BY <1>5, <1>8, <2>4, ToDropMeans DEF CInv
  <2> QED
    BY <1>3, <2>2, <2>3, <2>4
<1>14. OnlyDoomed'
  <2>1. key \in D
    BY <1>2, <1>3, <1>4 DEF OnlyDoomed, key
  <2>2. \A e \in ToDrop(key) : e[1] \in D
    <3> SUFFICES ASSUME NEW e \in ToDrop(key) PROVE e[1] \in D
      OBVIOUS
    <3>1. e[1] \in DOMAIN before /\ RefersIn(before, e[1], key)
      BY <1>2, <1>11 DEF OnlyRemoved, References, RefersIn
    <3> QED
      BY <2>1, <3>1, DoomedInClosed
  <2> HIDE DEF D
  <2>3. /\ DOMAIN before \ DOMAIN data \subseteq D
        /\ \A i \in 1..n : /\ i # 1 => stack[i].key \in D
                           /\ \A e \in stack[i].to_drop : e[1] \in D
    BY <1>2, <1>3 DEF OnlyDoomed, D
  <2>4. DoomedIn(before', stack'[1].key) = D
    BY <1>2, <1>10 DEF D
  <2>5. \A i \in 1..(n + 1) : /\ i # 1 => stack'[i].key \in D
                              /\ \A e \in stack'[i].to_drop : e[1] \in D
    <3> SUFFICES ASSUME NEW i \in 1..(n + 1)
                 PROVE  /\ i # 1 => stack'[i].key \in D
                        /\ \A e \in stack'[i].to_drop : e[1] \in D
      OBVIOUS
    <3>1. CASE i \in 1..n
      BY <1>9a, <2>3, <3>1
    <3>2. CASE i = n + 1
      BY <1>5, <1>8, <2>1, <2>2, <3>2
    <3> QED
      BY <1>3, <3>1, <3>2
  <2> QED
    BY <1>2, <1>8, <2>3, <2>4, <2>5 DEF OnlyDoomed
<1>15. OnlyRemoved' /\ Requested'
  BY <1>2, <1>10 DEF OnlyRemoved, Requested
<1>16. CInv'
  BY <1>2, <1>8, <1>9, <1>12, <1>13, <1>14, <1>15 DEF CInv
<1>17. Running'
  BY <1>3, <1>8 DEF Running
<1>18. UNCHANGED Atomic!vars
  BY <1>2, <1>7a, <1>17 DEF Atomic!vars, Shown
<1> QED
  BY <1>16, <1>18

\* What both kinds of return have in common: no row refers to the one that goes.
LEMMA FinishFacts ==
  ASSUME CInv, Finish
  PROVE  /\ Len(stack) \in Nat /\ Len(stack) >= 1 /\ DOMAIN stack = 1..Len(stack)
         /\ Top = stack[Len(stack)] /\ Top.key \in Key /\ Top.to_drop = {}
         /\ \A r \in DOMAIN data : ~References(r, Top.key)
         /\ DOMAIN data' = DOMAIN data \ {Top.key}
         /\ \A k \in DOMAIN data' : data'[k] = data[k]
         /\ stack' \in Seq(Frame) /\ Len(stack') = Len(stack) - 1
         /\ DOMAIN stack' = 1..(Len(stack) - 1)
         /\ \A i \in 1..(Len(stack) - 1) : stack'[i] = stack[i]
         /\ IInv'
<1> DEFINE n == Len(stack)
<1>1. n \in Nat /\ n >= 1 /\ DOMAIN stack = 1..n /\ Top = stack[n]
      /\ \A i \in 1..n : stack[i] \in Frame
  BY DEF Finish, CInv, Running, Top
<1>2. n \in 1..n /\ Top.key \in Key
  BY <1>1 DEF Frame
<1>3. /\ Top.to_drop = {} /\ data' = Without({Top.key}) /\ row_num' = row_num
      /\ stack' = SubSeq(stack, 1, n - 1)
  BY DEF Finish
<1>4. \A r \in DOMAIN data : ~References(r, Top.key)
  <2>1. \A r \in DOMAIN data : References(r, stack[n].key) =>
           \/ \E e \in stack[n].to_drop : e[1] = r
           \/ n < Len(stack) /\ stack[n + 1].key = r
    BY <1>1, <1>2 DEF Finish, CInv, Listed
  <2>2. ~(n < Len(stack))
    BY <1>1
  <2> QED
    BY <1>1, <1>3, <2>1, <2>2
<1>5. DOMAIN data' = DOMAIN data \ {Top.key} /\ \A k \in DOMAIN data' : data'[k] = data[k]
  BY <1>3 DEF Without
<1>6. stack' \in Seq(Frame) /\ Len(stack') = n - 1
      /\ \A i \in 1..(n - 1) : stack'[i] = stack[i]
  <2> HIDE DEF n
  <2>1. n - 1 \in Int /\ 1 \in Int /\ \A i \in 1..(n - 1) : stack[i] \in Frame
    BY <1>1
  <2>2. /\ stack' \in Seq(Frame)
        /\ Len(stack') = IF 1 <= n - 1 THEN (n - 1) - 1 + 1 ELSE 0
        /\ \A i \in 1..((n - 1) - 1 + 1) : stack'[i] = stack[1 + i - 1]
    BY <1>3, <2>1, SubSeqProperties
  <2> QED
    BY <1>1, <2>2
<1>7. DOMAIN stack' = 1..(n - 1)
  BY <1>6
<1>8. response' \in Response
  <2>1. response' \in {response, [code |-> "OK"], Error("NOT_FOUND")}
    BY DEF Finish
  <2> QED
    BY <2>1 DEF CInv, IInv, TypeOK, Response, Error, Errors
<1>9. IInv'
  BY <1>3, <1>4, <1>8, RemoveKeepsIInv DEF CInv
<1> QED
  BY <1>1, <1>2, <1>3, <1>4, <1>5, <1>6, <1>7, <1>9

LEMMA InnerFinishStep ==
  ASSUME CInv, Finish, Len(stack) # 1
  PROVE  CInv' /\ UNCHANGED Atomic!vars
<1> DEFINE n == Len(stack)
           D == DoomedIn(before, stack[1].key)
           key == Top.key
<1>1. /\ Running /\ GoesDown /\ Listed /\ OnlyDoomed /\ OnlyRemoved /\ Requested
      /\ before' = before /\ row_num' = row_num
  BY DEF Finish, CInv
<1>2. /\ n \in Nat /\ n > 1 /\ DOMAIN stack = 1..n /\ key = stack[n].key /\ key \in Key
      /\ stack' \in Seq(Frame) /\ Len(stack') = n - 1 /\ DOMAIN stack' = 1..(n - 1)
      /\ \A i \in 1..(n - 1) : stack'[i] = stack[i]
  <2>1. /\ n \in Nat /\ n >= 1 /\ DOMAIN stack = 1..n /\ key = stack[n].key /\ key \in Key
        /\ stack' \in Seq(Frame) /\ Len(stack') = n - 1 /\ DOMAIN stack' = 1..(n - 1)
        /\ \A i \in 1..(n - 1) : stack'[i] = stack[i]
    <3> HIDE DEF key
    <3> QED
      BY FinishFacts DEF key
  <2> HIDE DEF key
  <2> QED
    BY <2>1
<1>3. /\ DOMAIN data' = DOMAIN data \ {key}
      /\ \A k \in DOMAIN data' : data'[k] = data[k]
  BY FinishFacts
<1>4. response' = response
  BY <1>2 DEF Finish, IsInner
<1> HIDE DEF key, n
<1>5. /\ 1 \in 1..n /\ n \in 1..n /\ 1 \in 1..(n - 1)
      /\ \A i \in 1..(n - 1) : i \in 1..n /\ i + 1 \in 1..n
  BY <1>2
<1>6. stack'[1] = stack[1]
  BY <1>2, <1>5
<1>7. key # stack[1].key /\ key \in D
  <2>1. key[1] >= stack[1].key[1] + n - 1
    BY <1>1, <1>2, <1>5 DEF GoesDown
  <2>2. stack[1].key \in Key
    <3>1. stack[1] \in Frame
      BY <1>5, ElementOfSeq DEF CInv, n
    <3> QED
      BY <3>1 DEF Frame
  <2>3. key[1] \in Int /\ stack[1].key[1] \in Int
    BY <1>2, <2>2, SchemaColumns DEF Key
  <2>4. key[1] # stack[1].key[1]
    BY <1>2, <2>1, <2>3
  <2>5. key \in D
    BY <1>1, <1>2, <1>5 DEF OnlyDoomed
  <2> QED
    BY <2>4, <2>5
<1>8. GoesDown'
  BY <1>1, <1>2, <1>5, <1>6 DEF GoesDown
<1>9. Listed'
  <2> SUFFICES ASSUME NEW i \in 1..(n - 1), NEW r \in DOMAIN data', References(r, stack[i].key)'
               PROVE  \/ \E e \in stack'[i].to_drop : e[1] = r
                      \/ i < n - 1 /\ stack'[i + 1].key = r
    BY <1>2 DEF Listed
  <2>1. r \in DOMAIN data /\ r # key /\ data'[r] = data[r] /\ stack'[i] = stack[i]
    BY <1>2, <1>3
  <2>2. References(r, stack[i].key)
    BY <2>1 DEF References
  <2>3. \/ \E e \in stack[i].to_drop : e[1] = r
        \/ stack[i + 1].key = r
    BY <1>1, <1>2, <1>5, <2>1, <2>2 DEF Listed
  <2>4. CASE i = n - 1
    <3>1. i + 1 = n
      BY <1>2, <2>4
    <3> QED
      BY <1>2, <2>1, <2>3, <3>1
  <2>5. CASE i # n - 1
    <3>1. i < n - 1 /\ i + 1 \in 1..(n - 1)
      BY <1>2, <2>5
    <3>2. stack'[i + 1] = stack[i + 1]
      BY <1>2, <3>1
    <3> QED
      BY <2>1, <2>3, <3>1, <3>2
  <2> QED
    BY <2>4, <2>5
<1>10. OnlyDoomed'
  <2>1. DoomedIn(before', stack'[1].key) = D
    BY <1>1, <1>6
  <2> HIDE DEF D
  <2>2. /\ DOMAIN before \ DOMAIN data \subseteq D
        /\ \A i \in 1..n : /\ i # 1 => stack[i].key \in D
                           /\ \A e \in stack[i].to_drop : e[1] \in D
    BY <1>1, <1>2 DEF OnlyDoomed, D
  <2>3. DOMAIN before' \ DOMAIN data' \subseteq D
    BY <1>1, <1>3, <1>7, <2>2
  <2>4. \A i \in 1..(n - 1) : /\ i # 1 => stack'[i].key \in D
                              /\ \A e \in stack'[i].to_drop : e[1] \in D
    BY <1>2, <1>5, <2>2
  <2> QED
    BY <1>2, <2>1, <2>3, <2>4 DEF OnlyDoomed
<1>11. OnlyRemoved'
  BY <1>1, <1>3, <1>6, <1>7 DEF OnlyRemoved
<1>12. Requested'
  BY <1>1, <1>6 DEF Requested
<1>13. CInv'
  BY <1>1, <1>2, <1>8, <1>9, <1>10, <1>11, <1>12, FinishFacts DEF CInv
<1>14. Running'
  BY <1>2 DEF Running
<1>15. UNCHANGED Atomic!vars
  BY <1>1, <1>4, <1>14 DEF Atomic!vars, Shown
<1> QED
  BY <1>13, <1>15

LEMMA LastFinishStep ==
  ASSUME CInv, Finish, Len(stack) = 1
  PROVE  CInv' /\ Atomic!Next
<1> DEFINE key == stack[1].key
           D == DoomedIn(before, key)
<1>1. /\ Running /\ OnlyDoomed /\ OnlyRemoved /\ Requested
      /\ before' = before /\ row_num' = row_num
  BY DEF Finish, CInv
<1>2. /\ Top.key = key /\ key \in Key
      /\ \A r \in DOMAIN data : ~References(r, key)
      /\ DOMAIN data' = DOMAIN data \ {key}
      /\ \A k \in DOMAIN data' : data'[k] = data[k]
      /\ stack' \in Seq(Frame) /\ Len(stack') = 0 /\ IInv'
  BY FinishFacts
<1>3. stack' = <<>>
  BY <1>2
<1>4. CInv'
  BY <1>1, <1>2, <1>3 DEF CInv, Running
<1>5. Shown = before /\ Shown' = data'
  BY <1>1, <1>3 DEF Shown, Running
<1> HIDE DEF key
<1>6. DOMAIN data' = DOMAIN before \ D
  <2>1. ASSUME NEW r \in DOMAIN before, r \notin DOMAIN data'
        PROVE  r \in D
    <3>1. CASE r = key
      BY <3>1, KeyIsDoomed
    <3>2. CASE r # key
      BY <1>1, <1>2, <2>1, <3>2 DEF OnlyDoomed, key
    <3> QED
      BY <3>1, <3>2
  <2>2. ASSUME NEW r \in DOMAIN data'
        PROVE  r \in DOMAIN before /\ r \notin D
    <3> DEFINE S == DOMAIN before \ DOMAIN data'
    <3>1. ASSUME NEW q \in DOMAIN data', NEW s \in S, RefersIn(before, q, s)
          PROVE  FALSE
      <4>1. PICK i \in DOMAIN Schema[q[1]] : /\ Schema[q[1]][i].ref = s[1]
                                             /\ before[q].vals[i].v = s[2]
        BY <3>1 DEF RefersIn
      <4>2. q \in DOMAIN data /\ data[q] = before[q] /\ data'[q] = data[q]
        BY <1>1, <1>2 DEF OnlyRemoved
      <4>3. s \in Key
        BY DEF CInv
      <4>4. data[q].vals[i].kind = "foreign"
        BY <4>1, <4>2, <4>3, ReferenceIsForeign DEF CInv, Key
      <4>5. <<s[1], s[2]>> \in DOMAIN data'
        BY <1>2, <4>1, <4>2, <4>4 DEF IInv, ReferentialIntegrity, Exists
      <4>6. s = <<s[1], s[2]>>
        BY <4>3 DEF Key
      <4> QED
        BY <4>5, <4>6
    <3>2. \A q \in DOMAIN data' : ~RefersIn(before, q, key)
      BY <1>1, <1>2 DEF OnlyRemoved, References, RefersIn
    <3>3. ClosedIn(before, key, S)
      BY <1>2, <3>1, <3>2 DEF ClosedIn
    <3>4. r \in DOMAIN before /\ r \notin S
      BY <1>1, <1>2 DEF OnlyRemoved
    <3> QED
      BY <3>3, <3>4 DEF DoomedIn
  <2> QED
    BY <2>1, <2>2
<1>7. PICK r \in Requests : r.cmd = "drop" /\ key = <<r.table, r.id>>
  BY <1>1 DEF Requested, key
<1>8. Atomic!Doomed(key) = D
  BY <1>5, DoomedInShown
<1>9. Shown' = Atomic!Without(Atomic!Doomed(key))
  <2>1. data' = [k \in DOMAIN before \ D |-> before[k]]
    <3>1. data' = [k \in DOMAIN data' |-> data'[k]]
      BY <1>2 DEF IInv, TypeOK
    <3>2. \A k \in DOMAIN data' : data'[k] = before[k]
      BY <1>1, <1>2 DEF OnlyRemoved
    <3> HIDE DEF D
    <3> QED
      BY <1>6, <3>1, <3>2
  <2> QED
    BY <1>5, <1>8, <2>1 DEF Atomic!Without
<1>10. response' = IF key \in DOMAIN before THEN [code |-> "OK"] ELSE Error("NOT_FOUND")
  BY <1>1, <1>2 DEF Finish, IsInner, OnlyRemoved, key
<1>11. Atomic!Drop(r.table, r.id)
  <2>1. r.table \in Tables
    BY <1>2, <1>7 DEF Key
  <2> QED
    BY <1>1, <1>5, <1>7, <1>9, <1>10, <2>1
       DEF Atomic!Drop, Atomic!Tables, Tables, Atomic!Exists, Atomic!Error, Error
<1>12. Atomic!HandleRequest(r)
  BY <1>7, <1>11 DEF Atomic!HandleRequest
<1> QED
  BY <1>4, <1>12 DEF Atomic!Next

LEMMA OtherStep ==
  ASSUME CInv, OtherCommand
  PROVE  CInv' /\ Atomic!Next
<1>1. PICK r \in Requests : r.cmd # "drop" /\ HandleRequest(r)
  BY DEF OtherCommand
<1>2. ~Running /\ ~Running' /\ UNCHANGED <<stack, before>>
  BY DEF OtherCommand, Running
<1>3. Shown = data /\ Shown' = data'
  BY <1>2 DEF Shown
<1>4. IInv'
  BY <1>1, NextKeepsIInv DEF Next, CInv
<1>5. CInv'
  BY <1>2, <1>4 DEF CInv
<1>6. Atomic!HandleRequest(r)
  BY <1>1, <1>3, SameCommand
<1> QED
  BY <1>5, <1>6 DEF Atomic!Next

-----------------------------------------------------------------------------
LEMMA InitCInv == CascadeInit => CInv /\ Atomic!Init
<1> SUFFICES ASSUME CascadeInit PROVE CInv /\ Atomic!Init
  OBVIOUS
<1>1. IInv
  BY InitIInv DEF CascadeInit
<1>2. ~Running /\ stack \in Seq(Frame) /\ DOMAIN before = {}
  BY DEF CascadeInit, Init, Running
<1>3. Atomic!Init
  BY <1>2 DEF CascadeInit, Init, Atomic!Init, Shown
<1> QED
  BY <1>1, <1>2, <1>3 DEF CInv

\* A call, or a return from an inner one, changes nothing that can be seen from outside;
\* the last return is the drop.
LEMMA CascadeStepSimulates ==
  ASSUME CInv, [CascadeNext]_cascadeVars
  PROVE  CInv' /\ [Atomic!Next]_(Atomic!vars)
<1>1. CASE UNCHANGED cascadeVars
  <2>1. IInv'
    BY <1>1, IInvUnchanged DEF cascadeVars, CInv, vars
  <2>2. CInv'
    BY <1>1, <2>1 DEF cascadeVars, CInv, Running, GoesDown, Listed, References, OnlyDoomed,
       OnlyRemoved, Requested
  <2>3. UNCHANGED Atomic!vars
    BY <1>1 DEF cascadeVars, Atomic!vars, Shown, Running
  <2> QED
    BY <2>2, <2>3
<1>2. CASE \E r \in Requests : r.cmd = "drop" /\ StartDrop(r.table, r.id)
  BY <1>2, StartStep
<1>3. CASE Recurse
  BY <1>3, RecurseStep
<1>4. CASE Finish /\ Len(stack) # 1
  BY <1>4, InnerFinishStep
<1>5. CASE Finish /\ Len(stack) = 1
  BY <1>5, LastFinishStep
<1>6. CASE OtherCommand
  BY <1>6, OtherStep
<1> QED
  BY <1>1, <1>2, <1>3, <1>4, <1>5, <1>6 DEF CascadeNext, CascadeStep

\* The invariant of the recursion of handle_drop, for the theorems below.
THEOREM CascadeInvariantHolds == CascadeSpec => []CInv
BY InitCInv, CascadeStepSimulates, PTL DEF CascadeSpec

\* Calls and their lists are typed at every moment of a cascade, and so are the tables.
THEOREM CascadeTypeCorrect == CascadeSpec => []CascadeTypeOK
<1>1. CInv => CascadeTypeOK
  BY DEF CInv, IInv, CascadeTypeOK
<1> QED
  BY <1>1, CascadeInvariantHolds, PTL

\* handle_drop calls itself no deeper than the schema has tables, whatever the tables hold.
THEOREM RecursionBounded == CascadeSpec => []DepthBounded
<1>1. ASSUME CInv PROVE DepthBounded
  <2>1. CASE ~Running
    BY <2>1, EasyDBAssumption DEF DepthBounded, Running, SchemaAssumption
  <2>2. CASE Running
    <3> DEFINE n == Len(stack)
    <3>1. n \in Nat /\ n >= 1 /\ DOMAIN stack = 1..n /\ 1 \in 1..n /\ n \in 1..n
          /\ \A i \in 1..n : stack[i] \in Frame
      BY <1>1, <2>2 DEF CInv, Running
    <3>2. stack[n].key \in Key /\ stack[1].key \in Key
      <4>1. stack[n] \in Frame /\ stack[1] \in Frame
        BY <3>1
      <4> QED
        BY <4>1 DEF Frame
    <3>3. stack[n].key[1] >= stack[1].key[1] + n - 1
      <4>1. GoesDown
        BY <1>1, <2>2 DEF CInv
      <4> HIDE DEF n
      <4> QED
        BY <3>1, <4>1 DEF GoesDown
    <3>4. Len(Schema) \in Nat /\ \A k \in Key : k[1] \in 1..Len(Schema)
      BY EasyDBAssumption DEF Key, Tables, SchemaAssumption
    <3> QED
      BY <3>1, <3>2, <3>3, <3>4 DEF DepthBounded
  <2> QED
    BY <2>1, <2>2
<1> QED
  BY <1>1, CascadeInvariantHolds, PTL

\* No reference dangles even between the removals of one cascade: what refers to a row goes
\* before it.
THEOREM ReferencesHoldInside == CascadeSpec => []ReferentialIntegrity
<1>1. CInv => ReferentialIntegrity
  BY DEF CInv, IInv
<1> QED
  BY <1>1, CascadeInvariantHolds, PTL

\* The recursion of handle_drop, whose lists grow stale while it runs, implements the drop of
\* EasyDB: for any schema and tables, one step that removes what depends on the row.
THEOREM CascadeIsOneDrop == CascadeSpec => DropIsAtomic
<1>1. CascadeInit => Atomic!Init
  BY InitCInv
<1>2. CInv /\ [CascadeNext]_cascadeVars => [Atomic!Next]_(Atomic!vars)
  BY CascadeStepSimulates
<1> QED
  BY <1>1, <1>2, CascadeInvariantHolds, PTL DEF CascadeSpec, DropIsAtomic, Atomic!Spec

-----------------------------------------------------------------------------
\* No client scans the column after a table's last.
NoQueryPastColumns ==
  \A r \in Requests : r.cmd = "query" => QueryCode(r.table, r.column, r.op, r.value) # "PANIC"

LEMMA CommandDoesNotPanic ==
  ASSUME NoQueryPastColumns, NoPanic, NEW r \in Requests, r.cmd # "drop", HandleRequest(r)
  PROVE  NoPanic'
<1>1. CASE r.cmd = "insert" /\ Insert(r.table, r.vals)
  BY <1>1 DEF Insert, InsertCode, ColumnError, NewId, Fail, Error, NoPanic
<1>2. CASE r.cmd = "update" /\ Update(r.table, r.id, r.version, r.vals)
  BY <1>2 DEF Update, UpdateCode, ColumnError, Fail, Error, NoPanic
<1>3. CASE r.cmd = "get" /\ Get(r.table, r.id)
  BY <1>3 DEF Get, Error, NoPanic
<1>4. CASE r.cmd = "query" /\ Query(r.table, r.column, r.op, r.value)
  BY <1>4 DEF NoQueryPastColumns, Query, Error, NoPanic
<1> QED
  BY <1>1, <1>2, <1>3, <1>4 DEF HandleRequest

LEMMA StepDoesNotPanic ==
  ASSUME NoQueryPastColumns, CInv, NoPanic, [CascadeNext]_cascadeVars
  PROVE  NoPanic'
<1>1. CASE UNCHANGED cascadeVars
  BY <1>1 DEF cascadeVars, NoPanic
<1>2. ASSUME NEW r \in Requests, r.cmd = "drop", StartDrop(r.table, r.id)
      PROVE  NoPanic'
  <2>1. CASE r.table \notin Tables
    BY <1>2, <2>1 DEF StartDrop, Fail, Error, NoPanic
  <2>2. CASE r.table \in Tables
    <3>1. ~ScanPanics(r.table)
      BY <2>2, ScanNeverPanics DEF CInv
    <3>2. response' = response
      BY <1>2, <2>2, <3>1 DEF StartDrop, Enter
    <3> QED
      BY <3>2 DEF NoPanic
  <2> QED
    BY <2>1, <2>2
<1>3. CASE Recurse
  BY <1>3, RecurseStep DEF Atomic!vars, NoPanic
<1>4. CASE Finish
  BY <1>4 DEF Finish, Error, NoPanic
<1>5. CASE OtherCommand
  BY <1>5, CommandDoesNotPanic DEF OtherCommand
<1> QED
  BY <1>1, <1>2, <1>3, <1>4, <1>5 DEF CascadeNext, CascadeStep

\* The panic inside the scan of handle_drop is never reached, and no insert, update or get
\* panics either: the thread and the mutex fall only to a query past the last column.
THEOREM OnlyQueriesPanic == NoQueryPastColumns => (CascadeSpec => []NoPanic)
<1> SUFFICES ASSUME NoQueryPastColumns PROVE CascadeSpec => []NoPanic
  OBVIOUS
<1>1. CascadeInit => NoPanic
  BY DEF CascadeInit, Init, NoPanic
<1>2. CInv /\ NoPanic /\ [CascadeNext]_cascadeVars => NoPanic'
  BY StepDoesNotPanic
<1> QED
  BY <1>1, <1>2, CascadeInvariantHolds, PTL DEF CascadeSpec

=============================================================================
