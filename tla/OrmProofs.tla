----------------------------- MODULE OrmProofs -----------------------------
(***************************************************************************)
(* For any number of sessions, contents, versions and rows: no atomic save *)
(* overwrites what its session has not seen, and a session that wrote a    *)
(* row last is not aborted on it.                                          *)
(*                                                                         *)
(* Neither is inductive.  That an object with the row's version was made   *)
(* from the row survives an update by another session only because no      *)
(* object is ahead of its row; and it must hold already of the row that a  *)
(* get has fetched and not yet given to its object.  That no object is     *)
(* ahead needs that an atomic update never sends version 0, which the      *)
(* server takes for a blind one.                                           *)
(***************************************************************************)
EXTENDS Orm, EasyDBProofs

\* A session that took a row's version and values is not ahead of the row; with its version it
\* has its values; and it has the version when it wrote the row itself.
Agrees(d, w, b, s, key, version, vals) ==
  key \in DOMAIN d =>
    /\ key \notin b => /\ version <= d[key].ver
                       /\ version = d[key].ver => vals = d[key].vals
    /\ w[key] = s => version = d[key].ver

Versions == \A k \in DOMAIN data : data[k].ver >= 1

\* What holds of one session.
SessionOK(s) ==
  /\ obj[s] \in [Classes -> Object]
  /\ doing[s] \in Doing
  /\ seen[s] \in [Classes -> Seq(Value)]
  /\ \A t \in Classes :
       /\ obj[s][t].pk <= row_num
       /\ obj[s][t].pk # 0 => obj[s][t].version >= 1
       /\ Agrees(data, writer, blindly, s, <<t, obj[s][t].pk>>, obj[s][t].version, seen[s][t])
  /\ doing[s].op = "get" =>
       /\ doing[s].id <= row_num /\ doing[s].version >= 1 /\ Len(doing[s].vals) = 2
       /\ Agrees(data, writer, blindly, s, <<ACCOUNT, doing[s].id>>, doing[s].version,
                 doing[s].vals)

Shapes ==
  /\ obj \in [Sessions -> [Classes -> Object]]
  /\ DOMAIN doing = Sessions /\ doing = [s \in Sessions |-> doing[s]]
  /\ DOMAIN seen = Sessions /\ seen = [s \in Sessions |-> seen[s]]

RaisedOK == raised \in {Nothing} \cup [exception : Exceptions, session : Sessions]

HistoryOK == writer \in [DOMAIN data -> Sessions] /\ blindly \subseteq DOMAIN data

OrmIInv ==
  /\ IInv /\ Versions /\ Shapes /\ RaisedOK /\ HistoryOK
  /\ \A s \in Sessions : SessionOK(s)

-----------------------------------------------------------------------------
(***************************************************************************)
(* What a step of one session does to the others.                          *)
(***************************************************************************)
\* No row comes back, and one that changes was written by s: to a higher version, or blindly.
WrittenBy(s) ==
  \A t \in Classes, id \in 0..row_num :
    LET key == <<t, id>> IN
    key \in DOMAIN data' =>
      /\ key \in DOMAIN data
      /\ key \in blindly => key \in blindly'
      /\ \/ data'[key] = data[key] /\ writer'[key] = writer[key]
         \/ writer'[key] = s /\ (key \in blindly' \/ data'[key].ver > data[key].ver)

Others(s) ==
  \A x \in Sessions \ {s} : obj'[x] = obj[x] /\ doing'[x] = doing[x] /\ seen'[x] = seen[x]

LEMMA OtherAgrees ==
  ASSUME IInv, IInv', NEW s \in Sessions, WrittenBy(s), NEW x \in Sessions \ {s},
         NEW t \in Classes, NEW id \in 0..row_num, NEW version \in Nat, NEW vals,
         Agrees(data, writer, blindly, x, <<t, id>>, version, vals)
  PROVE  Agrees(data', writer', blindly', x, <<t, id>>, version, vals)
<1> DEFINE key == <<t, id>>
<1> SUFFICES ASSUME key \in DOMAIN data'
             PROVE  /\ key \notin blindly' =>
                         /\ version <= data'[key].ver
                         /\ version = data'[key].ver => vals = data'[key].vals
                    /\ writer'[key] = x => version = data'[key].ver
  BY DEF Agrees
<1>1. /\ key \in DOMAIN data
      /\ key \in blindly => key \in blindly'
      /\ \/ data'[key] = data[key] /\ writer'[key] = writer[key]
         \/ writer'[key] = s /\ (key \in blindly' \/ data'[key].ver > data[key].ver)
  BY DEF WrittenBy
<1>2. data[key].ver \in Int /\ data'[key].ver \in Int
  BY <1>1 DEF IInv, TypeOK
<1> QED
  BY <1>1, <1>2 DEF Agrees

LEMMA OtherSessionOK ==
  ASSUME OrmIInv, IInv', NEW s \in Sessions, WrittenBy(s), Others(s), row_num <= row_num',
         NEW x \in Sessions \ {s}
  PROVE  SessionOK(x)'
<1>1. SessionOK(x)
  BY DEF OrmIInv
<1>2. obj'[x] = obj[x] /\ doing'[x] = doing[x] /\ seen'[x] = seen[x]
  BY DEF Others
<1>3. row_num \in Nat /\ row_num' \in Nat
  BY DEF OrmIInv, IInv, TypeOK
<1>4. ASSUME NEW t \in Classes
      PROVE  /\ obj[x][t].pk <= row_num'
             /\ Agrees(data', writer', blindly', x, <<t, obj[x][t].pk>>, obj[x][t].version,
                       seen[x][t])
  <2>1. obj[x] \in [Classes -> Object] /\ obj[x][t].pk <= row_num
    BY <1>1 DEF SessionOK
  <2>2. obj[x][t].pk \in 0..row_num /\ obj[x][t].version \in Nat
    BY <1>3, <2>1 DEF Object
  <2>3. Agrees(data, writer, blindly, x, <<t, obj[x][t].pk>>, obj[x][t].version, seen[x][t])
    BY <1>1 DEF SessionOK
  <2>4. IInv
    BY DEF OrmIInv
  <2>5. Agrees(data', writer', blindly', x, <<t, obj[x][t].pk>>, obj[x][t].version, seen[x][t])
    BY <2>2, <2>3, <2>4, OtherAgrees
  <2> QED
    BY <1>3, <2>2, <2>5
<1>5. ASSUME doing[x].op = "get"
      PROVE  /\ doing[x].id <= row_num'
             /\ Agrees(data', writer', blindly', x, <<ACCOUNT, doing[x].id>>, doing[x].version,
                       doing[x].vals)
  <2>1. doing[x].id \in 0..row_num /\ doing[x].version \in Nat
    BY <1>1, <1>3, <1>5 DEF SessionOK, Doing
  <2> QED
    BY <1>1, <1>3, <1>5, <2>1, OtherAgrees DEF SessionOK, OrmIInv, Classes
<1> QED
  BY <1>1, <1>2, <1>4, <1>5 DEF SessionOK

\* Such a step has to keep only what concerns its own session.
LEMMA OneSession ==
  ASSUME OrmIInv, NEW s \in Sessions, WrittenBy(s), Others(s), row_num <= row_num',
         IInv', Versions', Shapes', RaisedOK', HistoryOK', SessionOK(s)'
  PROVE  OrmIInv'
BY OtherSessionOK DEF OrmIInv

\* A step that writes nothing.
LEMMA NothingWritten ==
  ASSUME OrmIInv, NEW s \in Sessions, UNCHANGED <<data, row_num, writer, blindly>>, IInv'
  PROVE  WrittenBy(s) /\ row_num <= row_num' /\ Versions' /\ HistoryOK'
<1>1. row_num \in Nat
  BY DEF OrmIInv, IInv, TypeOK
<1> QED
  BY <1>1 DEF OrmIInv, WrittenBy, Versions, HistoryOK

LEMMA SameRowAgrees ==
  ASSUME NEW x, NEW key, NEW version, NEW vals,
         Agrees(data, writer, blindly, x, key, version, vals),
         key \in DOMAIN data' => /\ key \in DOMAIN data
                                 /\ data'[key] = data[key] /\ writer'[key] = writer[key]
                                 /\ key \in blindly => key \in blindly'
  PROVE  Agrees(data', writer', blindly', x, key, version, vals)
BY DEF Agrees

-----------------------------------------------------------------------------
(***************************************************************************)
(* save.                                                                   *)
(***************************************************************************)
LEMMA RowsTyped ==
  ASSUME OrmIInv, NEW s \in Sessions, NEW t \in Classes, NEW vals \in Rows(s, t)
  PROVE  vals \in Seq(Value) /\ t \in Int
<1>1. \A n \in Contents : Number(n) \in Value
  BY OrmAssumption DEF Number, Value, Kinds
<1>2. obj[s][USER].pk \in Int
  BY DEF OrmIInv, Shapes, Object, Classes
<1>3. Ref(obj[s][USER].pk) \in Value
  BY <1>2 DEF Ref, Value, Kinds
<1>4. CASE t = USER
  BY <1>1, <1>4 DEF Rows, USER
<1>5. CASE t # USER
  <2>1. PICK n \in Contents : vals = <<Ref(obj[s][USER].pk), Number(n)>>
    BY <1>5 DEF Rows
  <2>2. Number(n) \in Value
    BY <1>1
  <2> QED
    BY <1>3, <2>1, <2>2 DEF Classes, USER, ACCOUNT
<1> QED
  BY <1>4, <1>5 DEF Classes, USER, ACCOUNT

\* The end of a command that raised an exception, or of one that is sent again.
LEMMA UnchangedSession ==
  ASSUME OrmIInv, IInv', NEW s \in Sessions,
         UNCHANGED <<data, row_num, obj, seen, writer, blindly>>, RaisedOK',
         \E d \in Doing : d.op # "get" /\ doing' = [doing EXCEPT ![s] = d]
  PROVE  OrmIInv'
<1>1. PICK d \in Doing : d.op # "get" /\ doing' = [doing EXCEPT ![s] = d]
  OBVIOUS
<1>2. WrittenBy(s) /\ row_num <= row_num' /\ Versions' /\ HistoryOK'
  BY NothingWritten
<1>3. Shapes' /\ Others(s) /\ doing'[s] = d
  BY <1>1 DEF OrmIInv, Shapes, Others
<1>4. SessionOK(s)
  BY DEF OrmIInv
<1>5. SessionOK(s)'
  BY <1>1, <1>3, <1>4 DEF SessionOK
<1> QED
  BY <1>2, <1>3, <1>5, OneSession

LEMMA EndCallDoing ==
  ASSUME NEW s, EndCall(s)
  PROVE  \E d \in Doing : d.op # "get" /\ doing' = [doing EXCEPT ![s] = d]
BY DEF EndCall, Doing

LEMMA GoOnDoing ==
  ASSUME NEW s, NEW tables \in (SUBSET Classes) \ {{}}, GoOn(s, tables)
  PROVE  \E d \in Doing : d.op # "get" /\ doing' = [doing EXCEPT ![s] = d]
BY DEF GoOn, Doing

LEMMA RaiseRaised ==
  ASSUME NEW s \in Sessions, NEW exception \in Exceptions, Raise(s, exception)
  PROVE  RaisedOK' /\ EndCall(s)
BY DEF Raise, RaisedOK

\* A command of s stored the row of its object.
LEMMA StoredStep ==
  ASSUME OrmIInv, IInv', NEW s \in Sessions, NEW t \in Classes, NEW rest \in SUBSET Classes,
         NEW pk \in Nat \ {0}, NEW version \in Nat \ {0}, NEW vals \in Seq(Value),
         Stored(s, t, rest, pk, version, vals),
         data' = [k \in DOMAIN data \cup {<<t, pk>>} |->
                    IF k = <<t, pk>> THEN [vals |-> vals, ver |-> version] ELSE data[k]],
         row_num <= row_num', pk <= row_num',
         <<t, pk>> \in DOMAIN data =>
           <<t, pk>> \in blindly' \/ version > data[<<t, pk>>].ver,
         <<t, pk>> \notin DOMAIN data => pk > row_num,
         blindly \subseteq blindly', blindly' \subseteq DOMAIN data'
  PROVE  OrmIInv'
<1> DEFINE key == <<t, pk>>
<1>1. /\ DOMAIN data' = DOMAIN data \cup {key}
      /\ data'[key].vals = vals /\ data'[key].ver = version
      /\ \A k \in DOMAIN data : k # key => data'[k] = data[k]
  OBVIOUS
<1>2. row_num \in Nat /\ row_num' \in Nat
  BY DEF OrmIInv, IInv, TypeOK
<1>3. /\ obj' = [obj EXCEPT ![s][t] = [pk |-> pk, version |-> version]]
      /\ seen' = [seen EXCEPT ![s][t] = vals]
      /\ writer' = [k \in DOMAIN data' |-> IF k = key THEN s ELSE writer[k]]
      /\ IF rest = {} THEN Return(s) ELSE GoOn(s, rest)
  BY DEF Stored
<1>4. raised' = Nothing /\ \E d \in Doing : d.op # "get" /\ doing' = [doing EXCEPT ![s] = d]
  <2>1. CASE rest = {}
    BY <1>3, <2>1, EndCallDoing DEF Return
  <2>2. CASE rest # {}
    <3>1. GoOn(s, rest)
      BY <1>3, <2>2
    <3>2. rest \in (SUBSET Classes) \ {{}}
      BY <2>2
    <3>3. \E d \in Doing : d.op # "get" /\ doing' = [doing EXCEPT ![s] = d]
      BY <3>1, <3>2, GoOnDoing
    <3>4. raised' = Nothing
      BY <3>1 DEF GoOn
    <3> QED
      BY <3>3, <3>4
  <2> QED
    BY <2>1, <2>2
<1>5. PICK d \in Doing : d.op # "get" /\ doing' = [doing EXCEPT ![s] = d]
  BY <1>4
<1>6. obj \in [Sessions -> [Classes -> Object]] /\ seen[s] \in [Classes -> Seq(Value)]
  BY DEF OrmIInv, Shapes, SessionOK
<1>7. /\ obj' \in [Sessions -> [Classes -> Object]]
      /\ obj'[s][t].pk = pk /\ obj'[s][t].version = version
      /\ \A u \in Classes \ {t} : obj'[s][u] = obj[s][u]
      /\ \A x \in Sessions \ {s} : obj'[x] = obj[x]
  <2> DEFINE o == [pk |-> pk, version |-> version]
  <2>1. o \in Object /\ o.pk = pk /\ o.version = version
    BY DEF Object
  <2>2. obj' = [obj EXCEPT ![s][t] = o]
    BY <1>3
  <2> HIDE DEF o
  <2> QED
    BY <1>6, <2>1, <2>2
<1>8. /\ DOMAIN seen' = Sessions /\ seen' = [x \in Sessions |-> seen'[x]]
      /\ seen'[s] \in [Classes -> Seq(Value)] /\ seen'[s][t] = vals
      /\ \A u \in Classes \ {t} : seen'[s][u] = seen[s][u]
      /\ \A x \in Sessions \ {s} : seen'[x] = seen[x]
  BY <1>3, <1>6 DEF OrmIInv, Shapes
<1>9. Shapes' /\ Others(s) /\ doing'[s] = d
  BY <1>5, <1>7, <1>8 DEF OrmIInv, Shapes, Others
<1>10. RaisedOK'
  BY <1>4 DEF RaisedOK
<1>11. HistoryOK'
  BY <1>1, <1>3 DEF OrmIInv, HistoryOK
<1>12. Versions'
  BY <1>1 DEF OrmIInv, Versions
<1>13. WrittenBy(s)
  <2> SUFFICES ASSUME NEW u \in Classes, NEW id \in 0..row_num, <<u, id>> \in DOMAIN data'
               PROVE  /\ <<u, id>> \in DOMAIN data
                      /\ <<u, id>> \in blindly => <<u, id>> \in blindly'
                      /\ \/ /\ data'[<<u, id>>] = data[<<u, id>>]
                            /\ writer'[<<u, id>>] = writer[<<u, id>>]
                         \/ /\ writer'[<<u, id>>] = s
                            /\ \/ <<u, id>> \in blindly'
                               \/ data'[<<u, id>>].ver > data[<<u, id>>].ver
    BY DEF WrittenBy
  <2>1. CASE <<u, id>> = key
    BY <1>1, <1>2, <1>3, <2>1
  <2>2. CASE <<u, id>> # key
    BY <1>1, <1>3, <2>2
  <2> QED
    BY <2>1, <2>2
<1>14. ASSUME NEW u \in Classes
       PROVE  /\ obj'[s][u].pk <= row_num'
              /\ obj'[s][u].pk # 0 => obj'[s][u].version >= 1
              /\ Agrees(data', writer', blindly', s, <<u, obj'[s][u].pk>>, obj'[s][u].version,
                        seen'[s][u])
  <2>1. CASE u = t
    <3>1. Agrees(data', writer', blindly', s, key, version, vals)
      BY <1>1 DEF Agrees
    <3>2. obj'[s][u].pk = pk /\ obj'[s][u].version = version /\ seen'[s][u] = vals
      BY <1>7, <1>8, <2>1
    <3> QED
      BY <2>1, <3>1, <3>2
  <2>2. CASE u # t
    <3>1. /\ obj[s][u].pk <= row_num /\ obj[s][u].pk \in Nat
          /\ obj[s][u].pk # 0 => obj[s][u].version >= 1
          /\ Agrees(data, writer, blindly, s, <<u, obj[s][u].pk>>, obj[s][u].version,
                    seen[s][u])
      BY <1>6 DEF OrmIInv, SessionOK, Object
    <3>2. <<u, obj[s][u].pk>> # key
      BY <2>2
    <3>3. Agrees(data', writer', blindly', s, <<u, obj[s][u].pk>>, obj[s][u].version,
                 seen[s][u])
      BY <1>1, <1>3, <3>1, <3>2, SameRowAgrees
    <3>4. obj'[s][u] = obj[s][u] /\ seen'[s][u] = seen[s][u]
      BY <1>7, <1>8, <2>2
    <3> QED
      BY <1>2, <3>1, <3>3, <3>4
  <2> QED
    BY <2>1, <2>2
<1>15. SessionOK(s)'
  BY <1>5, <1>7, <1>8, <1>9, <1>14 DEF SessionOK
<1> QED
  BY <1>9, <1>10, <1>11, <1>12, <1>13, <1>15, OneSession

\* What a rejected command leaves alone, and its code.
LEMMA Rejected ==
  ASSUME NEW code, code # "OK", Fail(code)
  PROVE  UNCHANGED <<data, row_num>> /\ response'.code = code
BY DEF Fail, Error

LEMMA InsertNewStep ==
  ASSUME OrmIInv, NEW s \in Sessions, NEW t \in Classes, NEW rest \in SUBSET Classes,
         InsertNew(s, t, rest)
  PROVE  OrmIInv'
<1>1. PICK vals \in Rows(s, t) :
        /\ Insert(t, vals)
        /\ IF response'.code = "OK"
           THEN Stored(s, t, rest, response'.id, response'.version, vals)
           ELSE /\ IF InsertException(response'.code) # "none"
                   THEN Raise(s, InsertException(response'.code))
                   ELSE GoOn(s, rest \cup {t})
                /\ UNCHANGED <<obj, seen, writer>>
  BY DEF InsertNew
<1>2. vals \in Seq(Value) /\ t \in Int
  BY RowsTyped
<1>3. IInv /\ blindly' = blindly /\ row_num \in Nat
  BY DEF OrmIInv, IInv, TypeOK, InsertNew
<1>4. IInv'
  BY <1>1, <1>2, <1>3, InsertKeepsIInv
<1>5. CASE InsertCode(t, vals) = "OK"
  <2>1. /\ data' = [k \in DOMAIN data \cup {<<t, row_num + 1>>} |->
                      IF k = <<t, row_num + 1>> THEN [vals |-> vals, ver |-> 1] ELSE data[k]]
        /\ row_num' = row_num + 1
        /\ response' = [code |-> "OK", id |-> row_num + 1, version |-> 1]
    BY <1>1, <1>5 DEF Insert, NewId
  <2>2. Stored(s, t, rest, row_num + 1, 1, vals)
    BY <1>1, <2>1
  <2>3. <<t, row_num + 1>> \notin DOMAIN data
    BY <1>3 DEF IInv, TypeOK
  <2>4. blindly \subseteq blindly' /\ blindly' \subseteq DOMAIN data'
    BY <1>3, <2>1 DEF OrmIInv, HistoryOK
  <2> DEFINE pk == row_num + 1
  <2>5. /\ pk \in Nat \ {0} /\ 1 \in Nat \ {0} /\ pk > row_num
        /\ row_num <= row_num' /\ pk <= row_num'
    BY <1>3, <2>1
  <2> HIDE DEF pk
  <2>6. data' = [k \in DOMAIN data \cup {<<t, pk>>} |->
                   IF k = <<t, pk>> THEN [vals |-> vals, ver |-> 1] ELSE data[k]]
    BY <2>1 DEF pk
  <2>7. Stored(s, t, rest, pk, 1, vals) /\ <<t, pk>> \notin DOMAIN data
    BY <2>2, <2>3 DEF pk
  <2> QED
    BY <1>2, <1>4, <2>4, <2>5, <2>6, <2>7, StoredStep
<1>6. CASE InsertCode(t, vals) # "OK"
  <2>1. Fail(InsertCode(t, vals))
    BY <1>1, <1>6 DEF Insert
  <2>2. UNCHANGED <<data, row_num>> /\ response'.code # "OK"
    BY <1>6, <2>1, Rejected
  <2>3. UNCHANGED <<obj, seen, writer>>
    BY <1>1, <2>2
  <2>4. CASE InsertException(response'.code) # "none"
    <3>1. InsertException(response'.code) \in Exceptions
      BY <2>4 DEF InsertException, Exceptions
    <3>2. Raise(s, InsertException(response'.code))
      BY <1>1, <2>2, <2>4
    <3>3. RaisedOK' /\ EndCall(s)
      BY <3>1, <3>2, RaiseRaised
    <3>4. \E d \in Doing : d.op # "get" /\ doing' = [doing EXCEPT ![s] = d]
      BY <3>3, EndCallDoing
    <3> QED
      BY <1>3, <1>4, <2>2, <2>3, <3>3, <3>4, UnchangedSession
  <2>5. CASE InsertException(response'.code) = "none"
    <3>1. GoOn(s, rest \cup {t})
      BY <1>1, <2>2, <2>5
    <3>2. rest \cup {t} \in (SUBSET Classes) \ {{}}
      OBVIOUS
    <3>3. \E d \in Doing : d.op # "get" /\ doing' = [doing EXCEPT ![s] = d]
      BY <3>1, <3>2, GoOnDoing
    <3>4. RaisedOK'
      BY <3>1 DEF GoOn, RaisedOK
    <3> QED
      BY <1>3, <1>4, <2>2, <2>3, <3>3, <3>4, UnchangedSession
  <2> QED
    BY <2>4, <2>5
<1> QED
  BY <1>5, <1>6

LEMMA UpdateOldStep ==
  ASSUME OrmIInv, NEW s \in Sessions, NEW t \in Classes, NEW atomic \in BOOLEAN,
         UpdateOld(s, t, atomic)
  PROVE  OrmIInv'
<1> DEFINE pk == obj[s][t].pk
           key == <<t, pk>>
           sent == SentVersion(s, t, atomic)
<1>1. PICK vals \in Rows(s, t) :
        /\ Update(t, pk, sent, vals)
        /\ IF response'.code = "OK"
           THEN /\ Stored(s, t, {}, pk, response'.version, vals)
                /\ blindly' = IF atomic THEN blindly ELSE blindly \cup {key}
           ELSE /\ Raise(s, UpdateException(response'.code))
                /\ UNCHANGED <<obj, seen, writer, blindly>>
  BY DEF UpdateOld
<1>2. vals \in Seq(Value) /\ t \in Int
  BY RowsTyped
<1>3. IInv /\ row_num \in Nat /\ SessionOK(s)
  BY DEF OrmIInv, IInv, TypeOK
<1>4. pk \in Nat \ {0} /\ obj[s][t].version \in Nat \ {0} /\ pk <= row_num
  <2>1. obj[s][t].pk \in Nat /\ obj[s][t].version \in Nat
    BY DEF OrmIInv, Shapes, Object
  <2>2. obj[s][t].pk # 0
    BY DEF UpdateOld
  <2>3. obj[s][t].pk <= row_num /\ obj[s][t].version >= 1
    BY <1>3, <2>2 DEF SessionOK
  <2> QED
    BY <2>1, <2>2, <2>3
<1>5. sent \in Nat /\ sent = IF atomic THEN obj[s][t].version ELSE 0
  BY <1>4 DEF SentVersion
<1>6. IInv'
  BY <1>1, <1>2, <1>3, <1>4, <1>5, UpdateKeepsIInv
<1> HIDE DEF sent
<1>7. CASE UpdateCode(t, pk, sent, vals) = "OK"
  <2>1. key \in DOMAIN data /\ (sent # 0 => data[key].ver = sent)
    BY <1>7 DEF UpdateCode, Exists, ColumnError
  <2>2. /\ data' = [data EXCEPT ![key] = [vals |-> vals, ver |-> sent + 1]]
        /\ row_num' = row_num /\ response' = [code |-> "OK", version |-> sent + 1]
    BY <1>1, <1>7 DEF Update, NewVersion
  <2>3. data' = [k \in DOMAIN data \cup {key} |->
                   IF k = key THEN [vals |-> vals, ver |-> sent + 1] ELSE data[k]]
    BY <1>3, <2>1, <2>2 DEF IInv, TypeOK
  <2>4. /\ Stored(s, t, {}, pk, sent + 1, vals)
        /\ blindly' = IF atomic THEN blindly ELSE blindly \cup {key}
    BY <1>1, <2>2
  <2>5. key \in blindly' \/ sent + 1 > data[key].ver
    BY <1>4, <1>5, <2>1, <2>4
  <2>6. blindly \subseteq blindly' /\ blindly' \subseteq DOMAIN data'
    BY <2>1, <2>3, <2>4 DEF OrmIInv, HistoryOK
  <2>7. row_num <= row_num' /\ pk <= row_num' /\ sent + 1 \in Nat \ {0}
    BY <1>3, <1>4, <1>5, <2>2
  <2> HIDE DEF pk
  <2> QED
    BY <1>2, <1>4, <1>6, <2>1, <2>3, <2>4, <2>5, <2>6, <2>7, StoredStep
<1>8. CASE UpdateCode(t, pk, sent, vals) # "OK"
  <2>1. Fail(UpdateCode(t, pk, sent, vals))
    BY <1>1, <1>8 DEF Update
  <2>2. UNCHANGED <<data, row_num>> /\ response'.code # "OK"
    BY <1>8, <2>1, Rejected
  <2>3. Raise(s, UpdateException(response'.code)) /\ UNCHANGED <<obj, seen, writer, blindly>>
    BY <1>1, <2>2
  <2>4. UpdateException(response'.code) \in Exceptions
    BY DEF UpdateException, Exceptions
  <2>5. RaisedOK' /\ EndCall(s)
    BY <2>3, <2>4, RaiseRaised
  <2>6. \E d \in Doing : d.op # "get" /\ doing' = [doing EXCEPT ![s] = d]
    BY <2>5, EndCallDoing
  <2> QED
    BY <1>6, <2>2, <2>3, <2>5, <2>6, UnchangedSession
<1> QED
  BY <1>7, <1>8

-----------------------------------------------------------------------------
(***************************************************************************)
(* get, delete and new objects.                                            *)
(***************************************************************************)
\* What a get answers, and that it is not ahead of the row.
LEMMA GetOK ==
  ASSUME OrmIInv, NEW s \in Sessions, NEW t \in Classes, NEW id \in Int,
         Get(t, id), response'.code = "OK"
  PROVE  /\ <<t, id>> \in DOMAIN data /\ id \in 1..row_num
         /\ response'.version = data[<<t, id>>].ver /\ response'.version \in Nat \ {0}
         /\ response'.vals = data[<<t, id>>].vals /\ response'.vals \in Seq(Value)
         /\ Len(response'.vals) = Len(Schema[t])
         /\ Agrees(data, writer, blindly, s, <<t, id>>, response'.version, response'.vals)
<1>1. <<t, id>> \in DOMAIN data
  BY DEF Get, Error, Exists
<1>2. response' = [code |-> "OK", version |-> data[<<t, id>>].ver, vals |-> data[<<t, id>>].vals]
  BY <1>1 DEF Get, Error, Exists
<1>3. /\ id \in 1..row_num
      /\ data[<<t, id>>].ver \in Int /\ data[<<t, id>>].ver >= 1
      /\ data[<<t, id>>].vals \in Seq(Value)
      /\ Len(data[<<t, id>>].vals) = Len(Schema[t])
  BY <1>1 DEF OrmIInv, IInv, TypeOK, RowsWellTyped, Versions
<1> QED
  BY <1>1, <1>2, <1>3 DEF Agrees

LEMMA ClassesAreInts == Classes \subseteq Int
BY DEF Classes, USER, ACCOUNT

\* A step that reads, or only makes new objects, and leaves the session s in order.
LEMMA ReadStep ==
  ASSUME OrmIInv, IInv', NEW s \in Sessions, UNCHANGED <<data, row_num, writer, blindly>>,
         NEW o \in [Classes -> Object], NEW d \in Doing, NEW v \in [Classes -> Seq(Value)],
         obj' = [obj EXCEPT ![s] = o], doing' = [doing EXCEPT ![s] = d],
         seen' = [seen EXCEPT ![s] = v], RaisedOK',
         \A t \in Classes :
           /\ o[t].pk <= row_num
           /\ o[t].pk # 0 => o[t].version >= 1
           /\ Agrees(data, writer, blindly, s, <<t, o[t].pk>>, o[t].version, v[t]),
         d.op = "get" =>
           /\ d.id <= row_num /\ d.version >= 1 /\ Len(d.vals) = 2
           /\ Agrees(data, writer, blindly, s, <<ACCOUNT, d.id>>, d.version, d.vals)
  PROVE  OrmIInv'
<1>1. WrittenBy(s) /\ row_num <= row_num' /\ Versions' /\ HistoryOK'
  BY NothingWritten
<1>2. obj'[s] = o /\ doing'[s] = d /\ seen'[s] = v
  BY DEF OrmIInv, Shapes
<1>3. Shapes' /\ Others(s)
  BY DEF OrmIInv, Shapes, Others
<1>4. SessionOK(s)'
  BY <1>2 DEF SessionOK
<1> QED
  BY <1>1, <1>3, <1>4, OneSession

\* What ReadStep asks of a session that keeps its objects.
LEMMA KeptObjects ==
  ASSUME OrmIInv, NEW s \in Sessions
  PROVE  /\ obj[s] \in [Classes -> Object] /\ seen[s] \in [Classes -> Seq(Value)]
         /\ obj = [obj EXCEPT ![s] = obj[s]] /\ seen = [seen EXCEPT ![s] = seen[s]]
         /\ doing = [doing EXCEPT ![s] = doing[s]] /\ doing[s] \in Doing
         /\ \A t \in Classes :
              /\ obj[s][t].pk <= row_num
              /\ obj[s][t].pk # 0 => obj[s][t].version >= 1
              /\ Agrees(data, writer, blindly, s, <<t, obj[s][t].pk>>, obj[s][t].version,
                        seen[s][t])
BY DEF OrmIInv, Shapes, SessionOK

\* The row with id 0 does not exist: a new object agrees with anything.
LEMMA NewAgrees ==
  ASSUME OrmIInv, NEW s, NEW t, NEW version, NEW vals
  PROVE  /\ <<t, 0>> \notin DOMAIN data
         /\ Agrees(data, writer, blindly, s, <<t, 0>>, version, vals)
<1>1. <<t, 0>> \notin DOMAIN data
  BY DEF OrmIInv, IInv, TypeOK
<1> QED
  BY <1>1 DEF Agrees

LEMMA NewStep ==
  ASSUME OrmIInv, NEW s \in Sessions, New(s)
  PROVE  OrmIInv'
<1> DEFINE o == [t \in Classes |-> NewObject]
           v == [t \in Classes |-> <<>>]
<1>1. /\ obj' = [obj EXCEPT ![s] = o] /\ seen' = [seen EXCEPT ![s] = v]
      /\ UNCHANGED <<data, row_num, response, writer, blindly, doing>> /\ RaisedOK'
  BY DEF New, RaisedOK, vars
<1>2. IInv' /\ row_num \in Nat
  BY <1>1, ResponseOnly DEF OrmIInv, IInv, TypeOK
<1>3. o \in [Classes -> Object] /\ v \in [Classes -> Seq(Value)]
  BY DEF NewObject, Object
<1>4. \A t \in Classes : o[t].pk = 0 /\ o[t].version = 0
  BY DEF NewObject
<1>5. doing' = [doing EXCEPT ![s] = doing[s]] /\ doing[s] \in Doing /\ doing[s].op # "get"
  BY <1>1, KeptObjects DEF New, Idle
<1> HIDE DEF o, v
<1>6. \A t \in Classes :
        /\ o[t].pk <= row_num
        /\ o[t].pk # 0 => o[t].version >= 1
        /\ Agrees(data, writer, blindly, s, <<t, o[t].pk>>, o[t].version, v[t])
  BY <1>2, <1>4, NewAgrees
<1> QED
  BY <1>1, <1>2, <1>3, <1>5, <1>6, ReadStep

\* A get that finds nothing.
LEMMA GetFailsStep ==
  ASSUME OrmIInv, IInv', NEW s \in Sessions, UNCHANGED <<data, row_num>>,
         Raise(s, "ObjectDoesNotExist"), UNCHANGED <<obj, seen, writer, blindly>>
  PROVE  OrmIInv'
<1>1. RaisedOK' /\ EndCall(s)
  BY RaiseRaised DEF Exceptions
<1>2. \E d \in Doing : d.op # "get" /\ doing' = [doing EXCEPT ![s] = d]
  BY <1>1, EndCallDoing
<1> QED
  BY <1>1, <1>2, UnchangedSession

LEMMA GetUserStep ==
  ASSUME OrmIInv, NEW s \in Sessions, NEW id \in 1..MaxRowId, GetUser(s, id)
  PROVE  OrmIInv'
<1>1. /\ Get(USER, id) /\ UNCHANGED <<writer, blindly>>
      /\ IF response'.code = "OK"
         THEN Got(s, USER, id, response'.version, response'.vals) /\ Return(s)
         ELSE Raise(s, "ObjectDoesNotExist") /\ UNCHANGED <<obj, seen>>
  BY DEF GetUser
<1>2. USER \in Classes /\ USER \in Int /\ id \in Int /\ IInv
  BY DEF Classes, USER, OrmIInv
<1>3. IInv' /\ UNCHANGED <<data, row_num>>
  BY <1>1, <1>2, GetKeepsIInv DEF Get
<1>4. CASE response'.code = "OK"
  <2> DEFINE o == [obj[s] EXCEPT ![USER] = [pk |-> id, version |-> response'.version]]
             v == [seen[s] EXCEPT ![USER] = response'.vals]
             d == [op |-> "idle"]
  <2>1. /\ id \in 1..row_num /\ response'.version \in Nat \ {0}
        /\ response'.vals \in Seq(Value)
        /\ Agrees(data, writer, blindly, s, <<USER, id>>, response'.version, response'.vals)
    BY <1>1, <1>2, <1>4, GetOK
  <2>2. obj' = [obj EXCEPT ![s] = o] /\ seen' = [seen EXCEPT ![s] = v]
    BY <1>1, <1>4 DEF Got
  <2>3. doing' = [doing EXCEPT ![s] = d] /\ d \in Doing /\ d.op # "get" /\ RaisedOK'
    BY <1>1, <1>4 DEF Return, EndCall, Doing, RaisedOK
  <2>4. o \in [Classes -> Object] /\ v \in [Classes -> Seq(Value)]
    BY <1>2, <2>1, KeptObjects DEF Object
  <2>5. /\ o[USER].pk = id /\ o[USER].version = response'.version /\ v[USER] = response'.vals
        /\ \A t \in Classes \ {USER} : o[t] = obj[s][t] /\ v[t] = seen[s][t]
    BY <1>2, KeptObjects
  <2> HIDE DEF o, v, d
  <2>6. \A t \in Classes :
          /\ o[t].pk <= row_num
          /\ o[t].pk # 0 => o[t].version >= 1
          /\ Agrees(data, writer, blindly, s, <<t, o[t].pk>>, o[t].version, v[t])
    BY <2>1, <2>5, KeptObjects
  <2> QED
    BY <1>1, <1>3, <2>2, <2>3, <2>4, <2>6, ReadStep
<1>5. CASE response'.code # "OK"
  BY <1>1, <1>3, <1>5, GetFailsStep
<1> QED
  BY <1>4, <1>5

LEMMA GetAccountStep ==
  ASSUME OrmIInv, NEW s \in Sessions, NEW id \in 1..MaxRowId, GetAccount(s, id)
  PROVE  OrmIInv'
<1> DEFINE d == [op |-> "get", id |-> id, version |-> response'.version, vals |-> response'.vals]
<1>1. /\ Get(ACCOUNT, id) /\ UNCHANGED <<obj, seen, writer, blindly>>
      /\ IF response'.code = "OK"
         THEN doing' = [doing EXCEPT ![s] = d] /\ raised' = Nothing
         ELSE Raise(s, "ObjectDoesNotExist")
  BY DEF GetAccount
<1>2. ACCOUNT \in Classes /\ ACCOUNT \in Int /\ id \in Int /\ IInv
  BY DEF Classes, ACCOUNT, OrmIInv
<1>3. IInv' /\ UNCHANGED <<data, row_num>>
  BY <1>1, <1>2, GetKeepsIInv DEF Get
<1>4. CASE response'.code = "OK"
  <2>1. /\ id \in 1..row_num /\ response'.version \in Nat \ {0}
        /\ response'.vals \in Seq(Value) /\ Len(response'.vals) = Len(Schema[ACCOUNT])
        /\ Agrees(data, writer, blindly, s, <<ACCOUNT, id>>, response'.version, response'.vals)
    BY <1>1, <1>2, <1>4, GetOK
  <2>2. Len(Schema[ACCOUNT]) = 2
    BY OrmAssumption DEF OrmSchema, ACCOUNT
  <2>3. d \in Doing /\ d.op = "get"
    BY <2>1 DEF Doing
  <2>4. /\ d.id <= row_num /\ d.version >= 1 /\ Len(d.vals) = 2
        /\ Agrees(data, writer, blindly, s, <<ACCOUNT, d.id>>, d.version, d.vals)
    BY <2>1, <2>2
  <2>5. RaisedOK' /\ doing' = [doing EXCEPT ![s] = d]
    BY <1>1, <1>4 DEF RaisedOK
  <2>6. obj' = [obj EXCEPT ![s] = obj[s]] /\ seen' = [seen EXCEPT ![s] = seen[s]]
    BY <1>1, KeptObjects
  <2> HIDE DEF d
  <2> QED
    BY <1>1, <1>3, <2>3, <2>4, <2>5, <2>6, KeptObjects, ReadStep
<1>5. CASE response'.code # "OK"
  BY <1>1, <1>3, <1>5, GetFailsStep
<1> QED
  BY <1>4, <1>5

LEMMA GetReferencedStep ==
  ASSUME OrmIInv, NEW s \in Sessions, GetReferenced(s)
  PROVE  OrmIInv'
<1> DEFINE row == doing[s]
           user == row.vals[1].v
           o == [t \in Classes |->
                   IF t = USER THEN [pk |-> user, version |-> response'.version]
                   ELSE [pk |-> row.id, version |-> row.version]]
           v == [t \in Classes |-> IF t = USER THEN response'.vals ELSE row.vals]
           d == [op |-> "idle"]
<1>1. /\ row.op = "get" /\ Get(USER, user) /\ UNCHANGED <<writer, blindly>>
      /\ IF response'.code = "OK"
         THEN /\ obj' = [obj EXCEPT ![s] = o] /\ seen' = [seen EXCEPT ![s] = v]
              /\ Return(s)
         ELSE Raise(s, "ObjectDoesNotExist") /\ UNCHANGED <<obj, seen>>
  BY DEF GetReferenced
<1>2. /\ row.id \in Nat \ {0} /\ row.version \in Nat /\ row.vals \in Seq(Value)
      /\ row.id <= row_num /\ row.version >= 1 /\ Len(row.vals) = 2
      /\ Agrees(data, writer, blindly, s, <<ACCOUNT, row.id>>, row.version, row.vals)
  <2>1. SessionOK(s) /\ row \in Doing
    BY DEF OrmIInv, SessionOK
  <2>2. row.id \in Nat \ {0} /\ row.version \in Nat /\ row.vals \in Seq(Value)
    BY <1>1, <2>1 DEF Doing
  <2> QED
    BY <1>1, <2>1, <2>2 DEF SessionOK
<1>3. user \in Int
  <2>1. row.vals[1] \in Value
    BY <1>2
  <2> QED
    BY <2>1 DEF Value
<1>4. USER \in Classes /\ USER \in Int /\ USER # ACCOUNT /\ Classes = {USER, ACCOUNT} /\ IInv
  BY DEF Classes, USER, ACCOUNT, OrmIInv
<1>5. IInv' /\ UNCHANGED <<data, row_num>>
  BY <1>1, <1>3, <1>4, GetKeepsIInv DEF Get
<1>6. CASE response'.code = "OK"
  <2>1. /\ user \in 1..row_num /\ response'.version \in Nat \ {0}
        /\ response'.vals \in Seq(Value)
        /\ Agrees(data, writer, blindly, s, <<USER, user>>, response'.version, response'.vals)
    BY <1>1, <1>3, <1>4, <1>6, GetOK
  <2>2. obj' = [obj EXCEPT ![s] = o] /\ seen' = [seen EXCEPT ![s] = v]
    BY <1>1, <1>6
  <2>3. doing' = [doing EXCEPT ![s] = d] /\ d \in Doing /\ d.op # "get" /\ RaisedOK'
    BY <1>1, <1>6 DEF Return, EndCall, Doing, RaisedOK
  <2>4. o \in [Classes -> Object] /\ v \in [Classes -> Seq(Value)]
    BY <1>2, <2>1 DEF Object
  <2>5. /\ o[USER].pk = user /\ o[USER].version = response'.version /\ v[USER] = response'.vals
        /\ o[ACCOUNT].pk = row.id /\ o[ACCOUNT].version = row.version /\ v[ACCOUNT] = row.vals
    BY <1>4
  <2> HIDE DEF o, v, d, user, row
  <2>6. ASSUME NEW t \in Classes
        PROVE  /\ o[t].pk <= row_num
               /\ o[t].pk # 0 => o[t].version >= 1
               /\ Agrees(data, writer, blindly, s, <<t, o[t].pk>>, o[t].version, v[t])
    <3>1. CASE t = USER
      BY <2>1, <2>5, <3>1
    <3>2. CASE t = ACCOUNT
      BY <1>2, <2>5, <3>2
    <3> QED
      BY <1>4, <2>6, <3>1, <3>2
  <2> QED
    BY <1>1, <1>5, <2>2, <2>3, <2>4, <2>6, ReadStep
<1>7. CASE response'.code # "OK"
  BY <1>1, <1>5, <1>7, GetFailsStep
<1> QED
  BY <1>6, <1>7

\* Rows go, and what is left is as it was.
LEMMA DeleteStep ==
  ASSUME OrmIInv, NEW s \in Sessions, NEW t \in Classes, Delete(s, t)
  PROVE  OrmIInv'
<1>0. IInv /\ t \in Int /\ obj[s][t].pk \in Int /\ row_num \in Nat
  BY ClassesAreInts DEF OrmIInv, IInv, TypeOK, Shapes, Object
<1>1. CASE obj[s][t].pk = 0
  <2>1. Raise(s, "PacketError") /\ UNCHANGED <<data, row_num, response, obj, seen, writer, blindly>>
    BY <1>1 DEF Delete, vars
  <2>2. RaisedOK' /\ EndCall(s)
    BY <2>1, RaiseRaised DEF Exceptions
  <2>3. \E d \in Doing : d.op # "get" /\ doing' = [doing EXCEPT ![s] = d]
    BY <2>2, EndCallDoing
  <2>4. IInv'
    BY <1>0, <2>1, ResponseOnly DEF IInv, TypeOK
  <2> QED
    BY <2>1, <2>2, <2>3, <2>4, UnchangedSession
<1>2. CASE obj[s][t].pk # 0
  <2> DEFINE pk == obj[s][t].pk
             d == [op |-> "idle"]
  <2>1. /\ Drop(t, pk)
        /\ IF response'.code = "OK"
           THEN /\ Return(s)
                /\ obj' = [obj EXCEPT ![s][t] = NewObject]
                /\ seen' = [seen EXCEPT ![s][t] = <<>>]
           ELSE Raise(s, "ObjectDoesNotExist") /\ UNCHANGED <<obj, seen>>
        /\ writer' = [k \in DOMAIN data' |-> writer[k]]
        /\ blindly' = blindly \cap DOMAIN data'
    BY <1>2 DEF Delete
  <2>2. IInv'
    BY <1>0, <2>1, DropKeepsIInv
  <2>3. /\ DOMAIN data' \subseteq DOMAIN data /\ row_num' = row_num
        /\ \A k \in DOMAIN data' : data'[k] = data[k]
    <3>1. CASE Fail("BAD_TABLE")
      BY <3>1 DEF Fail
    <3>2. CASE data' = Without(Doomed(<<t, pk>>)) /\ UNCHANGED row_num
      BY <3>2 DEF Without
    <3> QED
      BY <2>1, <3>1, <3>2 DEF Drop
  <2> HIDE DEF pk
  <2>4. WrittenBy(s)
    BY <2>1, <2>3 DEF WrittenBy
  <2>5. Versions' /\ HistoryOK'
    BY <2>1, <2>3 DEF OrmIInv, Versions, HistoryOK
  <2>6. doing' = [doing EXCEPT ![s] = d] /\ d \in Doing /\ d.op # "get" /\ RaisedOK'
    <3>1. CASE response'.code = "OK"
      BY <2>1, <3>1 DEF Return, EndCall, Doing, RaisedOK
    <3>2. CASE response'.code # "OK"
      BY <2>1, <3>2 DEF Raise, EndCall, Doing, RaisedOK, Exceptions
    <3> QED
      BY <3>1, <3>2
  <2>7. /\ obj' \in [Sessions -> [Classes -> Object]]
        /\ \A x \in Sessions \ {s} : obj'[x] = obj[x]
        /\ \A u \in Classes : obj'[s][u] = obj[s][u]
                              \/ (u = t /\ obj'[s][u] = NewObject /\ response'.code = "OK")
    <3>1. NewObject \in Object
      BY DEF NewObject, Object
    <3>2. obj \in [Sessions -> [Classes -> Object]]
      BY DEF OrmIInv, Shapes
    <3>3. CASE response'.code = "OK"
      <4>1. obj' = [obj EXCEPT ![s][t] = NewObject]
        BY <2>1, <3>3
      <4> QED
        BY <3>1, <3>2, <3>3, <4>1
    <3>4. CASE response'.code # "OK"
      <4>1. obj' = obj
        BY <2>1, <3>4
      <4> QED
        BY <3>2, <4>1
    <3> QED
      BY <3>3, <3>4
  <2>8. /\ DOMAIN seen' = Sessions /\ seen' = [x \in Sessions |-> seen'[x]]
        /\ \A x \in Sessions \ {s} : seen'[x] = seen[x]
        /\ seen'[s] \in [Classes -> Seq(Value)]
        /\ \A u \in Classes : (u = t /\ response'.code = "OK") \/ seen'[s][u] = seen[s][u]
    <3>1. /\ DOMAIN seen = Sessions /\ seen = [x \in Sessions |-> seen[x]]
          /\ seen[s] \in [Classes -> Seq(Value)] /\ <<>> \in Seq(Value)
      BY KeptObjects DEF OrmIInv, Shapes
    <3>2. CASE response'.code = "OK"
      <4>1. seen' = [seen EXCEPT ![s][t] = <<>>]
        BY <2>1, <3>2
      <4> QED
        BY <3>1, <3>2, <4>1
    <3>3. CASE response'.code # "OK"
      <4>1. seen' = seen
        BY <2>1, <3>3
      <4> QED
        BY <3>1, <4>1
    <3> QED
      BY <3>2, <3>3
  <2>9. Shapes' /\ Others(s)
    BY <2>6, <2>7, <2>8 DEF OrmIInv, Shapes, Others
  <2>10. ASSUME NEW u \in Classes
         PROVE  /\ obj'[s][u].pk <= row_num'
                /\ obj'[s][u].pk # 0 => obj'[s][u].version >= 1
                /\ Agrees(data', writer', blindly', s, <<u, obj'[s][u].pk>>, obj'[s][u].version,
                          seen'[s][u])
    <3>1. CASE obj'[s][u] = NewObject
      <4>1. obj'[s][u].pk = 0
        BY <3>1 DEF NewObject
      <4>2. <<u, 0>> \notin DOMAIN data'
        BY <2>3, NewAgrees
      <4> QED
        BY <1>0, <2>3, <4>1, <4>2 DEF Agrees
    <3>2. CASE obj'[s][u] = obj[s][u] /\ seen'[s][u] = seen[s][u]
      <4>1. /\ obj[s][u].pk <= row_num
            /\ obj[s][u].pk # 0 => obj[s][u].version >= 1
            /\ Agrees(data, writer, blindly, s, <<u, obj[s][u].pk>>, obj[s][u].version,
                      seen[s][u])
        BY KeptObjects
      <4>2. Agrees(data', writer', blindly', s, <<u, obj[s][u].pk>>, obj[s][u].version,
                   seen[s][u])
        BY <2>1, <2>3, <4>1, SameRowAgrees
      <4> QED
        BY <2>3, <3>2, <4>1, <4>2
    <3>3. CASE u = t /\ response'.code = "OK"
      <4>1. obj'[s][u] = NewObject
        BY <2>1, <3>3 DEF OrmIInv, Shapes
      <4> QED
        BY <3>1, <4>1
    <3> QED
      BY <2>7, <2>8, <3>1, <3>2, <3>3
  <2>11. SessionOK(s)'
    <3>1. doing'[s] = d /\ obj'[s] \in [Classes -> Object]
      BY <2>6, <2>7 DEF OrmIInv, Shapes
    <3> QED
      BY <2>6, <2>8, <2>10, <3>1 DEF SessionOK
  <2> QED
    BY <2>2, <2>3, <2>4, <2>5, <2>6, <2>9, <2>11, <1>0, OneSession
<1> QED
  BY <1>1, <1>2

-----------------------------------------------------------------------------
(***************************************************************************)
(* The invariant.                                                          *)
(***************************************************************************)
LEMMA OrmInitIInv == OrmInit => OrmIInv
<1> SUFFICES ASSUME OrmInit PROVE OrmIInv
  OBVIOUS
<1>1. IInv /\ DOMAIN data = {} /\ row_num = 0
  BY InitIInv DEF OrmInit, Init
<1>2. Shapes
  BY DEF OrmInit, Shapes, NewObject, Object
<1>3. RaisedOK /\ HistoryOK /\ Versions
  BY <1>1 DEF OrmInit, RaisedOK, HistoryOK, Versions
<1>4. ASSUME NEW s \in Sessions PROVE SessionOK(s)
  <2>1. /\ obj[s] \in [Classes -> Object] /\ doing[s] = [op |-> "idle"]
        /\ seen[s] \in [Classes -> Seq(Value)]
        /\ \A t \in Classes : obj[s][t].pk = 0
    BY DEF OrmInit, NewObject, Object
  <2> QED
    BY <1>1, <2>1 DEF SessionOK, Doing, Agrees
<1> QED
  BY <1>1, <1>2, <1>3, <1>4 DEF OrmIInv

LEMMA OrmNextIInv == OrmIInv /\ [OrmNext]_ormVars => OrmIInv'
<1> SUFFICES ASSUME OrmIInv, [OrmNext]_ormVars PROVE OrmIInv'
  OBVIOUS
<1>1. CASE OrmNext
  <2> SUFFICES ASSUME NEW s \in Sessions, Call(s) \/ Continue(s) PROVE OrmIInv'
    BY <1>1 DEF OrmNext
  <2>1. {ACCOUNT} \in SUBSET Classes /\ {} \in SUBSET Classes
        /\ USER \in Classes /\ ACCOUNT \in Classes
    BY DEF Classes
  <2>2. CASE New(s)
    BY <2>2, NewStep
  <2>3. ASSUME NEW atomic \in BOOLEAN, SaveUser(s, atomic) PROVE OrmIInv'
    BY <2>1, <2>3, InsertNewStep, UpdateOldStep DEF SaveUser
  <2>4. CASE SaveAccount(s)
    <3>1. CASE InsertNew(s, USER, {ACCOUNT})
      BY <2>1, <3>1, InsertNewStep
    <3>2. CASE UpdateOld(s, ACCOUNT, TRUE)
      BY <2>1, <3>2, UpdateOldStep
    <3>3. CASE Raise(s, "InvalidReference") /\ UNCHANGED <<vars, obj, seen, writer, blindly>>
      <4>1. RaisedOK' /\ EndCall(s)
        BY <3>3, RaiseRaised DEF Exceptions
      <4>2. \E d \in Doing : d.op # "get" /\ doing' = [doing EXCEPT ![s] = d]
        BY <4>1, EndCallDoing
      <4>3. IInv'
        BY <3>3, ResponseOnly DEF OrmIInv, IInv, TypeOK, vars
      <4> QED
        BY <3>3, <4>1, <4>2, <4>3, UnchangedSession DEF vars
    <3> QED
      BY <2>4, <3>1, <3>2, <3>3 DEF SaveAccount
  <2>5. CASE SaveRest(s)
    <3> DEFINE t == IF USER \in doing[s].tables THEN USER ELSE ACCOUNT
               rest == doing[s].tables \ {t}
    <3>1. t \in Classes /\ rest \in SUBSET Classes
      BY <2>1, <2>5 DEF OrmIInv, SessionOK, SaveRest, Doing
    <3>2. InsertNew(s, t, rest) \/ UpdateOld(s, t, TRUE)
      BY <2>5 DEF SaveRest
    <3> QED
      BY <3>1, <3>2, InsertNewStep, UpdateOldStep
  <2>6. ASSUME NEW id \in 1..MaxRowId, GetUser(s, id) \/ GetAccount(s, id) PROVE OrmIInv'
    BY <2>6, GetUserStep, GetAccountStep
  <2>7. CASE GetReferenced(s)
    BY <2>7, GetReferencedStep
  <2>8. ASSUME NEW t \in Classes, Delete(s, t) PROVE OrmIInv'
    BY <2>8, DeleteStep
  <2> QED
    BY <2>2, <2>3, <2>4, <2>5, <2>6, <2>7, <2>8 DEF Call, Continue
<1>2. CASE UNCHANGED ormVars
  <2>1. /\ UNCHANGED <<data, row_num, response, obj, doing, raised, seen, writer, blindly>>
    BY <1>2 DEF ormVars, vars, sessionVars
  <2>2. IInv'
    BY <2>1, ResponseOnly DEF OrmIInv, IInv, TypeOK
  <2>3. Versions' /\ Shapes' /\ RaisedOK' /\ HistoryOK'
    BY <2>1 DEF OrmIInv, Versions, Shapes, RaisedOK, HistoryOK
  <2>4. \A s \in Sessions : SessionOK(s)'
    BY <2>1 DEF OrmIInv, SessionOK
  <2> QED
    BY <2>2, <2>3, <2>4 DEF OrmIInv
<1> QED
  BY <1>1, <1>2

\* The invariant, for the theorems below.
THEOREM OrmInvariant == OrmSpec => []OrmIInv
BY OrmInitIInv, OrmNextIInv, PTL DEF OrmSpec

-----------------------------------------------------------------------------
\* Types of the sessions, and that the histories speak of the rows there are.
THEOREM SessionsTypeCorrect == OrmSpec => []OrmTypeOK
<1>1. OrmIInv => OrmTypeOK
  <2> SUFFICES ASSUME OrmIInv PROVE OrmTypeOK
    OBVIOUS
  <2>1. obj \in [Sessions -> [Classes -> Object]] /\ doing \in [Sessions -> Doing]
        /\ seen \in [Sessions -> [Classes -> Seq(Value)]]
    BY DEF OrmIInv, Shapes, SessionOK
  <2> QED
    BY <2>1 DEF OrmIInv, RaisedOK, HistoryOK, SessionOK, OrmTypeOK
<1> QED
  BY <1>1, OrmInvariant, PTL

\* No atomic save overwrites what its session has not seen (Table.save and the driver's update).
THEOREM UpdatesNotLost == OrmSpec => []NoLostUpdate
<1>1. OrmIInv => NoLostUpdate
  BY DEF OrmIInv, SessionOK, Agrees, NoLostUpdate, HasRow, RowOf, Exists
<1> QED
  BY <1>1, OrmInvariant, PTL

\* A session that wrote a row last is not aborted on it.
THEOREM OwnVersionsCurrent == OrmSpec => []OwnVersionCurrent
<1>1. OrmIInv => OwnVersionCurrent
  BY DEF OrmIInv, SessionOK, Agrees, OwnVersionCurrent, HasRow, RowOf, Exists
<1> QED
  BY <1>1, OrmInvariant, PTL

-----------------------------------------------------------------------------
(***************************************************************************)
(* Sessions are clients of the server: what is proved of its commands,     *)
(* whoever sends them, holds for the composition.                          *)
(***************************************************************************)
AnyRequest == \E r \in Request : HandleRequest(r)

LEMMA InsertNewSends ==
  ASSUME OrmIInv, NEW s \in Sessions, NEW t \in Classes, NEW rest, InsertNew(s, t, rest)
  PROVE  AnyRequest
<1>1. PICK vals \in Rows(s, t) : Insert(t, vals)
  BY DEF InsertNew
<1> DEFINE r == [cmd |-> "insert", table |-> t, vals |-> vals]
<1>2. r \in Request
  BY <1>1, RowsTyped, ClassesAreInts DEF Request
<1>3. HandleRequest(r)
  BY <1>1 DEF HandleRequest
<1> QED
  BY <1>2, <1>3 DEF AnyRequest

LEMMA UpdateOldSends ==
  ASSUME OrmIInv, NEW s \in Sessions, NEW t \in Classes, NEW atomic \in BOOLEAN,
         UpdateOld(s, t, atomic)
  PROVE  AnyRequest
<1>1. PICK vals \in Rows(s, t) : Update(t, obj[s][t].pk, SentVersion(s, t, atomic), vals)
  BY DEF UpdateOld
<1> DEFINE r == [cmd |-> "update", table |-> t, id |-> obj[s][t].pk,
                 version |-> SentVersion(s, t, atomic), vals |-> vals]
<1>2. obj[s][t].pk \in Int /\ obj[s][t].version \in Int
  BY DEF OrmIInv, Shapes, Object
<1>3. SentVersion(s, t, atomic) \in {0, obj[s][t].version}
  BY DEF SentVersion
<1>4. r \in Request
  BY <1>1, <1>2, <1>3, RowsTyped, ClassesAreInts DEF Request
<1>5. HandleRequest(r)
  BY <1>1 DEF HandleRequest
<1> QED
  BY <1>4, <1>5 DEF AnyRequest

LEMMA GetSends ==
  ASSUME NEW t \in Int, NEW id \in Int, Get(t, id)
  PROVE  AnyRequest
<1> DEFINE r == [cmd |-> "get", table |-> t, id |-> id]
<1>1. r \in Request /\ HandleRequest(r)
  BY DEF Request, HandleRequest
<1> QED
  BY <1>1 DEF AnyRequest

LEMMA DropSends ==
  ASSUME NEW t \in Int, NEW id \in Int, Drop(t, id)
  PROVE  AnyRequest
<1> DEFINE r == [cmd |-> "drop", table |-> t, id |-> id]
<1>1. r \in Request /\ HandleRequest(r)
  BY DEF Request, HandleRequest
<1> QED
  BY <1>1 DEF AnyRequest

LEMMA StepSends == OrmIInv /\ [OrmNext]_ormVars => [AnyRequest]_vars
<1> SUFFICES ASSUME OrmIInv, [OrmNext]_ormVars PROVE AnyRequest \/ UNCHANGED vars
  OBVIOUS
<1>1. CASE UNCHANGED ormVars
  BY <1>1 DEF ormVars
<1>2. CASE OrmNext
  <2> SUFFICES ASSUME NEW s \in Sessions, Call(s) \/ Continue(s)
               PROVE AnyRequest \/ UNCHANGED vars
    BY <1>2 DEF OrmNext
  <2>1. USER \in Classes /\ ACCOUNT \in Classes /\ USER \in Int /\ ACCOUNT \in Int
    BY DEF Classes, USER, ACCOUNT
  <2>2. CASE New(s)
    BY <2>2 DEF New
  <2>3. ASSUME NEW atomic \in BOOLEAN, SaveUser(s, atomic) PROVE AnyRequest
    BY <2>1, <2>3, InsertNewSends, UpdateOldSends DEF SaveUser
  <2>4. CASE SaveAccount(s)
    BY <2>1, <2>4, InsertNewSends, UpdateOldSends DEF SaveAccount
  <2>5. CASE SaveRest(s)
    BY <2>1, <2>5, InsertNewSends, UpdateOldSends DEF SaveRest
  <2>6. ASSUME NEW id \in 1..MaxRowId, GetUser(s, id) \/ GetAccount(s, id) PROVE AnyRequest
    BY <2>1, <2>6, GetSends, EasyDBAssumption DEF GetUser, GetAccount, BoundAssumption
  <2>7. CASE GetReferenced(s)
    <3>1. doing[s].vals \in Seq(Value) /\ Len(doing[s].vals) = 2
      BY <2>7 DEF OrmIInv, SessionOK, GetReferenced, Doing
    <3>2. doing[s].vals[1] \in Value
      BY <3>1
    <3>3. doing[s].vals[1].v \in Int
      BY <3>2 DEF Value
    <3>4. Get(USER, doing[s].vals[1].v)
      BY <2>7 DEF GetReferenced
    <3> QED
      BY <2>1, <3>3, <3>4, GetSends
  <2>8. ASSUME NEW t \in Classes, Delete(s, t) PROVE AnyRequest \/ UNCHANGED vars
    <3>1. obj[s][t].pk \in Int /\ t \in Int
      BY ClassesAreInts DEF OrmIInv, Shapes, Object
    <3> QED
      BY <2>8, <3>1, DropSends DEF Delete
  <2> QED
    BY <2>2, <2>3, <2>4, <2>5, <2>6, <2>7, <2>8 DEF Call, Continue
<1> QED
  BY <1>1, <1>2

\* Every step of a session is one typed request that the server handles, or none: what table.py
\* and the driver do to the tables is what the five commands can do.
THEOREM SessionsAreClients == OrmSpec => Init /\ [][AnyRequest]_vars
<1>1. OrmInit => Init
  BY DEF OrmInit
<1> QED
  BY <1>1, StepSends, OrmInvariant, PTL DEF OrmSpec

\* Whatever sessions save and delete between the two commands of another one's save, no stored
\* Account refers to a User that is gone.
THEOREM SessionsKeepReferences == OrmSpec => []ReferentialIntegrity
<1>1. OrmIInv => ReferentialIntegrity
  BY DEF OrmIInv, IInv
<1> QED
  BY <1>1, OrmInvariant, PTL

\* The pk an object keeps over somebody's delete never comes to name another row.
THEOREM SessionsReuseNoId == OrmSpec => NoResurrection
<1>1. IInv /\ [AnyRequest]_vars
        => [\A k \in DOMAIN data' \ DOMAIN data : k[2] > row_num]_vars
  BY OnlyInsertAdds DEF AnyRequest, vars
<1>2. OrmIInv => IInv
  BY DEF OrmIInv
<1> QED
  BY <1>1, <1>2, SessionsAreClients, OrmInvariant, PTL DEF NoResurrection

\* A command of a save, get or delete that is answered with an error has changed no row: the call
\* raises, or sends it again.
THEOREM RaisingChangesNothing == OrmSpec => RejectedIsNoop
<1>1. IInv /\ [AnyRequest]_vars => [response'.code # "OK" => UNCHANGED <<data, row_num>>]_vars
  BY ErrorChangesNothing DEF AnyRequest, vars
<1>2. OrmIInv => IInv
  BY DEF OrmIInv
<1> QED
  BY <1>1, <1>2, SessionsAreClients, OrmInvariant, PTL DEF RejectedIsNoop

=============================================================================
