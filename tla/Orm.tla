-------------------------------- MODULE Orm --------------------------------
(***************************************************************************)
(* Sessions of the ORM (ORM Layer/orm/table.py) on the commands of EasyDB, *)
(* through the driver (Driver/easydb/easydb.py).  Every session has a User *)
(* and an Account that refers to it, new ones or such as it got.  A save   *)
(* or a get can take two commands, and those of other sessions come in     *)
(* between.                                                                *)
(***************************************************************************)
EXTENDS EasyDB

CONSTANTS
  Sessions,    \* the programs, each with a Database of its own
  Contents,    \* what the integer column of either table may hold
  MaxVersion   \* bound: versions end here

USER == 1
ACCOUNT == 2

\* What export makes of the two classes: Account refers to User.
OrmSchema ==
  << <<[type |-> "integer", ref |-> 0]>>,
     <<[type |-> "foreign", ref |-> USER], [type |-> "integer", ref |-> 0]>> >>

ASSUME OrmAssumption ==
  /\ Schema = OrmSchema
  /\ Contents \subseteq Int
  /\ 0 \in Contents
  /\ MaxVersion \in Nat

VARIABLES
  obj,      \* pk and version of the two objects of each session; None is 0
  doing,    \* what is left of the call of save or get that a session is in
  raised,   \* the exception that the last step ended a call with, and its session; or Nothing
  seen,     \* history: the row each object had when it was last got or saved
  writer,   \* history: the session that wrote each row last
  blindly   \* history: the rows that a save with atomic=False wrote

sessionVars == <<obj, doing, raised, seen, writer, blindly>>
ormVars == <<vars, sessionVars>>

Classes == {USER, ACCOUNT}
Object == [pk : Nat, version : Nat]
NewObject == [pk |-> 0, version |-> 0]

Number(n) == [kind |-> "integer", v |-> n]
Ref(n) == [kind |-> "foreign", v |-> n]

\* What save puts into a row: the pk of the referenced object in its place, and a content the
\* program may have assigned at any time before.
Rows(s, t) ==
  IF t = USER THEN {<<Number(n)>> : n \in Contents}
  ELSE {<<Ref(obj[s][USER].pk), Number(n)>> : n \in Contents}

\* The end of a call.
Nothing == [exception |-> "none"]
EndCall(s) == doing' = [doing EXCEPT ![s] = [op |-> "idle"]]
Return(s) == EndCall(s) /\ raised' = Nothing
GoOn(s, tables) ==
  /\ doing' = [doing EXCEPT ![s] = [op |-> "save", tables |-> tables]]
  /\ raised' = Nothing
Raise(s, exception) == EndCall(s) /\ raised' = [exception |-> exception, session |-> s]

-----------------------------------------------------------------------------
(***************************************************************************)
(* What the driver makes of a response.                                    *)
(***************************************************************************)
\* insert: other codes are no exception: it sends the request again.
\* (Slip: nothing but a wrong value is an exception.)
InsertExceptionFew(code) == IF code = "BAD_VALUE" THEN "InvalidReference" ELSE "none"
InsertException(code) ==
  CASE code \in {"BAD_VALUE", "BAD_FOREIGN"} -> "InvalidReference"
    [] code = "NOT_FOUND" -> "ObjectDoesNotExist"
    [] code = "TXN_ABORT" -> "TransactionAbort"
    [] OTHER -> "none"

UpdateException(code) ==
  CASE code = "NOT_FOUND" -> "ObjectDoesNotExist"
    [] code = "TXN_ABORT" -> "TransactionAbort"
    [] code = "BAD_FOREIGN" -> "InvalidReference"
    [] OTHER -> "PacketError"

-----------------------------------------------------------------------------
(***************************************************************************)
(* New objects.                                                            *)
(***************************************************************************)
Idle(s) == doing[s].op = "idle"

\* Table(db, ...): a new User, and a new Account that refers to it.
New(s) ==
  /\ Idle(s)
  /\ obj' = [obj EXCEPT ![s] = [t \in Classes |-> NewObject]]
  /\ seen' = [seen EXCEPT ![s] = [t \in Classes |-> <<>>]]
  /\ raised' = Nothing
  /\ UNCHANGED <<vars, doing, writer, blindly>>

-----------------------------------------------------------------------------
(***************************************************************************)
(* save.                                                                   *)
(***************************************************************************)
\* The bounds: every insert of a save finds an id, and versions end.
Inserts(s, tables) == {t \in tables : obj[s][t].pk = 0}
Pending == {p \in Sessions \X Classes : doing[p[1]].op = "save" /\ p[2] \in doing[p[1]].tables}
WithinBounds(s, tables) ==
  /\ row_num + Cardinality(Inserts(s, tables)) + Cardinality(Pending) <= MaxRowId
  /\ \A t \in tables : obj[s][t].version < MaxVersion

\* A row was stored: the object has its pk and version, and the rest is to be written.
\* (Slip: it keeps its version.)
StoredOldVersion(s, t, rest, pk, version, vals) ==
  /\ obj' = [obj EXCEPT ![s][t].pk = pk]
  /\ seen' = [seen EXCEPT ![s][t] = vals]
  /\ writer' = [k \in DOMAIN data' |-> IF k = <<t, pk>> THEN s ELSE writer[k]]
  /\ IF rest = {} THEN Return(s) ELSE GoOn(s, rest)
Stored(s, t, rest, pk, version, vals) ==
  /\ obj' = [obj EXCEPT ![s][t] = [pk |-> pk, version |-> version]]
  /\ seen' = [seen EXCEPT ![s][t] = vals]
  /\ writer' = [k \in DOMAIN data' |-> IF k = <<t, pk>> THEN s ELSE writer[k]]
  /\ IF rest = {} THEN Return(s) ELSE GoOn(s, rest)

\* The driver's insert: it sends the request again when the answer is no exception.
InsertNew(s, t, rest) ==
  /\ obj[s][t].pk = 0
  /\ \E vals \in Rows(s, t) :
       /\ Insert(t, vals)
       /\ IF response'.code = "OK"
          THEN Stored(s, t, rest, response'.id, response'.version, vals)
          ELSE /\ IF InsertException(response'.code) # "none"
                  THEN Raise(s, InsertException(response'.code))
                  ELSE GoOn(s, rest \cup {t})
               /\ UNCHANGED <<obj, seen, writer>>
  /\ UNCHANGED blindly

\* The driver's update.  (Slip: the version is not sent.)
SentNoVersion(s, t, atomic) == 0
SentVersion(s, t, atomic) == IF atomic THEN obj[s][t].version ELSE 0

UpdateOld(s, t, atomic) ==
  /\ obj[s][t].pk # 0
  /\ \E vals \in Rows(s, t) :
       /\ Update(t, obj[s][t].pk, SentVersion(s, t, atomic), vals)
       /\ IF response'.code = "OK"
          THEN /\ Stored(s, t, {}, obj[s][t].pk, response'.version, vals)
               /\ blindly' = IF atomic THEN blindly ELSE blindly \cup {<<t, obj[s][t].pk>>}
          ELSE /\ Raise(s, UpdateException(response'.code))
               /\ UNCHANGED <<obj, seen, writer, blindly>>

\* The first command of a save.  A User that has no pk is saved before its Account; a new
\* Account must not refer to a User that has one.
SaveUser(s, atomic) ==
  /\ Idle(s)
  /\ WithinBounds(s, {USER})
  /\ InsertNew(s, USER, {}) \/ UpdateOld(s, USER, atomic)

SaveAccount(s) ==
  /\ Idle(s)
  /\ \/ /\ obj[s][USER].pk = 0
        /\ WithinBounds(s, Classes)
        /\ InsertNew(s, USER, {ACCOUNT})
     \/ /\ obj[s][USER].pk # 0
        /\ WithinBounds(s, {ACCOUNT})
        /\ UpdateOld(s, ACCOUNT, TRUE)
     \/ /\ obj[s][USER].pk # 0
        /\ obj[s][ACCOUNT].pk = 0
        /\ Raise(s, "InvalidReference")
        /\ UNCHANGED <<vars, obj, seen, writer, blindly>>

\* The next command of a save.
SaveRest(s) ==
  /\ doing[s].op = "save"
  /\ LET t == IF USER \in doing[s].tables THEN USER ELSE ACCOUNT IN
     InsertNew(s, t, doing[s].tables \ {t}) \/ UpdateOld(s, t, TRUE)

-----------------------------------------------------------------------------
(***************************************************************************)
(* get and delete.                                                         *)
(***************************************************************************)
Got(s, t, id, version, vals) ==
  /\ obj' = [obj EXCEPT ![s][t] = [pk |-> id, version |-> version]]
  /\ seen' = [seen EXCEPT ![s][t] = vals]

\* User.get; the Account refers to what it returns from now on.
\* (Slip: that there is no such row is not noticed.)
GetUserUnchecked(s, id) ==
  /\ Idle(s)
  /\ Get(USER, id)
  /\ Got(s, USER, id, 0, <<>>)
  /\ Return(s)
  /\ UNCHANGED <<writer, blindly>>
GetUser(s, id) ==
  /\ Idle(s)
  /\ Get(USER, id)
  /\ IF response'.code = "OK"
     THEN Got(s, USER, id, response'.version, response'.vals) /\ Return(s)
     ELSE Raise(s, "ObjectDoesNotExist") /\ UNCHANGED <<obj, seen>>
  /\ UNCHANGED <<writer, blindly>>

\* Account.get: the row, and then the row it refers to.
GetAccount(s, id) ==
  /\ Idle(s)
  /\ Get(ACCOUNT, id)
  /\ IF response'.code = "OK"
     THEN /\ doing' = [doing EXCEPT ![s] = [op |-> "get", id |-> id,
                         version |-> response'.version, vals |-> response'.vals]]
          /\ raised' = Nothing
     ELSE Raise(s, "ObjectDoesNotExist")
  /\ UNCHANGED <<obj, seen, writer, blindly>>

GetReferenced(s) ==
  /\ doing[s].op = "get"
  /\ Get(USER, doing[s].vals[1].v)
  /\ IF response'.code = "OK"
     THEN LET row == doing[s] IN
          /\ obj' = [obj EXCEPT ![s] =
               [t \in Classes |->
                  IF t = USER
                  THEN [pk |-> row.vals[1].v, version |-> response'.version]
                  ELSE [pk |-> row.id, version |-> row.version]]]
          /\ seen' = [seen EXCEPT ![s] =
               [t \in Classes |-> IF t = USER THEN response'.vals ELSE row.vals]]
          /\ Return(s)
     ELSE Raise(s, "ObjectDoesNotExist") /\ UNCHANGED <<obj, seen>>
  /\ UNCHANGED <<writer, blindly>>

\* delete: without a pk the driver refuses.
Delete(s, t) ==
  /\ Idle(s)
  /\ IF obj[s][t].pk = 0
     THEN Raise(s, "PacketError") /\ UNCHANGED <<vars, obj, seen, writer, blindly>>
     ELSE /\ Drop(t, obj[s][t].pk)
          /\ IF response'.code = "OK"
             THEN /\ Return(s)
                  /\ obj' = [obj EXCEPT ![s][t] = NewObject]
                  /\ seen' = [seen EXCEPT ![s][t] = <<>>]
             ELSE Raise(s, "ObjectDoesNotExist") /\ UNCHANGED <<obj, seen>>
          /\ writer' = [k \in DOMAIN data' |-> writer[k]]
          /\ blindly' = blindly \cap DOMAIN data'

-----------------------------------------------------------------------------
OrmInit ==
  /\ Init
  /\ obj = [s \in Sessions |-> [t \in Classes |-> NewObject]]
  /\ doing = [s \in Sessions |-> [op |-> "idle"]]
  /\ raised = Nothing
  /\ seen = [s \in Sessions |-> [t \in Classes |-> <<>>]]
  /\ writer = [k \in DOMAIN data |-> CHOOSE s \in Sessions : TRUE]
  /\ blindly = {}

\* The rest of a call that was begun.
Continue(s) == GetReferenced(s) \/ SaveRest(s)

Call(s) ==
  \/ New(s)
  \/ \E atomic \in BOOLEAN : SaveUser(s, atomic)
  \/ SaveAccount(s)
  \/ \E t \in Classes : Delete(s, t)
  \/ \E id \in 1..MaxRowId : GetUser(s, id) \/ GetAccount(s, id)

OrmNext == \E s \in Sessions : Call(s) \/ Continue(s)

\* A program goes on with its calls, and need not make any.
OrmSpec == OrmInit /\ [][OrmNext]_ormVars /\ \A s \in Sessions : WF_ormVars(Continue(s))

-----------------------------------------------------------------------------
(***************************************************************************)
(* Properties.                                                             *)
(***************************************************************************)
Doing ==
  [op : {"idle"}]
  \cup [op : {"save"}, tables : (SUBSET Classes) \ {{}}]
  \cup [op : {"get"}, id : 1..MaxRowId, version : Nat, vals : Seq(Value)]

Exceptions == {"InvalidReference", "ObjectDoesNotExist", "TransactionAbort", "PacketError"}

\* The histories speak of the rows there are, and every pk an object has was given out.
OrmTypeOK ==
  /\ obj \in [Sessions -> [Classes -> Object]]
  /\ doing \in [Sessions -> Doing]
  /\ raised \in {Nothing} \cup [exception : Exceptions, session : Sessions]
  /\ seen \in [Sessions -> [Classes -> Seq(Value)]]
  /\ writer \in [DOMAIN data -> Sessions]
  /\ blindly \subseteq DOMAIN data
  /\ \A s \in Sessions, t \in Classes : obj[s][t].pk <= row_num

\* The row of an object, if it is still there.
HasRow(s, t) == Exists(t, obj[s][t].pk)
RowOf(s, t) == data[<<t, obj[s][t].pk>>]

\* No lost update: an object whose version is the row's, so that an atomic save of it succeeds,
\* was made from what the row is now, whatever saves, deletes and gets of others came between
\* its commands.  Rows that somebody saves with atomic=False are excepted.
NoLostUpdate ==
  \A s \in Sessions, t \in Classes :
    (HasRow(s, t) /\ <<t, obj[s][t].pk>> \notin blindly /\ obj[s][t].version = RowOf(s, t).ver)
      => seen[s][t] = RowOf(s, t).vals

\* No spurious abort: the session that wrote a row last has its version, also after a save that
\* failed half way and after blind saves of its own.
OwnVersionCurrent ==
  \A s \in Sessions, t \in Classes :
    (HasRow(s, t) /\ writer[<<t, obj[s][t].pk>>] = s) => obj[s][t].version = RowOf(s, t).ver

\* Every save and every get comes back, with an exception or without.
CallsReturn == \A s \in Sessions : doing[s].op # "idle" ~> doing[s].op = "idle"

\* exception.py says of InvalidReference: "foreign key not found in the database".
InvalidReferenceMeansMissing ==
  raised.exception = "InvalidReference" => ~HasRow(raised.session, USER)

=============================================================================
