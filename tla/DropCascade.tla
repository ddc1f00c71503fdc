---------------------------- MODULE DropCascade ----------------------------
(***************************************************************************)
(* handle_drop (Concurrent Database/database.rs) call by call: a call      *)
(* lists the rows that refer to its row, calls itself for each of them,    *)
(* and only then removes its own row.  The list is made before the calls   *)
(* and used after them, when some of its rows may be gone.  The other      *)
(* commands run between two drops.  The whole cascade implements the one   *)
(* step Drop of EasyDB.                                                    *)
(***************************************************************************)
EXTENDS EasyDB

VARIABLES stack,   \* the calls of handle_drop under way, the outermost first
          before   \* history: data when the outermost call began

cascadeVars == <<data, row_num, response, stack, before>>

\* foreign_keys: the columns, of all tables, that refer to table t.
ForeignKeys(t) == UNION {{<<u, i>> : i \in {j \in DOMAIN Schema[u] : Schema[u][j].ref = t}} : u \in Tables}

\* A call: the row it is for, and what is left of its to_drop, rows with a foreign key of theirs.
Frame ==
  {f \in [key : Key, to_drop : SUBSET (Key \X Nat)] :
     \A e \in f.to_drop : <<e[1][1], e[2]>> \in ForeignKeys(f.key[1])}

Running == stack # <<>>

\* The scan meets a value that is no reference in such a column and panics.
ScanPanics(t) ==
  \E fk \in ForeignKeys(t) : \E r \in DOMAIN data :
     r[1] = fk[1] /\ data[r].vals[fk[2]].kind # "foreign"

\* One entry per column: a row that refers twice to the dropped row is listed twice.
\* (Slip: any column that holds the number is taken for a reference.)
ToDropAnyColumn(key) ==
  UNION {{<<r, i>> : i \in {j \in DOMAIN Schema[r[1]] : data[r].vals[j].v = key[2]}}
           : r \in DOMAIN data}
ToDrop(key) ==
  UNION {{<<r, fk[2]>> : r \in {k \in DOMAIN data :
                                  k[1] = fk[1] /\ data[k].vals[fk[2]].v = key[2]}}
           : fk \in ForeignKeys(key[1])}

\* Entering handle_drop(key) with the calls s under way.
Enter(key, s) ==
  IF ScanPanics(key[1])
  THEN stack' = <<>> /\ response' = Error("PANIC")
  ELSE stack' = Append(s, [key |-> key, to_drop |-> ToDrop(key)]) /\ UNCHANGED response

StartDrop(t, id) ==
  /\ ~Running
  /\ \/ /\ t \notin Tables
        /\ Fail("BAD_TABLE")
        /\ UNCHANGED <<stack, before>>
     \/ /\ t \in Tables
        /\ Enter(<<t, id>>, <<>>)
        /\ before' = data
        /\ UNCHANGED <<data, row_num>>

Top == stack[Len(stack)]

\* (Slip: an entry is not taken off the list.)
RecurseForEver ==
  /\ Running
  /\ \E entry \in Top.to_drop : Enter(entry[1], stack)
  /\ UNCHANGED <<data, row_num, before>>

\* The cascade loop calls handle_drop for an entry, in the order the maps were iterated in.
Recurse ==
  /\ Running
  /\ \E entry \in Top.to_drop :
       Enter(entry[1], [stack EXCEPT ![Len(stack)].to_drop = @ \ {entry}])
  /\ UNCHANGED <<data, row_num, before>>

\* The outermost result becomes the response; the cascade ignores the others.
\* (Slip: each call answers.)
NeverInner(s) == FALSE
IsInner(s) == Len(s) > 1

\* (Slip: the row goes before the rows that refer to it.)
FinishEarly ==
  /\ Running
  /\ data' = Without({Top.key})
  /\ stack' = SubSeq(stack, 1, Len(stack) - 1)
  /\ response' = [code |-> "OK"]
  /\ UNCHANGED <<row_num, before>>

\* The loop is done: the call removes its row, if it is still there, and returns.
Finish ==
  /\ Running
  /\ Top.to_drop = {}
  /\ data' = Without({Top.key})
  /\ stack' = SubSeq(stack, 1, Len(stack) - 1)
  /\ response' = IF IsInner(stack) THEN response
                 ELSE IF Top.key \in DOMAIN data THEN [code |-> "OK"] ELSE Error("NOT_FOUND")
  /\ UNCHANGED <<row_num, before>>

OtherCommand ==
  /\ ~Running
  /\ \E r \in Requests : r.cmd # "drop" /\ HandleRequest(r)
  /\ UNCHANGED <<stack, before>>

CascadeInit == Init /\ stack = <<>> /\ before = data

CascadeStep == Recurse \/ Finish

CascadeNext ==
  \/ \E r \in Requests : r.cmd = "drop" /\ StartDrop(r.table, r.id)
  \/ CascadeStep
  \/ OtherCommand

CascadeSpec == CascadeInit /\ [][CascadeNext]_cascadeVars

\* The thread that entered handle_drop goes on to its end.
FairCascadeSpec == CascadeSpec /\ WF_cascadeVars(CascadeStep)

-----------------------------------------------------------------------------
\* The tables are typed half way through a cascade too, and what a call of handle_drop still
\* has to drop are rows of tables that refer to its table, each with the column that does.
CascadeTypeOK ==
  /\ TypeOK
  /\ stack \in Seq(Frame)
  /\ DOMAIN before \subseteq Key

\* A table refers only to tables before it, so the calls never nest deeper than there are
\* tables: the recursion of handle_drop cannot exhaust the thread's stack.
DepthBounded == Len(stack) <= Len(Schema)

\* Every drop ends.
DropReturns == Running ~> ~Running

\* The tables as whoever waits for the mutex will have seen them.
Shown == IF Running THEN before ELSE data

Atomic == INSTANCE EasyDB WITH data <- Shown

\* Seen from outside the mutex a cascade is one Drop step: it removes the dropped row and
\* what depends on it, directly or not, nothing else, and answers for the dropped row.
DropIsAtomic == Atomic!Spec

=============================================================================
