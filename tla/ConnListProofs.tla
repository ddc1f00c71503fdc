--------------------------- MODULE ConnListProofs ---------------------------
(***************************************************************************)
(* For any number of connections and descriptors: no pointer, no event and *)
(* no watch ever names a deleted connection, and an open descriptor is     *)
(* watched for the one connection that has it.                             *)
(*                                                                         *)
(* That pointers name live connections is not inductive: unlinking c       *)
(* writes to the neighbours that c names, and only when they name c in     *)
(* turn does nobody go on naming it.  The loop of ~Server reads its next   *)
(* connection before it deletes one: the next must be another, so the list *)
(* must have no circle, which a rank of its connections states.            *)
(***************************************************************************)
EXTENDS ConnList, FiniteSetTheorems, TLAPS

List == [mru : Pointer, lru : Pointer, next_mru : [Conns -> Pointer],
         next_lru : [Conns -> Pointer]]

\* Neighbours among the connections A name each other, and the ends are the list's.
Linked(l, A) ==
  /\ l.mru \in A \cup {NULL}
  /\ l.lru \in A \cup {NULL}
  /\ l.mru = NULL <=> l.lru = NULL
  /\ \A c \in A :
       /\ l.next_mru[c] \in A \cup {NULL}
       /\ l.next_lru[c] \in A \cup {NULL}
       /\ l.next_mru[c] # NULL => l.next_lru[l.next_mru[c]] = c
       /\ l.next_lru[c] # NULL => l.next_mru[l.next_lru[c]] = c
       /\ l.next_mru[c] = NULL <=> l.lru = c
       /\ l.next_lru[c] = NULL <=> l.mru = c

\* The list is the connections of A in the order of their ranks, from mru down.
Ranked(l, A, r) ==
  /\ r \in [Conns -> Int]
  /\ \A c, d \in A : r[c] = r[d] => c = d
  /\ \A d \in A : l.mru # NULL /\ r[d] <= r[l.mru]
  /\ \A c, d \in A :
       IF l.next_mru[c] = NULL THEN r[c] <= r[d]
       ELSE /\ r[l.next_mru[c]] < r[c]
            /\ r[d] < r[c] => r[d] <= r[l.next_mru[c]]

ListInv(l, A) == Linked(l, A) /\ \E r : Ranked(l, A, r)

\* What epoll has is what is open, once for each descriptor.
WatchInv ==
  /\ open = {w[1] : w \in watched}
  /\ \A w \in watched : w[2] \in alive /\ fd[w[2]] = w[1]
  /\ \A v, w \in watched : v[1] = w[1] => v = w

\* The events that are left name connections that epoll has, each once.
EventsInv ==
  /\ events # <<>> => pc = "events"
  /\ \A i \in DOMAIN events : events[i] = Listener \/ \E w \in watched : w[2] = events[i]
  /\ \A i, j \in DOMAIN events : events[i] = events[j] => i = j

CursorInv == cursor \in alive \cup {NULL} /\ (cursor # NULL => pc = "destroy")

\* What epoll still has, the loop of ~Server has still to come to.
DestroyInv ==
  pc \in {"destroy", "gone"} =>
    \E r : /\ Ranked(list, alive, r)
           /\ \A w \in watched : cursor # NULL /\ r[w[2]] <= r[cursor]

IInv == TypeOK /\ ListInv(list, alive) /\ WatchInv /\ EventsInv /\ CursorInv /\ DestroyInv

-----------------------------------------------------------------------------
(***************************************************************************)
(* The list.                                                               *)
(***************************************************************************)
LEMMA DeleteIsList ==
  ASSUME NEW l \in List, NEW c \in Conns
  PROVE  DeleteFromLRU(l, c) \in List
BY DEF List, Pointer, DeleteFromLRU

LEMMA DeleteFields ==
  ASSUME NEW l \in List, NEW c \in Conns
  PROVE  LET m == DeleteFromLRU(l, c) IN
         /\ m.mru = IF l.next_lru[c] = NULL THEN l.next_mru[c] ELSE l.mru
         /\ m.lru = IF l.next_mru[c] = NULL THEN l.next_lru[c] ELSE l.lru
         /\ \A d \in Conns : m.next_mru[d] = IF d = l.next_lru[c] THEN l.next_mru[c]
                                                                  ELSE l.next_mru[d]
         /\ \A d \in Conns : m.next_lru[d] = IF d = l.next_mru[c] THEN l.next_lru[c]
                                                                  ELSE l.next_lru[d]
BY DEF List, DeleteFromLRU

LEMMA PushFields ==
  ASSUME NEW l \in List, NEW c \in Conns
  PROVE  LET m == PushFront(l, c) IN
         /\ m \in List
         /\ m.mru = c
         /\ m.lru = IF l.mru = NULL THEN c ELSE l.lru
         /\ \A d \in Conns : m.next_mru[d] = IF d = c THEN l.mru ELSE l.next_mru[d]
         /\ \A d \in Conns : m.next_lru[d] = IF d = c THEN NULL ELSE IF d = l.mru THEN c
                                                                     ELSE l.next_lru[d]
BY DEF List, Pointer, PushFront

\* Unlinking a connection leaves a list of the others, in the same order.
LEMMA DeleteRanked ==
  ASSUME NEW l \in List, NEW A \in SUBSET Conns, NEW c \in A,
         Linked(l, A), NEW r, Ranked(l, A, r)
  PROVE  Linked(DeleteFromLRU(l, c), A \ {c}) /\ Ranked(DeleteFromLRU(l, c), A \ {c}, r)
<1> DEFINE m == DeleteFromLRU(l, c)
<1>1. l.next_mru[c] # c /\ l.next_lru[c] # c
  BY ConnListAssumption DEF Linked, Ranked
<1> HIDE DEF m
<1>2. Linked(m, A \ {c})
  <2> DEFINE p == l.next_lru[c]
             n == l.next_mru[c]
  <2>1. /\ p \in (A \ {c}) \cup {NULL} /\ n \in (A \ {c}) \cup {NULL}
        /\ NULL \notin A /\ A \subseteq Conns
        /\ p # NULL => l.next_mru[p] = c
        /\ n # NULL => l.next_lru[n] = c
        /\ p = NULL <=> l.mru = c
        /\ n = NULL <=> l.lru = c
    BY <1>1, ConnListAssumption DEF Linked
  <2>2. /\ m.mru = IF p = NULL THEN n ELSE l.mru
        /\ m.lru = IF n = NULL THEN p ELSE l.lru
        /\ \A d \in A : m.next_mru[d] = IF d = p THEN n ELSE l.next_mru[d]
        /\ \A d \in A : m.next_lru[d] = IF d = n THEN p ELSE l.next_lru[d]
    BY DeleteFields DEF m
  <2> HIDE DEF p, n
  <2>3. /\ m.mru \in (A \ {c}) \cup {NULL}
        /\ m.lru \in (A \ {c}) \cup {NULL}
        /\ m.mru = NULL <=> m.lru = NULL
    BY <2>1, <2>2 DEF Linked
  <2>4. ASSUME NEW d \in A \ {c}
        PROVE  /\ m.next_mru[d] \in (A \ {c}) \cup {NULL}
               /\ m.next_mru[d] # NULL => m.next_lru[m.next_mru[d]] = d
               /\ m.next_mru[d] = NULL <=> m.lru = d
    <3>1. d # p => l.next_mru[d] # c /\ (l.next_mru[d] # NULL => l.next_mru[d] # n)
      BY <2>1 DEF Linked, p, n
    <3>2. CASE d = p
      BY <2>1, <2>2, <2>4, <3>2 DEF Linked
    <3>3. CASE d # p
      BY <2>1, <2>2, <2>4, <3>1, <3>3 DEF Linked
    <3> QED
      BY <3>2, <3>3
  <2>5. ASSUME NEW d \in A \ {c}
        PROVE  /\ m.next_lru[d] \in (A \ {c}) \cup {NULL}
               /\ m.next_lru[d] # NULL => m.next_mru[m.next_lru[d]] = d
               /\ m.next_lru[d] = NULL <=> m.mru = d
    <3>1. d # n => l.next_lru[d] # c /\ (l.next_lru[d] # NULL => l.next_lru[d] # p)
      BY <2>1 DEF Linked, p, n
    <3>2. CASE d = n
      BY <2>1, <2>2, <2>5, <3>2 DEF Linked
    <3>3. CASE d # n
      BY <2>1, <2>2, <2>5, <3>1, <3>3 DEF Linked
    <3> QED
      BY <3>2, <3>3
  <2> QED
    BY <2>3, <2>4, <2>5 DEF Linked
<1>3. \A d \in A : r[d] \in Int
  BY DEF Ranked
<1>4. ASSUME NEW d \in A \ {c} PROVE m.mru # NULL /\ r[d] <= r[m.mru]
  <2>1. CASE l.next_lru[c] = NULL
    <3>1. l.mru = c /\ m.mru = l.next_mru[c]
      BY <2>1, DeleteFields DEF m, Linked
    <3>2. r[d] < r[c]
      BY <1>3, <3>1 DEF Ranked
    <3> QED
      BY <1>3, <3>1, <3>2 DEF Ranked
  <2>2. CASE l.next_lru[c] # NULL
    BY <2>2, DeleteFields DEF m, Ranked
  <2> QED
    BY <2>1, <2>2
<1>5. ASSUME NEW p \in A \ {c}, NEW d \in A \ {c}
      PROVE  IF m.next_mru[p] = NULL THEN r[p] <= r[d]
             ELSE /\ r[m.next_mru[p]] < r[p]
                  /\ r[d] < r[p] => r[d] <= r[m.next_mru[p]]
  <2>1. CASE p = l.next_lru[c]
    <3>1. m.next_mru[p] = l.next_mru[c] /\ l.next_mru[p] = c /\ c # NULL
      BY <2>1, DeleteFields, ConnListAssumption DEF m, Linked
    <3>2. r[c] < r[p] /\ (r[d] < r[p] => r[d] <= r[c])
      BY <3>1 DEF Ranked
    <3>3. r[d] # r[c]
      BY DEF Ranked
    <3>4. CASE l.next_mru[c] = NULL
      <4>1. r[c] <= r[d]
        BY <3>4 DEF Ranked
      <4> QED
        BY <1>3, <3>1, <3>2, <3>3, <3>4, <4>1
    <3>5. CASE l.next_mru[c] # NULL
      <4>1. l.next_mru[c] \in A
        BY <3>5 DEF Linked
      <4>2. r[l.next_mru[c]] < r[c] /\ (r[d] < r[c] => r[d] <= r[l.next_mru[c]])
        BY <3>5 DEF Ranked
      <4> QED
        BY <1>3, <3>1, <3>2, <3>3, <3>5, <4>1, <4>2
    <3> QED
      BY <3>4, <3>5
  <2>2. CASE p # l.next_lru[c]
    BY <2>2, DeleteFields DEF m, Ranked
  <2> QED
    BY <2>1, <2>2
<1> QED
  BY <1>2, <1>4, <1>5 DEF Ranked, m

LEMMA DeleteLinked ==
  ASSUME NEW l \in List, NEW A \in SUBSET Conns, NEW c \in A, ListInv(l, A)
  PROVE  ListInv(DeleteFromLRU(l, c), A \ {c})
BY DeleteRanked DEF ListInv

\* A connection that is in no list gets to the front of it.
LEMMA PushLinked ==
  ASSUME NEW l \in List, NEW A \in SUBSET Conns, NEW c \in Conns \ A, ListInv(l, A)
  PROVE  ListInv(PushFront(l, c), A \cup {c})
<1> DEFINE m == PushFront(l, c)
<1>1. PICK r : Ranked(l, A, r)
  BY DEF ListInv
<1> DEFINE s == [r EXCEPT ![c] = IF l.mru = NULL THEN 0 ELSE r[l.mru] + 1]
<1> HIDE DEF m
<1>2. /\ m.mru = c /\ m.mru # NULL /\ NULL \notin A
      /\ m.lru = (IF l.mru = NULL THEN c ELSE l.lru) /\ m.lru # NULL
      /\ m.next_mru[c] = l.mru /\ m.next_lru[c] = NULL /\ c # NULL /\ l.mru # c
      /\ \A d \in A : m.next_mru[d] = l.next_mru[d]
      /\ \A d \in A : m.next_lru[d] = IF d = l.mru THEN c ELSE l.next_lru[d]
  BY PushFields, ConnListAssumption DEF ListInv, Linked, m
<1>3. Linked(m, A \cup {c})
  <2>1. /\ m.next_mru[c] \in (A \cup {c}) \cup {NULL}
        /\ m.next_mru[c] # NULL => m.next_lru[m.next_mru[c]] = c
        /\ m.next_mru[c] = NULL <=> m.lru = c
    BY <1>2, ConnListAssumption DEF ListInv, Linked
  <2>2. ASSUME NEW d \in A
        PROVE  /\ m.next_mru[d] \in A \cup {NULL}
               /\ m.next_lru[d] \in (A \cup {c}) \cup {NULL}
               /\ m.next_mru[d] # NULL => m.next_lru[m.next_mru[d]] = d
               /\ m.next_lru[d] # NULL => m.next_mru[m.next_lru[d]] = d
               /\ m.next_mru[d] = NULL <=> m.lru = d
               /\ m.next_lru[d] = NULL <=> m.mru = d
    <3>1. d # c /\ d # NULL
      BY ConnListAssumption
    <3> QED
      BY <1>2, <2>2, <3>1, ConnListAssumption DEF ListInv, Linked
  <2>3. m.lru \in A \cup {c}
    BY <1>2 DEF ListInv, Linked
  <2> QED
    BY <1>2, <2>1, <2>2, <2>3 DEF Linked
<1>4. Ranked(m, A \cup {c}, s)
  <2>1. /\ c # NULL /\ (l.mru = NULL \/ l.mru \in A)
        /\ m.mru = c /\ m.next_mru[c] = l.mru
        /\ \A d \in A : m.next_mru[d] = l.next_mru[d] /\ l.next_mru[d] \in A \cup {NULL}
    BY <1>2 DEF ListInv, Linked
  <2>2. /\ s \in [Conns -> Int]
        /\ \A d \in A : s[d] = r[d] /\ r[d] \in Int
        /\ s[c] = IF l.mru = NULL THEN 0 ELSE r[l.mru] + 1
    BY <1>1, <2>1 DEF Ranked
  <2>3. \A d \in A : l.mru \in A /\ r[d] <= r[l.mru] /\ s[d] < s[c]
    BY <1>1, <2>1, <2>2 DEF Ranked
  <2>4. \A p, d \in A \cup {c} : s[p] = s[d] => p = d
    BY <1>1, <2>2, <2>3 DEF Ranked
  <2>5. \A d \in A \cup {c} : m.mru # NULL /\ s[d] <= s[m.mru]
    BY <2>1, <2>2, <2>3
  <2>6. ASSUME NEW p \in A \cup {c}, NEW d \in A \cup {c}
        PROVE  IF m.next_mru[p] = NULL THEN s[p] <= s[d]
               ELSE /\ s[m.next_mru[p]] < s[p]
                    /\ s[d] < s[p] => s[d] <= s[m.next_mru[p]]
    <3>1. CASE p = c
      <4>1. CASE l.mru = NULL
        BY <2>1, <2>2, <2>3, <3>1, <4>1, ConnListAssumption
      <4>2. CASE l.mru # NULL
        BY <2>1, <2>2, <2>3, <3>1, <4>2
      <4> QED
        BY <4>1, <4>2
    <3>2. CASE p \in A
      <4>1. m.next_mru[p] = l.next_mru[p]
        BY <2>1, <3>2
      <4>2. CASE d = c
        BY <1>1, <2>1, <2>2, <2>3, <3>2, <4>1, <4>2 DEF Ranked
      <4>3. CASE d \in A
        BY <1>1, <2>1, <2>2, <3>2, <4>1, <4>3 DEF Ranked
      <4> QED
        BY <4>2, <4>3
    <3> QED
      BY <3>1, <3>2
  <2> QED
    BY <2>2, <2>4, <2>5, <2>6 DEF Ranked
<1> QED
  BY <1>3, <1>4 DEF ListInv, m

\* MarkActive moves a connection of the list and loses none.
LEMMA MarkActiveLinked ==
  ASSUME NEW l \in List, NEW A \in SUBSET Conns, NEW c \in A, ListInv(l, A)
  PROVE  MarkActive(l, c) \in List /\ ListInv(MarkActive(l, c), A)
<1>1. l.next_lru[c] # c
  BY ConnListAssumption DEF ListInv, Linked, Ranked
<1>2. DeleteFromLRU(l, c) \in List /\ ListInv(DeleteFromLRU(l, c), A \ {c})
  BY DeleteIsList, DeleteLinked
<1>3. (A \ {c}) \cup {c} = A /\ c \in Conns \ (A \ {c})
  OBVIOUS
<1>4. MarkActive(l, c) = PushFront(DeleteFromLRU(l, c), c)
  BY <1>1 DEF MarkActive
<1>5. PushFront(DeleteFromLRU(l, c), c) \in List
  BY <1>2, PushFields
<1>6. ListInv(PushFront(DeleteFromLRU(l, c), c), (A \ {c}) \cup {c})
  BY <1>2, <1>3, PushLinked
<1> QED
  BY <1>3, <1>4, <1>5, <1>6

\* A new connection is not in the list, and MarkActive puts it there.
LEMMA ConstructedLinked ==
  ASSUME NEW l \in List, NEW A \in SUBSET Conns, NEW c \in Conns \ A, ListInv(l, A)
  PROVE  LET m == MarkActive(Constructed(l, c), c) IN m \in List /\ ListInv(m, A \cup {c})
<1> DEFINE n == Constructed(l, c)
<1>1. /\ n \in List /\ n.mru = l.mru /\ n.lru = l.lru
      /\ \A d \in Conns : n.next_mru[d] = IF d = c THEN c ELSE l.next_mru[d]
      /\ \A d \in Conns : n.next_lru[d] = IF d = c THEN c ELSE l.next_lru[d]
  BY DEF List, Pointer, Constructed
<1>2. MarkActive(n, c) = PushFront(n, c)
  BY <1>1 DEF MarkActive
<1> HIDE DEF n
<1>3. ListInv(n, A)
  <2>1. PICK r : Ranked(l, A, r)
    BY DEF ListInv
  <2>2. Linked(n, A)
    BY <1>1, ConnListAssumption DEF ListInv, Linked
  <2>3. Ranked(n, A, r)
    BY <2>1, <1>1 DEF Ranked
  <2> QED
    BY <2>2, <2>3 DEF ListInv
<1> QED
  BY <1>1, <1>2, <1>3, PushFields, PushLinked DEF n

-----------------------------------------------------------------------------
(***************************************************************************)
(* Closing, and the batch.                                                 *)
(***************************************************************************)
\* Closing takes the connection and its watch away, or nothing.
LEMMA CloseInv ==
  ASSUME TypeOK, WatchInv, NEW l \in List, NEW c \in alive, ListInv(l, alive),
         CloseConnection(l, c), fd' = fd
  PROVE  /\ list' \in List /\ ListInv(list', alive')
         /\ alive' \subseteq alive /\ alive \ {c} \subseteq alive'
         /\ open' \subseteq Fds /\ watched' \subseteq watched
         /\ WatchInv'
         /\ \A w \in watched : fd[w[2]] # fd[c] => w \in watched'
         /\ \A w \in watched' : w[2] # c
         /\ \A r : Ranked(l, alive, r) => Ranked(list', alive', r)
<1>1. CASE CanDelete(c)
  <2>1. /\ list' = DeleteFromLRU(l, c) /\ alive' = alive \ {c} /\ open' = open \ {fd[c]}
        /\ watched' = {w \in watched : w[1] # fd[c]}
    BY <1>1 DEF CloseConnection
  <2>2. list' \in List /\ ListInv(list', alive')
    <3>1. alive \in SUBSET Conns
      BY DEF TypeOK
    <3>2. DeleteFromLRU(l, c) \in List
      BY <3>1, DeleteIsList
    <3>3. ListInv(DeleteFromLRU(l, c), alive \ {c})
      BY <3>1, DeleteLinked
    <3> QED
      BY <2>1, <3>2, <3>3
  <2>3. WatchInv'
    BY <2>1 DEF WatchInv, TypeOK
  <2>4. ASSUME NEW r, Ranked(l, alive, r) PROVE Ranked(list', alive', r)
    BY <2>1, <2>4, DeleteRanked DEF ListInv, TypeOK
  <2>5. \A w \in watched' : w[2] # c
    BY <2>1 DEF WatchInv
  <2> QED
    BY <2>1, <2>2, <2>3, <2>4, <2>5 DEF TypeOK, WatchInv
<1>2. CASE ~CanDelete(c)
  <2>1. list' = l /\ UNCHANGED <<alive, open, watched>>
    BY <1>2 DEF CloseConnection
  <2>2. WatchInv'
    BY <2>1 DEF WatchInv
  <2>3. \A w \in watched' : w[2] # c
    BY <1>2, <2>1 DEF CanDelete, WatchInv
  <2> QED
    BY <2>1, <2>2, <2>3 DEF TypeOK
<1> QED
  BY <1>1, <1>2

\* A batch names connections that epoll has, each once.
LEMMA BatchInv ==
  ASSUME TypeOK, events' \in Batches
  PROVE  /\ events' \in Seq(Conns \cup {Listener})
         /\ \A i \in DOMAIN events' : events'[i] = Listener \/ \E w \in watched : w[2] = events'[i]
         /\ \A i, j \in DOMAIN events' : events'[i] = events'[j] => i = j
<1> DEFINE Named == {w[2] : w \in watched} \cup {Listener}
<1>1. PICK S \in SUBSET Named : events' \in SetToAllKPermutations(S)
  BY DEF Batches
<1>2. PICK s \in SUBSET S : events' \in SetToSeqs(s)
  BY <1>1 DEF SetToAllKPermutations
<1>3. s \subseteq Conns \cup {Listener}
  BY <1>1, <1>2 DEF TypeOK
<1>4. Cardinality(s) \in Nat
  <2>1. IsFiniteSet(Conns \cup {Listener})
    BY ConnListAssumption, FS_AddElement
  <2> QED
    BY <1>3, <2>1, FS_Subset, FS_CardinalityType
<1>5. /\ events' \in [1..Cardinality(s) -> s]
      /\ \A i, j \in 1..Cardinality(s) : i # j => events'[i] # events'[j]
  BY <1>2 DEF SetToSeqs
<1> QED
  BY <1>1, <1>2, <1>3, <1>4, <1>5

\* Taking the next event leaves others, which closing its connection does not concern.
LEMMA NextEventInv ==
  ASSUME TypeOK, EventsInv, NEW e, NextEvent(e)
  PROVE  /\ pc = "events"
         /\ e = Listener \/ \E w \in watched : w[2] = e
         /\ events' \in Seq(Conns \cup {Listener})
         /\ DOMAIN events' \subseteq DOMAIN events
         /\ \A i \in DOMAIN events' : events'[i] = events[i] /\ events'[i] # e
         /\ \A i, j \in DOMAIN events' : events'[i] = events'[j] => i = j
<1>1. Len(events) \in Nat \ {0} /\ DOMAIN events = 1..Len(events)
  BY DEF NextEvent, TypeOK
<1>2. events' = [i \in 1..(Len(events) - 1) |-> events[i]]
  BY <1>1 DEF NextEvent, TypeOK
<1>3. DOMAIN events' = 1..(Len(events) - 1) /\ Len(events) \in DOMAIN events
  BY <1>1, <1>2
<1>4. events' \in Seq(Conns \cup {Listener})
  BY <1>1, <1>2 DEF TypeOK
<1> QED
  BY <1>1, <1>2, <1>3, <1>4 DEF NextEvent, EventsInv

-----------------------------------------------------------------------------
(***************************************************************************)
(* The invariant.                                                          *)
(***************************************************************************)
LEMMA InitIInv == Init => IInv
<1> SUFFICES ASSUME Init PROVE IInv
  OBVIOUS
<1>1. TypeOK
  <2>1. fd \in [Conns -> Fds]
    BY ConnListAssumption DEF Init
  <2>2. events \in Seq(Conns \cup {Listener})
    BY DEF Init
  <2> QED
    BY <2>1, <2>2 DEF Init, TypeOK, Pointer
<1>2. ListInv(list, alive)
  <2>1. Linked(list, alive)
    BY DEF Init, Linked
  <2>2. Ranked(list, alive, [c \in Conns |-> 0])
    BY DEF Init, Ranked
  <2> QED
    BY <2>1, <2>2 DEF ListInv
<1>3. WatchInv
  BY DEF Init, WatchInv
<1>4. EventsInv /\ CursorInv /\ DestroyInv
  BY DEF Init, EventsInv, CursorInv, DestroyInv
<1> QED
  BY <1>1, <1>2, <1>3, <1>4 DEF IInv

\* The steps that leave every connection alone.
LEMMA QuietStep ==
  ASSUME IInv, UNCHANGED <<list, alive, fd, open, watched>>,
         Wait \/ AcceptNothing \/ EndBatch \/ SignalStop \/ BeginDestroy \/ EndDestroy
  PROVE  IInv'
<1> USE DEF IInv
<1>1. ListInv(list', alive') /\ WatchInv'
  BY DEF WatchInv
<1>2. CASE Wait
  <2>1. events' \in Batches /\ pc' = "events" /\ UNCHANGED <<should_stop, cursor>>
    BY <1>2 DEF Wait
  <2>2. EventsInv' /\ events' \in Seq(Conns \cup {Listener})
    BY <2>1, BatchInv DEF EventsInv
  <2>3. cursor = NULL
    BY <1>2 DEF Wait, CursorInv
  <2> QED
    BY <1>1, <2>1, <2>2, <2>3 DEF TypeOK, CursorInv, DestroyInv
<1>3. CASE AcceptNothing
  <2>1. NextEvent(Listener) /\ UNCHANGED <<should_stop, pc, cursor>>
    BY <1>3 DEF AcceptNothing
  <2>2. EventsInv' /\ events' \in Seq(Conns \cup {Listener})
    BY <2>1, NextEventInv DEF EventsInv
  <2>3. pc = "events"
    BY <2>1 DEF NextEvent
  <2> QED
    BY <1>1, <2>1, <2>2, <2>3 DEF TypeOK, CursorInv, DestroyInv
<1>4. CASE EndBatch
  BY <1>1, <1>4 DEF EndBatch, TypeOK, CursorInv, EventsInv, DestroyInv
<1>5. CASE SignalStop
  BY <1>1, <1>5 DEF SignalStop, TypeOK, CursorInv, EventsInv, DestroyInv
<1>6. CASE BeginDestroy
  <2>1. list.mru \in alive \cup {NULL}
    BY DEF ListInv, Linked
  <2>2. DestroyInv'
    <3>1. PICK r : Ranked(list, alive, r)
      BY DEF ListInv
    <3>2. \A w \in watched : list.mru # NULL /\ r[w[2]] <= r[list.mru]
      BY <3>1 DEF Ranked, WatchInv
    <3> QED
      BY <1>6, <3>1, <3>2 DEF BeginDestroy, DestroyInv
  <2> QED
    BY <1>1, <1>6, <2>1, <2>2 DEF BeginDestroy, TypeOK, CursorInv, EventsInv, Pointer
<1>7. CASE EndDestroy
  BY <1>1, <1>7 DEF EndDestroy, TypeOK, CursorInv, EventsInv, DestroyInv
<1> QED
  BY <1>2, <1>3, <1>4, <1>5, <1>6, <1>7

\* A step on the event of a connection, which stays or is closed.
LEMMA EventStep ==
  ASSUME IInv, NEW c \in Conns, OnError(c) \/ OnConnectionEvent(c)
  PROVE  IInv'
<1> USE DEF IInv
<1>1. NextEvent(c) /\ UNCHANGED <<fd, should_stop, pc, cursor>>
  BY DEF OnError, OnConnectionEvent
<1>2. pc = "events" /\ cursor = NULL
  BY <1>1 DEF NextEvent, CursorInv
<1>3. PICK v \in watched : v[2] = c
  BY <1>1, NextEventInv, ConnListAssumption
<1>4. c \in alive /\ fd[c] = v[1]
  BY <1>3 DEF WatchInv
<1>5. list \in List /\ alive \in SUBSET Conns
  BY DEF TypeOK, List
<1>6. MarkActive(list, c) \in List /\ ListInv(MarkActive(list, c), alive)
  BY <1>4, <1>5, MarkActiveLinked
<1> DEFINE Kept ==
      /\ list' \in List /\ ListInv(list', alive') /\ alive' \subseteq Conns
      /\ open' \subseteq Fds /\ watched' \subseteq Fds \X Conns /\ WatchInv'
      /\ \A w \in watched : w[2] # c => w \in watched'
<1>7. Kept
  <2>1. CASE list' = MarkActive(list, c) /\ UNCHANGED <<alive, open, watched>>
    BY <1>1, <1>6, <2>1 DEF TypeOK, WatchInv
  <2>2. ASSUME NEW l \in List, ListInv(l, alive), CloseConnection(l, c)
        PROVE  Kept
    <3>1. /\ list' \in List /\ ListInv(list', alive') /\ alive' \subseteq alive
          /\ open' \subseteq Fds /\ watched' \subseteq watched /\ WatchInv'
          /\ \A w \in watched : fd[w[2]] # fd[c] => w \in watched'
      BY <1>1, <1>4, <2>2, CloseInv
    <3>2. \A w \in watched : fd[w[2]] = fd[c] => w = v
      BY <1>3, <1>4 DEF WatchInv
    <3> QED
      BY <1>3, <3>1, <3>2 DEF TypeOK
  <2> QED
    BY <1>5, <1>6, <2>1, <2>2 DEF OnError, OnConnectionEvent
<1>8. EventsInv' /\ events' \in Seq(Conns \cup {Listener})
  BY <1>1, <1>7, NextEventInv DEF EventsInv
<1> QED
  BY <1>1, <1>2, <1>5, <1>7, <1>8 DEF TypeOK, List, CursorInv, DestroyInv

\* A new connection, with its descriptor or without.
LEMMA NewConnectionStep ==
  ASSUME IInv, NEW c \in Conns, NEW f \in Fds, OnNewConnection(c, f)
  PROVE  IInv'
<1> USE DEF IInv
<1>1. /\ NextEvent(Listener) /\ c \notin alive /\ f \notin open
      /\ list' = MarkActive(Constructed(list, c), c)
      /\ alive' = alive \cup {c} /\ fd' = [fd EXCEPT ![c] = f]
      /\ \/ open' = open \cup {f} /\ watched' = watched \cup {<<f, c>>}
         \/ UNCHANGED <<open, watched>>
      /\ UNCHANGED <<should_stop, pc, cursor>>
  BY DEF OnNewConnection
<1>2. pc = "events" /\ cursor = NULL
  BY <1>1 DEF NextEvent, CursorInv
<1>3. list \in List /\ alive \in SUBSET Conns /\ c \in Conns \ alive
  BY <1>1 DEF TypeOK, List
<1>4. list' \in List /\ ListInv(list', alive')
  BY <1>1, <1>3, ConstructedLinked
<1>5. WatchInv'
  <2>1. \A w \in watched : w[2] # c /\ fd'[w[2]] = fd[w[2]] /\ w[1] # f
    BY <1>1, <1>3 DEF WatchInv, TypeOK
  <2>2. fd'[c] = f
    BY <1>1 DEF TypeOK
  <2>3. CASE UNCHANGED <<open, watched>>
    <3>1. open' = open /\ watched' = watched /\ alive \subseteq alive'
      BY <1>1, <2>3
    <3> QED
      BY <2>1, <3>1 DEF WatchInv
  <2>4. CASE open' = open \cup {f} /\ watched' = watched \cup {<<f, c>>}
    <3>1. open' = {w[1] : w \in watched'}
      <4>1. ASSUME NEW x \in open' PROVE \E w \in watched' : x = w[1]
        <5>1. CASE x = f
          <6>1. <<f, c>> \in watched' /\ x = <<f, c>>[1]
            BY <2>4, <5>1
          <6> QED
            BY <6>1
        <5>2. CASE x \in open
          <6>1. PICK w \in watched : x = w[1]
            BY <5>2 DEF WatchInv
          <6> QED
            BY <2>4, <6>1
        <5> QED
          BY <2>4, <4>1, <5>1, <5>2
      <4>2. \A w \in watched' : w[1] \in open'
        BY <2>4 DEF WatchInv
      <4> QED
        BY <4>1, <4>2
    <3>2. \A w \in watched' : w[2] \in alive' /\ fd'[w[2]] = w[1]
      BY <1>1, <2>1, <2>2, <2>4 DEF WatchInv
    <3>3. \A v, w \in watched' : v[1] = w[1] => v = w
      BY <2>1, <2>4 DEF WatchInv
    <3> QED
      BY <3>1, <3>2, <3>3 DEF WatchInv
  <2> QED
    BY <1>1, <2>3, <2>4
<1>6. EventsInv' /\ events' \in Seq(Conns \cup {Listener})
  <2>1. watched \subseteq watched'
    BY <1>1
  <2> QED
    BY <1>1, <2>1, NextEventInv DEF EventsInv
<1>7. alive' \subseteq Conns /\ fd' \in [Conns -> Fds] /\ open' \subseteq Fds
      /\ watched' \subseteq Fds \X Conns
  BY <1>1 DEF TypeOK
<1> QED
  BY <1>1, <1>2, <1>4, <1>5, <1>6, <1>7 DEF TypeOK, List, CursorInv, DestroyInv

\* The loop of ~Server: the next connection is another one.
LEMMA DestroyStep ==
  ASSUME IInv, DestroyNext
  PROVE  IInv'
<1> USE DEF IInv
<1>1. /\ pc = "destroy" /\ cursor # NULL /\ cursor' = list.next_mru[cursor]
      /\ CloseConnection(list, cursor)
      /\ UNCHANGED <<fd, events, should_stop, pc>>
  BY DEF DestroyNext
<1>2. events = <<>> /\ cursor \in alive /\ list \in List /\ alive \in SUBSET Conns
  BY <1>1 DEF EventsInv, CursorInv, TypeOK, List
<1>3. /\ list' \in List /\ ListInv(list', alive')
      /\ alive' \subseteq alive /\ alive \ {cursor} \subseteq alive'
      /\ open' \subseteq Fds /\ watched' \subseteq watched /\ WatchInv'
  BY <1>1, <1>2, CloseInv
<1>4. PICK r : /\ Ranked(list, alive, r)
               /\ \A w \in watched : r[w[2]] <= r[cursor]
  BY <1>1 DEF DestroyInv
<1>5. \A c \in alive : r[c] \in Int
  BY <1>4 DEF Ranked, TypeOK
<1>6. list.next_mru[cursor] \in alive \cup {NULL}
  BY <1>2 DEF ListInv, Linked
<1>7. cursor' \in (alive \ {cursor}) \cup {NULL}
  BY <1>1, <1>2, <1>4, <1>5, <1>6 DEF Ranked
<1>8. ASSUME NEW w \in watched' PROVE cursor' # NULL /\ r[w[2]] <= r[cursor']
  <2>1. w[2] \in alive /\ w[2] # cursor /\ r[w[2]] <= r[cursor]
    BY <1>1, <1>2, <1>3, <1>4, CloseInv DEF WatchInv
  <2>2. r[w[2]] < r[cursor]
    BY <1>2, <1>4, <1>5, <2>1 DEF Ranked
  <2> QED
    BY <1>1, <1>2, <1>4, <1>5, <2>1, <2>2 DEF Ranked
<1>9. DestroyInv'
  <2>1. Ranked(list', alive', r)
    BY <1>1, <1>2, <1>4, CloseInv
  <2> QED
    BY <1>8, <2>1 DEF DestroyInv
<1>10. EventsInv' /\ CursorInv'
  BY <1>1, <1>2, <1>3, <1>7 DEF EventsInv, CursorInv
<1> QED
  BY <1>1, <1>2, <1>3, <1>7, <1>9, <1>10 DEF TypeOK, List, Pointer

LEMMA NextIInv == IInv /\ [Next]_vars => IInv'
<1> SUFFICES ASSUME IInv, [Next]_vars PROVE IInv'
  OBVIOUS
<1>1. CASE Wait \/ AcceptNothing \/ EndBatch \/ SignalStop \/ BeginDestroy \/ EndDestroy
  <2>1. UNCHANGED <<list, alive, fd, open, watched>>
    BY <1>1 DEF Wait, AcceptNothing, EndBatch, SignalStop, BeginDestroy, EndDestroy
  <2> QED
    BY <1>1, <2>1, QuietStep
<1>2. CASE \E c \in Conns : OnError(c) \/ OnConnectionEvent(c)
  BY <1>2, EventStep
<1>3. CASE \E c \in Conns, f \in Fds : OnNewConnection(c, f)
  BY <1>3, NewConnectionStep
<1>4. CASE DestroyNext
  BY <1>4, DestroyStep
<1>5. CASE Gone \/ UNCHANGED vars
  <2>1. UNCHANGED vars
    BY <1>5 DEF Gone
  <2> QED
    BY <2>1 DEF vars, IInv, TypeOK, ListInv, WatchInv, EventsInv, CursorInv, DestroyInv
<1> QED
  BY <1>1, <1>2, <1>3, <1>4, <1>5 DEF Next, ServerStep

\* The invariant, for the theorems below.
THEOREM Invariant == Spec => []IInv
BY InitIInv, NextIInv, PTL DEF Spec

-----------------------------------------------------------------------------
\* Types, whatever epoll and accept answer.
THEOREM TypeCorrect == Spec => []TypeOK
<1>1. IInv => TypeOK
  BY DEF IInv
<1> QED
  BY <1>1, Invariant, PTL

\* No pointer, event or watch leads to a deleted connection (CloseConnection, ~Server).
THEOREM Safe == Spec => []NoUseAfterFree
<1>1. IInv => NoUseAfterFree
  BY DEF IInv, ListInv, Linked, WatchInv, EventsInv, CursorInv, NoUseAfterFree
<1> QED
  BY <1>1, Invariant, PTL

\* An open descriptor is watched for the one connection that has it (OnNewConnection).
THEOREM Owned == Spec => []OneOwner
<1>1. IInv => OneOwner
  <2> SUFFICES ASSUME IInv PROVE OneOwner
    OBVIOUS
  <2>1. ASSUME NEW f \in open PROVE \E c \in alive : <<f, c>> \in watched /\ fd[c] = f
    <3>1. PICK w \in watched : w[1] = f
      BY <2>1 DEF IInv, WatchInv
    <3>2. w = <<f, w[2]>>
      BY <3>1 DEF IInv, TypeOK
    <3> QED
      BY <3>1, <3>2 DEF IInv, WatchInv
  <2> QED
    BY <2>1 DEF IInv, WatchInv, OneOwner
<1> QED
  BY <1>1, Invariant, PTL

\* ~Server leaves nothing open, although closing a connection that epoll refused fails.
THEOREM EverythingClosed == Spec => []AllClosed
<1>1. IInv => AllClosed
  BY DEF IInv, WatchInv, CursorInv, DestroyInv, AllClosed
<1> QED
  BY <1>1, Invariant, PTL

=============================================================================
