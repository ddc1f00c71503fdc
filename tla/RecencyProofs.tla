---------------------------- MODULE RecencyProofs ----------------------------
(***************************************************************************)
(* For any number of connections: both directions of the RPC server's list *)
(* show the same connections, all of them, and the list implements what    *)
(* Recency promises.                                                       *)
(*                                                                         *)
(* A sequence beside the list says which connections it has in which       *)
(* order.  Every step of the list is shown to be a step of the sequence,   *)
(* and walking along the pointers, a recursive function, to read it.       *)
(***************************************************************************)
EXTENDS ConnListProofs, SequenceTheorems, WellFoundedInduction

\* Following next from first one comes along s, and ends.
Chain(first, next, s) ==
  /\ first = IF s = <<>> THEN NULL ELSE s[1]
  /\ \A i \in 1..Len(s) : next[s[i]] = IF i = Len(s) THEN NULL ELSE s[i + 1]

\* The same from the last to the first.
ChainBack(last, prev, s) ==
  /\ last = IF s = <<>> THEN NULL ELSE s[Len(s)]
  /\ \A i \in 1..Len(s) : prev[s[i]] = IF i = 1 THEN NULL ELSE s[i - 1]

\* s has the connections of A, each once.
Lists(s, A) ==
  /\ s \in Seq(A)
  /\ \A a \in A : \E i \in 1..Len(s) : s[i] = a
  /\ \A i, j \in 1..Len(s) : s[i] = s[j] => i = j

\* The list l has the connections of A in the order s.
Ordered(l, A, s) ==
  Lists(s, A) /\ Chain(l.mru, l.next_mru, s) /\ ChainBack(l.lru, l.next_lru, s)

\* What a step may do to the order.
Recent(s, t) ==
  \/ t = s
  \/ \E c \in Conns : c \notin ToSet(s) /\ t = <<c>> \o s
  \/ \E i \in DOMAIN s : t = <<s[i]>> \o RemoveAt(s, i) \/ t = RemoveAt(s, i)

OrderInv == IInv /\ \E s : Ordered(list, alive, s)

-----------------------------------------------------------------------------
(***************************************************************************)
(* Sequences.                                                              *)
(***************************************************************************)
\* Induction over the numbers, for a set of them: the least number that is not in the set
\* would follow one that is.
LEMMA AllNumbers ==
  ASSUME NEW S \in SUBSET Nat, 0 \in S, \A n \in S : n + 1 \in S
  PROVE  S = Nat
<1> SUFFICES ASSUME Nat \ S # {} PROVE FALSE
  OBVIOUS
<1> DEFINE T == Nat \ S
<1>1. T \subseteq Nat /\ T # {}
  OBVIOUS
<1> HIDE DEF T
<1>2. \E x \in T : \A y \in T : ~(<<y, x>> \in OpToRel(<, Nat))
  BY <1>1, NatLessThanWellFounded, WFMin
<1>3. PICK x \in T : \A y \in T : ~(<<y, x>> \in OpToRel(<, Nat))
  BY <1>2
<1>4. \A y \in T : ~(y < x)
  BY <1>1, <1>3 DEF OpToRel
<1>5. x \in Nat /\ x \notin S /\ x # 0
  BY DEF T
<1>6. x - 1 \in Nat /\ x - 1 < x
  BY <1>5
<1>7. x - 1 \in S
  BY <1>4, <1>6 DEF T
<1>8. (x - 1) + 1 \in S
  BY <1>7
<1> QED
  BY <1>5, <1>8

LEMMA RemoveAtProperties ==
  ASSUME NEW S, NEW s \in Seq(S), NEW k \in 1..Len(s)
  PROVE  /\ RemoveAt(s, k) \in Seq(S)
         /\ Len(RemoveAt(s, k)) = Len(s) - 1
         /\ \A i \in 1..(Len(s) - 1) : RemoveAt(s, k)[i] = IF i < k THEN s[i] ELSE s[i + 1]
<1> DEFINE n == Len(s)
          a == SubSeq(s, 1, k - 1)
          b == SubSeq(s, k + 1, n)
<1>1. n \in Nat /\ \A i \in 1..n : s[i] \in S
  BY ElementOfSeq, LenProperties
<1>2. a \in Seq(S) /\ Len(a) = k - 1 /\ \A i \in 1..(k - 1) : a[i] = s[i]
  <2>1. k - 1 \in Int /\ 1 \in Int /\ \A i \in 1..(k - 1) : s[i] \in S
    BY <1>1
  <2> QED
    BY <2>1, SubSeqProperties
<1>3. b \in Seq(S) /\ Len(b) = n - k /\ \A i \in 1..(n - k) : b[i] = s[k + i]
  <2>1. k + 1 \in Int /\ n \in Int /\ \A i \in (k + 1)..n : s[i] \in S
    BY <1>1
  <2>2. /\ b \in Seq(S)
        /\ Len(b) = IF k + 1 <= n THEN n - (k + 1) + 1 ELSE 0
        /\ \A i \in 1..(n - (k + 1) + 1) : b[i] = s[(k + 1) + i - 1]
    BY <2>1, SubSeqProperties
  <2> HIDE DEF n, b
  <2>3. n \in Nat /\ k \in 1..n
    BY <1>1 DEF n
  <2>4. Len(b) = n - k
    BY <2>2, <2>3
  <2>5. ASSUME NEW i \in 1..(n - k) PROVE b[i] = s[k + i]
    <3>1. i \in 1..(n - (k + 1) + 1) /\ (k + 1) + i - 1 = k + i
      BY <2>3
    <3> QED
      BY <2>2, <3>1
  <2> QED
    BY <2>2, <2>4, <2>5
<1>4. RemoveAt(s, k) = a \o b
  BY DEF RemoveAt
<1> HIDE DEF n, a, b
<1>5. /\ a \o b \in Seq(S) /\ Len(a \o b) = Len(a) + Len(b)
      /\ \A i \in 1..(Len(a) + Len(b)) : (a \o b)[i] = IF i <= Len(a) THEN a[i] ELSE b[i - Len(a)]
  BY <1>2, <1>3, ConcatProperties
<1>6. k \in 1..n
  BY DEF n
<1>7. ASSUME NEW i \in 1..(n - 1) PROVE (a \o b)[i] = IF i < k THEN s[i] ELSE s[i + 1]
  <2>1. CASE i < k
    BY <1>1, <1>2, <1>3, <1>5, <1>6, <2>1
  <2>2. CASE ~(i < k)
    <3>1. i - (k - 1) \in 1..(n - k) /\ k + (i - (k - 1)) = i + 1
      BY <1>1, <1>6, <2>2
    <3> QED
      BY <1>1, <1>2, <1>3, <1>5, <1>6, <2>2, <3>1
  <2> QED
    BY <2>1, <2>2
<1>8. Len(a \o b) = n - 1
  BY <1>1, <1>2, <1>3, <1>5, <1>6
<1> QED
  BY <1>4, <1>5, <1>7, <1>8 DEF n

LEMMA FrontProperties ==
  ASSUME NEW S, NEW s \in Seq(S), NEW c
  PROVE  /\ <<c>> \o s \in Seq(S \cup {c})
         /\ Len(<<c>> \o s) = Len(s) + 1
         /\ (<<c>> \o s)[1] = c
         /\ \A i \in 2..(Len(s) + 1) : (<<c>> \o s)[i] = s[i - 1]
<1> DEFINE T == S \cup {c}
<1>1. <<c>> \in Seq(T) /\ s \in Seq(T) /\ Len(<<c>>) = 1 /\ <<c>>[1] = c
  BY SeqMonotonic
<1>2. Len(s) \in Nat
  BY LenProperties
<1> HIDE DEF T
<1>3. /\ <<c>> \o s \in Seq(T)
      /\ Len(<<c>> \o s) = 1 + Len(s)
      /\ \A i \in 1..(1 + Len(s)) : (<<c>> \o s)[i] = IF i <= 1 THEN <<c>>[i] ELSE s[i - 1]
  BY <1>1, ConcatProperties
<1> QED
  BY <1>1, <1>2, <1>3 DEF T

-----------------------------------------------------------------------------
(***************************************************************************)
(* The list.                                                               *)
(***************************************************************************)
\* Unlinking the k-th connection leaves the others in their order.
LEMMA DeleteOrdered ==
  ASSUME NEW l \in List, NEW A \in SUBSET Conns, NEW s, Ordered(l, A, s), NEW k \in 1..Len(s)
  PROVE  Ordered(DeleteFromLRU(l, s[k]), A \ {s[k]}, RemoveAt(s, k))
<1> DEFINE n == Len(s)
          t == RemoveAt(s, k)
          c == s[k]
          m == DeleteFromLRU(l, c)
<1>1. /\ s \in Seq(A) /\ NULL \notin A /\ n \in Nat
      /\ k \in 1..n /\ 1 \in 1..n /\ n \in 1..n
      /\ \A i \in 1..n : s[i] \in A
      /\ \A i, j \in 1..n : s[i] = s[j] => i = j
  BY ElementOfSeq, LenProperties, ConnListAssumption DEF Ordered, Lists
<1>2. t \in Seq(A) /\ Len(t) = n - 1 /\ \A i \in 1..(n - 1) : t[i] = IF i < k THEN s[i] ELSE s[i + 1]
  BY <1>1, RemoveAtProperties
<1>3. /\ l.mru = s[1] /\ l.lru = s[n]
      /\ \A i \in 1..n : l.next_mru[s[i]] = IF i = n THEN NULL ELSE s[i + 1]
      /\ \A i \in 1..n : l.next_lru[s[i]] = IF i = 1 THEN NULL ELSE s[i - 1]
  <2>1. s # <<>>
    BY <1>1, EmptySeq
  <2> QED
    BY <2>1 DEF Ordered, Chain, ChainBack
<1>4. c \in Conns
  BY <1>1
<1>5. /\ m.mru = IF l.next_lru[c] = NULL THEN l.next_mru[c] ELSE l.mru
      /\ m.lru = IF l.next_mru[c] = NULL THEN l.next_lru[c] ELSE l.lru
      /\ \A d \in A : m.next_mru[d] = IF d = l.next_lru[c] THEN l.next_mru[c] ELSE l.next_mru[d]
      /\ \A d \in A : m.next_lru[d] = IF d = l.next_mru[c] THEN l.next_lru[c] ELSE l.next_lru[d]
  BY <1>4, DeleteFields
<1>6. /\ l.next_mru[c] = IF k = n THEN NULL ELSE s[k + 1]
      /\ l.next_lru[c] = IF k = 1 THEN NULL ELSE s[k - 1]
  BY <1>1, <1>3
<1> HIDE DEF n, t, m
<1>7. Lists(t, A \ {c})
  <2>1. ASSUME NEW i \in 1..(n - 1) PROVE t[i] \in A \ {c}
    <3>1. i \in 1..n /\ i + 1 \in 1..n
      BY <1>1
    <3> QED
      BY <1>1, <1>2, <3>1
  <2>2. t \in Seq(A \ {c})
    <3>1. t = [i \in 1..(n - 1) |-> t[i]]
      BY <1>2, LenProperties
    <3>2. n - 1 \in Nat
      BY <1>1
    <3> QED
      BY <2>1, <3>1, <3>2, IsASeq
  <2>3. ASSUME NEW a \in A \ {c} PROVE \E i \in 1..(n - 1) : t[i] = a
    <3>1. PICK i \in 1..n : s[i] = a
      BY DEF Ordered, Lists, n
    <3>2. CASE i < k
      <4>1. i \in 1..(n - 1)
        BY <1>1, <3>2
      <4> QED
        BY <1>2, <3>1, <3>2, <4>1
    <3>3. CASE i > k
      <4>1. i - 1 \in 1..(n - 1) /\ ~(i - 1 < k) /\ (i - 1) + 1 = i
        BY <1>1, <3>3
      <4> QED
        BY <1>2, <3>1, <4>1
    <3> QED
      BY <1>1, <3>1, <3>2, <3>3
  <2>4. ASSUME NEW i \in 1..(n - 1), NEW j \in 1..(n - 1), t[i] = t[j] PROVE i = j
    <3> DEFINE f(x) == IF x < k THEN x ELSE x + 1
    <3>1. f(i) \in 1..n /\ f(j) \in 1..n
      BY <1>1
    <3>2. t[i] = s[f(i)] /\ t[j] = s[f(j)]
      BY <1>2
    <3>3. f(i) = f(j)
      <4> HIDE DEF f
      <4> QED
        BY <1>1, <2>4, <3>1, <3>2
    <3> QED
      BY <1>1, <3>3
  <2> QED
    BY <1>2, <2>2, <2>3, <2>4 DEF Lists
<1>8. t = <<>> <=> n = 1
  BY <1>1, <1>2, EmptySeq
<1>9. Chain(m.mru, m.next_mru, t)
  <2>1. m.mru = IF t = <<>> THEN NULL ELSE t[1]
    <3>1. CASE k = 1 /\ n = 1
      BY <1>5, <1>6, <1>8, <3>1
    <3>2. CASE k = 1 /\ n # 1
      <4>1. 1 \in 1..(n - 1) /\ 1 + 1 = 2
        BY <1>1, <3>2
      <4>2. t[1] = s[2]
        BY <1>2, <3>2, <4>1
      <4>3. m.mru = s[2]
        BY <1>5, <1>6, <3>2, <4>1
      <4> QED
        BY <1>8, <3>2, <4>2, <4>3
    <3>3. CASE k # 1
      <4>1. 1 \in 1..(n - 1) /\ n # 1 /\ 1 < k /\ k - 1 \in 1..n
        BY <1>1, <3>3
      <4>2. t[1] = s[1]
        BY <1>2, <4>1
      <4>3. m.mru = s[1]
        BY <1>1, <1>3, <1>5, <1>6, <3>3, <4>1
      <4> QED
        BY <1>8, <4>1, <4>2, <4>3
    <3> QED
      BY <3>1, <3>2, <3>3
  <2>2. ASSUME NEW i \in 1..(n - 1)
        PROVE  m.next_mru[t[i]] = IF i = n - 1 THEN NULL ELSE t[i + 1]
    <3>1. i \in 1..n /\ i + 1 \in 1..n
      BY <1>1
    <3>2. CASE i < k - 1
      <4>1. /\ i < k /\ i + 1 < k /\ i # n - 1 /\ i # n /\ i + 1 \in 1..(n - 1)
            /\ k - 1 \in 1..n /\ i # k - 1
        BY <1>1, <3>2
      <4>2. t[i] = s[i] /\ t[i + 1] = s[i + 1] /\ s[i] \in A
        BY <1>1, <1>2, <3>1, <4>1
      <4>3. l.next_lru[c] # s[i] /\ l.next_mru[s[i]] = s[i + 1]
        BY <1>1, <1>3, <1>6, <3>1, <4>1
      <4> QED
        BY <1>5, <4>1, <4>2, <4>3
    <3>3. CASE i = k - 1
      <4>1. i < k /\ k # 1 /\ i + 1 = k /\ (i = n - 1 <=> k = n)
        BY <1>1, <3>3
      <4>2. t[i] = s[i] /\ s[i] \in A /\ l.next_lru[c] = s[i]
        BY <1>1, <1>2, <1>6, <3>1, <3>3, <4>1
      <4>3. k # n => k \in 1..(n - 1) /\ ~(k < k)
        BY <1>1
      <4>4. k # n => t[i + 1] = s[k + 1]
        BY <1>2, <4>1, <4>3
      <4> QED
        BY <1>5, <1>6, <4>1, <4>2, <4>4
    <3>4. CASE i >= k
      <4>1. ~(i < k) /\ i + 1 # k - 1 /\ (i = n - 1 <=> i + 1 = n) /\ (i + 1) + 1 = i + 2
            /\ (k # 1 => k - 1 \in 1..n)
        BY <1>1, <3>4
      <4>2. t[i] = s[i + 1] /\ s[i + 1] \in A
        BY <1>1, <1>2, <3>1, <4>1
      <4>3. l.next_lru[c] # s[i + 1]
        BY <1>1, <1>6, <3>1, <4>1
      <4>4. l.next_mru[s[i + 1]] = IF i = n - 1 THEN NULL ELSE s[i + 2]
        BY <1>3, <3>1, <4>1
      <4>5. i # n - 1 => i + 1 \in 1..(n - 1) /\ ~(i + 1 < k)
        BY <1>1, <3>4
      <4>6. i # n - 1 => t[i + 1] = s[i + 2]
        BY <1>2, <4>1, <4>5
      <4> QED
        BY <1>5, <4>2, <4>3, <4>4, <4>6
    <3> QED
      BY <1>1, <3>2, <3>3, <3>4
  <2> QED
    BY <1>2, <2>1, <2>2 DEF Chain
<1>10. ChainBack(m.lru, m.next_lru, t)
  <2>1. m.lru = IF t = <<>> THEN NULL ELSE t[Len(t)]
    <3>1. CASE k = n /\ n = 1
      BY <1>5, <1>6, <1>8, <3>1
    <3>2. CASE k = n /\ n # 1
      <4>1. n - 1 \in 1..(n - 1) /\ n - 1 < k
        BY <1>1, <3>2
      <4>2. t[n - 1] = s[n - 1]
        BY <1>2, <4>1
      <4>3. m.lru = s[n - 1]
        BY <1>5, <1>6, <3>2
      <4> QED
        BY <1>2, <1>8, <3>2, <4>2, <4>3
    <3>3. CASE k # n
      <4>1. /\ n - 1 \in 1..(n - 1) /\ n # 1 /\ ~(n - 1 < k) /\ k + 1 \in 1..n
            /\ (n - 1) + 1 = n
        BY <1>1, <3>3
      <4>2. t[n - 1] = s[n]
        BY <1>2, <4>1
      <4>3. m.lru = s[n]
        BY <1>1, <1>3, <1>5, <1>6, <3>3, <4>1
      <4> QED
        BY <1>2, <1>8, <4>1, <4>2, <4>3
    <3> QED
      BY <3>1, <3>2, <3>3
  <2>2. ASSUME NEW i \in 1..(n - 1)
        PROVE  m.next_lru[t[i]] = IF i = 1 THEN NULL ELSE t[i - 1]
    <3>1. i \in 1..n /\ i + 1 \in 1..n /\ (i # 1 => i - 1 \in 1..(n - 1))
      BY <1>1
    <3>2. CASE i < k
      <4>1. i - 1 < k /\ i # k + 1 /\ (k # n => k + 1 \in 1..n)
        BY <1>1, <3>2
      <4>2. t[i] = s[i] /\ s[i] \in A /\ (i # 1 => t[i - 1] = s[i - 1])
        BY <1>1, <1>2, <3>1, <3>2, <4>1
      <4>3. l.next_mru[c] # s[i] /\ l.next_lru[s[i]] = IF i = 1 THEN NULL ELSE s[i - 1]
        BY <1>1, <1>3, <1>6, <3>1, <4>1
      <4> QED
        BY <1>5, <4>2, <4>3
    <3>3. CASE i = k
      <4>1. ~(i < k) /\ k # n /\ (i # 1 => i - 1 < k)
        BY <1>1, <3>3
      <4>2. t[i] = s[i + 1] /\ s[i + 1] \in A /\ l.next_mru[c] = s[i + 1]
        BY <1>1, <1>2, <1>6, <3>1, <3>3, <4>1
      <4>3. i # 1 => t[i - 1] = s[k - 1]
        BY <1>2, <3>1, <3>3, <4>1
      <4> QED
        BY <1>5, <1>6, <3>3, <4>2, <4>3
    <3>4. CASE i > k
      <4>1. ~(i < k) /\ i # 1 /\ ~(i - 1 < k) /\ (i - 1) + 1 = i /\ (i + 1) - 1 = i
            /\ i + 1 # k + 1 /\ i + 1 # 1 /\ (k # n => k + 1 \in 1..n)
        BY <1>1, <3>4
      <4>2. t[i] = s[i + 1] /\ s[i + 1] \in A /\ t[i - 1] = s[i]
        BY <1>1, <1>2, <3>1, <4>1
      <4>3. l.next_mru[c] # s[i + 1]
        BY <1>1, <1>6, <3>1, <4>1
      <4>4. l.next_lru[s[i + 1]] = s[i]
        BY <1>3, <3>1, <4>1
      <4> QED
        BY <1>5, <4>1, <4>2, <4>3, <4>4
    <3> QED
      BY <1>1, <3>2, <3>3, <3>4
  <2> QED
    BY <1>2, <2>1, <2>2 DEF ChainBack
<1> QED
  BY <1>7, <1>9, <1>10 DEF Ordered, m, t

\* A connection that is in no list gets before all others.
LEMMA PushOrdered ==
  ASSUME NEW l \in List, NEW A \in SUBSET Conns, NEW s, Ordered(l, A, s), NEW c \in Conns \ A
  PROVE  Ordered(PushFront(l, c), A \cup {c}, <<c>> \o s)
<1> DEFINE n == Len(s)
          t == <<c>> \o s
          m == PushFront(l, c)
<1>1. /\ s \in Seq(A) /\ NULL \notin A /\ n \in Nat
      /\ \A i \in 1..n : s[i] \in A
      /\ \A i, j \in 1..n : s[i] = s[j] => i = j
  BY ElementOfSeq, LenProperties, ConnListAssumption DEF Ordered, Lists
<1>2. /\ t \in Seq(A \cup {c}) /\ Len(t) = n + 1 /\ t[1] = c
      /\ \A i \in 2..(n + 1) : t[i] = s[i - 1]
  BY <1>1, FrontProperties
<1>3. s = <<>> <=> n = 0
  BY <1>1, EmptySeq
<1>4. /\ l.mru = IF n = 0 THEN NULL ELSE s[1]
      /\ l.lru = IF n = 0 THEN NULL ELSE s[n]
      /\ \A i \in 1..n : l.next_mru[s[i]] = IF i = n THEN NULL ELSE s[i + 1]
      /\ \A i \in 1..n : l.next_lru[s[i]] = IF i = 1 THEN NULL ELSE s[i - 1]
  BY <1>3 DEF Ordered, Chain, ChainBack
<1>5. /\ m.mru = c
      /\ m.lru = IF l.mru = NULL THEN c ELSE l.lru
      /\ m.next_mru[c] = l.mru /\ m.next_lru[c] = NULL
      /\ \A d \in A : m.next_mru[d] = l.next_mru[d]
      /\ \A d \in A : m.next_lru[d] = IF d = l.mru THEN c ELSE l.next_lru[d]
  BY PushFields
<1> HIDE DEF n, t, m
<1>6. n # 0 => 1 \in 1..n /\ n \in 1..n /\ l.mru = s[1] /\ l.mru # NULL
  <2>1. n # 0 => 1 \in 1..n /\ n \in 1..n
    BY <1>1
  <2> QED
    BY <1>1, <1>4, <2>1
<1>7. t # <<>>
  BY <1>1, <1>2, EmptySeq
<1>8. ASSUME NEW i \in 1..(n + 1), i # 1
      PROVE  i - 1 \in 1..n /\ i \in 2..(n + 1) /\ t[i] = s[i - 1] /\ t[i] \in A
  <2>1. i - 1 \in 1..n /\ i \in 2..(n + 1)
    BY <1>1, <1>8
  <2> QED
    BY <1>1, <1>2, <2>1
<1>9. Lists(t, A \cup {c})
  <2>1. ASSUME NEW a \in A PROVE \E i \in 1..(n + 1) : t[i] = a
    <3>1. PICK i \in 1..n : s[i] = a
      BY DEF Ordered, Lists, n
    <3>2. i + 1 \in 1..(n + 1) /\ i + 1 \in 2..(n + 1) /\ (i + 1) - 1 = i
      BY <1>1
    <3> QED
      BY <1>2, <3>1, <3>2
  <2>2. 1 \in 1..(n + 1)
    BY <1>1
  <2>3. ASSUME NEW i \in 1..(n + 1), NEW j \in 1..(n + 1), t[i] = t[j] PROVE i = j
    <3>1. CASE i = 1 \/ j = 1
      BY <1>2, <1>8, <2>3, <3>1
    <3>2. CASE i # 1 /\ j # 1
      <4>1. i - 1 = j - 1
        BY <1>1, <1>8, <2>3, <3>2
      <4> QED
        BY <1>1, <4>1
    <3> QED
      BY <3>1, <3>2
  <2> QED
    BY <1>2, <2>1, <2>2, <2>3 DEF Lists
<1>10. Chain(m.mru, m.next_mru, t)
  <2>1. ASSUME NEW i \in 1..(n + 1)
        PROVE  m.next_mru[t[i]] = IF i = n + 1 THEN NULL ELSE t[i + 1]
    <3>1. CASE i = 1
      <4>1. n # 0 => 2 \in 2..(n + 1) /\ 2 - 1 = 1 /\ 1 + 1 = 2 /\ 1 # n + 1
        BY <1>1
      <4>2. CASE n = 0
        BY <1>2, <1>4, <1>5, <3>1, <4>2
      <4>3. CASE n # 0
        BY <1>2, <1>5, <1>6, <3>1, <4>1, <4>3
      <4> QED
        BY <4>2, <4>3
    <3>2. CASE i # 1
      <4>1. /\ i - 1 \in 1..n /\ t[i] = s[i - 1] /\ t[i] \in A
            /\ (i = n + 1 <=> i - 1 = n) /\ (i - 1) + 1 = i /\ (i + 1) - 1 = i
            /\ (i # n + 1 => i + 1 \in 2..(n + 1))
        BY <1>1, <1>8, <3>2
      <4> QED
        BY <1>2, <1>4, <1>5, <4>1
    <3> QED
      BY <3>1, <3>2
  <2> QED
    BY <1>2, <1>5, <1>7, <2>1 DEF Chain
<1>11. ChainBack(m.lru, m.next_lru, t)
  <2>1. m.lru = t[n + 1]
    <3>1. CASE n = 0
      BY <1>2, <1>4, <1>5, <3>1
    <3>2. CASE n # 0
      <4>1. n + 1 \in 2..(n + 1) /\ (n + 1) - 1 = n
        BY <1>1, <3>2
      <4> QED
        BY <1>2, <1>4, <1>5, <1>6, <3>2, <4>1
    <3> QED
      BY <3>1, <3>2
  <2>2. ASSUME NEW i \in 1..(n + 1)
        PROVE  m.next_lru[t[i]] = IF i = 1 THEN NULL ELSE t[i - 1]
    <3>1. CASE i = 1
      BY <1>2, <1>5, <3>1
    <3>2. CASE i = 2
      <4>1. /\ t[i] = s[1] /\ t[i] \in A /\ n # 0 /\ i - 1 = 1
        BY <1>1, <1>8, <3>2
      <4> QED
        BY <1>2, <1>5, <1>6, <3>2, <4>1
    <3>3. CASE i # 1 /\ i # 2
      <4>1. /\ i - 1 \in 1..n /\ i - 1 # 1 /\ n # 0 /\ (i - 1) - 1 = i - 2
            /\ t[i] = s[i - 1] /\ t[i] \in A
        BY <1>1, <1>8, <3>3
      <4>2. t[i - 1] = s[i - 2]
        <5>1. i - 1 \in 2..(n + 1)
          BY <1>1, <3>3
        <5> QED
          BY <1>2, <4>1, <5>1
      <4>3. s[i - 1] # s[1]
        BY <1>1, <1>6, <4>1
      <4>4. l.next_lru[s[i - 1]] = s[i - 2]
        BY <1>4, <4>1
      <4> QED
        BY <1>5, <1>6, <3>3, <4>1, <4>2, <4>3, <4>4
    <3> QED
      BY <3>1, <3>2, <3>3
  <2> QED
    BY <1>2, <1>7, <2>1, <2>2 DEF ChainBack
<1> QED
  BY <1>9, <1>10, <1>11 DEF Ordered, m, t


\* A connection of the list has a place in its order.
LEMMA HasPlace ==
  ASSUME NEW s, NEW A \in SUBSET Conns, Lists(s, A), NEW c \in A
  PROVE  \E k \in 1..Len(s) : s[k] = c
BY DEF Lists

\* MarkActive moves a connection of the list to the front.
LEMMA TouchOrdered ==
  ASSUME NEW l \in List, NEW A \in SUBSET Conns, NEW s, Ordered(l, A, s), NEW k \in 1..Len(s),
         ListInv(l, A)
  PROVE  Ordered(MarkActive(l, s[k]), A, <<s[k]>> \o RemoveAt(s, k))
<1> DEFINE c == s[k]
<1>1. c \in A
  BY ElementOfSeq DEF Ordered, Lists
<1> HIDE DEF c
<1>2. l.next_lru[c] # c
  BY <1>1, ConnListAssumption DEF ListInv, Linked, Ranked
<1>3. MarkActive(l, c) = PushFront(DeleteFromLRU(l, c), c)
  BY <1>2 DEF MarkActive
<1>4. Ordered(DeleteFromLRU(l, c), A \ {c}, RemoveAt(s, k)) /\ DeleteFromLRU(l, c) \in List
  BY <1>1, DeleteOrdered, DeleteIsList DEF c
<1>5. A \ {c} \in SUBSET Conns /\ c \in Conns \ (A \ {c}) /\ (A \ {c}) \cup {c} = A
  BY <1>1
<1>6. Ordered(PushFront(DeleteFromLRU(l, c), c), (A \ {c}) \cup {c}, <<c>> \o RemoveAt(s, k))
  BY <1>4, <1>5, PushOrdered
<1> QED
  BY <1>3, <1>5, <1>6 DEF c

\* A new connection is in no list, and MarkActive puts it before all others.
LEMMA EnterOrdered ==
  ASSUME NEW l \in List, NEW A \in SUBSET Conns, NEW s, Ordered(l, A, s), NEW c \in Conns \ A
  PROVE  Ordered(MarkActive(Constructed(l, c), c), A \cup {c}, <<c>> \o s)
<1> DEFINE m == Constructed(l, c)
<1>1. /\ m \in List /\ m.mru = l.mru /\ m.lru = l.lru /\ m.next_lru[c] = c
      /\ \A d \in A : m.next_mru[d] = l.next_mru[d] /\ m.next_lru[d] = l.next_lru[d]
  BY DEF Constructed, List, Pointer
<1>2. MarkActive(m, c) = PushFront(m, c)
  BY <1>1 DEF MarkActive
<1> HIDE DEF m
<1>3. \A i \in 1..Len(s) : s[i] \in A
  BY ElementOfSeq DEF Ordered, Lists
<1>4. Ordered(m, A, s)
  BY <1>1, <1>3 DEF Ordered, Chain, ChainBack
<1> QED
  BY <1>1, <1>2, <1>4, PushOrdered DEF m

-----------------------------------------------------------------------------
(***************************************************************************)
(* The steps.                                                              *)
(***************************************************************************)
\* Closing takes the connection out of the list it is in, or does nothing.
LEMMA CloseOrdered ==
  ASSUME NEW l \in List, NEW s, alive \subseteq Conns, Ordered(l, alive, s), NEW k \in 1..Len(s),
         CloseConnection(l, s[k])
  PROVE  \/ Ordered(list', alive', s)
         \/ Ordered(list', alive', RemoveAt(s, k))
<1>1. CASE CanDelete(s[k])
  <2>1. list' = DeleteFromLRU(l, s[k]) /\ alive' = alive \ {s[k]}
    BY <1>1 DEF CloseConnection
  <2> QED
    BY <2>1, DeleteOrdered
<1>2. CASE ~CanDelete(s[k])
  BY <1>2 DEF CloseConnection
<1> QED
  BY <1>1, <1>2

\* What is first is taken out as from where it was.
LEMMA TouchedThenRemoved ==
  ASSUME NEW S, NEW s \in Seq(S), NEW k \in 1..Len(s)
  PROVE  RemoveAt(<<s[k]>> \o RemoveAt(s, k), 1) = RemoveAt(s, k)
<1> DEFINE u == RemoveAt(s, k)
          c == s[k]
<1>1. u \in Seq(S)
  BY RemoveAtProperties
<1>2. Len(u) \in Nat
  BY <1>1, LenProperties
<1> HIDE DEF u, c
<1>3. /\ <<c>> \o u \in Seq(S \cup {c}) /\ Len(<<c>> \o u) = Len(u) + 1
      /\ \A i \in 2..(Len(u) + 1) : (<<c>> \o u)[i] = u[i - 1]
  BY <1>1, FrontProperties
<1> DEFINE w == <<c>> \o u
<1> HIDE DEF w
<1>4. 1 \in 1..Len(w) /\ w \in Seq(S \cup {c})
  BY <1>2, <1>3 DEF w
<1>5. /\ RemoveAt(w, 1) \in Seq(S \cup {c})
      /\ Len(RemoveAt(w, 1)) = Len(w) - 1
      /\ \A i \in 1..(Len(w) - 1) : RemoveAt(w, 1)[i] = IF i < 1 THEN w[i] ELSE w[i + 1]
  BY <1>4, RemoveAtProperties
<1>6. Len(w) - 1 = Len(u)
  BY <1>2, <1>3 DEF w
<1>7. ASSUME NEW i \in 1..Len(u) PROVE RemoveAt(w, 1)[i] = u[i]
  <2>1. i \in 1..(Len(w) - 1) /\ ~(i < 1) /\ i + 1 \in 2..(Len(u) + 1) /\ (i + 1) - 1 = i
    BY <1>2, <1>6
  <2> QED
    BY <1>3, <1>5, <2>1 DEF w
<1>8. RemoveAt(w, 1) = u
  BY <1>1, <1>5, <1>6, <1>7, SeqEqual
<1> QED
  BY <1>8 DEF w, u, c

LEMMA InitOrdered == Init => Ordered(list, alive, <<>>)
BY EmptySeq DEF Init, Ordered, Lists, Chain, ChainBack

\* A step on the event of a connection.
LEMMA EventOrdered ==
  ASSUME IInv, NEW s, Ordered(list, alive, s), NEW c \in Conns,
         OnError(c) \/ OnConnectionEvent(c)
  PROVE  \E t : Ordered(list', alive', t) /\ Recent(s, t)
<1>1. list \in List /\ alive \in SUBSET Conns /\ ListInv(list, alive)
  BY DEF IInv, TypeOK, List
<1>2. c \in alive
  <2>1. NextEvent(c)
    BY DEF OnError, OnConnectionEvent
  <2> QED
    BY <2>1, NextEventInv, ConnListAssumption DEF IInv, WatchInv
<1>3. PICK k \in 1..Len(s) : s[k] = c
  BY <1>1, <1>2, HasPlace DEF Ordered
<1>4. s \in Seq(alive)
  BY DEF Ordered, Lists
<1> DEFINE touched == <<s[k]>> \o RemoveAt(s, k)
<1>5. Ordered(MarkActive(list, c), alive, touched) /\ MarkActive(list, c) \in List
  BY <1>1, <1>2, <1>3, TouchOrdered, MarkActiveLinked
<1>6. k \in DOMAIN s
  BY <1>3, <1>4
<1>7. Recent(s, s) /\ Recent(s, touched) /\ Recent(s, RemoveAt(s, k))
  BY <1>6 DEF Recent
<1>8. CASE CloseConnection(list, c)
  BY <1>1, <1>3, <1>7, <1>8, CloseOrdered
<1>9. CASE list' = MarkActive(list, c) /\ alive' = alive
  BY <1>5, <1>7, <1>9
<1>10. CASE CloseConnection(MarkActive(list, c), c)
  <2>1. RemoveAt(s, k) \in Seq(alive)
    BY <1>3, <1>4, RemoveAtProperties
  <2>2. Len(touched) = Len(RemoveAt(s, k)) + 1 /\ touched[1] = c
    BY <1>3, <2>1, FrontProperties
  <2>3. 1 \in 1..Len(touched)
    BY <2>1, <2>2, LenProperties
  <2>4. RemoveAt(touched, 1) = RemoveAt(s, k)
    BY <1>3, <1>4, TouchedThenRemoved
  <2> HIDE DEF touched
  <2>5. Ordered(list', alive', touched) \/ Ordered(list', alive', RemoveAt(touched, 1))
    BY <1>1, <1>5, <1>10, <2>2, <2>3, CloseOrdered
  <2> QED
    BY <1>7, <2>4, <2>5
<1> QED
  BY <1>8, <1>9, <1>10 DEF OnError, OnConnectionEvent

LEMMA StepOrdered ==
  ASSUME IInv, NEW s, Ordered(list, alive, s), [Next]_vars
  PROVE  \E t : Ordered(list', alive', t) /\ Recent(s, t)
<1>1. list \in List /\ alive \in SUBSET Conns
  BY DEF IInv, TypeOK, List
<1>2. CASE UNCHANGED <<list, alive>>
  BY <1>2 DEF Recent
<1>3. CASE \E c \in Conns : OnError(c) \/ OnConnectionEvent(c)
  BY <1>3, EventOrdered
<1>4. CASE \E c \in Conns, f \in Fds : OnNewConnection(c, f)
  <2>1. PICK c \in Conns, f \in Fds : OnNewConnection(c, f)
    BY <1>4
  <2>2. /\ c \in Conns \ alive /\ alive' = alive \cup {c}
        /\ list' = MarkActive(Constructed(list, c), c)
    BY <2>1 DEF OnNewConnection
  <2>3. Ordered(list', alive', <<c>> \o s)
    BY <1>1, <2>2, EnterOrdered
  <2>4. c \notin ToSet(s)
    <3>1. s \in Seq(alive)
      BY DEF Ordered, Lists
    <3> QED
      BY <2>2, <3>1, ElementOfSeq DEF ToSet
  <2> QED
    BY <2>3, <2>4 DEF Recent
<1>5. CASE DestroyNext
  <2>1. CloseConnection(list, cursor) /\ cursor \in alive
    BY <1>5 DEF DestroyNext, IInv, CursorInv
  <2>2. PICK k \in 1..Len(s) : s[k] = cursor
    BY <1>1, <2>1, HasPlace DEF Ordered
  <2>3. k \in DOMAIN s
    BY <2>2 DEF Ordered, Lists
  <2>4. Recent(s, s) /\ Recent(s, RemoveAt(s, k))
    BY <2>3 DEF Recent
  <2> QED
    BY <1>1, <2>1, <2>2, <2>4, CloseOrdered
<1>6. CASE Wait \/ AcceptNothing \/ EndBatch \/ SignalStop \/ BeginDestroy \/ EndDestroy
  BY <1>2, <1>6 DEF Wait, AcceptNothing, EndBatch, SignalStop, BeginDestroy, EndDestroy
<1>7. CASE Gone \/ UNCHANGED vars
  BY <1>2, <1>7 DEF Gone, vars
<1> QED
  BY <1>3, <1>4, <1>5, <1>6, <1>7 DEF Next, ServerStep


\* The order is kept beside the list.
LEMMA OrderInvariant == Spec => []OrderInv
<1>1. Init => OrderInv
  BY InitIInv, InitOrdered DEF OrderInv
<1>2. OrderInv /\ [Next]_vars => OrderInv'
  BY NextIInv, StepOrdered DEF OrderInv
<1> QED
  BY <1>1, <1>2, PTL DEF Spec

-----------------------------------------------------------------------------
(***************************************************************************)
(* Walking along the pointers.                                             *)
(***************************************************************************)
LEMMA ListsCardinality ==
  ASSUME NEW A \in SUBSET Conns, NEW s, Lists(s, A)
  PROVE  Len(s) = Cardinality(A) /\ Len(s) \in Nat
<1> DEFINE n == Len(s)
<1>1. n \in Nat /\ s \in [1..n -> A]
  BY LenProperties DEF Lists
<1>2. s \in Bijection(1..n, A)
  <2> /\ \A a \in A : \E i \in 1..n : s[i] = a
      /\ \A i, j \in 1..n : s[i] = s[j] => i = j
    BY DEF Lists
  <2> HIDE DEF n
  <2>1. s \in Injection(1..n, A)
    BY <1>1 DEF Injection, IsInjective
  <2>2. s \in Surjection(1..n, A)
    BY <1>1 DEF Surjection
  <2> QED
    BY <2>1, <2>2 DEF Bijection
<1>3. ExistsBijection(1..Len(s), A)
  BY <1>2 DEF ExistsBijection
<1> QED
  BY <1>1, <1>3, FS_CountingElements

\* The walk reads the sequence: each of its paths is a part of the sequence.
LEMMA WalkReads ==
  ASSUME NEW s, NEW first, NEW next, alive \subseteq Conns, Lists(s, alive), Chain(first, next, s)
  PROVE  Walk(first, next) = s
<1> DEFINE n == Len(s)
          Longer(before) ==
            LET last == before[Len(before)]
            IN  IF next[last] = NULL THEN before ELSE Append(before, next[last])
          Step(f) == [m \in Nat |->
                        IF m = 0 \/ first = NULL THEN <<>>
                        ELSE IF m = 1 THEN <<first>>
                        ELSE Longer(f[m - 1])]
          part == [m \in Nat |-> SubSeq(s, 1, IF m < n THEN m ELSE n)]
          path == CHOOSE f : f = Step(f)
<1>1. Walk(first, next) = path[Cardinality(alive)]
  BY DEF Walk
<1>2. /\ s \in Seq(alive) /\ NULL \notin alive /\ n \in Nat /\ n = Cardinality(alive)
      /\ \A i \in 1..n : s[i] \in alive
      /\ s = <<>> <=> n = 0
  BY ElementOfSeq, EmptySeq, ListsCardinality, ConnListAssumption DEF Lists
<1>3. /\ first = IF n = 0 THEN NULL ELSE s[1]
      /\ \A i \in 1..n : next[s[i]] = IF i = n THEN NULL ELSE s[i + 1]
  BY <1>2 DEF Chain
<1> HIDE DEF n
<1>4. ASSUME NEW k \in 0..n
      PROVE  /\ SubSeq(s, 1, k) \in Seq(alive)
             /\ Len(SubSeq(s, 1, k)) = k
             /\ \A i \in 1..k : SubSeq(s, 1, k)[i] = s[i]
  <2>1. k \in Int /\ 1 \in Int /\ \A i \in 1..k : s[i] \in alive
    BY <1>2
  <2>2. /\ SubSeq(s, 1, k) \in Seq(alive)
        /\ Len(SubSeq(s, 1, k)) = IF 1 <= k THEN k - 1 + 1 ELSE 0
        /\ \A i \in 1..(k - 1 + 1) : SubSeq(s, 1, k)[i] = s[1 + i - 1]
    BY <2>1, SubSeqProperties
  <2> QED
    BY <1>2, <2>2
<1>5. SubSeq(s, 1, 0) = <<>>
  BY <1>2, <1>4, EmptySeq
<1>6. n # 0 => SubSeq(s, 1, 1) = <<first>>
  <2> SUFFICES ASSUME n # 0 PROVE SubSeq(s, 1, 1) = <<first>>
    OBVIOUS
  <2>1. 1 \in 0..n /\ 1 \in 1..1 /\ 1 \in 1..n
    BY <1>2
  <2>2. SubSeq(s, 1, 1) \in Seq(alive) /\ Len(SubSeq(s, 1, 1)) = 1 /\ SubSeq(s, 1, 1)[1] = first
    <3>1. \A i \in 1..1 : SubSeq(s, 1, 1)[i] = s[i]
      BY <1>4, <2>1
    <3> QED
      BY <1>3, <1>4, <2>1, <3>1
  <2>3. <<first>> \in Seq(alive) /\ Len(<<first>>) = 1 /\ <<first>>[1] = first
    BY <1>2, <1>3, <2>1
  <2>4. \A i \in 1..1 : SubSeq(s, 1, 1)[i] = <<first>>[i]
    <3>1. \A i \in 1..1 : i = 1
      OBVIOUS
    <3> QED
      BY <2>2, <2>3, <3>1
  <2> DEFINE u == SubSeq(s, 1, 1)
             v == <<first>>
  <2> HIDE DEF u, v
  <2>5. u \in Seq(alive) /\ v \in Seq(alive) /\ Len(u) = 1 /\ Len(v) = 1 /\ \A i \in 1..1 : u[i] = v[i]
    BY <2>2, <2>3, <2>4 DEF u, v
  <2>6. u = v
    BY <2>5, SeqEqual
  <2> QED
    BY <2>6 DEF u, v
<1>7. ASSUME NEW k \in 1..n
      PROVE  Longer(SubSeq(s, 1, k)) = SubSeq(s, 1, IF k = n THEN n ELSE k + 1)
  <2>1. k \in 0..n /\ k \in 1..k
    BY <1>2
  <2>2. SubSeq(s, 1, k)[Len(SubSeq(s, 1, k))] = s[k]
    BY <1>4, <2>1
  <2>3. CASE k = n
    BY <1>3, <2>2, <2>3
  <2>4. CASE k # n
    <3>1. k + 1 \in 1..n /\ k + 1 \in 0..n /\ s[k + 1] # NULL
      BY <1>2, <2>4
    <3>2. Longer(SubSeq(s, 1, k)) = Append(SubSeq(s, 1, k), s[k + 1])
      BY <1>3, <2>2, <2>4, <3>1
    <3> HIDE DEF Longer
    <3> DEFINE u == SubSeq(s, 1, k)
               v == SubSeq(s, 1, k + 1)
               w == Append(u, s[k + 1])
    <3>3. u \in Seq(alive) /\ Len(u) = k /\ \A i \in 1..k : u[i] = s[i]
      BY <1>4, <2>1
    <3>4. v \in Seq(alive) /\ Len(v) = k + 1 /\ \A i \in 1..(k + 1) : v[i] = s[i]
      BY <1>4, <3>1
    <3> HIDE DEF u, v
    <3>5. s[k + 1] \in alive
      BY <1>2, <3>1
    <3>6. /\ w \in Seq(alive) /\ Len(w) = k + 1
          /\ \A i \in 1..k : w[i] = u[i]
          /\ w[k + 1] = s[k + 1]
      BY <3>3, <3>5, AppendProperties
    <3> HIDE DEF w
    <3>7. ASSUME NEW i \in 1..(k + 1) PROVE w[i] = v[i]
      <4>1. i = k + 1 \/ i \in 1..k
        OBVIOUS
      <4> QED
        BY <3>3, <3>4, <3>6, <4>1
    <3>8. w = v
      BY <3>4, <3>6, <3>7, SeqEqual
    <3> QED
      BY <2>4, <3>2, <3>8 DEF u, v, w
  <2> QED
    BY <2>3, <2>4
<1>8. part = Step(part)
  <2> DEFINE value(m) == IF m = 0 \/ first = NULL THEN <<>>
                         ELSE IF m = 1 THEN <<first>>
                         ELSE Longer(part[m - 1])
  <2>1. ASSUME NEW m \in Nat PROVE part[m] = value(m)
    <3>1. part[m] = SubSeq(s, 1, IF m < n THEN m ELSE n)
      OBVIOUS
    <3> HIDE DEF Longer
    <3>2. CASE m = 0
      BY <1>2, <1>5, <3>1, <3>2
    <3>3. CASE n = 0
      BY <1>2, <1>3, <1>5, <3>1, <3>3
    <3>4. CASE m = 1 /\ n # 0
      <4>1. first # NULL /\ (IF m < n THEN m ELSE n) = 1
        BY <1>2, <1>3, <3>4
      <4> QED
        BY <1>6, <3>1, <3>4, <4>1
    <3>5. CASE m # 0 /\ m # 1 /\ n # 0
      <4> DEFINE k == IF m - 1 < n THEN m - 1 ELSE n
      <4>1. /\ m - 1 \in Nat /\ k \in 1..n /\ first # NULL
            /\ (IF k = n THEN n ELSE k + 1) = (IF m < n THEN m ELSE n)
        BY <1>2, <1>3, <3>5
      <4>2. part[m - 1] = SubSeq(s, 1, k)
        BY <4>1
      <4>3. value(m) = Longer(part[m - 1])
        BY <3>5, <4>1
      <4> HIDE DEF part, k
      <4> QED
        BY <1>7, <3>1, <4>1, <4>2, <4>3
    <3> QED
      BY <3>2, <3>3, <3>4, <3>5
  <2>2. Step(part) = [m \in Nat |-> value(m)]
    OBVIOUS
  <2>3. part = [m \in Nat |-> part[m]]
    OBVIOUS
  <2> HIDE DEF part, Step, value
  <2> QED
    BY <2>1, <2>2, <2>3
<1>9. path = Step(path)
  <2> HIDE DEF Step, part
  <2> QED
    BY <1>8
<1>10. path = part
  <2> DEFINE S == {m \in Nat : path[m] = part[m]}
  <2>1. /\ \A m \in Nat : path[m] = Step(path)[m]
        /\ \A m \in Nat : part[m] = Step(part)[m]
    <3> HIDE DEF Step, path, part
    <3> QED
      BY <1>8, <1>9
  <2> HIDE DEF path, part
  <2>2. 0 \in S
    BY <2>1
  <2>3. ASSUME NEW m \in S PROVE m + 1 \in S
    <3>1. m + 1 \in Nat /\ (m + 1) - 1 = m /\ path[m] = part[m]
      OBVIOUS
    <3> HIDE DEF Longer, S
    <3>2. Step(path)[m + 1] = Step(part)[m + 1]
      BY <3>1
    <3> HIDE DEF Step
    <3>3. path[m + 1] = part[m + 1]
      BY <2>1, <3>1, <3>2
    <3> QED
      BY <3>1, <3>3 DEF S
  <2>4. S \in SUBSET Nat
    OBVIOUS
  <2> HIDE DEF S
  <2>5. S = Nat
    BY <2>2, <2>3, <2>4, AllNumbers
  <2>6. \A m \in Nat : path[m] = part[m]
    BY <2>5 DEF S
  <2>7. path = [m \in Nat |-> path[m]] /\ part = [m \in Nat |-> part[m]]
    <3>1. part = [m \in Nat |-> part[m]]
      BY DEF part
    <3>2. Step(path) = [m \in Nat |-> Step(path)[m]]
      <4> HIDE DEF Longer
      <4> QED
        OBVIOUS
    <3> HIDE DEF Step
    <3> QED
      BY <1>9, <3>1, <3>2
  <2> QED
    BY <2>6, <2>7
<1>11. part[n] = s
  <2>1. part[n] = SubSeq(s, 1, n)
    BY <1>2
  <2>2. n \in 0..n
    BY <1>2
  <2> HIDE DEF part
  <2> QED
    BY <1>2, <1>4, <2>1, <2>2, SeqEqual DEF n
<1> HIDE DEF path, part
<1> QED
  BY <1>1, <1>2, <1>10, <1>11


\* The other direction reads the same sequence from its end.
LEMMA WalkBackReads ==
  ASSUME NEW s, NEW last, NEW prev, alive \subseteq Conns, Lists(s, alive), ChainBack(last, prev, s)
  PROVE  Walk(last, prev) = Reverse(s)
<1> DEFINE n == Len(s)
          t == Reverse(s)
<1>1. s \in Seq(alive) /\ n \in Nat /\ \A i \in 1..n : s[i] \in alive
  BY ElementOfSeq, LenProperties DEF Lists
<1>2. t = [i \in 1..n |-> s[(n - i) + 1]]
  BY DEF Reverse
<1> HIDE DEF n, t
<1>3. \A i \in 1..n : (n - i) + 1 \in 1..n /\ (n - ((n - i) + 1)) + 1 = i
  BY <1>1
<1>4. t \in Seq(alive) /\ Len(t) = n /\ \A i \in 1..n : t[i] = s[(n - i) + 1]
  <2>1. t \in [1..n -> alive]
    BY <1>1, <1>2, <1>3
  <2> QED
    BY <1>1, <1>2, <2>1, LenProperties
<1>5. t = <<>> <=> s = <<>>
  BY <1>1, <1>4, EmptySeq DEF n
<1>6. Lists(t, alive)
  <2>1. ASSUME NEW a \in alive PROVE \E i \in 1..n : t[i] = a
    <3>1. PICK j \in 1..n : s[j] = a
      BY DEF Lists, n
    <3>2. t[(n - j) + 1] = a
      BY <1>3, <1>4, <3>1
    <3> QED
      BY <1>3, <3>2
  <2>2. ASSUME NEW i \in 1..n, NEW j \in 1..n, t[i] = t[j] PROVE i = j
    <3> DEFINE p == (n - i) + 1
               q == (n - j) + 1
    <3>1. p \in 1..n /\ q \in 1..n /\ s[p] = s[q]
      BY <1>3, <1>4, <2>2
    <3> HIDE DEF p, q
    <3>2. p = q
      BY <3>1 DEF Lists, n
    <3>3. (n - i) + 1 = (n - j) + 1
      BY <3>2 DEF p, q
    <3> QED
      BY <1>1, <3>3
  <2> QED
    BY <1>4, <2>1, <2>2 DEF Lists
<1>7. Chain(last, prev, t)
  <2>1. last = IF t = <<>> THEN NULL ELSE t[1]
    <3>1. s # <<>> => 1 \in 1..n /\ (n - 1) + 1 = n
      BY <1>1, EmptySeq DEF n
    <3> QED
      BY <1>4, <1>5, <3>1 DEF ChainBack, n
  <2>2. ASSUME NEW i \in 1..n PROVE prev[t[i]] = IF i = n THEN NULL ELSE t[i + 1]
    <3> DEFINE j == (n - i) + 1
    <3>1. j \in 1..n /\ t[i] = s[j] /\ (j = 1 <=> i = n)
      BY <1>1, <1>3, <1>4
    <3>2. i # n => i + 1 \in 1..n /\ (n - (i + 1)) + 1 = j - 1
      BY <1>1
    <3>3. i # n => t[i + 1] = s[j - 1]
      BY <1>4, <3>2
    <3> HIDE DEF j
    <3>4. prev[s[j]] = IF j = 1 THEN NULL ELSE s[j - 1]
      BY <3>1 DEF ChainBack, n
    <3> QED
      BY <3>1, <3>3, <3>4
  <2> QED
    BY <1>4, <2>1, <2>2 DEF Chain
<1>8. Walk(last, prev) = t
  BY <1>6, <1>7, WalkReads
<1> QED
  BY <1>8 DEF t

-----------------------------------------------------------------------------
(***************************************************************************)
(* The theorems.                                                           *)
(***************************************************************************)
\* Walking from the most recent connection and walking from the least recent one show the same
\* list, with every connection in it (MarkActive, DeleteFromLRU).
THEOREM Mirrored == Spec => []MirrorImage
<1>1. OrderInv => MirrorImage
  <2> SUFFICES ASSUME OrderInv PROVE MirrorImage
    OBVIOUS
  <2>1. PICK s : Ordered(list, alive, s)
    BY DEF OrderInv
  <2>2. alive \subseteq Conns /\ Lists(s, alive)
    BY <2>1 DEF OrderInv, IInv, TypeOK, Ordered
  <2>3. Walk(list.mru, list.next_mru) = s
    BY <2>1, <2>2, WalkReads DEF Ordered
  <2>4. Walk(list.lru, list.next_lru) = Reverse(s)
    BY <2>1, <2>2, WalkBackReads DEF Ordered
  <2>5. Len(s) = Cardinality(alive)
    BY <2>2, ListsCardinality
  <2>6. ToSet(s) = alive
    <3>1. s \in Seq(alive) /\ DOMAIN s = 1..Len(s)
      BY <2>2, LenProperties DEF Lists
    <3> QED
      BY <2>2, <3>1, ElementOfSeq DEF Lists, ToSet
  <2> HIDE DEF Walk
  <2> QED
    BY <2>3, <2>4, <2>5, <2>6 DEF MirrorImage
<1> QED
  BY <1>1, OrderInvariant, PTL

\* The walk reads the order, in any state: so it does after a step.
WalksOrder == \A s : alive \subseteq Conns /\ Ordered(list, alive, s)
                       => Walk(list.mru, list.next_mru) = s

LEMMA WalksOrderAlways == WalksOrder /\ WalksOrder'
<1>1. WalksOrder
  BY WalkReads DEF WalksOrder, Ordered
<1> QED
  BY <1>1, PTL

\* The list of connections is the one Recency promises: a step lets a connection enter before
\* all others, moves one there, lets one leave, or keeps the order (MarkActive, ~Connection).
THEOREM ListsByRecency == Spec => RecencyOrder
<1> DEFINE order == Walk(list.mru, list.next_mru)
<1>1. Init => R!Init
  <2> SUFFICES ASSUME Init PROVE order = <<>>
    BY DEF R!Init
  <2>1. alive \subseteq Conns
    BY DEF Init
  <2> QED
    BY <2>1, InitOrdered, WalksOrderAlways DEF WalksOrder
<1>2. OrderInv /\ OrderInv' /\ [Next]_vars => [R!Next]_order
  <2> SUFFICES ASSUME OrderInv, OrderInv', [Next]_vars PROVE R!Next \/ order' = order
    OBVIOUS
  <2>1. PICK s : Ordered(list, alive, s)
    BY DEF OrderInv
  <2>2. PICK t : Ordered(list', alive', t) /\ Recent(s, t)
    BY <2>1, StepOrdered DEF OrderInv
  <2>3. alive \subseteq Conns /\ alive' \subseteq Conns
    BY DEF OrderInv, IInv, TypeOK
  <2>4. order = s
    BY <2>1, <2>3, WalksOrderAlways DEF WalksOrder
  <2>5. order' = t
    BY <2>2, <2>3, WalksOrderAlways DEF WalksOrder
  <2>6. CASE t = s
    BY <2>4, <2>5, <2>6
  <2>7. CASE \E c \in Conns : c \notin ToSet(s) /\ t = <<c>> \o s
    BY <2>4, <2>5, <2>7 DEF R!Next, R!Enter, R!ToSet, ToSet
  <2>8. CASE \E i \in DOMAIN s : t = <<s[i]>> \o RemoveAt(s, i) \/ t = RemoveAt(s, i)
    BY <2>4, <2>5, <2>8 DEF R!Next, R!Touch, R!Leave, R!RemoveAt, RemoveAt
  <2> QED
    BY <2>2, <2>6, <2>7, <2>8 DEF Recent
<1> QED
  BY <1>1, <1>2, OrderInvariant, PTL DEF Spec, RecencyOrder, R!Spec

=============================================================================
