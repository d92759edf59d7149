-------------------------- MODULE WriteQueueProofs --------------------------
(***************************************************************************)
(* What enqueue, remove and pop do to a queue whose ids are unique, for    *)
(* every queue: the facts every proof about the program's queue rests on.  *)
(***************************************************************************)
EXTENDS WriteQueue, SequenceTheorems, WellFoundedInduction, TLAPS

\* Erasing one element shifts the later ones down by one.
LEMMA RemoveAtProperties ==
  ASSUME NEW S, NEW w \in Seq(S), NEW i \in DOMAIN w
  PROVE  /\ RemoveAt(w, i) \in Seq(S)
         /\ Len(RemoveAt(w, i)) = Len(w) - 1
         /\ \A j \in 1 .. Len(w) - 1 :
              RemoveAt(w, i)[j] = IF j < i THEN w[j] ELSE w[j + 1]
<1> DEFINE a == SubSeq(w, 1, i - 1)
           b == SubSeq(w, i + 1, Len(w))
<1>1. i \in 1 .. Len(w) /\ Len(w) \in Nat /\ \A j \in 1 .. Len(w) : w[j] \in S
  BY LenProperties, ElementOfSeq
<1>2. /\ a \in Seq(S) /\ Len(a) = i - 1
      /\ \A j \in 1 .. i - 1 : a[j] = w[j]
  BY <1>1, SubSeqProperties
<1>3. /\ b \in Seq(S) /\ Len(b) = Len(w) - i
      /\ \A j \in 1 .. Len(w) - i : b[j] = w[i + j]
  BY <1>1, SubSeqProperties
<1>4. RemoveAt(w, i) = a \o b
  BY DEF RemoveAt
<1> HIDE DEF a, b
<1>5. /\ a \o b \in Seq(S) /\ Len(a \o b) = Len(a) + Len(b)
      /\ \A j \in 1 .. Len(a) + Len(b) :
           (a \o b)[j] = IF j <= Len(a) THEN a[j] ELSE b[j - Len(a)]
  BY <1>2, <1>3, ConcatProperties
<1>6. Len(a) + Len(b) = Len(w) - 1
  BY <1>1, <1>2, <1>3
<1>7. ASSUME NEW j \in 1 .. Len(w) - 1
      PROVE  (a \o b)[j] = IF j < i THEN w[j] ELSE w[j + 1]
  <2>1. CASE j < i
    BY <1>1, <1>2, <1>5, <1>6, <2>1
  <2>2. CASE ~ (j < i)
    <3>1. j - Len(a) \in 1 .. Len(w) - i /\ i + (j - Len(a)) = j + 1 /\ ~ (j <= Len(a))
      BY <1>1, <1>2, <2>2
    <3> QED
      BY <1>3, <1>5, <1>6, <2>2, <3>1
  <2> QED
    BY <2>1, <2>2
<1> QED
  BY <1>4, <1>5, <1>6, <1>7

\* The queue's content, as a set, loses nothing but the erased query, and
\* unique ids stay unique.
LEMMA PopProperties ==
  ASSUME NEW S, NEW w \in Seq(S), NEW i \in DOMAIN w, UniqueIds(w)
  PROVE  /\ PopAt(w, i) \in Seq(S)
         /\ UniqueIds(PopAt(w, i))
         /\ \A q : q \in ToSet(PopAt(w, i)) <=> q \in ToSet(w) /\ q # w[i]
         /\ ~ Queued(PopAt(w, i), w[i].id)
<1> DEFINE r == PopAt(w, i)
<1>1. /\ DOMAIN w = 1 .. Len(w) /\ Len(w) \in Nat
  BY LenProperties
<1>2. /\ r \in Seq(S) /\ Len(r) = Len(w) - 1
      /\ \A j \in 1 .. Len(w) - 1 : r[j] = IF j < i THEN w[j] ELSE w[j + 1]
  BY RemoveAtProperties DEF PopAt
<1>3. DOMAIN r = 1 .. Len(w) - 1
  BY <1>2, LenProperties
<1> DEFINE old(j) == IF j < i THEN j ELSE j + 1
<1>a. \A j \in DOMAIN r : old(j) \in DOMAIN w /\ old(j) # i /\ r[j] = w[old(j)]
  BY <1>1, <1>2, <1>3
<1>b. \A j, n \in DOMAIN r : old(j) = old(n) => j = n
  BY <1>1, <1>3
<1> HIDE DEF r, old
<1>4. \A j \in DOMAIN r : r[j] \in ToSet(w) /\ r[j] # w[i] /\ r[j].id # w[i].id
  BY <1>a DEF ToSet, UniqueIds
<1>5. \A j \in DOMAIN w : j # i => \E n \in DOMAIN r : r[n] = w[j]
  <2> SUFFICES ASSUME NEW j \in DOMAIN w, j # i
               PROVE  \E n \in DOMAIN r : r[n] = w[j]
    OBVIOUS
  <2>1. CASE j < i
    BY <1>1, <1>2, <1>3, <2>1
  <2>2. CASE j > i
    <3>1. j - 1 \in DOMAIN r /\ r[j - 1] = w[j]
      BY <1>1, <1>2, <1>3, <2>2
    <3> QED BY <3>1
  <2> QED BY <1>1, <2>1, <2>2
<1>6. UniqueIds(r)
  BY <1>a, <1>b DEF UniqueIds
<1>7. \A q : q \in ToSet(r) <=> q \in ToSet(w) /\ q # w[i]
  BY <1>4, <1>5 DEF ToSet
<1>8. ~ Queued(r, w[i].id)
  BY <1>4 DEF Queued
<1> QED
  BY <1>2, <1>6, <1>7, <1>8 DEF r

\* remove_query erases one query or none.
LEMMA RemoveQueryPops ==
  ASSUME NEW S, NEW w \in Seq(S), NEW id, UniqueIds(w)
  PROVE  \/ RemoveQuery(w, id) = w /\ ~ Queued(w, id)
         \/ \E i \in DOMAIN w : w[i].id = id /\ RemoveQuery(w, id) = PopAt(w, i)
<1> DEFINE I == {i \in 1 .. Len(w) : w[i].id = id}
<1>1. DOMAIN w = 1 .. Len(w) /\ Len(w) \in Nat
  BY LenProperties
<1>2. CASE I = {}
  BY <1>1, <1>2 DEF RemoveQuery, RemoveFirstMatch, Queued
<1>3. CASE I # {}
  <2>1. PICK i \in I : TRUE
    BY <1>3
  <2>2. I = {i}
    BY <1>1, <2>1 DEF UniqueIds
  <2>3. Min(I) = i
    BY <1>1, <2>1, <2>2 DEF Min
  <2>4. RemoveQuery(w, id) = RemoveAt(w, Min(I))
    BY <1>3 DEF RemoveQuery, RemoveFirstMatch, SelectInSeq
  <2> QED
    BY <1>1, <2>1, <2>3, <2>4 DEF PopAt
<1> QED
  BY <1>2, <1>3

\* remove_query leaves the queries with other ids, and those alone.
LEMMA RemoveQueryProperties ==
  ASSUME NEW S, NEW w \in Seq(S), NEW id, UniqueIds(w)
  PROVE  /\ RemoveQuery(w, id) \in Seq(S)
         /\ UniqueIds(RemoveQuery(w, id))
         /\ \A q : q \in ToSet(RemoveQuery(w, id)) <=> q \in ToSet(w) /\ q.id # id
         /\ ~ Queued(RemoveQuery(w, id), id)
<1>1. CASE RemoveQuery(w, id) = w /\ ~ Queued(w, id)
  BY <1>1 DEF Queued, ToSet
<1>2. ASSUME NEW i \in DOMAIN w, w[i].id = id, RemoveQuery(w, id) = PopAt(w, i)
      PROVE  /\ RemoveQuery(w, id) \in Seq(S)
             /\ UniqueIds(RemoveQuery(w, id))
             /\ \A q : q \in ToSet(RemoveQuery(w, id)) <=> q \in ToSet(w) /\ q.id # id
             /\ ~ Queued(RemoveQuery(w, id), id)
  <2>1. \A q : q \in ToSet(w) /\ q # w[i] <=> q \in ToSet(w) /\ q.id # id
    BY <1>2 DEF ToSet, UniqueIds
  <2> QED
    BY <1>2, <2>1, PopProperties
<1> QED
  BY <1>1, <1>2, RemoveQueryPops

\* enqueue_write_query: the new query is in, every older one with its id is
\* out, all others stay.
LEMMA EnqueueProperties ==
  ASSUME NEW S, NEW w \in Seq(S), NEW q \in S, UniqueIds(w)
  PROVE  /\ Enqueue(w, q) \in Seq(S)
         /\ UniqueIds(Enqueue(w, q))
         /\ \A p : p \in ToSet(Enqueue(w, q))
                     <=> p = q \/ (p \in ToSet(w) /\ p.id # q.id)
<1> DEFINE r == RemoveQuery(w, q.id)
<1>1. /\ r \in Seq(S) /\ UniqueIds(r) /\ ~ Queued(r, q.id)
      /\ \A p : p \in ToSet(r) <=> p \in ToSet(w) /\ p.id # q.id
  BY RemoveQueryProperties
<1>2. Enqueue(w, q) = Append(r, q)
  BY DEF Enqueue
<1> HIDE DEF r
<1>3. DOMAIN r = 1 .. Len(r) /\ Len(r) \in Nat
  BY <1>1, LenProperties
<1>4. /\ Append(r, q) \in Seq(S) /\ Len(Append(r, q)) = Len(r) + 1
      /\ \A i \in 1 .. Len(r) : Append(r, q)[i] = r[i]
      /\ Append(r, q)[Len(r) + 1] = q
  BY <1>1, AppendProperties
<1>5. DOMAIN Append(r, q) = 1 .. Len(r) + 1
  BY <1>4, LenProperties
<1>6. UniqueIds(Append(r, q))
  BY <1>1, <1>3, <1>4, <1>5 DEF UniqueIds, Queued
<1>7. \A p : p \in ToSet(Append(r, q)) <=> p = q \/ p \in ToSet(r)
  BY <1>3, <1>4, <1>5 DEF ToSet
<1> QED
  BY <1>1, <1>2, <1>4, <1>6, <1>7

LEMMA NatMin ==
  ASSUME NEW T \in SUBSET Nat, T # {}
  PROVE  \E t \in T : \A u \in T : t <= u
<1>1. PICK t \in T : \A u \in T : ~ (<<u, t>> \in OpToRel(<, Nat))
  BY NatLessThanWellFounded, WFMin, Zenon
<1>2. \A u \in T : <<u, t>> \in OpToRel(<, Nat) <=> u < t
  BY DEF OpToRel
<1>3. \A u \in T : t <= u
  <2> SUFFICES ASSUME NEW u \in T PROVE t <= u
    OBVIOUS
  <2>1. ~ (u < t)
    BY <1>1, <1>2
  <2>2. u \in Nat /\ t \in Nat
    OBVIOUS
  <2> QED BY <2>1, <2>2
<1> QED
  BY <1>3

\* A queue that holds a query has a top, and only one: get_top_iter returns
\* the end for the empty queue alone.
LEMMA TopExists ==
  ASSUME NEW w, NEW n \in Nat, DOMAIN w = 1 .. n, n # 0,
         \A i \in 1 .. n : w[i].ts \in Nat
  PROVE  /\ \E i \in DOMAIN w : IsTop(w, i)
         /\ \A i, j \in DOMAIN w : IsTop(w, i) /\ IsTop(w, j) => i = j
<1> DEFINE T == {w[i].ts : i \in 1 .. n}
<1>1. PICK t \in T : \A u \in T : t <= u
  <2>1. T \in SUBSET Nat /\ w[1].ts \in T
    OBVIOUS
  <2> QED BY <2>1, NatMin
<1> DEFINE I == {i \in 1 .. n : w[i].ts = t}
<1>2. PICK i \in I : \A j \in I : i <= j
  <2>1. I \in SUBSET Nat /\ I # {}
    BY <1>1
  <2> QED BY <2>1, NatMin
<1>3. IsTop(w, i)
  <2>1. i \in 1 .. n /\ w[i].ts = t /\ t \in Nat
    OBVIOUS
  <2>2. \A j \in 1 .. n : t <= w[j].ts
    BY <1>1
  <2>3. ASSUME NEW j \in 1 .. n, j < i PROVE t < w[j].ts
    <3>1. w[j].ts # t
      BY <1>2, <2>1, <2>3
    <3> QED BY <2>1, <2>2, <3>1
  <2> HIDE DEF I, T
  <2> QED
    BY <2>1, <2>2, <2>3 DEF IsTop
<1>4. ASSUME NEW j \in DOMAIN w, NEW k \in DOMAIN w, IsTop(w, j), IsTop(w, k)
      PROVE  j = k
  BY <1>4 DEF IsTop
<1> QED
  BY <1>2, <1>3, <1>4

-----------------------------------------------------------------------------
\* Arrival order.  Among equal timestamps it decides which query runs first.

Before(w, a, b) == \A i, j \in DOMAIN w : w[i].id = a /\ w[j].id = b => i < j

LEMMA PopKeepsOrder ==
  ASSUME NEW S, NEW w \in Seq(S), NEW i \in DOMAIN w, NEW a, NEW b, Before(w, a, b)
  PROVE  Before(PopAt(w, i), a, b)
<1> DEFINE r == PopAt(w, i)
           old(j) == IF j < i THEN j ELSE j + 1
<1>1. DOMAIN w = 1 .. Len(w) /\ Len(w) \in Nat
  BY LenProperties
<1>2. /\ r \in Seq(S) /\ Len(r) = Len(w) - 1
      /\ \A j \in 1 .. Len(w) - 1 : r[j] = IF j < i THEN w[j] ELSE w[j + 1]
  BY RemoveAtProperties DEF PopAt
<1>3. DOMAIN r = 1 .. Len(w) - 1
  BY <1>2, LenProperties
<1>4. \A j \in DOMAIN r : old(j) \in DOMAIN w /\ r[j] = w[old(j)]
  BY <1>1, <1>2, <1>3
<1>5. \A j, n \in DOMAIN r : old(j) < old(n) => j < n
  BY <1>1, <1>3
<1> HIDE DEF r, old
<1>6. Before(r, a, b)
  BY <1>4, <1>5 DEF Before
<1> QED
  BY <1>6 DEF r

LEMMA RemoveKeepsOrder ==
  ASSUME NEW S, NEW w \in Seq(S), UniqueIds(w), NEW id, NEW a, NEW b, Before(w, a, b)
  PROVE  Before(RemoveQuery(w, id), a, b)
  BY RemoveQueryPops, PopKeepsOrder

\* The new query comes after all others.
LEMMA EnqueueKeepsOrder ==
  ASSUME NEW S, NEW w \in Seq(S), UniqueIds(w), NEW q \in S, NEW a, NEW b,
         a # q.id, b = q.id \/ Before(w, a, b)
  PROVE  Before(Enqueue(w, q), a, b)
<1> DEFINE r == RemoveQuery(w, q.id)
<1>1. r \in Seq(S) /\ ~ Queued(r, q.id)
  BY RemoveQueryProperties
<1>2. b = q.id \/ Before(r, a, b)
  BY RemoveKeepsOrder
<1>3. Enqueue(w, q) = Append(r, q)
  BY DEF Enqueue
<1> HIDE DEF r
<1>4. DOMAIN r = 1 .. Len(r) /\ Len(r) \in Nat
  BY <1>1, LenProperties
<1>5. /\ Append(r, q) \in Seq(S) /\ Len(Append(r, q)) = Len(r) + 1
      /\ \A i \in 1 .. Len(r) : Append(r, q)[i] = r[i]
      /\ Append(r, q)[Len(r) + 1] = q
  BY <1>1, AppendProperties
<1>6. DOMAIN Append(r, q) = 1 .. Len(r) + 1
  BY <1>5, LenProperties
<1>7. SUFFICES ASSUME NEW i \in 1 .. Len(r) + 1, NEW j \in 1 .. Len(r) + 1,
                      Append(r, q)[i].id = a, Append(r, q)[j].id = b
               PROVE  i < j
  BY <1>3, <1>6 DEF Before
<1>8. i # Len(r) + 1
  BY <1>5, <1>7
<1>9. i \in 1 .. Len(r) /\ r[i].id = a
  BY <1>4, <1>5, <1>7, <1>8
<1>10. CASE j = Len(r) + 1
  BY <1>4, <1>9, <1>10
<1>11. CASE j # Len(r) + 1
  <2>1. j \in 1 .. Len(r) /\ r[j].id = b
    BY <1>4, <1>5, <1>7, <1>11
  <2>2. b # q.id
    BY <1>1, <1>4, <2>1 DEF Queued
  <2> QED
    BY <1>2, <1>4, <1>9, <2>1, <2>2 DEF Before
<1> QED
  BY <1>10, <1>11

\* The first of two queries that are due at the same time is taken first.
LEMMA FirstIsTaken ==
  ASSUME NEW w, NEW i \in DOMAIN w, IsTop(w, i), NEW n \in DOMAIN w,
         w[n].ts \in Nat, w[i].ts = w[n].ts, DOMAIN w \in SUBSET Nat,
         Before(w, w[n].id, w[i].id)
  PROVE  w[n].id = w[i].id
<1>1. n < i
  BY DEF Before
<1>2. w[i].ts < w[n].ts
  BY <1>1 DEF IsTop
<1> QED
  BY <1>2

=============================================================================
