---------------------------- MODULE ConfigProofs ----------------------------
(***************************************************************************)
(* Proofs about Config for every width of the integers, every number and   *)
(* every order and count of sources, and about OriginsIn for every text.   *)
(* Induction over a text is an argument from the last place of it where    *)
(* the claim would fail: WFMin, which takes a set and no operator.         *)
(***************************************************************************)
EXTENDS Config, FiniteSetTheorems, NaturalsInduction, TLAPS

-----------------------------------------------------------------------------
\* The list of origins.

LEMMA LeastOf ==
  ASSUME NEW S \in SUBSET Nat, S # {}
  PROVE  Least(S) \in S /\ \A j \in S : Least(S) <= j
<1>1. PICK i \in S : \A j \in S : ~ (<<j, i>> \in OpToRel(<, Nat))
  BY NatLessThanWellFounded, WFMin, Zenon
<1>2. \A j \in S : <<j, i>> \in OpToRel(<, Nat) <=> j < i
  BY DEF OpToRel
<1>3. \A j \in S : i <= j
  <2>1. \A j \in S : j \in Nat /\ i \in Nat /\ ~ (j < i)
    BY <1>1, <1>2
  <2> QED
    BY <2>1
<1> QED
  BY <1>3 DEF Least

LEMMA GreatestOf ==
  ASSUME NEW n \in Nat, NEW S \in SUBSET (0 .. n), S # {}
  PROVE  Greatest(S) \in S /\ \A j \in S : j <= Greatest(S)
<1> DEFINE D == {n - i : i \in S}
<1>1. D \in SUBSET Nat /\ D # {}
  <2>1. \A i \in S : n - i \in Nat
    OBVIOUS
  <2> QED
    BY <2>1
<1>2. PICK d \in D : \A e \in D : d <= e
  BY <1>1, LeastOf
<1>3. PICK i \in S : d = n - i
  BY <1>2
<1>4. \A j \in S : n - i <= n - j
  BY <1>2, <1>3
<1>5. \A j \in S : i >= j
  BY <1>4
<1>6. \E k \in S : \A j \in S : k >= j
  BY <1>5
<1>7. Greatest(S) \in S /\ \A j \in S : Greatest(S) >= j
  BY <1>6 DEF Greatest
<1> QED
  BY <1>7

LEMMA SubSeqIs ==
  ASSUME NEW C, NEW s \in Seq(C), NEW i \in Int, NEW j \in Int, 1 <= i, i <= j, j <= Len(s)
  PROVE  /\ SubSeq(s, i, j) \in Seq(C) /\ Len(SubSeq(s, i, j)) = j - i + 1
         /\ \A k \in 1 .. j - i + 1 : SubSeq(s, i, j)[k] = s[i + k - 1]
  OBVIOUS

\* getline stops at the first comma, or past the end.
LEMMA StopIs ==
  ASSUME NEW text \in Seq(Characters), NEW from \in 1 .. Len(text) + 1
  PROVE  /\ Stop(text, from) \in from .. Len(text) + 1
         /\ \A i \in from .. Stop(text, from) - 1 : text[i] # Comma
         /\ Stop(text, from) <= Len(text) => text[Stop(text, from)] = Comma
<1> DEFINE S == {i \in from .. Len(text) : text[i] = Comma} \cup {Len(text) + 1}
<1>1. S \in SUBSET Nat /\ S # {} /\ S \in SUBSET (from .. Len(text) + 1)
  OBVIOUS
<1>2. Stop(text, from) \in S /\ \A j \in S : Stop(text, from) <= j
  BY <1>1, LeastOf DEF Stop
<1>3. Stop(text, from) \in from .. Len(text) + 1
  BY <1>1, <1>2
<1>4. ASSUME NEW i \in from .. Stop(text, from) - 1, text[i] = Comma PROVE FALSE
  <2>1. i \in S /\ ~(Stop(text, from) <= i)
    BY <1>3, <1>4
  <2> QED
    BY <1>2, <2>1
<1> QED
  BY <1>2, <1>3, <1>4

\* v is nothing when these characters are blank, and otherwise what lies between
\* the outermost other ones.
Stripped(text, from, stop, v) ==
  \/ v = <<>> /\ Blanks(text, from, stop - 1)
  \/ \E i, j \in from .. stop - 1 :
       /\ i <= j /\ v = SubSeq(text, i, j) /\ v # <<>> /\ v \in Seq(Characters)
       /\ text[i] # Space /\ text[j] # Space
       /\ Blanks(text, from, i - 1) /\ Blanks(text, j + 1, stop - 1)

\* Stripping what is read from there leaves nothing of blanks, and otherwise
\* what lies between the outermost other characters.
LEMMA TrimIs ==
  ASSUME NEW text \in Seq(Characters), NEW from \in 1 .. Len(text),
         NEW stop \in from .. Len(text) + 1, NEW v, v = trim(SubSeq(text, from, stop - 1))
  PROVE  Stripped(text, from, stop, v)
<1> DEFINE s == SubSeq(text, from, stop - 1)
           S == Solid(s)
<1>1. s \in Seq(Characters) /\ Len(s) = stop - from
      /\ \A i \in 1 .. stop - from : s[i] = text[from + i - 1]
  OBVIOUS
<1>2. DOMAIN s = 1 .. stop - from /\ S \in SUBSET Nat /\ S \in SUBSET (0 .. stop - from)
  BY <1>1 DEF Solid
<1>a. /\ \A k : k \in S <=> k \in 1 .. stop - from /\ s[k] # Space
      /\ v = IF S = {} THEN <<>> ELSE SubSeq(s, Least(S), Greatest(S))
  BY <1>2 DEF Solid, trim
<1> HIDE DEF s, S
<1>3. CASE S = {}
  <2>1. v = <<>>
    BY <1>3, <1>a
  <2>2. ASSUME NEW m \in from .. stop - 1 PROVE text[m] = Space
    <3>1. m - from + 1 \in 1 .. stop - from /\ from + (m - from + 1) - 1 = m
      OBVIOUS
    <3>2. s[m - from + 1] = Space
      BY <1>a, <1>3, <3>1
    <3> QED
      BY <1>1, <3>1, <3>2
  <2> QED
    BY <2>1, <2>2 DEF Blanks, Stripped
<1>4. CASE S # {}
  <2> DEFINE a == Least(S)
             b == Greatest(S)
             i == from + a - 1
             j == from + b - 1
  <2>1. a \in S /\ (\A k \in S : a <= k) /\ b \in S /\ \A k \in S : k <= b
    <3>1. stop - from \in Nat
      OBVIOUS
    <3>2. Least(S) \in S /\ \A k \in S : Least(S) <= k
      BY <1>2, <1>4, LeastOf
    <3>3. Greatest(S) \in S /\ \A k \in S : k <= Greatest(S)
      BY <1>2, <1>4, <3>1, GreatestOf
    <3> QED
      BY <3>2, <3>3
  <2>4. v = SubSeq(s, a, b)
    BY <1>4, <1>a
  <2> HIDE DEF a, b
  <2>2. a \in 1 .. stop - from /\ b \in 1 .. stop - from /\ a <= b /\ s[a] # Space /\ s[b] # Space
    BY <1>a, <2>1
  <2>3. \A k \in 1 .. stop - from : k < a \/ k > b => s[k] = Space
    BY <1>a, <2>1, <2>2
  <2>5. i \in from .. stop - 1 /\ j \in from .. stop - 1 /\ i <= j
    BY <2>2
  <2>6. text[i] # Space /\ text[j] # Space
    BY <1>1, <2>2
  <2>7. ASSUME NEW m \in from .. stop - 1, m < i \/ m > j PROVE text[m] = Space
    <3>1. m - from + 1 \in 1 .. stop - from /\ from + (m - from + 1) - 1 = m
      OBVIOUS
    <3>2. m - from + 1 < a \/ m - from + 1 > b
      BY <2>2, <2>7
    <3> QED
      BY <1>1, <2>3, <3>1, <3>2
  <2>8. Blanks(text, from, i - 1) /\ Blanks(text, j + 1, stop - 1)
    BY <2>5, <2>7 DEF Blanks
  <2>9. v \in Seq(Characters) /\ Len(v) = b - a + 1 /\ \A k \in 1 .. b - a + 1 : v[k] = text[i + k - 1]
    <3>1. SubSeq(s, a, b) \in Seq(Characters) /\ Len(SubSeq(s, a, b)) = b - a + 1
          /\ \A k \in 1 .. b - a + 1 : SubSeq(s, a, b)[k] = s[a + k - 1]
      <4>1. a \in Int /\ b \in Int /\ 1 <= a /\ a <= b /\ b <= Len(s)
        BY <1>1, <2>2
      <4>2. s \in Seq(Characters)
        BY <1>1
      <4> QED
        BY <4>1, <4>2, SubSeqIs
    <3>2. ASSUME NEW k \in 1 .. b - a + 1 PROVE s[a + k - 1] = text[i + k - 1]
      <4>1. a + k - 1 \in 1 .. stop - from /\ from + (a + k - 1) - 1 = i + k - 1
        BY <2>2
      <4> QED
        BY <1>1, <4>1
    <3> QED
      BY <2>4, <3>1, <3>2
  <2> DEFINE u == SubSeq(text, i, j)
  <2>10. u \in Seq(Characters) /\ Len(u) = b - a + 1 /\ \A k \in 1 .. b - a + 1 : u[k] = text[i + k - 1]
    <3>1. i \in Int /\ j \in Int /\ i >= 1 /\ i <= j /\ j <= Len(text) /\ j - i + 1 = b - a + 1
      BY <2>2, <2>5
    <3> HIDE DEF i, j
    <3> QED
      BY <3>1
  <2> HIDE DEF u
  <2>11. v = u
    BY <2>9, <2>10
  <2>12. v # <<>>
    BY <2>2, <2>9
  <2> HIDE DEF i, j
  <2> QED
    BY <2>5, <2>6, <2>8, <2>9, <2>11, <2>12 DEF u, Stripped
<1> QED
  BY <1>3, <1>4

\* What is made of the text from some point on depends on later points only.
LEMMA RemainingReads ==
  ASSUME NEW text \in Seq(Characters), NEW from \in 1 .. Len(text) + 1, NEW f, NEW g,
         \A k \in from + 1 .. Len(text) + 1 : f[k] = g[k]
  PROVE  Remaining(text, f, from) = Remaining(text, g, from)
<1> DEFINE stop == Stop(text, from)
<1>1. stop \in from .. Len(text) + 1
  BY StopIs
<1>2. CASE stop > Len(text)
  BY <1>2 DEF Remaining
<1>3. CASE ~ (stop > Len(text))
  <2>1. stop + 1 \in from + 1 .. Len(text) + 1
    BY <1>1, <1>3
  <2>2. f[stop + 1] = g[stop + 1]
    BY <2>1
  <2> QED
    BY <2>2 DEF Remaining
<1> QED
  BY <1>2, <1>3

\* There is such a function of where reading starts, by extending one that is
\* defined from m on to one that is defined from m - 1 on.
LEMMA ListExists ==
  ASSUME NEW text \in Seq(Characters)
  PROVE  \E list : list = [from \in 1 .. Len(text) + 1 |-> Remaining(text, list, from)]
<1> DEFINE n == Len(text)
           From(f, m) == f = [from \in m .. n + 1 |-> Remaining(text, f, from)]
           M == {m \in 1 .. n + 1 : \E f : From(f, m)}
<1>0. n \in Nat
  OBVIOUS
<1>1. n + 1 \in M
  <2> DEFINE f == [from \in n + 1 .. n + 1 |-> <<>>]
  <2>1. \A from \in n + 1 .. n + 1 : from = n + 1 /\ from > Len(text)
    BY <1>0
  <2>2. \A from \in n + 1 .. n + 1 : Remaining(text, f, from) = <<>>
    BY <2>1 DEF Remaining
  <2>3. f = [from \in n + 1 .. n + 1 |-> Remaining(text, f, from)]
    BY <2>2
  <2>4. n + 1 \in 1 .. n + 1
    BY <1>0
  <2> QED
    BY <2>3, <2>4
<1>2. PICK m \in M : \A k \in M : m <= k
  <2>1. M \in SUBSET (1 .. n + 1)
    OBVIOUS
  <2> HIDE DEF M
  <2>2. M \in SUBSET Nat /\ M # {}
    BY <1>1, <2>1
  <2> QED
    BY <2>2, LeastOf
<1>3. PICK f : From(f, m)
  BY <1>2
<1>4. m \in 1 .. n + 1
  BY <1>2
<1>5. CASE m = 1
  BY <1>3, <1>5
<1>6. CASE m # 1
  <2> DEFINE g == [from \in m - 1 .. n + 1 |->
                     IF from = m - 1 THEN Remaining(text, f, m - 1) ELSE f[from]]
  <2>0. m - 1 \in 1 .. n + 1 /\ m - 1 < m
    BY <1>0, <1>4, <1>6
  <2>1. \A k \in m .. n + 1 : k \in m - 1 .. n + 1 /\ k # m - 1
    BY <1>0, <1>4
  <2>2. \A k \in m .. n + 1 : g[k] = f[k]
    BY <2>1
  <2> HIDE DEF g
  <2>3. ASSUME NEW from \in m - 1 .. n + 1 PROVE Remaining(text, g, from) = Remaining(text, f, from)
    <3>1. from \in 1 .. Len(text) + 1
      BY <2>0, <2>3
    <3>2. \A k \in from + 1 .. Len(text) + 1 : k \in m .. n + 1
      BY <1>0, <2>0, <2>3
    <3>3. \A k \in from + 1 .. Len(text) + 1 : g[k] = f[k]
      BY <2>2, <3>2
    <3> QED
      BY <3>1, <3>3, RemainingReads
  <2>4. ASSUME NEW from \in m - 1 .. n + 1 PROVE g[from] = Remaining(text, f, from)
    <3>1. CASE from = m - 1
      BY <2>4, <3>1 DEF g
    <3>2. CASE from # m - 1
      <4>1. from \in m .. n + 1
        BY <1>4, <2>4, <3>2
      <4>2. f[from] = Remaining(text, f, from)
        BY <1>3, <4>1
      <4> QED
        BY <2>2, <4>1, <4>2
    <3> QED
      BY <3>1, <3>2
  <2>5. \A from \in m - 1 .. n + 1 : g[from] = Remaining(text, g, from)
    BY <2>3, <2>4
  <2>6. g = [from \in m - 1 .. n + 1 |-> g[from]]
    BY DEF g
  <2>7. From(g, m - 1)
    BY <2>5, <2>6
  <2>8. m - 1 \in M
    BY <2>0, <2>7
  <2> QED
    BY <1>2, <1>4, <2>8, <2>0
<1> QED
  BY <1>5, <1>6

LEMMA OriginsInIs ==
  ASSUME NEW text \in Seq(Characters)
  PROVE  \E list : /\ list = [from \in 1 .. Len(text) + 1 |-> Remaining(text, list, from)]
                  /\ OriginsIn(text) = list[1]
<1> DEFINE list == CHOOSE l : l = [from \in 1 .. Len(text) + 1 |-> Remaining(text, l, from)]
<1>1. list = [from \in 1 .. Len(text) + 1 |-> Remaining(text, list, from)]
  BY ListExists
<1>2. OriginsIn(text) = list[1]
  BY Zenon DEF OriginsIn
<1> QED
  BY <1>1, <1>2

-----------------------------------------------------------------------------
\* Where a part starts, or the text ends.
Starts(text, k) == k = 1 \/ k = Len(text) + 1 \/ text[k - 1] = Comma

SpansFrom(text, k) == {p \in Spans(text) : p[1] >= k}
UpTo(text, k, i)   == {q \in SpansFrom(text, k) : q[1] <= i}

\* What the list read from k on is to hold.
HoldsFrom(l, text, k) ==
  /\ l \in Seq(Seq(Characters))
  /\ Len(l) = Cardinality(SpansFrom(text, k))
  /\ \A p \in SpansFrom(text, k) : l[Cardinality(UpTo(text, k, p[1]))] = SubSeq(text, p[1], p[2])

LEMMA SpanIs ==
  ASSUME NEW text \in Seq(Characters), NEW p \in Spans(text)
  PROVE  /\ p = <<p[1], p[2]>> /\ p[1] \in 1 .. Len(text) /\ p[2] \in 1 .. Len(text)
         /\ Origin(text, p[1], p[2])
  BY DEF Spans

LEMMA SpansFinite ==
  ASSUME NEW text \in Seq(Characters), NEW k, NEW i
  PROVE  /\ IsFiniteSet(Spans(text)) /\ IsFiniteSet(SpansFrom(text, k))
         /\ IsFiniteSet(UpTo(text, k, i))
<1>1. IsFiniteSet(DOMAIN text)
  <2>1. DOMAIN text = 1 .. Len(text) /\ Len(text) \in Int
    OBVIOUS
  <2> QED
    BY <2>1, FS_Interval
<1>2. IsFiniteSet((DOMAIN text) \X (DOMAIN text))
  BY <1>1, FS_Product
<1>3. /\ Spans(text) \in SUBSET ((DOMAIN text) \X (DOMAIN text))
      /\ SpansFrom(text, k) \in SUBSET Spans(text) /\ UpTo(text, k, i) \in SUBSET SpansFrom(text, k)
  BY DEF Spans, SpansFrom, UpTo
<1> QED
  BY <1>2, <1>3, FS_Subset

\* An origin that starts in a part between commas is that part, stripped.
LEMMA SpanOfPart ==
  ASSUME NEW text \in Seq(Characters), NEW from \in 1 .. Len(text),
         NEW stop \in from .. Len(text) + 1, stop <= Len(text) => text[stop] = Comma,
         \A m \in from .. stop - 1 : text[m] # Comma,
         NEW i \in from .. stop - 1, NEW j \in 1 .. Len(text), Origin(text, i, j)
  PROVE  /\ j \in i .. stop - 1 /\ text[i] # Space /\ text[j] # Space
         /\ Blanks(text, from, i - 1) /\ Blanks(text, j + 1, stop - 1)
<1>1. i <= j /\ text[i] # Space /\ text[j] # Space /\ \A m \in i .. j : text[m] # Comma
  BY DEF Origin, Letter
<1>2. j \in i .. stop - 1
  <2>1. ASSUME stop <= j PROVE FALSE
    <3>1. stop \in i .. j /\ stop <= Len(text)
      BY <2>1
    <3> QED
      BY <1>1, <3>1
  <2> QED
    BY <1>1, <2>1
<1>3. PICK m \in 0 .. i - 1 : Blanks(text, m + 1, i - 1) /\ (m = 0 \/ text[m] = Comma)
  BY DEF Origin
<1>4. m < from
  <2>1. m >= from => m \in from .. stop - 1
    BY <1>3
  <2> QED
    BY <1>3, <2>1
<1>5. Blanks(text, from, i - 1)
  <2>1. \A k \in from .. i - 1 : k \in m + 1 .. i - 1
    BY <1>3, <1>4
  <2> QED
    BY <1>3, <2>1 DEF Blanks
<1>6. PICK o \in j + 1 .. Len(text) + 1 : Blanks(text, j + 1, o - 1) /\ (o = Len(text) + 1 \/ text[o] = Comma)
  BY DEF Origin
<1>7. o >= stop
  <2>1. o < stop => o \in from .. stop - 1 /\ o # Len(text) + 1
    BY <1>2, <1>6
  <2> QED
    BY <1>6, <2>1
<1>8. Blanks(text, j + 1, stop - 1)
  <2>1. \A k \in j + 1 .. stop - 1 : k \in j + 1 .. o - 1
    BY <1>6, <1>7
  <2> QED
    BY <1>6, <2>1 DEF Blanks
<1> QED
  BY <1>1, <1>2, <1>5, <1>8

\* v is the first of the origins that start there or later, or nothing when the
\* part up to the next comma is blank.
FirstFound(text, from, stop, v) ==
  \/ v = <<>> /\ SpansFrom(text, from) = SpansFrom(text, stop + 1)
  \/ \E i, j \in from .. stop - 1 :
       /\ v # <<>> /\ v \in Seq(Characters) /\ v = SubSeq(text, i, j)
       /\ SpansFrom(text, from) = SpansFrom(text, stop + 1) \cup {<<i, j>>}

LEMMA OnePart ==
  ASSUME NEW text \in Seq(Characters), NEW from \in 1 .. Len(text),
         from = 1 \/ text[from - 1] = Comma,
         NEW stop, stop = Stop(text, from), NEW v, v = trim(SubSeq(text, from, stop - 1))
  PROVE  FirstFound(text, from, stop, v)
<1>1. /\ stop \in from .. Len(text) + 1
      /\ \A i \in from .. stop - 1 : text[i] # Comma
      /\ stop <= Len(text) => text[stop] = Comma
  BY StopIs
<1>2. ASSUME NEW p \in SpansFrom(text, from), p \notin SpansFrom(text, stop + 1)
      PROVE  p[1] \in from .. stop - 1
  <2>1. p \in Spans(text) /\ p[1] >= from /\ ~(p[1] >= stop + 1)
    BY <1>2 DEF SpansFrom
  <2>2. p[1] \in 1 .. Len(text) /\ Origin(text, p[1], p[2])
    BY <2>1, SpanIs
  <2>3. p[1] # stop
    BY <1>1, <2>2 DEF Origin, Letter
  <2> QED
    BY <1>1, <2>1, <2>2, <2>3
<1>3. SpansFrom(text, stop + 1) \subseteq SpansFrom(text, from)
  <2>1. \A p \in Spans(text) : p[1] >= stop + 1 => p[1] >= from
    BY <1>1, SpanIs
  <2> QED
    BY <2>1 DEF SpansFrom
<1>4. CASE v = <<>> /\ Blanks(text, from, stop - 1)
  <2>1. ASSUME NEW p \in SpansFrom(text, from) PROVE p \in SpansFrom(text, stop + 1)
    <3>1. SUFFICES ASSUME p \notin SpansFrom(text, stop + 1) PROVE FALSE
      OBVIOUS
    <3>2. p[1] \in from .. stop - 1
      BY <1>2, <3>1
    <3>3. Origin(text, p[1], p[2])
      BY SpanIs DEF SpansFrom
    <3> QED
      BY <1>4, <3>2, <3>3 DEF Origin, Letter, Blanks
  <2> QED
    BY <1>3, <1>4, <2>1 DEF FirstFound
<1>5. CASE \E i, j \in from .. stop - 1 :
              /\ i <= j /\ v = SubSeq(text, i, j) /\ v # <<>> /\ v \in Seq(Characters)
              /\ text[i] # Space /\ text[j] # Space
              /\ Blanks(text, from, i - 1) /\ Blanks(text, j + 1, stop - 1)
  <2>1. PICK i, j \in from .. stop - 1 :
              /\ i <= j /\ v = SubSeq(text, i, j) /\ v # <<>> /\ v \in Seq(Characters)
              /\ text[i] # Space /\ text[j] # Space
              /\ Blanks(text, from, i - 1) /\ Blanks(text, j + 1, stop - 1)
    BY <1>5
  <2>2. i \in 1 .. Len(text) /\ j \in 1 .. Len(text)
    BY <1>1
  <2>3. Origin(text, i, j)
    <3>1. Letter(text, i) /\ Letter(text, j) /\ \A m \in i .. j : text[m] # Comma
      BY <1>1, <2>1 DEF Letter
    <3>2. \E m \in 0 .. i - 1 : Blanks(text, m + 1, i - 1) /\ (m = 0 \/ text[m] = Comma)
      <4>1. from - 1 \in 0 .. i - 1 /\ from - 1 + 1 = from
        BY <2>1
      <4>2. from - 1 = 0 \/ text[from - 1] = Comma
        OBVIOUS
      <4> QED
        BY <2>1, <4>1, <4>2
    <3>3. \E m \in j + 1 .. Len(text) + 1 : Blanks(text, j + 1, m - 1) /\ (m = Len(text) + 1 \/ text[m] = Comma)
      <4>1. stop \in j + 1 .. Len(text) + 1
        BY <1>1, <2>1
      <4>2. stop = Len(text) + 1 \/ text[stop] = Comma
        <5>1. stop # Len(text) + 1 => stop <= Len(text)
          BY <1>1
        <5> QED
          BY <1>1, <5>1, Zenon
      <4> QED
        BY <2>1, <4>1, <4>2
    <3> QED
      BY <2>1, <3>1, <3>2, <3>3 DEF Origin
  <2>4. <<i, j>> \in SpansFrom(text, from)
    BY <2>1, <2>2, <2>3 DEF SpansFrom, Spans
  <2>5. ASSUME NEW p \in SpansFrom(text, from), p \notin SpansFrom(text, stop + 1) PROVE p = <<i, j>>
    <3>1. p[1] \in from .. stop - 1
      BY <1>2, <2>5
    <3>2. PICK k \in from .. stop - 1, l \in 1 .. Len(text) : p = <<k, l>> /\ Origin(text, k, l)
      BY <3>1, SpanIs DEF SpansFrom
    <3>a. stop \in from .. Len(text) + 1
      BY <1>1
    <3>3. /\ l \in k .. stop - 1 /\ text[k] # Space /\ text[l] # Space
          /\ Blanks(text, from, k - 1) /\ Blanks(text, l + 1, stop - 1)
      BY <1>1, <3>a, <3>2, SpanOfPart
    <3>4. k = i
      <4>1. ~ (k < i) /\ ~ (i < k)
        BY <2>1, <3>2, <3>3 DEF Blanks
      <4> QED
        BY <3>2, <4>1
    <3>5. l = j
      <4>1. ASSUME l < j PROVE FALSE
        <5>1. j \in l + 1 .. stop - 1
          BY <2>1, <3>3, <4>1
        <5> QED
          BY <2>1, <3>3, <5>1 DEF Blanks
      <4>2. ASSUME j < l PROVE FALSE
        <5>1. l \in j + 1 .. stop - 1
          BY <2>1, <3>3, <4>2
        <5> QED
          BY <2>1, <3>3, <5>1 DEF Blanks
      <4> QED
        BY <3>2, <4>1, <4>2
    <3> QED
      BY <3>2, <3>4, <3>5
  <2>6. SpansFrom(text, from) = SpansFrom(text, stop + 1) \cup {<<i, j>>}
    BY <1>3, <2>4, <2>5
  <2> QED
    BY <2>1, <2>6 DEF FirstFound
<1>6. Stripped(text, from, stop, v)
  BY <1>1, TrimIs
<1> QED
  BY <1>4, <1>5, <1>6 DEF Stripped

LEMMA InFront ==
  ASSUME NEW C, NEW x \in C, NEW r \in Seq(C)
  PROVE  /\ <<x>> \o r \in Seq(C) /\ Len(<<x>> \o r) = Len(r) + 1 /\ (<<x>> \o r)[1] = x
         /\ \A k \in 1 .. Len(r) : (<<x>> \o r)[k + 1] = r[k]
  OBVIOUS

\* With that origin in front of what the rest of the text holds.
LEMMA FrontHolds ==
  ASSUME NEW text \in Seq(Characters), NEW from \in Nat, NEW stop \in Nat, NEW r, HoldsFrom(r, text, stop + 1),
         NEW i \in from .. stop, NEW j, NEW v \in Seq(Characters), v = SubSeq(text, i, j),
         SpansFrom(text, from) = SpansFrom(text, stop + 1) \cup {<<i, j>>}
  PROVE  HoldsFrom(<<v>> \o r, text, from)
<1> DEFINE F == SpansFrom(text, stop + 1)
           G == SpansFrom(text, from)
           l == <<v>> \o r
<1>1. /\ \A p \in F : p = <<p[1], p[2]>> /\ p[1] \in Nat /\ p[1] > stop
      /\ IsFiniteSet(F) /\ <<i, j>> \notin F
  <2>1. ASSUME NEW p \in F PROVE p = <<p[1], p[2]>> /\ p[1] \in Nat /\ p[1] > stop
    <3>1. p \in Spans(text) /\ p[1] >= stop + 1
      BY <2>1 DEF SpansFrom
    <3>2. p = <<p[1], p[2]>> /\ p[1] \in Nat
      BY <3>1, SpanIs
    <3> QED
      BY <3>1, <3>2
  <2>2. ~(<<i, j>>[1] > stop)
    OBVIOUS
  <2>3. <<i, j>> \notin F
    BY <2>1, <2>2
  <2> QED
    BY <2>1, <2>3, SpansFinite
<1>2. /\ r \in Seq(Seq(Characters)) /\ Len(r) = Cardinality(F) /\ G = F \cup {<<i, j>>}
      /\ \A p \in F : r[Cardinality(UpTo(text, stop + 1, p[1]))] = SubSeq(text, p[1], p[2])
  BY DEF HoldsFrom
<1>3. Cardinality(G) = Cardinality(F) + 1 /\ Cardinality(F) \in Nat
  BY <1>1, <1>2, FS_AddElement, FS_CardinalityType
<1>4. /\ l \in Seq(Seq(Characters)) /\ Len(l) = Len(r) + 1 /\ l[1] = v
      /\ \A k \in 1 .. Len(r) : l[k + 1] = r[k]
  <2>1. r \in Seq(Seq(Characters))
    BY <1>2
  <2> QED
    BY <2>1, InFront
<1> HIDE DEF l
<1>5. ASSUME NEW p \in F
      PROVE  l[Cardinality(UpTo(text, from, p[1]))] = SubSeq(text, p[1], p[2])
  <2> DEFINE U == UpTo(text, stop + 1, p[1])
  <2>1. U \in SUBSET F /\ p \in U /\ IsFiniteSet(U) /\ <<i, j>> \notin U
    <3>1. p[1] <= p[1]
      BY <1>1, <1>5
    <3> QED
      BY <1>1, <1>5, <3>1, SpansFinite DEF UpTo
  <2>2. UpTo(text, from, p[1]) = U \cup {<<i, j>>}
    <3>1. <<i, j>>[1] <= p[1]
      BY <1>1, <1>5
    <3> QED
      BY <1>2, <3>1 DEF UpTo
  <2>3. Cardinality(UpTo(text, from, p[1])) = Cardinality(U) + 1
    <3> HIDE DEF U
    <3>1. IsFiniteSet(U) /\ <<i, j>> \notin U
      BY <2>1
    <3>2. Cardinality(U \cup {<<i, j>>}) = Cardinality(U) + 1
      BY <3>1, FS_AddElement
    <3> QED
      BY <2>2, <3>2
  <2>4. Cardinality(U) \in 1 .. Len(r)
    <3>1. Cardinality(U) \in Nat /\ Cardinality(U) <= Cardinality(F)
      BY <1>1, <2>1, FS_Subset, FS_CardinalityType
    <3>2. Cardinality(U) # 0
      BY <2>1, FS_EmptySet
    <3> QED
      BY <1>2, <3>1, <3>2
  <2> QED
    BY <1>2, <1>4, <1>5, <2>3, <2>4
<1>6. l[Cardinality(UpTo(text, from, i))] = SubSeq(text, i, j)
  <2>1. \A q \in F : ~(q[1] <= i)
    BY <1>1
  <2>2. UpTo(text, from, i) = {<<i, j>>}
    BY <1>2, <2>1 DEF UpTo
  <2>3. Cardinality(UpTo(text, from, i)) = 1
    BY <2>2, FS_Singleton
  <2> QED
    BY <1>4, <2>3
<1>7. ASSUME NEW p \in G
      PROVE  l[Cardinality(UpTo(text, from, p[1]))] = SubSeq(text, p[1], p[2])
  <2>1. CASE p \in F
    BY <2>1, <1>5
  <2>2. CASE p = <<i, j>>
    BY <2>2, <1>6
  <2> QED
    BY <1>2, <1>7, <2>1, <2>2
<1>8. Len(l) = Cardinality(G)
  BY <1>2, <1>3, <1>4
<1> QED
  BY <1>4, <1>7, <1>8 DEF HoldsFrom, l

\* One step of the loop: the part up to the next comma, then the rest.
LEMMA PartHolds ==
  ASSUME NEW text \in Seq(Characters), NEW from \in 1 .. Len(text),
         from = 1 \/ text[from - 1] = Comma, NEW r, HoldsFrom(r, text, Stop(text, from) + 1)
  PROVE  LET v == trim(SubSeq(text, from, Stop(text, from) - 1))
         IN  HoldsFrom((IF v = <<>> THEN <<>> ELSE <<v>>) \o r, text, from)
<1>1. PICK stop, v : stop = Stop(text, from) /\ v = trim(SubSeq(text, from, stop - 1))
  OBVIOUS
<1>2. r \in Seq(Seq(Characters)) /\ HoldsFrom(r, text, stop + 1) /\ stop \in from .. Len(text) + 1
  BY <1>1, StopIs DEF HoldsFrom
<1>3. CASE v = <<>> /\ SpansFrom(text, from) = SpansFrom(text, stop + 1)
  <2>1. HoldsFrom(r, text, from)
    BY <1>2, <1>3 DEF HoldsFrom, UpTo
  <2>2. (IF v = <<>> THEN <<>> ELSE <<v>>) \o r = r
    BY <1>2, <1>3
  <2> QED
    BY <1>1, <2>1, <2>2
<1>4. CASE \E i, j \in from .. stop - 1 :
             /\ v # <<>> /\ v \in Seq(Characters) /\ v = SubSeq(text, i, j)
             /\ SpansFrom(text, from) = SpansFrom(text, stop + 1) \cup {<<i, j>>}
  <2>1. PICK i, j \in from .. stop - 1 :
             /\ v # <<>> /\ v \in Seq(Characters) /\ v = SubSeq(text, i, j)
             /\ SpansFrom(text, from) = SpansFrom(text, stop + 1) \cup {<<i, j>>}
    BY <1>4
  <2>2. from \in Nat /\ stop \in Nat /\ i \in from .. stop
    BY <1>2
  <2>3. HoldsFrom(<<v>> \o r, text, from)
    BY <1>2, <2>1, <2>2, FrontHolds
  <2> QED
    BY <1>1, <2>1, <2>3
<1>5. FirstFound(text, from, stop, v)
  BY <1>1, OnePart
<1> QED
  BY <1>3, <1>4, <1>5 DEF FirstFound

\* The list, read from the start of any part.
LEMMA EveryPartHolds ==
  ASSUME NEW text \in Seq(Characters), NEW list,
         list = [from \in 1 .. Len(text) + 1 |-> Remaining(text, list, from)]
  PROVE  \A k \in 1 .. Len(text) + 1 : Starts(text, k) => HoldsFrom(list[k], text, k)
<1> DEFINE n == Len(text)
           B == {k \in 1 .. n + 1 : Starts(text, k) /\ ~ HoldsFrom(list[k], text, k)}
<1>0. n \in Nat /\ \A k \in 1 .. n + 1 : list[k] = Remaining(text, list, k)
  OBVIOUS
<1>1. SUFFICES ASSUME B # {} PROVE FALSE
  OBVIOUS
<1>2. PICK from \in B : \A k \in B : k <= from
  <2>1. n + 1 \in Nat /\ B \in SUBSET (0 .. n + 1)
    BY <1>0
  <2> QED
    BY <1>1, <2>1, GreatestOf
<1>3. from \in 1 .. n + 1 /\ Starts(text, from) /\ ~ HoldsFrom(list[from], text, from)
  BY <1>2
<1>4. \A k \in 1 .. n + 1 : k > from /\ Starts(text, k) => HoldsFrom(list[k], text, k)
  BY <1>2
<1>a. ASSUME NEW k \in Nat, k > n PROVE HoldsFrom(<<>>, text, k)
  <2>1. SpansFrom(text, k) = {}
    BY <1>0, <1>a, SpanIs DEF SpansFrom
  <2> QED
    BY <2>1, FS_EmptySet DEF HoldsFrom
<1> HIDE DEF B
<1>5. CASE from > n
  <2>1. list[from] = <<>>
    BY <1>0, <1>3, <1>5 DEF Remaining
  <2> QED
    BY <1>3, <1>5, <1>a, <2>1
<1>6. CASE from <= n
  <2> DEFINE stop == Stop(text, from)
             v == trim(SubSeq(text, from, stop - 1))
             r == IF stop > n THEN <<>> ELSE list[stop + 1]
  <2>0. from \in 1 .. Len(text) /\ (from = 1 \/ text[from - 1] = Comma)
    BY <1>0, <1>3, <1>6 DEF Starts
  <2>1. stop \in from .. n + 1 /\ (stop <= n => text[stop] = Comma)
    BY <1>3, StopIs
  <2>2. list[from] = (IF v = <<>> THEN <<>> ELSE <<v>>) \o r
    <3>1. list[from] = Remaining(text, list, from) /\ ~ (from > Len(text))
      BY <1>0, <1>3, <1>6
    <3> QED
      BY <3>1, Zenon DEF Remaining
  <2>3. HoldsFrom(r, text, stop + 1)
    <3>1. CASE stop > n
      <4>1. stop + 1 \in Nat /\ stop + 1 > n
        BY <2>1, <3>1
      <4> QED
        BY <1>a, <3>1, <4>1
    <3>2. CASE ~(stop > n)
      <4>1. stop + 1 \in 1 .. n + 1 /\ stop + 1 > from /\ text[(stop + 1) - 1] = Comma
        BY <1>0, <2>0, <2>1, <3>2
      <4>2. Starts(text, stop + 1)
        BY <4>1 DEF Starts
      <4> QED
        BY <1>4, <3>2, <4>1, <4>2
    <3> QED
      BY <3>1, <3>2
  <2>4. HoldsFrom((IF v = <<>> THEN <<>> ELSE <<v>>) \o r, text, from)
    <3> HIDE DEF r
    <3> QED
      BY <2>0, <2>3, PartHolds
  <2> QED
    BY <1>3, <2>2, <2>4
<1> QED
  BY <1>0, <1>3, <1>5, <1>6

\* For every text, the list is the one HoldsTheOrigins asks for.
THEOREM OriginsInHolds ==
  ASSUME NEW text \in Seq(Characters)
  PROVE  Holds(OriginsIn(text), text)
<1>1. PICK list : /\ list = [from \in 1 .. Len(text) + 1 |-> Remaining(text, list, from)]
                  /\ OriginsIn(text) = list[1]
  BY OriginsInIs
<1>2. HoldsFrom(list[1], text, 1)
  <2>1. 1 \in 1 .. Len(text) + 1
    OBVIOUS
  <2> QED
    BY <1>1, <2>1, EveryPartHolds DEF Starts
<1>3. SpansFrom(text, 1) = Spans(text)
  <2>1. \A p \in Spans(text) : p[1] >= 1
    BY SpanIs
  <2> QED
    BY <2>1 DEF SpansFrom
<1> QED
  BY <1>1, <1>2, <1>3 DEF HoldsFrom, UpTo, Holds

LEMMA NoneIn == OriginsIn(<<>>) = <<>>
<1>1. <<>> \in Seq(Characters) /\ Len(<<>>) = 0 /\ 1 \in 1 .. 0 + 1
  OBVIOUS
<1>2. PICK list : /\ list = [from \in 1 .. Len(<<>>) + 1 |-> Remaining(<<>>, list, from)]
                  /\ OriginsIn(<<>>) = list[1]
  BY <1>1, OriginsInIs
<1>3. list[1] = Remaining(<<>>, list, 1)
  BY <1>1, <1>2
<1> QED
  BY <1>1, <1>2, <1>3 DEF Remaining

-----------------------------------------------------------------------------
\* Arithmetic.

LEMMA Mod ==
  ASSUME NEW m \in Nat, m > 0, NEW x \in Int
  PROVE  x % m \in 0 .. m - 1 /\ (x \in 0 .. m - 1 => x % m = x)
  OBVIOUS

LEMMA Widths ==
  /\ IntSize \in Nat /\ IntSize > 0 /\ LongSize \in Nat /\ LongSize > 0 /\ PortMax \in Nat /\ PortMax > 0
  /\ IntSize = 2 * (IntMax + 1) /\ LongSize = 2 * (LongMax + 1) /\ IntSize \div 2 = IntMax + 1
  /\ IntMax \in Nat /\ LongMax \in Nat /\ IntMax < LongMax /\ PortMax <= IntMax
<1>1. /\ IntSize \in Nat /\ LongSize \in Nat /\ IntSize % 2 = 0 /\ LongSize % 2 = 0
      /\ PortMax \in 1 .. (IntSize \div 2 - 1) /\ IntSize \div 2 - 1 < LongSize \div 2 - 1
  BY WidthAssumption DEF IntMax, LongMax
<1>2. IntSize = 2 * (IntSize \div 2) /\ LongSize = 2 * (LongSize \div 2)
  BY <1>1
<1>3. IntSize \div 2 \in Nat /\ LongSize \div 2 \in Nat
  BY <1>1
<1> QED
  BY <1>1, <1>2, <1>3 DEF IntMax, LongMax

\* A number that fits an int is kept, and what is kept fits.
LEMMA AsIntKeeps ==
  ASSUME NEW n \in Int
  PROVE  AsInt(n) \in Int32 /\ (n \in Int32 => AsInt(n) = n)
<1> DEFINE x == n + (IntMax + 1)
<1>1. x \in Int
  BY Widths
<1>2. x % IntSize \in 0 .. IntSize - 1 /\ (x \in 0 .. IntSize - 1 => x % IntSize = x)
  BY <1>1, Widths, Mod
<1>3. AsInt(n) = (x % IntSize) - (IntMax + 1)
  BY Widths DEF AsInt
<1>4. n \in Int32 => x \in 0 .. IntSize - 1
  BY Widths DEF Int32
<1>5. n \in Int32 => x % IntSize = n + (IntMax + 1)
  BY <1>2, <1>4
<1>6. \A y \in 0 .. IntSize - 1 : y - (IntMax + 1) \in Int32
  BY Widths DEF Int32
<1> DEFINE y == x % IntSize
<1>7. y \in 0 .. IntSize - 1 /\ AsInt(n) = y - (IntMax + 1) /\ (n \in Int32 => y = n + (IntMax + 1))
  BY <1>2, <1>3, <1>5
<1> HIDE DEF x, y
<1>8. AsInt(n) \in Int32
  BY <1>6, <1>7
<1>9. n \in Int32 => AsInt(n) = n
  BY <1>7, Widths
<1> QED
  BY <1>8, <1>9

LEMMA AtoiKeeps ==
  ASSUME NEW n \in Int
  PROVE  Atoi(n) \in Int32 /\ (n \in Int32 => Atoi(n) = n)
<1> DEFINE c == IF n > LongMax THEN LongMax ELSE IF n < -(LongMax + 1) THEN -(LongMax + 1) ELSE n
<1>1. c \in Int /\ (n \in Int32 => c = n)
  BY Widths DEF Int32
<1>2. Atoi(n) = AsInt(c)
  BY DEF Atoi
<1> HIDE DEF c
<1> QED
  BY <1>1, <1>2, AsIntKeeps

LEMMA StrtoullFits == ASSUME NEW n \in Int PROVE Strtoull(n) \in 0 .. UMax
<1>1. n % LongSize \in 0 .. LongSize - 1
  BY Widths, Mod
<1> QED
  BY <1>1, Widths DEF Strtoull, UMax

LEMMA Values == Absent \notin Int /\ Wrong \notin Int /\ Absent \notin Paths /\ Absent \notin Texts
             /\ (\A x \in Numbers : x \in Int) /\ \A x \in Int32 : x \in Int
  BY InputAssumption, Widths DEF Int32

\* What a field of conf holds.
Fits(s, x) ==
  /\ s = "concurrency" => x \in Int32
  /\ s = "port" => x \in 1 .. PortMax
  /\ s = "age" => x \in 0 .. UMax
  /\ s = "db" => x \in Paths

\* What a number becomes, from a text or from a file.
Becomes(s, n, x) == x = Absent \/ Fits(s, x)

\* A port that is asked for as an int is set when it is valid, else passed
\* over.
PortKept(n, x) ==
  n \in Int32 => x = IF n \in 1 .. PortMax THEN n ELSE Absent

LEMMA TakenFromText ==
  ASSUME NEW n \in Int, NEW s \in Numeric
  PROVE  Becomes(s, n, FromText(s, n)) /\ (s = "port" => PortKept(n, FromText(s, n)))
<1>1. CASE s = "concurrency"
  <2>1. FromText(s, n) = IF Atoi(n) < 1 THEN Absent ELSE Atoi(n)
    BY <1>1 DEF FromText
  <2>2. FromText(s, n) = Absent \/ FromText(s, n) \in Int32
    BY <2>1, AtoiKeeps
  <2> QED
    BY <1>1, <2>2 DEF Becomes, Fits
<1>2. CASE s = "port"
  <2>1. FromText(s, n) = IF ValidPort(Atoi(n)) THEN Atoi(n) ELSE Absent
    BY <1>2 DEF FromText
  <2>2. Atoi(n) \in Int /\ (ValidPort(Atoi(n)) <=> Atoi(n) \in 1 .. PortMax)
    BY AtoiKeeps, Values, Widths DEF ValidPort
  <2>3. Becomes(s, n, FromText(s, n))
    BY <1>2, <2>1, <2>2 DEF Becomes, Fits
  <2>4. ASSUME n \in Int32 PROVE FromText(s, n) = IF n \in 1 .. PortMax THEN n ELSE Absent
    <3>1. Atoi(n) = n
      BY <2>4, AtoiKeeps
    <3> QED
      BY <2>1, <2>2, <3>1
  <2> QED
    BY <2>3, <2>4 DEF PortKept
<1>3. CASE s = "age"
  BY <1>3, StrtoullFits DEF FromText, Becomes, Fits
<1> QED
  BY <1>1, <1>2, <1>3 DEF Numeric

LEMMA TakenFromJson ==
  ASSUME NEW n \in Int, NEW s \in Numeric
  PROVE  Becomes(s, n, FromJson(s, n)) /\ (s = "port" => PortKept(n, FromJson(s, n)))
<1>0. CASE n \notin 0 .. UMax
  <2>1. FromJson(s, n) = Absent
    BY <1>0 DEF FromJson
  <2>2. n \notin 1 .. PortMax
    BY <1>0, Widths DEF UMax
  <2> QED
    BY <2>1, <2>2 DEF Becomes, PortKept
<1>1. CASE n \in 0 .. UMax /\ s = "concurrency"
  <2>1. FromJson(s, n) = AsInt(n)
    BY <1>1 DEF FromJson
  <2> QED
    BY <1>1, <2>1, AsIntKeeps DEF Becomes, Fits
<1>2. CASE n \in 0 .. UMax /\ s = "port"
  <2>1. FromJson(s, n) = IF ValidPort(AsInt(n)) THEN AsInt(n) ELSE Absent
    BY <1>2 DEF FromJson
  <2>2. AsInt(n) \in Int /\ (ValidPort(AsInt(n)) <=> AsInt(n) \in 1 .. PortMax)
    BY AsIntKeeps, Values, Widths DEF ValidPort
  <2>3. Becomes(s, n, FromJson(s, n))
    BY <1>2, <2>1, <2>2 DEF Becomes, Fits
  <2>4. ASSUME n \in Int32 PROVE FromJson(s, n) = IF n \in 1 .. PortMax THEN n ELSE Absent
    <3>1. AsInt(n) = n
      BY <2>4, AsIntKeeps
    <3> QED
      BY <2>1, <2>2, <3>1
  <2> QED
    BY <2>3, <2>4 DEF PortKept
<1>3. CASE n \in 0 .. UMax /\ s = "age"
  BY <1>3 DEF FromJson, Becomes, Fits
<1> QED
  BY <1>0, <1>1, <1>2, <1>3 DEF Numeric

-----------------------------------------------------------------------------
\* What the sources that won have set.

Typed ==
  /\ DOMAIN conf = Settings /\ \A s \in Settings : Fits(s, conf[s])
  /\ rank \in [Settings -> 0 .. 2] /\ wide \in BOOLEAN
  /\ at \in 1 .. 7 /\ values \in 0 .. MaxValues
  /\ status \in {"loading", "serve", "helped", "misused", "terminated"}

\* No source has spoken that is documented to win over those to come.
InOrder ==
  /\ at = 1 => \A s \in Settings : rank[s] = 0
  /\ at <= 6 => \A s \in Settings : rank[s] <= 1

\* The list is made of the text of the source that wins.
ListKept ==
  given["origins"] \in Texts /\ conf["origins"] = OriginsIn(Chars[given["origins"]])

ConfInv ==
  /\ Typed /\ InOrder /\ ListKept
  /\ conf["db"] = given["db"] /\ (conf["port"] = given["port"] \/ wide = TRUE)

LEMMA SettingsIs ==
  /\ Settings = {"concurrency", "port", "age", "origins", "db"}
  /\ Numeric = {"concurrency", "port", "age"} /\ IsFiniteSet(Settings)
<1>1. Settings = {"concurrency", "port", "age", "origins", "db"}
  BY DEF Settings, Numeric
<1>2. IsFiniteSet({"concurrency", "port", "age", "origins", "db"})
  <2> DEFINE two == {"concurrency"} \cup {"port"}
             three == two \cup {"age"}
             four == three \cup {"origins"}
             five == four \cup {"db"}
  <2>1. IsFiniteSet({"concurrency"})
    BY FS_Singleton
  <2>2. IsFiniteSet(two)
    BY <2>1, FS_AddElement
  <2>3. IsFiniteSet(three)
    BY <2>2, FS_AddElement
  <2>4. IsFiniteSet(four)
    BY <2>3, FS_AddElement
  <2>5. IsFiniteSet(five)
    BY <2>4, FS_AddElement
  <2>6. five = {"concurrency", "port", "age", "origins", "db"}
    OBVIOUS
  <2> QED
    BY <2>5, <2>6
<1> QED
  BY <1>1, <1>2 DEF Numeric

LEMMA OrderIs ==
  /\ Len(Order) = 6 /\ Order[1] = "file" /\ \A i \in 2 .. 6 : Order[i] \in Settings /\ Order[i] # "file"
<1>1. /\ Len(Order) = 6 /\ Order[1] = "file" /\ Order[2] = "concurrency" /\ Order[3] = "port"
      /\ Order[4] = "age" /\ Order[5] = "origins" /\ Order[6] = "db"
  BY DEF Order
<1>2. \A i \in 2 .. 6 : i = 2 \/ i = 3 \/ i = 4 \/ i = 5 \/ i = 6
  OBVIOUS
<1> QED
  BY <1>1, <1>2, SettingsIs

\* A source of rank r, none of a higher rank having spoken: what it says of
\* the port and the database is what it sets, and all it sets fits.
Speaks(taken, asked, r) ==
  /\ r \in 0 .. 2 /\ \A s \in Settings : rank[s] <= r
  /\ \A s \in Settings : taken[s] = Absent \/ Fits(s, taken[s])
  /\ taken["db"] = asked["db"]
  /\ taken["origins"] = asked["origins"] /\ asked["origins"] \in Texts \cup {Absent}
  /\ \/ asked["port"] = Absent /\ taken["port"] = Absent
     \/ asked["port"] \in Int /\ PortKept(asked["port"], taken["port"])
  /\ values + Cardinality({s \in Settings : asked[s] # Absent}) \in 0 .. MaxValues

LEMMA SetKeeps ==
  ASSUME ConfInv, NEW taken, NEW asked, NEW r, Speaks(taken, asked, r), Set(taken, asked, r)
  PROVE  /\ DOMAIN conf' = Settings /\ \A s \in Settings : Fits(s, conf[s])'
         /\ rank' \in [Settings -> 0 .. 2] /\ wide' \in BOOLEAN /\ values' \in 0 .. MaxValues
         /\ \A s \in Settings : rank'[s] \in {rank[s], r}
         /\ conf'["db"] = given'["db"] /\ (conf'["port"] = given'["port"] \/ wide' = TRUE)
         /\ ListKept'
<1> DEFINE wins(s) == asked[s] # Absent /\ Documented(s, asked[s]) /\ r >= rank[s]
<1>t. /\ DOMAIN conf = Settings /\ \A s \in Settings : Fits(s, conf[s])
      /\ rank \in [Settings -> 0 .. 2] /\ wide \in BOOLEAN
      /\ conf["db"] = given["db"] /\ (conf["port"] = given["port"] \/ wide = TRUE)
  BY DEF ConfInv, Typed
<1>s. "port" \in Settings /\ "db" \in Settings
  BY SettingsIs
<1>1. /\ DOMAIN conf' = Settings
      /\ \A s \in Settings : s # "origins" => conf'[s] = IF taken[s] = Absent THEN conf[s] ELSE taken[s]
  BY DEF Set
<1>2. \A s \in Settings : given'[s] = IF wins(s) THEN asked[s] ELSE given[s]
  BY DEF Set
<1>3. rank' = [s \in Settings |-> IF wins(s) THEN r ELSE rank[s]]
  BY DEF Set
<1>4. wide' = (wide \/ asked["port"] \notin Int32 \cup {Absent})
  BY Zenon DEF Set
<1>5. values' \in 0 .. MaxValues
  BY DEF Set, Speaks
<1>6. \A s \in Settings : Fits(s, conf'[s])
  <2>1. ASSUME NEW s \in Settings, s # "origins" PROVE Fits(s, conf'[s])
    BY <1>1, <1>t, <2>1 DEF Speaks
  <2>2. Fits("origins", conf'["origins"])
    BY DEF Fits
  <2> QED
    BY <2>1, <2>2
<1>7. rank' \in [Settings -> 0 .. 2] /\ \A s \in Settings : rank'[s] \in {rank[s], r}
  BY <1>3, <1>t DEF Speaks
<1>8. wide' \in BOOLEAN /\ (wide = TRUE => wide' = TRUE)
  BY <1>4, <1>t, Zenon
<1>9. conf'["db"] = given'["db"]
  <2>1. wins("db") <=> asked["db"] # Absent
    BY <1>s, <1>t DEF Speaks, Documented
  <2> QED
    BY <1>1, <1>2, <1>s, <1>t, <2>1 DEF Speaks
<1>10. conf'["port"] = given'["port"] \/ wide' = TRUE
  <2>1. CASE asked["port"] = Absent /\ taken["port"] = Absent
    BY <1>1, <1>2, <1>s, <1>t, <1>8, <2>1
  <2>2. CASE asked["port"] \in Int /\ asked["port"] \notin Int32
    <3>1. (asked["port"] \notin Int32 \cup {Absent}) = TRUE
      BY <2>2, Values
    <3> QED
      BY <1>4, <3>1, Zenon
  <2>3. CASE asked["port"] \in Int32 /\ PortKept(asked["port"], taken["port"])
    <3>1. asked["port"] # Absent /\ asked["port"] \in Int
      BY <2>3, Values
    <3>2. taken["port"] = IF asked["port"] \in 1 .. PortMax THEN asked["port"] ELSE Absent
      BY <2>3 DEF PortKept
    <3>3. wins("port") <=> asked["port"] \in 1 .. PortMax
      BY <1>s, <1>t, <3>1 DEF Speaks, Documented
    <3> QED
      BY <1>1, <1>2, <1>s, <1>t, <1>8, <3>1, <3>2, <3>3
  <2> QED
    BY <2>1, <2>2, <2>3 DEF Speaks
<1>11. ListKept'
  <2>1. "origins" \in Settings /\ "origins" \notin Numeric /\ Absent \notin Texts
    BY SettingsIs, Values
  <2>2. conf'["origins"] = IF taken["origins"] = Absent THEN conf["origins"]
                           ELSE OriginsIn(Chars[taken["origins"]])
    BY <2>1 DEF Set
  <2>3. wins("origins") <=> asked["origins"] # Absent
    BY <2>1, <1>t DEF Speaks, Documented
  <2>4. given'["origins"] = IF asked["origins"] # Absent THEN asked["origins"] ELSE given["origins"]
    BY <1>2, <2>1, <2>3
  <2> QED
    BY <2>2, <2>4, Zenon DEF Speaks, ConfInv, ListKept
<1> QED
  BY <1>1, <1>5, <1>6, <1>7, <1>8, <1>9, <1>10, <1>11

-----------------------------------------------------------------------------
LEMMA ConfInit == Init => ConfInv
<1> SUFFICES ASSUME Init PROVE ConfInv
  OBVIOUS
<1>1. /\ conf = [concurrency |-> Cores, port |-> DefaultPort, age |-> 0,
                 origins |-> <<>>, db |-> DefaultDb]
      /\ given = [conf EXCEPT !.origins = NoText]
  BY DEF Init
<1>2. /\ DOMAIN conf = {"concurrency", "port", "age", "origins", "db"}
      /\ conf["concurrency"] = Cores /\ conf["port"] = DefaultPort /\ conf["age"] = 0
      /\ conf["db"] = DefaultDb
  BY <1>1
<1>3. given["port"] = conf["port"] /\ given["db"] = conf["db"]
  BY <1>1, <1>2
<1>4. Cores \in Int32 /\ DefaultPort \in 1 .. PortMax /\ 0 \in 0 .. UMax /\ DefaultDb \in Paths
  BY DefaultAssumption, Widths DEF Int32, UMax
<1>5. \A s \in Settings : Fits(s, conf[s])
  BY <1>2, <1>4, SettingsIs DEF Fits
<1>6. rank \in [Settings -> 0 .. 2] /\ \A s \in Settings : rank[s] = 0
  BY DEF Init
<1>7. at = 1 /\ values = 0 /\ wide = FALSE /\ status = "loading" /\ MaxValues \in Nat
  BY InputAssumption DEF Init
<1>8. Typed
  <2>1. at \in 1 .. 7 /\ values \in 0 .. MaxValues
    BY <1>7, OrderIs
  <2> QED
    BY <1>2, <1>5, <1>6, <1>7, <2>1, SettingsIs DEF Typed
<1> QED
  <2>1. InOrder
    BY <1>6 DEF InOrder
  <2>2. conf["db"] = given["db"] /\ conf["port"] = given["port"]
    BY <1>3
  <2>3. ListKept
    <3>1. conf["origins"] = <<>> /\ given["origins"] = NoText
      BY <1>1
    <3> QED
      BY <3>1, NoneIn, InputAssumption DEF ListKept
  <2> QED
    BY <1>8, <2>1, <2>2, <2>3, Zenon DEF ConfInv

LEMMA ValuesBound == ASSUME ConfInv PROVE values \in Nat /\ MaxValues \in Nat
<1>1. values \in 0 .. MaxValues
  BY DEF ConfInv, Typed
<1>2. MaxValues \in Nat
  BY InputAssumption
<1> QED
  BY <1>1, <1>2

\* A text for one setting.
LEMMA TextSpeaks ==
  ASSUME ConfInv, NEW s \in Settings, NEW x \in Inputs(s), NEW r \in 0 .. 2,
         \A u \in Settings : rank[u] <= r, SetFrom(s, x, r)
  PROVE  \E taken, asked : Speaks(taken, asked, r) /\ Set(taken, asked, r)
<1> DEFINE only(y) == [t \in Settings |-> IF t = s THEN y ELSE Absent]
           y == IF s \in Numeric THEN FromText(s, x) ELSE x
<1>1. Set(only(y), only(x), r) /\ values < MaxValues
  BY DEF SetFrom
<1>i. /\ s \in Numeric => x \in Int
      /\ s = "db" => x \in Paths
  BY Values, SettingsIs DEF Inputs
<1>2. y = Absent \/ Fits(s, y)
  <2>1. CASE s \in Numeric
    BY <1>i, <2>1, TakenFromText DEF Becomes
  <2>2. CASE s \notin Numeric
    BY <1>i, <2>2, SettingsIs DEF Fits
  <2> QED
    BY <2>1, <2>2
<1>3. s = "port" => x \in Int /\ PortKept(x, y)
  BY <1>i, SettingsIs, TakenFromText
<1>4. s = "db" => y = x
  BY SettingsIs
<1>5. \A u \in Settings : only(y)[u] = Absent \/ Fits(u, only(y)[u])
  BY <1>2
<1>6. only(y)["db"] = only(x)["db"]
  BY <1>4, SettingsIs
<1>9. only(y)["origins"] = only(x)["origins"] /\ only(x)["origins"] \in Texts \cup {Absent}
  <2>1. s = "origins" => y = x /\ x \in Texts
    BY SettingsIs DEF Inputs
  <2> QED
    BY <2>1, SettingsIs
<1>7. \/ only(x)["port"] = Absent /\ only(y)["port"] = Absent
      \/ only(x)["port"] \in Int /\ PortKept(only(x)["port"], only(y)["port"])
  <2>1. CASE s = "port"
    <3>1. only(x)["port"] = x /\ only(y)["port"] = y
      BY <2>1, SettingsIs
    <3> QED
      BY <3>1, <2>1, <1>3
  <2>2. CASE s # "port"
    BY <2>2, SettingsIs
  <2> QED
    BY <2>1, <2>2
<1>8. values + Cardinality({u \in Settings : only(x)[u] # Absent}) \in 0 .. MaxValues
  <2>1. {u \in Settings : only(x)[u] # Absent} \in SUBSET {s}
    OBVIOUS
  <2>2. IsFiniteSet({s}) /\ Cardinality({s}) = 1
    BY FS_Singleton
  <2> DEFINE S == {u \in Settings : only(x)[u] # Absent}
  <2>3. Cardinality(S) \in Nat /\ Cardinality(S) <= 1
    BY <2>1, <2>2, FS_Subset, FS_CardinalityType
  <2> HIDE DEF S, only
  <2>4. values \in Nat /\ values < MaxValues /\ MaxValues \in Nat
    BY <1>1, ValuesBound
  <2>5. values + Cardinality(S) \in 0 .. MaxValues
    BY <2>3, <2>4
  <2> QED
    BY <2>5 DEF S
<1> HIDE DEF only, y
<1> QED
  BY <1>1, <1>5, <1>6, <1>7, <1>8, <1>9 DEF Speaks

\* A file, with what is passed over of it.
LEMMA FileSpeaks ==
  ASSUME ConfInv, NEW r \in 0 .. 2, \A u \in Settings : rank[u] <= r,
         NEW keys \in SUBSET Settings, values + Cardinality(keys) <= MaxValues,
         NEW file \in Files(keys), NEW asked, NEW taken,
         asked = [s \in Settings |-> IF s \notin keys \/ file[s] \in {Wrong} \cup Empties
                                     THEN Absent ELSE file[s]],
         taken = [s \in Settings |-> IF s \in Numeric /\ asked[s] # Absent
                                     THEN FromJson(s, asked[s]) ELSE asked[s]]
  PROVE  Speaks(taken, asked, r)
<1>1. \A s \in Settings : asked[s] = Absent \/ (s \in keys /\ asked[s] \in Inputs(s))
  BY DEF Files
<1>i. \A s \in Settings : \A x \in Inputs(s) :
        /\ s \in Numeric => x \in Int
        /\ s = "db" => x \in Paths
  BY Values, SettingsIs DEF Inputs
<1>2. \A s \in Settings : taken[s] = Absent \/ Fits(s, taken[s])
  <2> TAKE s \in Settings
  <2>1. CASE asked[s] = Absent
    BY <2>1
  <2>2. CASE asked[s] # Absent /\ s \in Numeric
    <3>1. asked[s] \in Int /\ taken[s] = FromJson(s, asked[s])
      BY <1>1, <1>i, <2>2
    <3> QED
      BY <2>2, <3>1, TakenFromJson DEF Becomes
  <2>3. CASE asked[s] # Absent /\ s \notin Numeric
    <3>1. taken[s] = asked[s] /\ (s = "db" => asked[s] \in Paths)
      BY <1>1, <1>i, <2>3
    <3> QED
      BY <2>3, <3>1, SettingsIs DEF Fits
  <2> QED
    BY <2>1, <2>2, <2>3
<1>3. taken["db"] = asked["db"]
  BY SettingsIs
<1>6. taken["origins"] = asked["origins"] /\ asked["origins"] \in Texts \cup {Absent}
  BY <1>1, SettingsIs DEF Inputs
<1>4. \/ asked["port"] = Absent /\ taken["port"] = Absent
      \/ asked["port"] \in Int /\ PortKept(asked["port"], taken["port"])
  <2>1. "port" \in Settings /\ "port" \in Numeric
    BY SettingsIs
  <2>2. CASE asked["port"] = Absent
    BY <2>1, <2>2
  <2>3. CASE asked["port"] # Absent
    <3>1. asked["port"] \in Int /\ taken["port"] = FromJson("port", asked["port"])
      BY <1>1, <1>i, <2>1, <2>3
    <3> QED
      BY <2>1, <3>1, TakenFromJson
  <2> QED
    BY <2>2, <2>3
<1>5. values + Cardinality({s \in Settings : asked[s] # Absent}) \in 0 .. MaxValues
  <2> DEFINE S == {s \in Settings : asked[s] # Absent}
  <2>1. S \in SUBSET keys /\ keys \in SUBSET Settings
    OBVIOUS
  <2>2. IsFiniteSet(keys)
    BY SettingsIs, FS_Subset
  <2>3. Cardinality(S) \in Nat /\ Cardinality(S) <= Cardinality(keys) /\ Cardinality(keys) \in Nat
    BY <2>1, <2>2, FS_Subset, FS_CardinalityType
  <2>4. values \in Nat /\ MaxValues \in Nat
    BY ValuesBound
  <2> HIDE DEF S
  <2>5. values + Cardinality(S) \in 0 .. MaxValues
    BY <2>3, <2>4
  <2> QED
    BY <2>5 DEF S
<1> QED
  BY <1>2, <1>3, <1>4, <1>5, <1>6 DEF Speaks

-----------------------------------------------------------------------------
LEMMA Spoken ==
  ASSUME ConfInv
  PROVE  /\ at \in 1 .. 7 /\ Len(Order) = 6
         /\ \A u \in Settings : rank[u] <= 2
         /\ at = 1 => \A u \in Settings : rank[u] <= 0
         /\ at <= 6 => \A u \in Settings : rank[u] <= 1
         /\ status \in {"loading", "serve", "helped", "misused", "terminated"}
<1>1. Len(Order) = 6
  BY OrderIs
<1>2. at \in 1 .. 7 /\ rank \in [Settings -> 0 .. 2]
  BY DEF ConfInv, Typed
<1>3. status \in {"loading", "serve", "helped", "misused", "terminated"}
  BY DEF ConfInv, Typed
<1>4. \A u \in Settings : rank[u] \in 0 .. 2
  BY <1>2
<1>5. /\ at = 1 => \A u \in Settings : rank[u] = 0
      /\ at <= 6 => \A u \in Settings : rank[u] <= 1
  BY Zenon DEF ConfInv, InOrder
<1>6. at \in 1 .. 7
  BY <1>1, <1>2
<1>7. \A u \in Settings : rank[u] <= 2
  BY <1>4
<1>8. at = 1 => \A u \in Settings : rank[u] <= 0
  BY <1>5
<1>9. at <= 6 => \A u \in Settings : rank[u] <= 1
  BY <1>1, <1>5
<1> QED
  BY <1>1, <1>3, <1>6, <1>7, <1>8, <1>9

\* After a source of rank r, none of a higher rank has spoken.
LEMMA SetOrder ==
  ASSUME ConfInv, NEW taken, NEW asked, NEW r, Speaks(taken, asked, r), Set(taken, asked, r),
         UNCHANGED status, at' \in 2 .. 7, r = 2 => at' = 7
  PROVE  ConfInv'
<1>1. /\ DOMAIN conf' = Settings /\ \A s \in Settings : Fits(s, conf[s])'
      /\ rank' \in [Settings -> 0 .. 2] /\ wide' \in BOOLEAN /\ values' \in 0 .. MaxValues
      /\ \A s \in Settings : rank'[s] \in {rank[s], r}
      /\ conf'["db"] = given'["db"] /\ (conf'["port"] = given'["port"] \/ wide' = TRUE)
      /\ ListKept'
  BY SetKeeps
<1>2. Typed'
  <2>1. status' \in {"loading", "serve", "helped", "misused", "terminated"}
    BY DEF ConfInv, Typed
  <2>2. at' \in 1 .. 7
    BY OrderIs
  <2> QED
    BY <1>1, <2>1, <2>2 DEF Typed
<1>3. InOrder'
  <2>1. ~(at' = 1)
    BY OrderIs
  <2>2. ASSUME at' <= 6, NEW s \in Settings PROVE rank'[s] <= 1
    <3>1. r # 2
      BY <2>2, OrderIs
    <3>2. rank[s] <= r /\ r \in 0 .. 2 /\ rank[s] \in 0 .. 2
      BY <2>2 DEF Speaks, ConfInv, Typed
    <3> QED
      BY <1>1, <2>2, <3>1, <3>2
  <2> QED
    BY <2>1, <2>2 DEF InOrder
<1> QED
  BY <1>1, <1>2, <1>3, Zenon DEF ConfInv

\* Nothing said, and at most the next source looked at or the loading ended.
LEMMA SilentStep ==
  ASSUME ConfInv, UNCHANGED <<conf, values, history>>, at' = at \/ at' = at + 1,
         at' \in 1 .. 7,
         status' \in {"loading", "serve", "helped", "misused", "terminated"}
  PROVE  ConfInv'
<1>1. conf' = conf /\ values' = values /\ given' = given /\ rank' = rank /\ wide' = wide
  BY DEF history
<1>2. Typed'
  BY <1>1 DEF ConfInv, Typed
<1>3. InOrder'
  <2>1. at \in 1 .. 7 /\ Len(Order) = 6
    BY Spoken
  <2>2. CASE at' = at
    BY <1>1, <2>2, Zenon DEF ConfInv, InOrder
  <2>3. CASE at' = at + 1
    <3>1. ~(at' = 1) /\ (at' <= 6 => at <= 6)
      BY <2>1, <2>3
    <3>2. at <= 6 => \A s \in Settings : rank[s] <= 1
      BY Zenon DEF ConfInv, InOrder
    <3> QED
      BY <1>1, <3>1, <3>2, Zenon DEF InOrder
  <2> QED
    BY <2>2, <2>3
<1>4. conf'["db"] = given'["db"] /\ (conf'["port"] = given'["port"] \/ wide' = TRUE) /\ ListKept'
  BY <1>1, Zenon DEF ConfInv, ListKept
<1> QED
  BY <1>2, <1>3, <1>4, Zenon DEF ConfInv

LEMMA FileStep ==
  ASSUME ConfInv, NEW r \in 0 .. 2, \A u \in Settings : rank[u] <= r, ParseJsonConfig(r),
         at' = at \/ at' = at + 1, at' \in 2 .. 7, r = 2 => at' = 7
  PROVE  ConfInv'
<1>0. status \in {"loading", "serve", "helped", "misused", "terminated"}
      /\ at' \in 1 .. 7
  <2>1. status \in {"loading", "serve", "helped", "misused", "terminated"}
    BY DEF ConfInv, Typed
  <2>2. at' \in 1 .. 7
    OBVIOUS
  <2> QED
    BY <2>1, <2>2
<1>1. CASE Skip
  BY <1>0, <1>1, SilentStep DEF Skip
<1>2. CASE status' = "terminated" /\ UNCHANGED <<conf, values, history>>
  BY <1>0, <1>2, SilentStep
<1>3. CASE ~Skip /\ ~(status' = "terminated" /\ UNCHANGED <<conf, values, history>>)
  <2>1. PICK keys \in {ks \in SUBSET Settings : values + Cardinality(ks) <= MaxValues} :
          \E file \in Files(keys) :
            /\ LET asked == [s \in Settings |->
                     IF s \notin keys \/ file[s] \in {Wrong} \cup Empties
                     THEN Absent ELSE file[s]]
               IN  Set([s \in Settings |-> IF s \in Numeric /\ asked[s] # Absent
                                           THEN FromJson(s, asked[s]) ELSE asked[s]],
                       asked, r)
            /\ UNCHANGED status
    BY <1>3, Zenon DEF ParseJsonConfig
  <2>2. PICK file \in Files(keys) :
          /\ LET asked == [s \in Settings |->
                   IF s \notin keys \/ file[s] \in {Wrong} \cup Empties
                   THEN Absent ELSE file[s]]
             IN  Set([s \in Settings |-> IF s \in Numeric /\ asked[s] # Absent
                                         THEN FromJson(s, asked[s]) ELSE asked[s]],
                     asked, r)
          /\ UNCHANGED status
    BY <2>1, Zenon
  <2> DEFINE asked == [s \in Settings |-> IF s \notin keys \/ file[s] \in {Wrong} \cup Empties
                                          THEN Absent ELSE file[s]]
             taken == [s \in Settings |-> IF s \in Numeric /\ asked[s] # Absent
                                          THEN FromJson(s, asked[s]) ELSE asked[s]]
  <2>3. Set(taken, asked, r) /\ UNCHANGED status
    BY <2>2, Zenon
  <2>4. keys \in SUBSET Settings /\ values + Cardinality(keys) <= MaxValues
    BY <2>1, Zenon
  <2>5. Speaks(taken, asked, r)
    BY <2>4, FileSpeaks
  <2> HIDE DEF asked, taken
  <2> QED
    BY <2>3, <2>5, SetOrder
<1> QED
  BY <1>1, <1>2, <1>3, Zenon

LEMMA ConfStep == ConfInv /\ [Next]_vars => ConfInv'
<1> SUFFICES ASSUME ConfInv, [Next]_vars PROVE ConfInv'
  OBVIOUS
<1>0. /\ at \in 1 .. 7 /\ Len(Order) = 6
      /\ status \in {"loading", "serve", "helped", "misused", "terminated"}
  BY Spoken
<1>1. CASE LoadEnv
  <2>0. at \in 1 .. 6 /\ at' = at + 1 /\ at' \in 2 .. 7
    <3>1. at <= Len(Order) /\ at' = at + 1
      BY <1>1 DEF LoadEnv
    <3>2. at <= 6
      BY <1>0, <3>1
    <3> QED
      BY <1>0, <3>1, <3>2
  <2>1. CASE Skip
    <3>1. UNCHANGED <<conf, values, history>> /\ status' = status
      BY <2>1 DEF Skip
    <3>2. at' \in 1 .. 7 /\ status' \in {"loading", "serve", "helped", "misused", "terminated"}
      BY <1>0, <2>0, <3>1
    <3> QED
      BY <2>0, <3>1, <3>2, SilentStep
  <2>2. CASE Order[at] = "file" /\ ParseJsonConfig(0)
    <3>1. at = 1
      BY <2>0, <2>2, OrderIs
    <3>2. \A u \in Settings : rank[u] <= 0
      BY <3>1, Spoken
    <3> QED
      BY <2>0, <2>2, <3>2, FileStep
  <2>3. CASE Order[at] # "file" /\ \E x \in Inputs(Order[at]) \ Empties : SetFrom(Order[at], x, 1)
    <3>1. Order[at] \in Settings
      BY <2>0, <2>3, OrderIs
    <3>2. PICK x \in Inputs(Order[at]) : SetFrom(Order[at], x, 1)
      BY <2>3
    <3>3. \A u \in Settings : rank[u] <= 1
      <4>1. at <= 6
        BY <2>0
      <4> QED
        BY <4>1, Spoken
    <3>4. PICK taken, asked : Speaks(taken, asked, 1) /\ Set(taken, asked, 1)
      BY <3>1, <3>2, <3>3, TextSpeaks
    <3>5. UNCHANGED status
      BY <3>2 DEF SetFrom
    <3> QED
      BY <2>0, <3>4, <3>5, SetOrder
  <2> QED
    BY <1>1, <2>1, <2>2, <2>3 DEF LoadEnv
<1>2. CASE ParseOption
  <2>0. at = 7 /\ at' = at /\ at' \in 2 .. 7 /\ at' = 7
    <3>1. at > Len(Order) /\ at' = at
      BY <1>2 DEF ParseOption
    <3>2. at = 7
      BY <1>0, <3>1
    <3> QED
      BY <3>1, <3>2
  <2>1. \A u \in Settings : rank[u] <= 2
    BY Spoken
  <2>2. CASE ParseJsonConfig(2)
    BY <2>0, <2>1, <2>2, FileStep
  <2>3. CASE \E s \in Settings : \E x \in Inputs(s) : SetFrom(s, x, 2)
    <3>1. PICK s \in Settings : \E x \in Inputs(s) : SetFrom(s, x, 2)
      BY <2>3
    <3>2. PICK x \in Inputs(s) : SetFrom(s, x, 2)
      BY <3>1
    <3>3. PICK taken, asked : Speaks(taken, asked, 2) /\ Set(taken, asked, 2)
      BY <2>1, <3>2, TextSpeaks
    <3>4. UNCHANGED status
      BY <3>2 DEF SetFrom
    <3> QED
      BY <2>0, <3>3, <3>4, SetOrder
  <2>4. CASE status' \in {"helped", "misused"} /\ UNCHANGED <<conf, values, history>>
    BY <1>0, <2>0, <2>4, SilentStep
  <2> QED
    BY <1>2, <2>2, <2>3, <2>4 DEF ParseOption
<1>3. CASE ParsedArgs
  BY <1>0, <1>3, SilentStep DEF ParsedArgs
<1>4. CASE UNCHANGED vars
  BY <1>0, <1>4, SilentStep DEF vars
<1> QED
  BY <1>1, <1>2, <1>3, <1>4 DEF Next

LEMMA ConfAlways == Spec => []ConfInv
  BY ConfInit, ConfStep, PTL DEF Spec

-----------------------------------------------------------------------------
\* Every number fits the field it is kept in (config.cpp 136-166, 225-245),
\* whatever numbers the sources hold.
THEOREM ConfigTypeCorrect == Spec => []TypeOK
<1>1. ConfInv => TypeOK
  <2> SUFFICES ASSUME ConfInv PROVE TypeOK
    OBVIOUS
  <2>1. Typed
    BY DEF ConfInv
  <2>2. /\ Fits("concurrency", conf["concurrency"]) /\ Fits("port", conf["port"])
        /\ Fits("age", conf["age"]) /\ Fits("db", conf["db"])
    BY <2>1, SettingsIs DEF Typed
  <2>3. /\ conf["concurrency"] \in Int32 /\ conf["port"] \in 1 .. PortMax
        /\ conf["age"] \in 0 .. UMax /\ conf["db"] \in Paths
    BY <2>2 DEF Fits
  <2>4. conf["port"] \in Int32
    BY <2>3, Widths DEF Int32
  <2> QED
    <3>1. {conf["concurrency"], conf["port"]} \subseteq Int32
      BY <2>3, <2>4
    <3>2. at \in 1 .. Len(Order) + 1
      BY <2>1, OrderIs DEF Typed
    <3> QED
      BY <2>1, <2>3, <3>1, <3>2, Zenon DEF Typed, TypeOK
<1> QED
  BY <1>1, ConfAlways, PTL

\* Whatever the sources hold, in range, out of it or wrapped by atoi or
\* get<int>, the servers listen on a port (config.cpp 133-134).
THEOREM ThePortIsOne == Spec => []PortUsable
<1>1. ConfInv => PortUsable
  BY SettingsIs DEF ConfInv, Typed, Fits, PortUsable
<1> QED
  BY <1>1, ConfAlways, PTL

\* The port and the database are those of the source documented to win
\* (config.cpp 14-26), for every number of sources and options.
THEOREM TheLastSourceWins == Spec => []LastSourceWins
<1>1. ConfInv => LastSourceWins
  BY Zenon DEF ConfInv, LastSourceWins
<1> QED
  BY <1>1, ConfAlways, PTL

\* Whichever sources hold a list, and whatever the text: the list is the
\* origins of the text of the source that wins, stripped, once per occurrence
\* and in their order (server_config.cpp 8-20).
THEOREM TheOriginsAreThoseOfTheText == Spec => []HoldsTheOrigins
<1>1. ConfInv => HoldsTheOrigins
  <2> SUFFICES ASSUME ConfInv PROVE HoldsTheOrigins
    OBVIOUS
  <2>1. given["origins"] \in Texts /\ conf["origins"] = OriginsIn(Chars[given["origins"]])
    BY DEF ConfInv, ListKept
  <2>2. Chars[given["origins"]] \in Seq(Characters)
    BY <2>1, InputAssumption
  <2> QED
    BY <2>1, <2>2, OriginsInHolds DEF HoldsTheOrigins
<1> QED
  BY <1>1, ConfAlways, PTL
=============================================================================
