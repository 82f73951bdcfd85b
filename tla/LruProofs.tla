----------------------------- MODULE LruProofs -----------------------------
(***************************************************************************)
(* Theorems about Lru, for every finite set of pages, every set of frames  *)
(* and every capacity: the recency list and the hash chains stay whole,    *)
(* and together they implement the map of RecencyIndex, whose victim is    *)
(* the page used least recently.                                           *)
(*                                                                         *)
(* The state holds pointers only; what they lead to, Along, is a recursive *)
(* function.  AlongPath gives its value for a path that ends: everything   *)
(* else is about such paths.                                               *)
(***************************************************************************)
EXTENDS Lru, TLAPS, FiniteSetTheorems, SequenceTheorems, NaturalsInduction,
        WellFoundedInduction

-----------------------------------------------------------------------------
(* Following pointers.                                                     *)

\* Induction over the naturals: among some of them there is a least one.
LEMMA LeastNat ==
    ASSUME NEW S, S \subseteq Nat, S # {}
    PROVE  \E m \in S : \A y \in S : m <= y
<1> DEFINE Less == OpToRel(<, Nat)
<1>1. PICK m \in S : \A y \in S : ~(<<y, m>> \in Less)
  <2>1. IsWellFoundedOn(Less, Nat)
    BY NatLessThanWellFounded
  <2> HIDE DEF Less
  <2> QED BY <2>1, WFMin
<1>2. ASSUME NEW y \in S PROVE m <= y
  <2>1. y \in Nat /\ m \in Nat
    OBVIOUS
  <2>2. Less = {ss \in Nat \X Nat : ss[1] < ss[2]}
    BY DEF OpToRel
  <2> HIDE DEF Less
  <2>3. y < m => <<y, m>> \in Less
    BY <2>1, <2>2
  <2> QED BY <1>1, <2>1, <2>3
<1> QED BY <1>2

\* The pages read in at most k steps along g, when h tells those read in at
\* most k - 1.
Round(g, h, k) ==
    [r \in NodeOrNull |-> IF r = Null \/ k = 0 THEN <<>> ELSE <<r>> \o h[k - 1][g[r]]]

\* The function by which Along is defined.
Follows(g, f) == f = [k \in Nat |-> Round(g, f, k)]
\* It, as far as n steps.
UpTo(g, h, n) == \A k \in 0 .. n : h[k] = Round(g, h, k)

\* Along, expanded.
LEMMA AlongIsFollow ==
    ASSUME NEW q, NEW g
    PROVE  Along(q, g) = (CHOOSE f : Follows(g, f))[Cardinality(Page) + 1][q]
BY DEF Along, Follows, Round

\* Two functions that follow g so far agree so far,
LEMMA UpToAgree ==
    ASSUME NEW g, NEW h, NEW i, NEW n \in Nat, NEW m \in Nat,
           UpTo(g, h, n), UpTo(g, i, m), NEW k \in Nat, k <= n, k <= m
    PROVE  h[k] = i[k]
<1> DEFINE Differ == {l \in Nat : l <= k /\ h[l] # i[l]}
<1> SUFFICES ASSUME Differ # {} PROVE FALSE
  OBVIOUS
<1>1. PICK l \in Differ : \A y \in Differ : l <= y
  <2> Differ \subseteq Nat
    OBVIOUS
  <2> HIDE DEF Differ
  <2> QED BY LeastNat
<1>2. h[l] = Round(g, h, l) /\ i[l] = Round(g, i, l)
  BY DEF UpTo
<1>3. l # 0
  BY <1>1, <1>2 DEF Round
<1>4. l - 1 \in Nat /\ l - 1 <= k /\ ~(l <= l - 1)
  BY <1>3
<1>5. l - 1 \notin Differ
  <2> HIDE DEF Differ
  <2> QED BY <1>1, <1>4
<1>6. h[l - 1] = i[l - 1]
  BY <1>4, <1>5
<1> QED BY <1>1, <1>2, <1>6 DEF Round

\* one follows it as far as one likes,
LEMMA UpToExists ==
    ASSUME NEW g, NEW n \in Nat
    PROVE  \E h : UpTo(g, h, n)
<1> DEFINE Short == {m \in Nat : ~ \E h : UpTo(g, h, m)}
<1> SUFFICES ASSUME Short # {} PROVE FALSE
  OBVIOUS
<1>1. PICK m \in Short : \A y \in Short : m <= y
  <2> Short \subseteq Nat
    OBVIOUS
  <2> HIDE DEF Short
  <2> QED BY LeastNat
<1>2. m # 0
  <2> DEFINE h == [k \in {0} |-> Round(g, <<>>, 0)]
  <2>1. h[0] = Round(g, h, 0)
    BY DEF Round
  <2>2. UpTo(g, h, 0)
    BY <2>1 DEF UpTo
  <2> QED BY <2>2
<1>3. m - 1 \in Nat /\ ~(m <= m - 1)
  BY <1>2
<1>4. PICK h : UpTo(g, h, m - 1)
  <2>1. m - 1 \notin Short
    <3> HIDE DEF Short
    <3> QED BY <1>1, <1>3
  <2> QED BY <1>3, <2>1
<1> DEFINE i == [k \in 0 .. m |-> IF k = m THEN Round(g, h, m) ELSE h[k]]
<1>5. ASSUME NEW k \in 0 .. m PROVE i[k] = Round(g, i, k)
  <2>1. k # 0 => i[k - 1] = h[k - 1]
    BY <1>3
  <2>2. i[k] = Round(g, h, k)
    BY <1>4, <1>3 DEF UpTo
  <2> HIDE DEF i
  <2> QED BY <2>1, <2>2 DEF Round
<1>6. UpTo(g, i, m)
  BY <1>5 DEF UpTo
<1> QED BY <1>6

\* and together they are the function, so that the CHOOSE of the recursive
\* definition finds it.
LEMMA FollowsExists ==
    ASSUME NEW g
    PROVE  \E f : Follows(g, f)
<1> DEFINE H(n) == CHOOSE h : UpTo(g, h, n)
           f    == [k \in Nat |-> H(k)[k]]
<1>1. ASSUME NEW n \in Nat PROVE UpTo(g, H(n), n)
  BY UpToExists
<1> HIDE DEF H
<1>2. ASSUME NEW k \in Nat PROVE f[k] = Round(g, f, k)
  <2>1. f[k] = Round(g, H(k), k)
    BY <1>1 DEF UpTo
  <2>2. k # 0 => f[k - 1] = H(k)[k - 1]
    <3> SUFFICES ASSUME k # 0 PROVE f[k - 1] = H(k)[k - 1]
      OBVIOUS
    <3>1. k - 1 \in Nat /\ k - 1 <= k /\ k - 1 <= k - 1
      OBVIOUS
    <3>2. H(k - 1)[k - 1] = H(k)[k - 1]
      BY <1>1, <3>1, UpToAgree
    <3> QED BY <3>1, <3>2
  <2> HIDE DEF f
  <2> QED BY <2>1, <2>2 DEF Round
<1>3. f = [k \in Nat |-> Round(g, f, k)]
  <2>1. f = [k \in Nat |-> f[k]]
    OBVIOUS
  <2> HIDE DEF f
  <2>2. [k \in Nat |-> f[k]] = [k \in Nat |-> Round(g, f, k)]
    BY <1>2
  <2> QED BY <2>1, <2>2
<1> QED BY <1>3 DEF Follows

-----------------------------------------------------------------------------
(* Paths.                                                                  *)

\* The node at place i of L, Null past its end.
At(L, i) == IF i \in 1 .. Len(L) THEN L[i] ELSE Null

\* L is what g leads to from q on, each page once.
Path(L, q, g) ==
    /\ L \in Seq(Page)
    /\ \A i, j \in 1 .. Len(L) : L[i] = L[j] => i = j
    /\ q = At(L, 1)
    /\ \A i \in 1 .. Len(L) : g[L[i]] = At(L, i + 1)

\* The number of pages is a natural, and Null is none of them.
LEMMA PageFacts ==
    /\ IsFiniteSet(Page) /\ Cardinality(Page) \in Nat
    /\ Page \subseteq Nat /\ Null \notin Page
BY PageAssumption, FS_CardinalityType DEF Null

\* As many places as pages,
LEMMA PathLength ==
    ASSUME NEW L \in Seq(Page), \A i, j \in 1 .. Len(L) : L[i] = L[j] => i = j
    PROVE  /\ IsFiniteSet(ToSet(L))
           /\ Len(L) = Cardinality(ToSet(L))
           /\ Len(L) <= Cardinality(Page)
<1>1. ToSet(L) \subseteq Page /\ IsFiniteSet(ToSet(L))
  <2>1. ToSet(L) \subseteq Page
    BY LenProperties DEF ToSet
  <2> QED BY <2>1, PageFacts, FS_Subset
<1>2. L \in Bijection(1 .. Len(L), ToSet(L))
  <2>1. L \in [1 .. Len(L) -> ToSet(L)] /\ DOMAIN L = 1 .. Len(L)
    BY LenProperties DEF ToSet
  <2>2. \A x \in ToSet(L) : \E i \in 1 .. Len(L) : L[i] = x
    BY <2>1 DEF ToSet
  <2> QED BY <2>1, <2>2 DEF Bijection, Injection, Surjection, IsInjective
<1>3. ExistsBijection(1 .. Len(L), ToSet(L))
  BY <1>2 DEF ExistsBijection
<1>4. Cardinality(ToSet(L)) = Len(L)
  BY <1>3, LenProperties, FS_CountingElements
<1>5. Cardinality(ToSet(L)) <= Cardinality(Page)
  BY <1>1, PageFacts, FS_Subset
<1> QED BY <1>1, <1>4, <1>5

\* so that Along reads a path to its end.
LEMMA AlongPath ==
    ASSUME NEW L, NEW q, NEW g, Path(L, q, g)
    PROVE  Along(q, g) = L
<1> DEFINE f == CHOOSE h : Follows(g, h)
           n == Len(L)
<1>0. L \in Seq(Page) /\ n \in Nat
  BY LenProperties DEF Path
<1>1. \A k \in Nat : f[k] = Round(g, f, k)
  <2>1. Follows(g, f)
    BY FollowsExists
  <2> HIDE DEF f
  <2> QED BY <2>1 DEF Follows
<1> HIDE DEF f
<1> DEFINE Reads(m) == \A k \in Nat : k >= m => f[k][At(L, n + 1 - m)] = SubSeq(L, n + 1 - m, n)
           Fails == {m \in 0 .. n : ~Reads(m)}
<1>2. Reads(n)
  <2>0. n \in 0 .. n
    BY <1>0
  <2> SUFFICES ASSUME Fails # {} PROVE FALSE
    <3> HIDE DEF Reads, n
    <3> QED BY <2>0
  <2>1. PICK m \in Fails : \A y \in Fails : m <= y
    <3> Fails \subseteq Nat
      BY <1>0
    <3> HIDE DEF Fails
    <3> QED BY LeastNat
  <2>2. m \in 0 .. n /\ ~Reads(m)
    BY <2>1
  <2>3. PICK k \in Nat : k >= m /\ f[k][At(L, n + 1 - m)] # SubSeq(L, n + 1 - m, n)
    BY <2>2
  <2>4. m # 0
    <3> SUFFICES ASSUME m = 0 PROVE FALSE
      OBVIOUS
    <3>1. At(L, n + 1) = Null
      BY <1>0 DEF At
    <3>2. f[k][Null] = <<>>
      BY <1>1 DEF Round, NodeOrNull
    <3>3. SubSeq(L, n + 1, n) = <<>>
      BY <1>0, SubSeqEmpty
    <3>4. n + 1 - m = n + 1
      BY <1>0
    <3> HIDE DEF n
    <3> QED BY <2>3, <3>1, <3>2, <3>3, <3>4
  <2> DEFINE i == n + 1 - m
  <2>5. /\ i \in 1 .. n /\ i + 1 = n + 1 - (m - 1) /\ i = n + 1 - m
        /\ m - 1 \in 0 .. n /\ ~(m <= m - 1)
        /\ k - 1 \in Nat /\ k - 1 >= m - 1 /\ k # 0
    BY <1>0, <2>2, <2>3, <2>4
  <2>6. Reads(m - 1)
    <3>1. m - 1 \notin Fails
      <4> HIDE DEF Fails
      <4> QED BY <2>1, <2>5
    <3> QED BY <2>5, <3>1
  <2>7. f[k - 1][At(L, i + 1)] = SubSeq(L, i + 1, n)
    <3> HIDE DEF i
    <3> QED BY <2>5, <2>6
  <2> HIDE DEF i, Fails, Reads
  <2>8. L[i] \in Page /\ At(L, i) = L[i] /\ g[L[i]] = At(L, i + 1)
    BY <1>0, <2>5, LenProperties DEF At, Path
  <2>9. f[k][L[i]] = <<L[i]>> \o f[k - 1][At(L, i + 1)]
    <3>1. L[i] \in NodeOrNull /\ L[i] # Null
      BY <2>8, PageFacts DEF NodeOrNull
    <3>2. f[k] = Round(g, f, k)
      BY <1>1
    <3>3. Round(g, f, k)[L[i]] = <<L[i]>> \o f[k - 1][g[L[i]]]
      BY <2>5, <3>1 DEF Round
    <3> QED BY <2>8, <3>2, <3>3
  <2>10. SubSeq(L, i, n) = <<L[i]>> \o SubSeq(L, i + 1, n)
    <3>1. n \in i .. n
      BY <1>0, <2>5
    <3> QED BY <1>0, <2>5, <3>1, SubSeqRecursiveFirst
  <2> QED BY <2>3, <2>5, <2>7, <2>8, <2>9, <2>10
<1>3. n <= Cardinality(Page)
  BY PathLength DEF Path
<1>4. f[Cardinality(Page) + 1][At(L, 1)] = SubSeq(L, 1, n)
  <2>1. Cardinality(Page) + 1 \in Nat /\ Cardinality(Page) + 1 >= n /\ n + 1 - n = 1
    BY <1>0, <1>3, PageFacts
  <2> HIDE DEF n
  <2> QED BY <1>2, <2>1
<1>5. SubSeq(L, 1, n) = L
  BY <1>0, SubSeqFull
<1> QED BY <1>4, <1>5, AlongIsFollow DEF Path, f

-----------------------------------------------------------------------------
(* Sequences.                                                              *)

\* A page in front.
LEMMA ConsFacts ==
    ASSUME NEW L \in Seq(Page), NEW p \in Page
    PROVE  /\ <<p>> \o L \in Seq(Page)
           /\ Len(<<p>> \o L) = Len(L) + 1
           /\ \A i \in 1 .. Len(L) + 1 :
                 (<<p>> \o L)[i] = IF i = 1 THEN p ELSE L[i - 1]
<1>1. <<p>> \in Seq(Page) /\ Len(<<p>>) = 1 /\ <<p>>[1] = p
  OBVIOUS
<1>2. Len(L) \in Nat
  BY LenProperties
<1> QED BY <1>1, <1>2, ConcatProperties

\* A place taken out.
LEMMA RemoveFacts ==
    ASSUME NEW L \in Seq(Page), NEW i \in 1 .. Len(L)
    PROVE  /\ RemoveAt(L, i) \in Seq(Page)
           /\ Len(RemoveAt(L, i)) = Len(L) - 1
           /\ \A j \in 1 .. Len(L) - 1 :
                 RemoveAt(L, i)[j] = IF j < i THEN L[j] ELSE L[j + 1]
<1> DEFINE n == Len(L)
           A == SubSeq(L, 1, i - 1)
           B == SubSeq(L, i + 1, n)
<1>1. n \in Nat /\ i \in 1 .. n /\ \A j \in 1 .. n : L[j] \in Page
  BY LenProperties
<1>2. A \in Seq(Page) /\ Len(A) = i - 1 /\ \A j \in 1 .. i - 1 : A[j] = L[j]
  <2>1. /\ 1 \in Int /\ i - 1 \in Int /\ \A j \in 1 .. i - 1 : L[j] \in Page
        /\ \A j \in 1 .. (i - 1) - 1 + 1 : 1 + j - 1 = j
        /\ (i - 1) - 1 + 1 = i - 1
    BY <1>1
  <2>2. /\ A \in Seq(Page)
        /\ Len(A) = IF 1 <= i - 1 THEN (i - 1) - 1 + 1 ELSE 0
        /\ \A j \in 1 .. (i - 1) - 1 + 1 : A[j] = L[1 + j - 1]
    BY <2>1, SubSeqProperties
  <2> HIDE DEF A
  <2> QED BY <1>1, <2>1, <2>2
<1>3. B \in Seq(Page) /\ Len(B) = n - i /\ \A j \in 1 .. n - i : B[j] = L[i + j]
  <2>1. /\ i + 1 \in Int /\ n \in Int /\ \A j \in i + 1 .. n : L[j] \in Page
        /\ \A j \in 1 .. n - (i + 1) + 1 : i + 1 + j - 1 = i + j
        /\ n - (i + 1) + 1 = n - i
    BY <1>1
  <2>2. /\ B \in Seq(Page)
        /\ Len(B) = IF i + 1 <= n THEN n - (i + 1) + 1 ELSE 0
        /\ \A j \in 1 .. n - (i + 1) + 1 : B[j] = L[i + 1 + j - 1]
    BY <2>1, SubSeqProperties
  <2> HIDE DEF B, n
  <2>3. Len(B) = n - i
    BY <1>1, <2>2
  <2>4. \A j \in 1 .. n - i : B[j] = L[i + j]
    BY <2>1, <2>2
  <2> QED BY <2>2, <2>3, <2>4
<1>4. RemoveAt(L, i) = A \o B
  BY DEF RemoveAt
<1> HIDE DEF A, B
<1>5. /\ A \o B \in Seq(Page)
      /\ Len(A \o B) = Len(A) + Len(B)
      /\ \A j \in 1 .. Len(A) + Len(B) :
            (A \o B)[j] = IF j <= Len(A) THEN A[j] ELSE B[j - Len(A)]
  BY <1>2, <1>3, ConcatProperties
<1>6. ASSUME NEW j \in 1 .. n - 1
      PROVE  (A \o B)[j] = IF j < i THEN L[j] ELSE L[j + 1]
  <2>1. CASE j < i
    BY <1>1, <1>2, <1>3, <1>5, <2>1
  <2>2. CASE ~(j < i)
    <3>1. j - Len(A) \in 1 .. n - i /\ i + (j - Len(A)) = j + 1
      BY <1>1, <1>2, <2>2
    <3>2. (A \o B)[j] = B[j - Len(A)]
      BY <1>1, <1>2, <1>3, <1>5, <2>2
    <3>3. B[j - Len(A)] = L[i + (j - Len(A))]
      BY <1>3, <3>1
    <3> QED BY <2>2, <3>1, <3>2, <3>3
  <2> QED BY <2>1, <2>2
<1> QED BY <1>1, <1>2, <1>3, <1>4, <1>5, <1>6

\* A sequence that holds every page at most once.
Once(L) == L \in Seq(Page) /\ \A i, j \in 1 .. Len(L) : L[i] = L[j] => i = j

\* What it holds, and that every one of it has a place.
LEMMA SetFacts ==
    ASSUME NEW L \in Seq(Page)
    PROVE  /\ Len(L) \in Nat
           /\ ToSet(L) \subseteq Page
           /\ \A i \in 1 .. Len(L) : L[i] \in ToSet(L)
           /\ \A p \in ToSet(L) : \E i \in 1 .. Len(L) : p = L[i]
BY LenProperties DEF ToSet

\* The neighbours of a place after a page is put in front.
LEMMA ConsOnce ==
    ASSUME NEW L, Once(L), NEW p \in Page, p \notin ToSet(L)
    PROVE  /\ Once(<<p>> \o L)
           /\ ToSet(<<p>> \o L) = ToSet(L) \cup {p}
           /\ At(<<p>> \o L, 1) = p
           /\ \A i \in 0 .. Len(L) + 1 : i # 0 => At(<<p>> \o L, i + 1) = At(L, i)
<1> DEFINE M == <<p>> \o L
           n == Len(L)
<1>1. L \in Seq(Page)
  BY DEF Once
<1>2. /\ M \in Seq(Page) /\ Len(M) = n + 1
      /\ \A i \in 1 .. n + 1 : M[i] = IF i = 1 THEN p ELSE L[i - 1]
  BY <1>1, ConsFacts
<1>3. n \in Nat /\ \A i \in 1 .. n : L[i] \in Page /\ L[i] # p
  BY <1>1, SetFacts
<1>4. \A i, j \in 1 .. n : L[i] = L[j] => i = j
  BY DEF Once
<1> HIDE DEF M, n
<1>5. M[1] = p /\ \A i \in 1 .. n : M[i + 1] = L[i]
  <2>1. \A i \in 1 .. n : i + 1 \in 1 .. n + 1 /\ i + 1 # 1 /\ i + 1 - 1 = i
    BY <1>3
  <2>2. 1 \in 1 .. n + 1
    BY <1>3
  <2> QED BY <1>2, <2>1, <2>2
<1>6. \A i \in 1 .. n + 1 : i # 1 => i - 1 \in 1 .. n /\ M[i] = L[i - 1]
  BY <1>2, <1>3
<1>7. ASSUME NEW i \in 1 .. n + 1, NEW j \in 1 .. n + 1, M[i] = M[j] PROVE i = j
  <2>1. i = 1 <=> j = 1
    BY <1>3, <1>5, <1>6, <1>7
  <2>2. i # 1 => i - 1 = j - 1
    BY <1>4, <1>6, <1>7, <2>1
  <2> QED BY <1>3, <2>1, <2>2
<1>8. Once(M)
  BY <1>2, <1>7 DEF Once
<1>9. ToSet(M) = ToSet(L) \cup {p}
  <2>1. ToSet(M) = {M[i] : i \in 1 .. n + 1}
    BY <1>2, LenProperties DEF ToSet
  <2>2. ToSet(L) = {L[i] : i \in 1 .. n}
    BY <1>1, LenProperties DEF ToSet, n
  <2>3. 1 \in 1 .. n + 1 /\ \A i \in 1 .. n : i + 1 \in 1 .. n + 1
    BY <1>3
  <2> QED BY <1>5, <1>6, <2>1, <2>2, <2>3
<1>10. At(M, 1) = p
  BY <1>2, <1>3, <1>5 DEF At
<1>11. ASSUME NEW i \in 0 .. n + 1, i # 0 PROVE At(M, i + 1) = At(L, i)
  <2>1. i + 1 \in 1 .. n + 1 <=> i \in 1 .. n
    BY <1>3, <1>11
  <2> QED BY <1>2, <1>5, <2>1 DEF At, n
<1> QED BY <1>8, <1>9, <1>10, <1>11 DEF M, n

\* The neighbours of a place after another is taken out.
LEMMA RemoveOnce ==
    ASSUME NEW L, Once(L), NEW i \in 1 .. Len(L)
    PROVE  /\ Once(RemoveAt(L, i))
           /\ ToSet(RemoveAt(L, i)) = ToSet(L) \ {L[i]}
           /\ Len(RemoveAt(L, i)) = Len(L) - 1
           /\ \A j \in 0 .. Len(L) :
                 At(RemoveAt(L, i), j) = IF j < i THEN At(L, j) ELSE At(L, j + 1)
<1> DEFINE M == RemoveAt(L, i)
           n == Len(L)
<1>1. L \in Seq(Page)
  BY DEF Once
<1>2. /\ M \in Seq(Page) /\ Len(M) = n - 1
      /\ \A j \in 1 .. n - 1 : M[j] = IF j < i THEN L[j] ELSE L[j + 1]
  BY <1>1, RemoveFacts
<1>3. n \in Nat /\ i \in 1 .. n /\ n - 1 \in Nat
  BY <1>1, SetFacts
<1>4. \A j, k \in 1 .. n : L[j] = L[k] => j = k
  BY DEF Once
<1> HIDE DEF M, n
<1> DEFINE was(j) == IF j < i THEN j ELSE j + 1
<1>5. \A j \in 1 .. n - 1 : was(j) \in 1 .. n /\ was(j) # i /\ M[j] = L[was(j)]
  BY <1>2, <1>3
<1>6. \A j, k \in 1 .. n - 1 : was(j) = was(k) => j = k
  BY <1>3
<1>7. \A k \in 1 .. n : k # i => \E j \in 1 .. n - 1 : was(j) = k
  <2> TAKE k \in 1 .. n
  <2> HAVE k # i
  <2>1. CASE k < i
    <3>1. k \in 1 .. n - 1
      BY <1>3, <2>1
    <3> QED BY <2>1, <3>1
  <2>2. CASE ~(k < i)
    <3>1. k - 1 \in 1 .. n - 1 /\ ~(k - 1 < i) /\ k - 1 + 1 = k
      BY <1>3, <2>2
    <3> QED BY <3>1
  <2> QED BY <2>1, <2>2
<1> HIDE DEF was
<1>8. Once(M)
  <2>1. \A j, k \in 1 .. n - 1 : M[j] = M[k] => j = k
    BY <1>4, <1>5, <1>6
  <2> QED BY <1>2, <2>1 DEF Once
<1>9. ToSet(M) = ToSet(L) \ {L[i]}
  <2>1. ToSet(M) = {M[j] : j \in 1 .. n - 1}
    BY <1>2, LenProperties DEF ToSet
  <2>2. ToSet(L) = {L[j] : j \in 1 .. n}
    BY <1>1, LenProperties DEF ToSet, n
  <2>3. \A j \in 1 .. n - 1 : M[j] \in ToSet(L) /\ M[j] # L[i]
    BY <1>3, <1>4, <1>5, <2>2
  <2>4. \A k \in 1 .. n : L[k] # L[i] => L[k] \in ToSet(M)
    BY <1>5, <1>7, <2>1
  <2> QED BY <2>1, <2>2, <2>3, <2>4
<1>10. ASSUME NEW j \in 0 .. n PROVE At(M, j) = IF j < i THEN At(L, j) ELSE At(L, j + 1)
  <2>1. CASE j \in 1 .. n - 1
    <3>1. At(M, j) = L[was(j)]
      BY <1>2, <1>5, <2>1 DEF At
    <3>2. was(j) \in 1 .. n
      BY <1>5, <2>1
    <3> QED BY <3>1, <3>2 DEF At, was, n
  <2>2. CASE j = 0
    BY <1>2, <1>3, <2>2 DEF At
  <2>3. CASE j = n
    <3>1. ~(j < i) /\ j \notin 1 .. n - 1 /\ j + 1 \notin 1 .. n
      BY <1>3, <2>3
    <3> QED BY <1>2, <3>1 DEF At, n
  <2>4. j \in 1 .. n - 1 \/ j = 0 \/ j = n
    BY <1>3
  <2> QED BY <2>1, <2>2, <2>3, <2>4
<1> QED BY <1>2, <1>8, <1>9, <1>10 DEF M, n

-----------------------------------------------------------------------------
(* The recency list.                                                       *)

Lists == [head: NodeOrNull, tail: NodeOrNull, node: [Page -> Lnode]]

\* The list l links the pages of L both ways, in this order.
Linked(l, L) ==
    /\ Once(L)
    /\ l.head = At(L, 1)
    /\ l.tail = At(L, Len(L))
    /\ \A i \in 1 .. Len(L) : /\ l.node[L[i]].next = At(L, i + 1)
                              /\ l.node[L[i]].prev = At(L, i - 1)

\* The list m has the frames and the chains of l.
SameRest(l, m) ==
    \A p \in Page : /\ m.node[p].frame_id = l.node[p].frame_id
                    /\ m.node[p].hnext = l.node[p].hnext

\* A place of a sequence is a node or Null.
LEMMA AtType ==
    ASSUME NEW L, Once(L), NEW i
    PROVE  /\ At(L, i) \in NodeOrNull
           /\ At(L, i) = Null <=> i \notin 1 .. Len(L)
<1>1. \A j \in 1 .. Len(L) : L[j] \in Page
  BY LenProperties DEF Once
<1> QED BY <1>1, PageFacts DEF At, NodeOrNull

\* Two places of a sequence hold the same page if they are the same place.
LEMMA AtOnce ==
    ASSUME NEW L, Once(L), NEW i, NEW j \in 1 .. Len(L)
    PROVE  At(L, i) = L[j] <=> i = j
<1>1. L[j] # Null
  BY PageFacts, LenProperties DEF Once
<1> QED BY <1>1 DEF At, Once

\* list_detach takes a node out wherever it is, and touches nothing else.
LEMMA DetachLinked ==
    ASSUME NEW l \in Lists, NEW L, Linked(l, L), NEW i \in 1 .. Len(L)
    PROVE  /\ list_detach(l, L[i]) \in Lists
           /\ Linked(list_detach(l, L[i]), RemoveAt(L, i))
           /\ SameRest(l, list_detach(l, L[i]))
<1> DEFINE n == L[i]
           p == At(L, i - 1)
           x == At(L, i + 1)
           m == list_detach(l, n)
           M == RemoveAt(L, i)
<1>1. /\ Once(L) /\ L \in Seq(Page) /\ n \in Page /\ Len(L) \in Nat
      /\ \A j \in 1 .. Len(L) : L[j] \in Page
      /\ l.node \in [Page -> Lnode]
  BY LenProperties DEF Linked, Once, Lists
<1>2. l.node[n].prev = p /\ l.node[n].next = x
  BY DEF Linked
<1>3. p \in NodeOrNull /\ x \in NodeOrNull /\ Null \in NodeOrNull
  BY <1>1, AtType DEF NodeOrNull
<1>4. (p = n \/ x = n \/ p = x) => p = Null /\ x = Null
  <2>1. p # n /\ x # n
    BY <1>1, AtOnce
  <2>2. p = x => p = Null
    <3> SUFFICES ASSUME p = x, p # Null PROVE FALSE
      OBVIOUS
    <3>1. i - 1 \in 1 .. Len(L) /\ p = L[i - 1]
      BY <1>1, AtType DEF At
    <3>2. i + 1 = i - 1
      BY <1>1, <3>1, AtOnce
    <3> QED BY <1>1, <3>2
  <2> QED BY <2>1, <2>2
<1> DEFINE new(q) == CASE q = n -> [l.node[n] EXCEPT !.prev = Null, !.next = Null]
                       [] q # n /\ q = p -> [l.node[p] EXCEPT !.next = x]
                       [] q # n /\ q # p /\ q = x -> [l.node[x] EXCEPT !.prev = p]
                       [] OTHER -> l.node[q]
<1>5. /\ m.head = IF p = Null THEN x ELSE l.head
      /\ m.tail = IF x = Null THEN p ELSE l.tail
      /\ m.node = [q \in Page |-> new(q)]
      /\ m = [head |-> m.head, tail |-> m.tail, node |-> m.node]
  BY <1>2 DEF list_detach
<1>6. ASSUME NEW q \in Page
      PROVE  /\ new(q) \in Lnode
             /\ new(q).frame_id = l.node[q].frame_id
             /\ new(q).hnext = l.node[q].hnext
             /\ q # n => /\ new(q).next = IF q = p THEN x ELSE l.node[q].next
                         /\ new(q).prev = IF q = x THEN p ELSE l.node[q].prev
  <2>1. l.node[q] \in Lnode
    BY <1>1
  <2>2. q = n => new(q) = [l.node[q] EXCEPT !.prev = Null, !.next = Null]
    OBVIOUS
  <2>3. q # n /\ q = p => new(q) = [l.node[q] EXCEPT !.next = x] /\ q # x
    BY <1>4, PageFacts
  <2>4. q # n /\ q # p /\ q = x => new(q) = [l.node[q] EXCEPT !.prev = p]
    OBVIOUS
  <2>5. q # n /\ q # p /\ q # x => new(q) = l.node[q]
    OBVIOUS
  <2> HIDE DEF new, n, p, x
  <2>6. CASE q = n
    BY <1>3, <2>1, <2>2, <2>6 DEF Lnode
  <2>7. CASE q # n /\ q = p
    BY <1>3, <2>1, <2>3, <2>7 DEF Lnode
  <2>8. CASE q # n /\ q # p /\ q = x
    BY <1>3, <2>1, <2>4, <2>8 DEF Lnode
  <2>9. CASE q # n /\ q # p /\ q # x
    BY <2>1, <2>5, <2>9
  <2> QED BY <2>6, <2>7, <2>8, <2>9
<1>7. l.head \in NodeOrNull /\ l.tail \in NodeOrNull
  BY DEF Lists
<1> HIDE DEF m, new
<1>8. m \in Lists
  <2>1. m.head \in NodeOrNull /\ m.tail \in NodeOrNull
    BY <1>3, <1>5, <1>7
  <2>2. m.node \in [Page -> Lnode]
    BY <1>5, <1>6
  <2> QED BY <1>5, <2>1, <2>2 DEF Lists
<1>9. SameRest(l, m)
  BY <1>5, <1>6 DEF SameRest
<1>10. /\ Once(M) /\ Len(M) = Len(L) - 1
       /\ \A j \in 0 .. Len(L) : At(M, j) = IF j < i THEN At(L, j) ELSE At(L, j + 1)
  BY <1>1, RemoveOnce
<1> HIDE DEF M
<1>11. m.head = At(M, 1)
  <2>1. At(M, 1) = IF 1 < i THEN At(L, 1) ELSE At(L, 2)
    BY <1>1, <1>10
  <2>2. p = Null <=> i = 1
    BY <1>1, AtType
  <2> QED BY <1>1, <1>5, <2>1, <2>2 DEF Linked
<1>12. m.tail = At(M, Len(M))
  <2>1. At(M, Len(L) - 1) = IF Len(L) - 1 < i THEN At(L, Len(L) - 1) ELSE At(L, Len(L) - 1 + 1)
    BY <1>1, <1>10
  <2>2. x = Null <=> i = Len(L)
    BY <1>1, AtType
  <2>3. Len(L) - 1 < i <=> i = Len(L)
    BY <1>1
  <2>4. Len(L) - 1 + 1 = Len(L)
    BY <1>1
  <2> QED BY <1>1, <1>5, <1>10, <2>1, <2>2, <2>3, <2>4 DEF Linked
<1>13. ASSUME NEW j \in 1 .. Len(M)
       PROVE  m.node[M[j]].next = At(M, j + 1) /\ m.node[M[j]].prev = At(M, j - 1)
  <2> DEFINE k == IF j < i THEN j ELSE j + 1
  <2>1. k \in 1 .. Len(L) /\ k # i /\ j \in 0 .. Len(L) /\ j \in 1 .. Len(M)
        /\ j + 1 \in 0 .. Len(L) /\ j - 1 \in 0 .. Len(L)
    BY <1>1, <1>10
  <2>2. M[j] = L[k]
    <3>1. At(M, j) = M[j] /\ At(L, k) = L[k]
      BY <2>1 DEF At
    <3>2. At(M, j) = At(L, k)
      BY <1>10, <2>1
    <3> QED BY <3>1, <3>2
  <2>3. L[k] # n /\ L[k] \in Page
    BY <1>1, <2>1 DEF Once
  <2>4. L[k] = p <=> k = i - 1
    BY <1>1, <2>1, AtOnce
  <2>5. L[k] = x <=> k = i + 1
    BY <1>1, <2>1, AtOnce
  <2>6. l.node[L[k]].next = At(L, k + 1) /\ l.node[L[k]].prev = At(L, k - 1)
    BY <2>1 DEF Linked
  <2>7. /\ m.node[L[k]].next = IF k = i - 1 THEN x ELSE At(L, k + 1)
        /\ m.node[L[k]].prev = IF k = i + 1 THEN p ELSE At(L, k - 1)
    <3> HIDE DEF n, k
    <3> QED BY <1>5, <1>6, <2>3, <2>4, <2>5, <2>6
  <2>8. At(M, j + 1) = IF k = i - 1 THEN At(L, i + 1) ELSE At(L, k + 1)
    <3>1. At(M, j + 1) = IF j + 1 < i THEN At(L, j + 1) ELSE At(L, j + 1 + 1)
      BY <1>10, <2>1
    <3> QED BY <1>1, <2>1, <3>1
  <2>9. At(M, j - 1) = IF k = i + 1 THEN At(L, i - 1) ELSE At(L, k - 1)
    <3>1. At(M, j - 1) = IF j - 1 < i THEN At(L, j - 1) ELSE At(L, j - 1 + 1)
      BY <1>10, <2>1
    <3> QED BY <1>1, <2>1, <3>1
  <2> QED BY <2>2, <2>7, <2>8, <2>9
<1>14. Linked(m, M)
  BY <1>10, <1>11, <1>12, <1>13 DEF Linked
<1> QED BY <1>8, <1>9, <1>14 DEF m, M

\* list_push_front puts a node that is not on the list at its head, and
\* touches nothing else.
LEMMA PushLinked ==
    ASSUME NEW l \in Lists, NEW L, Linked(l, L), NEW n \in Page, n \notin ToSet(L)
    PROVE  /\ list_push_front(l, n) \in Lists
           /\ Linked(list_push_front(l, n), <<n>> \o L)
           /\ SameRest(l, list_push_front(l, n))
<1> DEFINE m == list_push_front(l, n)
           M == <<n>> \o L
           new(q) == CASE q = n -> [l.node[n] EXCEPT !.prev = Null, !.next = l.head]
                       [] q # n /\ q = l.head -> [l.node[q] EXCEPT !.prev = n]
                       [] OTHER -> l.node[q]
<1>1. /\ Once(L) /\ L \in Seq(Page) /\ Len(L) \in Nat
      /\ \A j \in 1 .. Len(L) : L[j] \in Page /\ L[j] # n
      /\ l.node \in [Page -> Lnode]
  BY SetFacts, LenProperties DEF Linked, Once, Lists
<1>2. /\ m.head = n
      /\ m.tail = IF l.head = Null THEN n ELSE l.tail
      /\ m.node = [q \in Page |-> new(q)]
      /\ m = [head |-> m.head, tail |-> m.tail, node |-> m.node]
  BY DEF list_push_front
<1>3. l.head \in NodeOrNull /\ l.tail \in NodeOrNull /\ Null \in NodeOrNull /\ n \in NodeOrNull
  BY DEF Lists, NodeOrNull
<1>4. ASSUME NEW q \in Page
      PROVE  /\ new(q) \in Lnode
             /\ new(q).frame_id = l.node[q].frame_id
             /\ new(q).hnext = l.node[q].hnext
             /\ new(q).next = IF q = n THEN l.head ELSE l.node[q].next
             /\ new(q).prev = IF q = n THEN Null ELSE IF q = l.head THEN n ELSE l.node[q].prev
  <2>1. l.node[q] \in Lnode
    BY <1>1
  <2>2. q = n => new(q) = [l.node[q] EXCEPT !.prev = Null, !.next = l.head]
    OBVIOUS
  <2>3. q # n /\ q = l.head => new(q) = [l.node[q] EXCEPT !.prev = n]
    OBVIOUS
  <2>4. q # n /\ q # l.head => new(q) = l.node[q]
    OBVIOUS
  <2> HIDE DEF new
  <2>5. CASE q = n
    BY <1>3, <2>1, <2>2, <2>5 DEF Lnode
  <2>6. CASE q # n /\ q = l.head
    BY <1>3, <2>1, <2>3, <2>6 DEF Lnode
  <2>7. CASE q # n /\ q # l.head
    BY <2>1, <2>4, <2>7
  <2> QED BY <2>5, <2>6, <2>7
<1> HIDE DEF m, new
<1>5. m \in Lists
  <2>1. m.head \in NodeOrNull /\ m.tail \in NodeOrNull
    BY <1>2, <1>3
  <2>2. m.node \in [Page -> Lnode]
    BY <1>2, <1>4
  <2> QED BY <1>2, <2>1, <2>2 DEF Lists
<1>6. SameRest(l, m)
  BY <1>2, <1>4 DEF SameRest
<1>7. /\ Once(M) /\ At(M, 1) = n /\ Len(M) = Len(L) + 1
      /\ \A i \in 0 .. Len(L) + 1 : i # 0 => At(M, i + 1) = At(L, i)
  BY <1>1, ConsOnce, ConsFacts
<1> HIDE DEF M
<1>8. l.head = At(L, 1) /\ l.tail = At(L, Len(L))
  BY DEF Linked
<1>9. m.tail = At(M, Len(M))
  <2>1. l.head = Null <=> Len(L) = 0
    BY <1>1, <1>8, AtType
  <2>2. Len(L) # 0 => At(M, Len(L) + 1) = At(L, Len(L))
    BY <1>1, <1>7
  <2> QED BY <1>1, <1>2, <1>7, <1>8, <2>1, <2>2
<1>10. ASSUME NEW j \in 1 .. Len(M)
       PROVE  m.node[M[j]].next = At(M, j + 1) /\ m.node[M[j]].prev = At(M, j - 1)
  <2>1. M[j] = At(M, j)
    BY DEF At
  <2>2. CASE j = 1
    <3>1. M[j] = n
      BY <1>7, <2>1, <2>2
    <3>2. At(M, 2) = At(L, 1)
      <4>1. 1 \in 0 .. Len(L) + 1 /\ 1 + 1 = 2
        BY <1>1
      <4> QED BY <1>7, <4>1
    <3>3. At(M, 0) = Null
      BY <1>7, AtType
    <3> QED BY <1>2, <1>4, <1>8, <2>2, <3>1, <3>2, <3>3
  <2>3. CASE j # 1
    <3> DEFINE i == j - 1
    <3>1. /\ i \in 1 .. Len(L) /\ j = i + 1 /\ i + 1 \in 0 .. Len(L) + 1 /\ i + 1 # 0
          /\ i \in 0 .. Len(L) + 1 /\ i # 0 /\ i - 1 \in 0 .. Len(L) + 1 /\ i - 1 + 1 = i
          /\ j - 1 = i
      BY <1>1, <1>7, <2>3
    <3> HIDE DEF i
    <3>2. M[j] = L[i]
      BY <1>7, <2>1, <3>1 DEF At
    <3>3. At(M, j + 1) = At(L, i + 1)
      BY <1>7, <3>1
    <3>4. At(M, i) = IF i = 1 THEN n ELSE At(L, i - 1)
      BY <1>7, <3>1
    <3>5. l.node[L[i]].next = At(L, i + 1) /\ l.node[L[i]].prev = At(L, i - 1)
      BY <3>1 DEF Linked
    <3>6. L[i] = l.head <=> i = 1
      BY <1>1, <1>8, <3>1, AtOnce
    <3>7. L[i] \in Page /\ L[i] # n
      BY <1>1, <3>1
    <3>8. m.node[L[i]].next = At(L, i + 1)
      BY <1>2, <1>4, <3>5, <3>7
    <3>9. m.node[L[i]].prev = IF i = 1 THEN n ELSE At(L, i - 1)
      BY <1>2, <1>4, <3>5, <3>6, <3>7
    <3> QED BY <3>1, <3>2, <3>3, <3>4, <3>8, <3>9
  <2> QED BY <2>2, <2>3
<1>11. Linked(m, M)
  BY <1>2, <1>7, <1>9, <1>10 DEF Linked
<1> QED BY <1>5, <1>6, <1>11 DEF m, M

\* A list whose pointers are those of another links the same pages.
LEMMA LinkedFrame ==
    ASSUME NEW l, NEW m, NEW L, Linked(l, L), m.head = l.head, m.tail = l.tail,
           \A p \in ToSet(L) : /\ m.node[p].next = l.node[p].next
                               /\ m.node[p].prev = l.node[p].prev
    PROVE  Linked(m, L)
<1>1. \A i \in 1 .. Len(L) : L[i] \in ToSet(L)
  BY SetFacts DEF Linked, Once
<1> QED BY <1>1 DEF Linked

\* Read forward, a linked list is what it links,
LEMMA LinkedForward ==
    ASSUME NEW l, NEW L, Linked(l, L)
    PROVE  Along(l.head, [p \in Page |-> l.node[p].next]) = L
<1> DEFINE g == [p \in Page |-> l.node[p].next]
<1>1. \A i \in 1 .. Len(L) : L[i] \in Page
  BY LenProperties DEF Linked, Once
<1>2. Path(L, l.head, g)
  BY <1>1 DEF Path, Linked, Once
<1> QED BY <1>2, AlongPath

\* and read backward, the other way round.
LEMMA LinkedBackward ==
    ASSUME NEW l, NEW L, Linked(l, L)
    PROVE  Along(l.tail, [p \in Page |-> l.node[p].prev]) = Reverse(L)
<1> DEFINE g == [p \in Page |-> l.node[p].prev]
           n == Len(L)
           R == Reverse(L)
<1>1. /\ L \in Seq(Page) /\ n \in Nat /\ \A i \in 1 .. n : L[i] \in Page
      /\ \A i, j \in 1 .. n : L[i] = L[j] => i = j
  BY LenProperties DEF Linked, Once
<1>2. R = [i \in 1 .. n |-> L[n - i + 1]]
  BY DEF Reverse
<1>3. \A i \in 1 .. n : n - i + 1 \in 1 .. n /\ R[i] = L[n - i + 1]
  BY <1>1, <1>2
<1>4. R \in Seq(Page) /\ Len(R) = n
  <2>1. R \in [1 .. n -> Page]
    BY <1>1, <1>2, <1>3
  <2> HIDE DEF R, n
  <2>2. R \in Seq(Page)
    BY <1>1, <2>1, SeqDef
  <2> QED BY <1>1, <2>1, <2>2, LenProperties
<1> HIDE DEF R
<1>5. ASSUME NEW i \in 1 .. n, NEW j \in 1 .. n, R[i] = R[j] PROVE i = j
  <2>1. n - i + 1 = n - j + 1
    BY <1>1, <1>3, <1>5
  <2> QED BY <1>1, <2>1
<1>6. ASSUME NEW i \in Nat, i <= n + 1 PROVE At(R, i) = At(L, n - i + 1)
  <2>1. i \in 1 .. n <=> n - i + 1 \in 1 .. n
    BY <1>1, <1>6
  <2> QED BY <1>3, <1>4, <2>1 DEF At
<1>7. l.tail = At(R, 1)
  <2>1. At(R, 1) = At(L, n - 1 + 1) /\ n - 1 + 1 = n
    BY <1>1, <1>6
  <2> QED BY <2>1 DEF Linked
<1>8. ASSUME NEW i \in 1 .. n PROVE g[R[i]] = At(R, i + 1)
  <2> DEFINE j == n - i + 1
  <2>1. j \in 1 .. n /\ R[i] = L[j] /\ n - (i + 1) + 1 = j - 1
    BY <1>1, <1>3
  <2>2. At(R, i + 1) = At(L, j - 1)
    <3> HIDE DEF j
    <3>1. i + 1 \in Nat /\ i + 1 <= n + 1
      BY <1>1
    <3> QED BY <1>6, <2>1, <3>1
  <2>3. L[j] \in Page /\ l.node[L[j]].prev = At(L, j - 1)
    <3> HIDE DEF j
    <3> QED BY <1>1, <2>1 DEF Linked
  <2> HIDE DEF j
  <2> QED BY <2>1, <2>2, <2>3
<1>9. Path(R, l.tail, g)
  <2> HIDE DEF g
  <2> QED BY <1>4, <1>5, <1>7, <1>8 DEF Path
<1> QED BY <1>9, AlongPath DEF R

\* A node on the list is moved to its head.
LEMMA TouchLinked ==
    ASSUME NEW l \in Lists, NEW L, Linked(l, L), NEW i \in 1 .. Len(L)
    PROVE  LET m == list_push_front(list_detach(l, L[i]), L[i])
           IN  /\ m \in Lists
               /\ Linked(m, <<L[i]>> \o RemoveAt(L, i))
               /\ ToSet(<<L[i]>> \o RemoveAt(L, i)) = ToSet(L)
               /\ SameRest(l, m)
<1> DEFINE d == list_detach(l, L[i])
           m == list_push_front(d, L[i])
           K == RemoveAt(L, i)
<1>1. Once(L) /\ L[i] \in Page /\ L[i] \in ToSet(L)
  BY SetFacts DEF Linked, Once
<1>2. d \in Lists /\ Linked(d, K) /\ SameRest(l, d)
  BY DetachLinked
<1>3. Once(K) /\ ToSet(K) = ToSet(L) \ {L[i]}
  BY <1>1, RemoveOnce
<1> HIDE DEF d, K
<1>4. m \in Lists /\ Linked(m, <<L[i]>> \o K) /\ SameRest(d, m)
  BY <1>1, <1>2, <1>3, PushLinked
<1>5. ToSet(<<L[i]>> \o K) = ToSet(L)
  <2>1. L[i] \notin ToSet(K)
    BY <1>3
  <2>2. ToSet(<<L[i]>> \o K) = ToSet(K) \cup {L[i]}
    BY <1>1, <1>3, <2>1, ConsOnce
  <2> QED BY <1>1, <1>3, <2>2
<1> HIDE DEF m
<1>6. SameRest(l, m)
  BY <1>2, <1>4 DEF SameRest
<1> QED BY <1>4, <1>5, <1>6 DEF m, d, K

-----------------------------------------------------------------------------
(* The chains.                                                             *)

\* A path is there as long as its own pointers are.
LEMMA PathFrame ==
    ASSUME NEW L, NEW q, NEW g, Path(L, q, g), NEW h,
           \A p \in ToSet(L) : h[p] = g[p]
    PROVE  Path(L, q, h)
<1>1. \A i \in 1 .. Len(L) : L[i] \in ToSet(L)
  BY SetFacts DEF Path
<1> QED BY <1>1 DEF Path

\* A node before a path.
LEMMA PathCons ==
    ASSUME NEW L, NEW q, NEW g, Path(L, q, g), NEW h, NEW p \in Page,
           p \notin ToSet(L), h[p] = q, \A r \in ToSet(L) : h[r] = g[r]
    PROVE  /\ Path(<<p>> \o L, p, h)
           /\ ToSet(<<p>> \o L) = ToSet(L) \cup {p}
<1> DEFINE M == <<p>> \o L
<1>1. Once(L) /\ L \in Seq(Page) /\ Len(L) \in Nat
  BY SetFacts DEF Path, Once
<1>2. /\ Once(M) /\ At(M, 1) = p /\ Len(M) = Len(L) + 1
      /\ \A i \in 0 .. Len(L) + 1 : i # 0 => At(M, i + 1) = At(L, i)
      /\ ToSet(M) = ToSet(L) \cup {p}
  BY <1>1, ConsOnce, ConsFacts
<1> HIDE DEF M
<1>3. ASSUME NEW j \in 1 .. Len(M) PROVE h[M[j]] = At(M, j + 1)
  <2>1. M[j] = At(M, j)
    BY DEF At
  <2>2. CASE j = 1
    <3>1. At(M, 1 + 1) = At(L, 1)
      BY <1>1, <1>2
    <3> QED BY <1>2, <2>1, <2>2, <3>1 DEF Path
  <2>3. CASE j # 1
    <3> DEFINE i == j - 1
    <3>1. /\ i \in 1 .. Len(L) /\ j = i + 1 /\ i \in 0 .. Len(L) + 1 /\ i # 0
          /\ i + 1 \in 0 .. Len(L) + 1 /\ i + 1 # 0
      BY <1>1, <1>2, <2>3
    <3> HIDE DEF i
    <3>2. M[j] = L[i] /\ L[i] \in ToSet(L)
      BY <1>1, <1>2, <2>1, <3>1, SetFacts DEF At
    <3>3. At(M, j + 1) = At(L, i + 1)
      BY <1>2, <3>1
    <3> QED BY <3>1, <3>2, <3>3 DEF Path
  <2> QED BY <2>2, <2>3
<1>4. Path(M, p, h)
  BY <1>2, <1>3 DEF Path, Once
<1> QED BY <1>2, <1>4 DEF M

\* A node taken out of a path: what led to it leads past it.
LEMMA PathRemove ==
    ASSUME NEW L, NEW q, NEW g, Path(L, q, g), NEW i \in 1 .. Len(L), NEW h,
           \A r \in ToSet(L) :
              r # L[i] => h[r] = IF g[r] = L[i] THEN g[L[i]] ELSE g[r]
    PROVE  /\ Path(RemoveAt(L, i), IF q = L[i] THEN g[L[i]] ELSE q, h)
           /\ ToSet(RemoveAt(L, i)) = ToSet(L) \ {L[i]}
<1> DEFINE M == RemoveAt(L, i)
           n == Len(L)
           v == L[i]
<1>1. Once(L) /\ L \in Seq(Page) /\ n \in Nat /\ i \in 1 .. n
  BY SetFacts DEF Path, Once
<1>2. /\ Once(M) /\ Len(M) = n - 1 /\ ToSet(M) = ToSet(L) \ {v}
      /\ \A j \in 0 .. n : At(M, j) = IF j < i THEN At(L, j) ELSE At(L, j + 1)
  BY <1>1, RemoveOnce
<1>3. g[v] = At(L, i + 1) /\ q = At(L, 1)
  BY DEF Path
<1> HIDE DEF M, v, n
<1>4. (IF q = v THEN g[v] ELSE q) = At(M, 1)
  <2>1. q = v <=> i = 1
    <3> QED BY <1>1, <1>3, AtOnce DEF v, n
  <2>2. At(M, 1) = IF 1 < i THEN At(L, 1) ELSE At(L, 2)
    <3>1. 1 \in 0 .. n /\ 1 + 1 = 2
      BY <1>1
    <3> QED BY <1>2, <3>1
  <2> QED BY <1>1, <1>3, <2>1, <2>2
<1>5. ASSUME NEW j \in 1 .. Len(M) PROVE h[M[j]] = At(M, j + 1)
  <2> DEFINE k == IF j < i THEN j ELSE j + 1
  <2>1. k \in 1 .. n /\ k # i /\ j \in 0 .. n /\ j \in 1 .. Len(M) /\ j + 1 \in 0 .. n
    BY <1>1, <1>2
  <2>2. M[j] = L[k]
    <3>1. At(M, j) = M[j] /\ At(L, k) = L[k]
      BY <2>1 DEF At, n
    <3>2. At(M, j) = At(L, k)
      BY <1>2, <2>1
    <3> QED BY <3>1, <3>2
  <2>3. At(M, j + 1) = IF k + 1 = i THEN At(L, i + 1) ELSE At(L, k + 1)
    <3>1. At(M, j + 1) = IF j + 1 < i THEN At(L, j + 1) ELSE At(L, j + 1 + 1)
      BY <1>2, <2>1
    <3> QED BY <1>1, <2>1, <3>1
  <2> HIDE DEF k
  <2>4. L[k] # v /\ L[k] \in ToSet(L) /\ g[L[k]] = At(L, k + 1)
    BY <1>1, <2>1, SetFacts DEF Once, Path, v, n
  <2>5. At(L, k + 1) = v <=> k + 1 = i
    BY <1>1, AtOnce DEF v, n
  <2>6. h[L[k]] = IF k + 1 = i THEN At(L, i + 1) ELSE At(L, k + 1)
    BY <1>3, <2>4, <2>5 DEF v
  <2> QED BY <2>2, <2>3, <2>6
<1>6. Path(M, IF q = v THEN g[v] ELSE q, h)
  BY <1>2, <1>4, <1>5 DEF Path, Once
<1> QED BY <1>2, <1>6 DEF M, v

-----------------------------------------------------------------------------
(* The inductive invariant.                                                *)

\* The pointers of the chains.
Hnext == [p \in Page |-> node[p].hnext]

\* The pages of bucket b.
InBucket(b) == {p \in Live : Hash(p) = b}

\* The list links the pages that have a node.
ListSound == Linked(This, Forward) /\ ToSet(Forward) = Live

\* Every chain ends, and holds the pages of its bucket.
ChainsSound ==
    \A b \in Bucket : /\ Path(Chain(b), buckets[b], Hnext)
                      /\ ToSet(Chain(b)) = InBucket(b)

Inv == TypeOK /\ ListSound /\ ChainsSound /\ CountIsLive

\* Every page has a bucket, and no frame is NotFound.
LEMMA SizeFacts ==
    /\ \A p \in Page : Hash(p) \in Bucket
    /\ Page \subseteq Nat
    /\ FrameId \subseteq Nat /\ NotFound \notin FrameId
    /\ 0 \in Nat /\ NotFound = Null
<1>1. nbuckets \in Nat \ {0}
  BY CapacityAssumption DEF nbuckets
<1>2. \A p \in Page : p % nbuckets \in 0 .. nbuckets - 1
  BY <1>1, PageAssumption
<1> QED BY <1>2, PageAssumption, FrameAssumption DEF Hash, Bucket, NotFound, Null

\* The state as a list has the type of one.
LEMMA ThisType ==
    ASSUME TypeOK
    PROVE  /\ This \in Lists
           /\ This.head = head /\ This.tail = tail /\ This.node = node
BY DEF TypeOK, This, Lists

\* hfind finds the pages that have a node.
LEMMA Found ==
    ASSUME ChainsSound, NEW p \in Page
    PROVE  hfind(p) <=> p \in Live
<1>1. ToSet(Chain(Hash(p))) = InBucket(Hash(p))
  BY SizeFacts DEF ChainsSound
<1> QED BY <1>1 DEF hfind, InBucket

\* There are finitely many nodes; none, if no page has one.
LEMMA LiveFacts == IsFiniteSet(Live) /\ Cardinality(Live) \in Nat /\ Live \subseteq Page
<1>1. Live \subseteq Page
  BY DEF Live
<1> QED BY <1>1, PageFacts, FS_Subset, FS_CardinalityType

-----------------------------------------------------------------------------
(* What the steps do to list, chains and count.                            *)

\* Nothing at all.
Rests == UNCHANGED <<head, tail, node, buckets, count>>

LEMMA RestsKeeps ==
    ASSUME Inv, Rests
    PROVE  /\ ListSound' /\ ChainsSound' /\ CountIsLive'
           /\ Forward' = Forward /\ Live' = Live
<1>1. head' = head /\ tail' = tail /\ node' = node /\ buckets' = buckets /\ count' = count
  BY DEF Rests
<1>2. Forward' = Forward /\ Live' = Live /\ This' = This /\ Hnext' = Hnext
  BY <1>1 DEF Forward, Live, This, Hnext
<1>3. \A b : Chain(b)' = Chain(b)
  BY <1>1 DEF Chain
<1>4. \A b : InBucket(b)' = InBucket(b)
  BY <1>2 DEF InBucket
<1>5. ListSound'
  BY <1>2 DEF Inv, ListSound
<1>6. ChainsSound'
  BY <1>1, <1>2, <1>3, <1>4 DEF Inv, ChainsSound
<1>7. CountIsLive'
  BY <1>1, <1>2 DEF Inv, CountIsLive
<1> QED BY <1>2, <1>5, <1>6, <1>7

\* The next list, if its pointers link the pages of L.
LEMMA NextList ==
    ASSUME NEW L, NEW l, Linked(l, L), head' = l.head, tail' = l.tail, node' = l.node
    PROVE  /\ Forward' = L
           /\ Linked(This', Forward')
<1>1. Forward' = L
  <2>1. Along(l.head, [p \in Page |-> l.node[p].next]) = L
    BY LinkedForward
  <2>2. Forward' = Along(head', [p \in Page |-> node'[p].next])
    BY DEF Forward
  <2> QED BY <2>1, <2>2
<1>2. This'.head = l.head /\ This'.tail = l.tail /\ This'.node = l.node
  BY DEF This
<1>3. Linked(This', L)
  BY <1>2, LinkedFrame
<1> QED BY <1>1, <1>3

\* The next chain of bucket b, if its pointers lead along C.
LEMMA NextChain ==
    ASSUME NEW b, NEW C, Path(C, buckets'[b], Hnext')
    PROVE  Chain(b)' = C
<1>1. Chain(b)' = Along(buckets'[b], Hnext')
  BY DEF Chain, Hnext
<1> QED BY <1>1, AlongPath

\* A node that has page p is moved to the front, whatever its frame becomes.
LEMMA TouchStep ==
    ASSUME Inv, NEW p \in Live, NEW l \in Lists,
           l.head = head, l.tail = tail,
           \A q \in Page : /\ l.node[q].next = node[q].next
                           /\ l.node[q].prev = node[q].prev
                           /\ l.node[q].hnext = node[q].hnext
                           /\ l.node[q].frame_id # NotFound <=> node[q].frame_id # NotFound,
           Becomes(list_push_front(list_detach(l, p), p)), UNCHANGED <<buckets, count>>
    PROVE  /\ ListSound' /\ ChainsSound' /\ CountIsLive' /\ This' \in Lists
           /\ \A q \in Page : node'[q].frame_id = l.node[q].frame_id
           /\ \E i \in 1 .. Len(Forward) :
                 Forward[i] = p /\ Forward' = <<p>> \o RemoveAt(Forward, i)
<1> DEFINE m == list_push_front(list_detach(l, p), p)
<1>1. /\ TypeOK /\ Linked(This, Forward) /\ ToSet(Forward) = Live /\ ChainsSound /\ CountIsLive
      /\ This.head = head /\ This.tail = tail /\ This.node = node
  BY ThisType DEF Inv, ListSound
<1>2. Linked(l, Forward)
  <2>1. ToSet(Forward) \subseteq Page
    BY <1>1, LiveFacts
  <2> QED BY <1>1, <2>1, LinkedFrame
<1>3. PICK i \in 1 .. Len(Forward) : p = Forward[i]
  BY <1>1, SetFacts DEF Linked, Once
<1> DEFINE M == <<p>> \o RemoveAt(Forward, i)
<1>4. m \in Lists /\ Linked(m, M) /\ ToSet(M) = Live /\ SameRest(l, m)
  BY <1>1, <1>2, <1>3, TouchLinked
<1>5. head' = m.head /\ tail' = m.tail /\ node' = m.node
  BY DEF Becomes
<1> HIDE DEF m, M
<1>6. Forward' = M /\ Linked(This', Forward')
  BY <1>4, <1>5, NextList
<1>7. /\ \A q \in Page : node'[q].frame_id = l.node[q].frame_id
      /\ \A q \in Page : node'[q].hnext = node[q].hnext
  BY <1>4, <1>5 DEF SameRest
<1>8. Live' = Live
  BY <1>7 DEF Live
<1>9. ListSound'
  BY <1>4, <1>6, <1>8 DEF ListSound
<1>10. ChainsSound'
  <2>1. Hnext' = Hnext /\ buckets' = buckets
    BY <1>7 DEF Hnext
  <2>2. ASSUME NEW b \in Bucket
        PROVE  Path(Chain(b)', buckets'[b], Hnext') /\ ToSet(Chain(b)') = InBucket(b)'
    <3>1. Path(Chain(b), buckets'[b], Hnext') /\ ToSet(Chain(b)) = InBucket(b)
      BY <1>1, <2>1 DEF ChainsSound
    <3>2. Chain(b)' = Chain(b)
      BY <3>1, NextChain
    <3>3. InBucket(b)' = InBucket(b)
      BY <1>8 DEF InBucket
    <3> QED BY <3>1, <3>2, <3>3
  <2> QED BY <2>2 DEF ChainsSound
<1>11. CountIsLive'
  BY <1>1, <1>8 DEF CountIsLive
<1>12. This' \in Lists
  <2>1. m = [head |-> m.head, tail |-> m.tail, node |-> m.node]
    BY <1>4 DEF Lists
  <2>2. This' = m
    BY <1>5, <2>1 DEF This
  <2> QED BY <1>4, <2>2
<1> QED BY <1>3, <1>6, <1>7, <1>9, <1>10, <1>11, <1>12 DEF M

\* A page without a node gets one, in front of the list and of its chain.
LEMMA LinkStep ==
    ASSUME Inv, NEW p \in Page, p \notin Live, NEW f \in FrameId, Link(p, f)
    PROVE  /\ ListSound' /\ ChainsSound' /\ CountIsLive' /\ This' \in Lists
           /\ buckets' = [buckets EXCEPT ![Hash(p)] = p] /\ count' = count + 1
           /\ \A q \in Page : node'[q].frame_id = IF q = p THEN f ELSE node[q].frame_id
           /\ Forward' = <<p>> \o Forward
<1> DEFINE z == [Zeroed EXCEPT !.frame_id = f, !.hnext = buckets[Hash(p)]]
           l == [This EXCEPT !.node[p] = z]
           m == list_push_front(l, p)
           M == <<p>> \o Forward
<1>1. /\ TypeOK /\ Linked(This, Forward) /\ ToSet(Forward) = Live /\ ChainsSound /\ CountIsLive
      /\ This.head = head /\ This.tail = tail /\ This.node = node
  BY ThisType DEF Inv, ListSound
<1>2. /\ head \in NodeOrNull /\ tail \in NodeOrNull /\ node \in [Page -> Lnode]
      /\ buckets \in [Bucket -> NodeOrNull] /\ Hash(p) \in Bucket
  BY <1>1, SizeFacts DEF TypeOK
<1>3. z \in Lnode /\ z.frame_id = f /\ z.hnext = buckets[Hash(p)]
  <2>1. buckets[Hash(p)] \in NodeOrNull /\ Null \in NodeOrNull
    BY <1>2 DEF NodeOrNull
  <2>2. Zeroed \in Lnode
    BY <2>1 DEF Zeroed, Lnode
  <2>3. f \in FrameId \cup {NotFound}
    OBVIOUS
  <2> QED BY <2>1, <2>2, <2>3 DEF Lnode
<1> HIDE DEF z
<1>4. l = [head |-> head, tail |-> tail, node |-> [node EXCEPT ![p] = z]]
  BY DEF This
<1>5. l \in Lists /\ l.head = head /\ l.tail = tail /\ l.node = [node EXCEPT ![p] = z]
  BY <1>2, <1>3, <1>4 DEF Lists
<1>6. \A q \in Page : l.node[q] = IF q = p THEN z ELSE node[q]
  BY <1>2, <1>5
<1>7. head' = m.head /\ tail' = m.tail /\ node' = m.node
  BY DEF Link, Becomes, z
<1> HIDE DEF l
<1>8. Linked(l, Forward)
  <2>1. \A q \in ToSet(Forward) : q \in Page /\ q # p
    BY <1>1, LiveFacts
  <2>2. \A q \in ToSet(Forward) : l.node[q] = This.node[q]
    BY <1>1, <1>6, <2>1
  <2>3. l.head = This.head /\ l.tail = This.tail
    BY <1>1, <1>5
  <2>4. Linked(This, Forward)
    BY <1>1
  <2> QED BY <2>2, <2>3, <2>4, LinkedFrame
<1>9. m \in Lists /\ Linked(m, M) /\ SameRest(l, m)
  BY <1>1, <1>5, <1>8, PushLinked
<1>10. ToSet(M) = Live \cup {p}
  BY <1>1, ConsOnce DEF Linked
<1> HIDE DEF m, M
<1>11. Forward' = M /\ Linked(This', Forward')
  BY <1>7, <1>9, NextList
<1>12. /\ \A q \in Page : node'[q].frame_id = IF q = p THEN f ELSE node[q].frame_id
       /\ \A q \in Page : node'[q].hnext = IF q = p THEN buckets[Hash(p)] ELSE node[q].hnext
  BY <1>3, <1>6, <1>7, <1>9 DEF SameRest
<1>13. Live' = Live \cup {p}
  BY <1>12, SizeFacts DEF Live
<1>14. ListSound'
  BY <1>10, <1>11, <1>13 DEF ListSound
<1>15. buckets' = [buckets EXCEPT ![Hash(p)] = p] /\ count' = count + 1
  BY DEF Link
<1>16. ChainsSound'
  <2>1. \A q \in Page : /\ Hnext[q] = node[q].hnext
                        /\ Hnext'[q] = IF q = p THEN buckets[Hash(p)] ELSE node[q].hnext
    BY <1>12 DEF Hnext
  <2>2. ASSUME NEW b \in Bucket
        PROVE  Path(Chain(b)', buckets'[b], Hnext') /\ ToSet(Chain(b)') = InBucket(b)'
    <3>1. /\ Path(Chain(b), buckets[b], Hnext) /\ ToSet(Chain(b)) = InBucket(b)
          /\ InBucket(b) \subseteq Page /\ p \notin InBucket(b)
      BY <1>1, LiveFacts DEF ChainsSound, InBucket
    <3>2. InBucket(b)' = InBucket(b) \cup IF b = Hash(p) THEN {p} ELSE {}
      BY <1>13 DEF InBucket
    <3>3. buckets'[b] = IF b = Hash(p) THEN p ELSE buckets[b]
      BY <1>2, <1>15
    <3>4. \A q \in ToSet(Chain(b)) : Hnext'[q] = Hnext[q]
      BY <2>1, <3>1
    <3>5. CASE b = Hash(p)
      <4>1. Hnext'[p] = buckets[b]
        BY <2>1, <3>5
      <4>2. /\ Path(<<p>> \o Chain(b), p, Hnext')
            /\ ToSet(<<p>> \o Chain(b)) = ToSet(Chain(b)) \cup {p}
        BY <3>1, <3>4, <4>1, PathCons
      <4>3. Chain(b)' = <<p>> \o Chain(b)
        BY <3>3, <3>5, <4>2, NextChain
      <4> QED BY <3>1, <3>2, <3>3, <3>5, <4>2, <4>3
    <3>6. CASE b # Hash(p)
      <4>1. Path(Chain(b), buckets'[b], Hnext')
        BY <3>1, <3>3, <3>4, <3>6, PathFrame
      <4>2. Chain(b)' = Chain(b)
        BY <4>1, NextChain
      <4> QED BY <3>1, <3>2, <3>6, <4>1, <4>2
    <3> QED BY <3>5, <3>6
  <2> QED BY <2>2 DEF ChainsSound
<1>17. CountIsLive'
  <2>1. Cardinality(Live \cup {p}) = Cardinality(Live) + 1
    BY LiveFacts, FS_AddElement
  <2> QED BY <1>1, <1>13, <1>15, <2>1 DEF CountIsLive
<1>18. This' \in Lists
  <2>1. m = [head |-> m.head, tail |-> m.tail, node |-> m.node]
    BY <1>9 DEF Lists
  <2>2. This' = m
    BY <1>7, <2>1 DEF This
  <2> QED BY <1>9, <2>2
<1> QED BY <1>11, <1>12, <1>14, <1>15, <1>16, <1>17, <1>18 DEF M

\* The tail leaves the list and its chain.
LEMMA EvictStep ==
    ASSUME Inv, tail # Null, EvictTail
    PROVE  /\ ListSound' /\ ChainsSound' /\ CountIsLive' /\ This' \in Lists
           /\ buckets' \in [Bucket -> NodeOrNull]
           /\ tail \in Live /\ count' = count - 1
           /\ \A q \in Page : node'[q].frame_id = IF q = tail THEN NotFound
                                                  ELSE node[q].frame_id
           /\ Forward # <<>> /\ tail = Last(Forward) /\ Forward' = Front(Forward)
<1> DEFINE v == tail
           n == Len(Forward)
           l == list_detach(This, v)
           c == Chain(Hash(v))
           M == RemoveAt(Forward, n)
<1>1. /\ TypeOK /\ Linked(This, Forward) /\ ToSet(Forward) = Live /\ ChainsSound /\ CountIsLive
      /\ This.head = head /\ This.tail = tail /\ This.node = node /\ This \in Lists
  BY ThisType DEF Inv, ListSound
<1>2. /\ Once(Forward) /\ Forward \in Seq(Page) /\ n \in Nat
      /\ buckets \in [Bucket -> NodeOrNull] /\ node \in [Page -> Lnode]
  BY <1>1, SetFacts DEF Linked, Once, TypeOK
<1>3. n \in 1 .. n /\ v = Forward[n] /\ v \in Live /\ v \in Page /\ Hash(v) \in Bucket
  <2>1. v = At(Forward, n)
    BY <1>1 DEF Linked
  <2>2. n \in 1 .. n
    BY <2>1 DEF At
  <2>3. v = Forward[n]
    BY <2>1, <2>2 DEF At
  <2>4. v \in Live
    BY <1>1, <1>2, <2>2, <2>3, SetFacts
  <2> QED BY <2>2, <2>3, <2>4, LiveFacts, SizeFacts
<1>4. l \in Lists /\ Linked(l, M) /\ SameRest(This, l)
  BY <1>1, <1>3, DetachLinked
<1>5. ToSet(M) = Live \ {v}
  BY <1>1, <1>2, <1>3, RemoveOnce
<1> DEFINE new(q) == IF q = v THEN Zeroed
                     ELSE IF q \in ToSet(c) /\ node[q].hnext = v
                          THEN [l.node[q] EXCEPT !.hnext = node[v].hnext]
                     ELSE l.node[q]
<1>6. /\ head' = l.head /\ tail' = l.tail /\ node' = [q \in Page |-> new(q)]
      /\ buckets' = [buckets EXCEPT ![Hash(v)] = IF @ = v THEN node[v].hnext ELSE @]
      /\ count' = count - 1
  BY DEF EvictTail, Unchain
<1> HIDE DEF l, M
<1>7. /\ l.node \in [Page -> Lnode] /\ l.head \in NodeOrNull /\ l.tail \in NodeOrNull
      /\ node[v].hnext \in NodeOrNull /\ Null \in NodeOrNull
  BY <1>2, <1>3, <1>4 DEF Lists, Lnode, NodeOrNull
<1>8. ASSUME NEW q \in Page
      PROVE  /\ new(q) \in Lnode
             /\ new(q).frame_id = IF q = v THEN NotFound ELSE node[q].frame_id
             /\ q # v => /\ new(q).next = l.node[q].next
                         /\ new(q).prev = l.node[q].prev
                         /\ new(q).hnext = IF q \in ToSet(c) /\ node[q].hnext = v
                                           THEN node[v].hnext ELSE node[q].hnext
  <2>1. /\ l.node[q] \in Lnode /\ l.node[q].frame_id = node[q].frame_id
        /\ l.node[q].hnext = node[q].hnext
    BY <1>1, <1>4, <1>7 DEF SameRest
  <2>2. CASE q = v
    <3>1. new(q) = Zeroed
      BY <2>2
    <3> HIDE DEF new
    <3> QED BY <1>7, <2>2, <3>1 DEF Zeroed, Lnode
  <2>3. CASE q # v /\ q \in ToSet(c) /\ node[q].hnext = v
    <3>1. new(q) = [l.node[q] EXCEPT !.hnext = node[v].hnext]
      BY <2>3
    <3> HIDE DEF new, v, c
    <3> QED BY <1>7, <2>1, <2>3, <3>1 DEF Lnode
  <2>4. CASE q # v /\ ~(q \in ToSet(c) /\ node[q].hnext = v)
    <3>1. new(q) = l.node[q]
      BY <2>4
    <3> HIDE DEF new, v, c
    <3> QED BY <2>1, <2>4, <3>1
  <2> QED BY <2>2, <2>3, <2>4
<1> HIDE DEF new
<1>9. \A q \in Page : node'[q] = new(q)
  BY <1>6
<1>10. This' \in Lists
  <2>1. node' \in [Page -> Lnode]
    BY <1>6, <1>8
  <2> QED BY <1>6, <1>7, <2>1 DEF This, Lists
<1>11. Live' = Live \ {v}
  BY <1>3, <1>8, <1>9, SizeFacts DEF Live
<1>12. Forward' = M /\ Linked(This', Forward')
  <2> DEFINE w == [head |-> head', tail |-> tail', node |-> node']
  <2>1. w.head = l.head /\ w.tail = l.tail /\ w.node = node'
    BY <1>6
  <2>2. \A q \in ToSet(M) : /\ w.node[q].next = l.node[q].next
                            /\ w.node[q].prev = l.node[q].prev
    BY <1>5, <1>8, <1>9, LiveFacts, <2>1
  <2>3. w.head = head' /\ w.tail = tail' /\ w.node = node'
    OBVIOUS
  <2> HIDE DEF w
  <2>4. Linked(w, M)
    BY <1>4, <2>1, <2>2, LinkedFrame
  <2> QED BY <2>3, <2>4, NextList
<1>13. ListSound'
  BY <1>5, <1>11, <1>12 DEF ListSound
<1>14. ChainsSound'
  <2>1. \A q \in Page : /\ Hnext[q] = node[q].hnext
                        /\ q # v => Hnext'[q] = IF q \in ToSet(c) /\ node[q].hnext = v
                                                THEN node[v].hnext ELSE node[q].hnext
    BY <1>8, <1>9 DEF Hnext
  <2>2. ASSUME NEW b \in Bucket
        PROVE  Path(Chain(b)', buckets'[b], Hnext') /\ ToSet(Chain(b)') = InBucket(b)'
    <3>1. /\ Path(Chain(b), buckets[b], Hnext) /\ ToSet(Chain(b)) = InBucket(b)
          /\ InBucket(b) \subseteq Page /\ InBucket(b) \subseteq Live
      BY <1>1, LiveFacts DEF ChainsSound, InBucket
    <3>2. InBucket(b)' = InBucket(b) \ {v}
      BY <1>11 DEF InBucket
    <3>3. CASE b = Hash(v)
      <4>1. PICK i \in 1 .. Len(Chain(b)) : v = Chain(b)[i]
        <5>1. v \in ToSet(Chain(b))
          BY <1>3, <3>1, <3>3 DEF InBucket
        <5> QED BY <3>1, <5>1, SetFacts DEF Path
      <4>2. \A q \in ToSet(Chain(b)) :
               q # v => Hnext'[q] = IF Hnext[q] = v THEN Hnext[v] ELSE Hnext[q]
        <5> HIDE DEF v
        <5> QED BY <1>3, <2>1, <3>1, <3>3
      <4>3. buckets'[b] = IF buckets[b] = v THEN Hnext[v] ELSE buckets[b]
        BY <1>2, <1>3, <1>6, <2>1, <3>3
      <4> DEFINE K == RemoveAt(Chain(b), i)
                 q0 == IF buckets[b] = v THEN Hnext[v] ELSE buckets[b]
      <4>4. Path(K, q0, Hnext') /\ ToSet(K) = ToSet(Chain(b)) \ {v}
        <5>1. \A q \in ToSet(Chain(b)) : q # Chain(b)[i] =>
                 Hnext'[q] = IF Hnext[q] = Chain(b)[i] THEN Hnext[Chain(b)[i]] ELSE Hnext[q]
          BY <4>1, <4>2
        <5>2. /\ Path(K, IF buckets[b] = Chain(b)[i] THEN Hnext[Chain(b)[i]]
                         ELSE buckets[b], Hnext')
              /\ ToSet(K) = ToSet(Chain(b)) \ {Chain(b)[i]}
          <6> HIDE DEF v
          <6> QED BY <3>1, <5>1, PathRemove
        <5> HIDE DEF K, v
        <5> QED BY <4>1, <5>2
      <4>5. Chain(b)' = K
        BY <4>3, <4>4, NextChain
      <4> QED BY <3>1, <3>2, <4>3, <4>4, <4>5
    <3>4. CASE b # Hash(v)
      <4>1. buckets'[b] = buckets[b]
        BY <1>2, <1>6, <3>4
      <4>2. \A q \in ToSet(Chain(b)) : q \in Page /\ q # v /\ q \notin ToSet(c)
        <5>1. ToSet(c) = InBucket(Hash(v))
          BY <1>1, <1>3 DEF ChainsSound
        <5> QED BY <3>1, <3>4, <5>1 DEF InBucket
      <4>3. \A q \in ToSet(Chain(b)) : Hnext'[q] = Hnext[q]
        BY <2>1, <4>2
      <4>4. Path(Chain(b), buckets'[b], Hnext')
        BY <3>1, <4>1, <4>3, PathFrame
      <4>5. Chain(b)' = Chain(b)
        BY <4>4, NextChain
      <4>6. v \notin InBucket(b)
        BY <3>4 DEF InBucket
      <4> QED BY <3>1, <3>2, <4>4, <4>5, <4>6
    <3> QED BY <3>3, <3>4
  <2> QED BY <2>2 DEF ChainsSound
<1>15. CountIsLive'
  <2>1. Cardinality(Live \ {v}) = Cardinality(Live) - 1
    BY <1>3, LiveFacts, FS_RemoveElement
  <2> QED BY <1>1, <1>6, <1>11, <2>1 DEF CountIsLive
<1>16. Forward # <<>> /\ v = Last(Forward)
  <2>1. Forward = <<>> => n = 0
    OBVIOUS
  <2> QED BY <1>3, <2>1 DEF Last
<1>17. M = Front(Forward)
  <2> DEFINE A == SubSeq(Forward, 1, n - 1)
  <2>1. SubSeq(Forward, n + 1, n) = <<>>
    BY <1>2, SubSeqEmpty
  <2>2. A \in Seq(Page)
    <3>1. 1 \in Int /\ n - 1 \in Int /\ \A i \in 1 .. n - 1 : Forward[i] \in Page
      BY <1>2, LenProperties
    <3> QED BY <3>1, SubSeqProperties
  <2> HIDE DEF A
  <2>3. A \o <<>> = A
    BY <2>2, ConcatEmptySeq
  <2> QED BY <2>1, <2>3 DEF M, A, Front, RemoveAt
<1>18. buckets' \in [Bucket -> NodeOrNull]
  BY <1>2, <1>6, <1>7
<1> QED BY <1>3, <1>6, <1>8, <1>9, <1>10, <1>12, <1>13, <1>14, <1>15, <1>16, <1>17, <1>18

-----------------------------------------------------------------------------
(* Invariance.                                                             *)

\* lru_create makes an empty list and empty chains.
LEMMA InitInv == Init => Inv
<1> SUFFICES ASSUME Init PROVE Inv
  OBVIOUS
<1>1. TypeOK
  BY SizeFacts DEF Init, TypeOK, NodeOrNull, Zeroed, Lnode
<1>2. Live = {}
  BY DEF Init, Live, Zeroed
<1>3. Once(<<>>) /\ ToSet(<<>>) = {} /\ Len(<<>>) = 0
  BY DEF Once, ToSet
<1>4. \A i : At(<<>>, i) = Null
  BY <1>3 DEF At
<1>5. Linked(This, <<>>)
  BY <1>3, <1>4 DEF Linked, This, Init
<1>6. Forward = <<>>
  <2>1. Along(This.head, [p \in Page |-> This.node[p].next]) = <<>>
    BY <1>5, LinkedForward
  <2> QED BY <2>1 DEF Forward, This
<1>7. ListSound
  BY <1>2, <1>3, <1>5, <1>6 DEF ListSound
<1>8. ASSUME NEW b \in Bucket
      PROVE  Path(Chain(b), buckets[b], Hnext) /\ ToSet(Chain(b)) = InBucket(b)
  <2>1. Path(<<>>, buckets[b], Hnext)
    BY <1>3, <1>4 DEF Path, Once, Init
  <2>2. Chain(b) = <<>>
    BY <2>1, AlongPath DEF Chain, Hnext
  <2> QED BY <1>2, <1>3, <2>1, <2>2 DEF InBucket
<1>9. CountIsLive
  BY <1>2, FS_EmptySet DEF CountIsLive, Init
<1> QED BY <1>1, <1>7, <1>8, <1>9 DEF Inv, ChainsSound

\* The three ways in which a call leaves list, chains and count: as they were,
\* with p moved or put in front, without the tail.
LEMMA LookupStep ==
    ASSUME Inv, NEW p \in Page, lru_lookup(p)
    PROVE  \/ p \notin Live /\ Answers("lookup", p, NotFound) /\ Rests
           \/ /\ p \in Live /\ Answers("lookup", p, node[p].frame_id)
              /\ Becomes(list_push_front(list_detach(This, p), p))
              /\ UNCHANGED <<buckets, count>>
<1>1. hfind(p) <=> p \in Live
  BY Found DEF Inv
<1> QED BY <1>1 DEF lru_lookup, Rests

LEMMA InsertStep ==
    ASSUME Inv, NEW p \in Page, NEW f \in FrameId, lru_insert(p, f)
    PROVE  /\ Answers("insert", p, f)
           /\ \/ /\ p \in Live
                 /\ Becomes(list_push_front(
                       list_detach([This EXCEPT !.node[p].frame_id = f], p), p))
                 /\ UNCHANGED <<buckets, count>>
              \/ p \notin Live /\ Link(p, f)
              \/ p \notin Live /\ OutOfMemory /\ Rests
<1>1. hfind(p) <=> p \in Live
  BY Found DEF Inv
<1> QED BY <1>1 DEF lru_insert, Rests

\* What TouchStep says of a lookup that hits, and
LEMMA LookupTouches ==
    ASSUME Inv, NEW p \in Live, UNCHANGED <<buckets, count>>,
           Becomes(list_push_front(list_detach(This, p), p))
    PROVE  /\ ListSound' /\ ChainsSound' /\ CountIsLive' /\ This' \in Lists
           /\ \A q \in Page : node'[q].frame_id = node[q].frame_id
           /\ \E i \in 1 .. Len(Forward) :
                 Forward[i] = p /\ Forward' = <<p>> \o RemoveAt(Forward, i)
<1>1. This \in Lists /\ This.head = head /\ This.tail = tail /\ This.node = node
  BY ThisType DEF Inv
<1> QED BY <1>1, TouchStep

\* of an insert of a page that is there already.
LEMMA InsertTouches ==
    ASSUME Inv, NEW p \in Live, NEW f \in FrameId, UNCHANGED <<buckets, count>>,
           Becomes(list_push_front(
              list_detach([This EXCEPT !.node[p].frame_id = f], p), p))
    PROVE  /\ ListSound' /\ ChainsSound' /\ CountIsLive' /\ This' \in Lists
           /\ \A q \in Page : node'[q].frame_id = IF q = p THEN f ELSE node[q].frame_id
           /\ \E i \in 1 .. Len(Forward) :
                 Forward[i] = p /\ Forward' = <<p>> \o RemoveAt(Forward, i)
<1> DEFINE l == [This EXCEPT !.node[p].frame_id = f]
<1>1. head \in NodeOrNull /\ tail \in NodeOrNull /\ node \in [Page -> Lnode] /\ p \in Page
  BY LiveFacts DEF Inv, TypeOK
<1>2. l = [head |-> head, tail |-> tail, node |-> [node EXCEPT ![p].frame_id = f]]
  BY DEF This
<1> HIDE DEF l
<1>3. l.head = head /\ l.tail = tail /\ l.node = [node EXCEPT ![p].frame_id = f]
  BY <1>2
<1>4. ASSUME NEW q \in Page
      PROVE  /\ l.node[q] \in Lnode
             /\ l.node[q].next = node[q].next
             /\ l.node[q].prev = node[q].prev
             /\ l.node[q].hnext = node[q].hnext
             /\ l.node[q].frame_id = IF q = p THEN f ELSE node[q].frame_id
  <2>1. l.node[q] = IF q = p THEN [node[q] EXCEPT !.frame_id = f] ELSE node[q]
    BY <1>1, <1>3
  <2>2. node[q] \in Lnode
    BY <1>1
  <2> QED BY <2>1, <2>2 DEF Lnode
<1>5. l \in Lists
  <2>1. l.node \in [Page -> Lnode]
    BY <1>1, <1>3, <1>4
  <2> QED BY <1>1, <1>2, <1>3, <2>1 DEF Lists
<1>6. \A q \in Page : l.node[q].frame_id # NotFound <=> node[q].frame_id # NotFound
  BY <1>4, SizeFacts DEF Live
<1>7. Becomes(list_push_front(list_detach(l, p), p))
  BY DEF l
<1>8. l.head = head /\ l.tail = tail
  BY <1>3
<1>9. \A q \in Page : /\ l.node[q].next = node[q].next
                      /\ l.node[q].prev = node[q].prev
                      /\ l.node[q].hnext = node[q].hnext
                      /\ l.node[q].frame_id # NotFound <=> node[q].frame_id # NotFound
  BY <1>4, <1>6
<1>10. /\ ListSound' /\ ChainsSound' /\ CountIsLive' /\ This' \in Lists
       /\ \A q \in Page : node'[q].frame_id = l.node[q].frame_id
       /\ \E i \in 1 .. Len(Forward) :
             Forward[i] = p /\ Forward' = <<p>> \o RemoveAt(Forward, i)
  BY <1>5, <1>7, <1>8, <1>9, TouchStep
<1> QED BY <1>4, <1>10

\* Every step keeps the invariant.
LEMMA StepInv == ASSUME Inv, [Next]_vars PROVE Inv'
<1>0. /\ TypeOK /\ head \in NodeOrNull /\ tail \in NodeOrNull /\ node \in [Page -> Lnode]
      /\ buckets \in [Bucket -> NodeOrNull] /\ count \in Int
  BY DEF Inv, TypeOK
<1> DEFINE Answer == [op: {"create", "lookup", "insert", "evict"}, page: Nat,
                      frame: FrameId \cup {NotFound}, depth: {0}]
           Good == /\ ListSound' /\ ChainsSound' /\ CountIsLive' /\ This' \in Lists
                   /\ buckets' \in [Bucket -> NodeOrNull] /\ count' \in Int
<1>1. ASSUME Good, answer' \in Answer PROVE Inv'
  <2>1. head' \in NodeOrNull /\ tail' \in NodeOrNull /\ node' \in [Page -> Lnode]
    BY <1>1 DEF This, Lists
  <2> QED BY <1>1, <2>1 DEF Inv, TypeOK
<1>2. ASSUME Rests PROVE Good
  <2>1. This' \in Lists
    <3>1. This' = This
      BY <1>2 DEF Rests, This
    <3> QED BY <1>0, <3>1, ThisType
  <2> QED BY <1>0, <1>2, <2>1, RestsKeeps DEF Rests
<1>3. ASSUME NEW p \in Page PROVE node[p].frame_id \in FrameId \cup {NotFound}
  BY <1>0 DEF Lnode
<1>4. CASE UNCHANGED vars
  <2>1. Rests /\ answer' \in Answer
    BY <1>0, <1>4 DEF vars, Rests, TypeOK
  <2> QED BY <1>1, <1>2, <2>1
<1>5. ASSUME NEW p \in Page, lru_lookup(p) PROVE Inv'
  <2>1. answer' \in Answer
    BY <1>3, <1>5, SizeFacts DEF lru_lookup, Answers
  <2>2. Good
    BY <1>0, <1>2, <1>5, LookupStep, LookupTouches
  <2> QED BY <1>1, <2>1, <2>2
<1>6. ASSUME NEW p \in Page, NEW f \in FrameId, lru_insert(p, f) PROVE Inv'
  <2>1. answer' \in Answer
    BY <1>6, SizeFacts DEF lru_insert, Answers
  <2>2. ASSUME p \notin Live, Link(p, f) PROVE Good
    <3>1. buckets' \in [Bucket -> NodeOrNull]
      <4>1. buckets' = [buckets EXCEPT ![Hash(p)] = p] /\ p \in NodeOrNull
        BY <2>2, LinkStep DEF NodeOrNull
      <4> QED BY <1>0, <4>1
    <3>2. /\ ListSound' /\ ChainsSound' /\ CountIsLive' /\ This' \in Lists
          /\ count' = count + 1
      BY <2>2, LinkStep
    <3> QED BY <1>0, <3>1, <3>2
  <2>3. Good
    BY <1>0, <1>2, <1>6, <2>2, InsertStep, InsertTouches
  <2> QED BY <1>1, <2>1, <2>3
<1>7. CASE lru_evict_victim
  <2>1. CASE tail = Null
    <3>1. Rests /\ answer' \in Answer
      BY <1>7, <2>1, SizeFacts DEF lru_evict_victim, Answers, Rests
    <3> QED BY <1>1, <1>2, <3>1
  <2>2. CASE tail # Null
    <3>1. EvictTail /\ Answers("evict", tail, node[tail].frame_id)
      BY <1>7, <2>2 DEF lru_evict_victim
    <3>2. tail \in Page
      BY <1>0, <2>2 DEF NodeOrNull
    <3>3. answer' \in Answer
      BY <1>3, <3>1, <3>2, SizeFacts DEF Answers
    <3>4. Good
      BY <1>0, <2>2, <3>1, EvictStep
    <3> QED BY <1>1, <3>3, <3>4
  <2> QED BY <2>1, <2>2
<1> QED BY <1>4, <1>5, <1>6, <1>7 DEF Next

\* The list links the pages that have a node, every chain those of its bucket,
\* and the counter counts them, after any calls.
THEOREM Invariance == Spec => []Inv
<1>1. Inv /\ [Next]_vars => Inv'
  BY StepInv
<1> QED BY InitInv, <1>1, PTL DEF Spec

\* Every field has its type.
THEOREM TypeCorrect == Spec => []TypeOK
<1>1. Inv => TypeOK
  BY DEF Inv
<1> QED BY Invariance, <1>1, PTL

\* The list read forward is the list read backward the other way round, and
\* holds every node once.
THEOREM ListStaysWhole == Spec => []ListWhole
<1>1. Inv => ListWhole
  <2> SUFFICES ASSUME Inv PROVE ListWhole
    OBVIOUS
  <2>1. Linked(This, Forward) /\ ToSet(Forward) = Live /\ This.tail = tail /\ This.node = node
    BY ThisType DEF Inv, ListSound
  <2>2. Backward = Reverse(Forward)
    <3>1. Along(This.tail, [p \in Page |-> This.node[p].prev]) = Reverse(Forward)
      BY <2>1, LinkedBackward
    <3> QED BY <2>1, <3>1 DEF Backward
  <2>3. Len(Forward) = Cardinality(Live)
    BY <2>1, PathLength DEF Linked, Once
  <2> QED BY <2>1, <2>2, <2>3 DEF ListWhole
<1> QED BY Invariance, <1>1, PTL

\* Each node is on the chain of its bucket, once, and on no other.
THEOREM ChainsStayWhole == Spec => []ChainsWhole
<1>1. Inv => ChainsWhole
  <2> SUFFICES ASSUME Inv, NEW b \in Bucket
               PROVE  /\ ToSet(Chain(b)) = InBucket(b)
                      /\ Len(Chain(b)) = Cardinality(InBucket(b))
    BY DEF ChainsWhole, InBucket
  <2>1. Path(Chain(b), buckets[b], Hnext) /\ ToSet(Chain(b)) = InBucket(b)
    BY DEF Inv, ChainsSound
  <2>2. Len(Chain(b)) = Cardinality(ToSet(Chain(b)))
    BY <2>1, PathLength DEF Path
  <2> QED BY <2>1, <2>2
<1> QED BY Invariance, <1>1, PTL

\* The counter counts the nodes, so that count-- never wraps.
THEOREM CountIsExact == Spec => []CountIsLive
<1>1. Inv => CountIsLive
  BY DEF Inv
<1> QED BY Invariance, <1>1, PTL

-----------------------------------------------------------------------------
(* The refinement of RecencyIndex.                                         *)

\* The map that hfind sees, and the frames of the nodes.
Map    == [p \in Page |-> IF hfind(p) THEN node[p].frame_id ELSE NotFound]
Frames == [p \in Page |-> node[p].frame_id]

\* They are the same: what has no node has no frame.
LEMMA MapIsFrames == Inv => Map = Frames
<1> SUFFICES ASSUME Inv PROVE Map = Frames
  OBVIOUS
<1>1. ASSUME NEW p \in Page
      PROVE  (IF hfind(p) THEN node[p].frame_id ELSE NotFound) = node[p].frame_id
  <2>1. hfind(p) <=> node[p].frame_id # NotFound
    BY Found DEF Inv, Live
  <2> QED BY <2>1
<1> QED BY <1>1 DEF Map, Frames

LEMMA NextMapIsFrames == Inv' => (Map = Frames)'
BY MapIsFrames, PTL

\* Before and after a step.
LEMMA MapsAre ==
    ASSUME Inv, Inv'
    PROVE  /\ Map = Frames /\ Map' = Frames'
           /\ \A p \in Page : Map[p] = node[p].frame_id /\ Map'[p] = node'[p].frame_id
           /\ Recency!Mapped = Live
<1>1. Map = Frames
  BY MapIsFrames
<1>2. Map' = Frames'
  BY NextMapIsFrames
<1>3. \A p \in Page : Map[p] = node[p].frame_id /\ Map'[p] = node'[p].frame_id
  BY <1>1, <1>2 DEF Frames
<1>4. Recency!Mapped = {p \in Page : Map[p] # NotFound}
  BY DEF Recency!Mapped, Map, NotFound, Recency!NotFound
<1> QED BY <1>1, <1>2, <1>3, <1>4 DEF Live

\* The order without a page that has one place in it.
LEMMA WithoutPlace ==
    ASSUME Inv, NEW i \in 1 .. Len(Forward)
    PROVE  Recency!Without(Forward[i]) = RemoveAt(Forward, i)
<1>1. Once(Forward) /\ DOMAIN Forward = 1 .. Len(Forward)
  BY LenProperties DEF Inv, ListSound, Linked, Once
<1>2. (CHOOSE j \in DOMAIN Forward : Forward[j] = Forward[i]) = i
  BY <1>1 DEF Once
<1>3. Recency!RemoveAt(Forward, i) = RemoveAt(Forward, i)
  BY DEF RemoveAt, Recency!RemoveAt
<1> QED BY <1>1, <1>2, <1>3 DEF Recency!Without

\* The order without a page that is not in it.
LEMMA WithoutNone ==
    ASSUME Inv, NEW p, p \notin Live
    PROVE  Recency!Without(p) = Forward
BY DEF Inv, ListSound, ToSet, Recency!Without

\* lru_create makes the empty map.
LEMMA InitRefines == Init => Recency!RecencyInit
<1> SUFFICES ASSUME Init PROVE Recency!RecencyInit
  OBVIOUS
<1>1. Inv
  BY InitInv
<1>2. Map = [p \in Page |-> NotFound]
  BY <1>1, MapIsFrames DEF Frames, Init, Zeroed
<1>3. Forward = <<>>
  <2>1. Live = {}
    BY DEF Init, Live, Zeroed
  <2>2. Forward \in Seq(Page) /\ ToSet(Forward) = {}
    BY <1>1, <2>1 DEF Inv, ListSound, Linked, Once
  <2>3. Len(Forward) = 0
    BY <2>2, SetFacts
  <2> QED BY <2>2, <2>3, EmptySeq
<1>4. Recency!Init
  BY <1>2 DEF Recency!Init, Map, Init, NotFound, Recency!NotFound
<1> QED BY <1>3, <1>4 DEF Recency!RecencyInit

\* A call that leaves everything shows the map and the order as they were.
LEMMA RestsRefines ==
    ASSUME Inv, Inv', Rests
    PROVE  Map' = Map /\ Forward' = Forward
<1>1. node' = node
  BY DEF Rests
<1> QED BY <1>1, MapsAre, RestsKeeps DEF Frames

\* A page that is moved to the front, or put there, is used.
LEMMA UsedInFront ==
    ASSUME Inv, Inv', NEW p \in Page, node'[p].frame_id # NotFound,
           \/ \E i \in 1 .. Len(Forward) :
                 Forward[i] = p /\ Forward' = <<p>> \o RemoveAt(Forward, i)
           \/ p \notin Live /\ Forward' = <<p>> \o Forward
    PROVE  Recency!Uses(p)
<1>1. Forward' = <<p>> \o Recency!Without(p)
  BY WithoutPlace, WithoutNone
<1>2. Map'[p] # NotFound
  BY MapsAre
<1> QED BY <1>1, <1>2 DEF Recency!Uses, Map, NotFound, Recency!NotFound

\* lru_lookup answers what the map holds, and uses the page if it holds one.
LEMMA LookupRefines ==
    ASSUME Inv, Inv', NEW p \in Page, lru_lookup(p)
    PROVE  Recency!lookup(p) /\ Recency!Uses(p)
<1>1. /\ Map = Frames /\ Map' = Frames'
      /\ Map[p] = node[p].frame_id /\ Map'[p] = node'[p].frame_id
      /\ Recency!Mapped = Live
  BY MapsAre
<1>2. 0 \in Recency!Depths(p)
  <2>1. p \in Live => Cardinality(Live) # 0
    BY LiveFacts, FS_EmptySet
  <2>2. Recency!Cardinality(Live) = Cardinality(Live)
    BY DEF Cardinality, Recency!Cardinality
  <2>3. p \in Live => 0 \in 0 .. Cardinality(Live) - 1
    BY <2>1, LiveFacts
  <2>4. Map[p] # Recency!NotFound => p \in Live
    BY <1>1 DEF Live, NotFound, Recency!NotFound
  <2> QED BY <1>1, <2>2, <2>3, <2>4 DEF Recency!Depths, Map
<1>3. ASSUME Answers("lookup", p, node[p].frame_id), Map' = Map
      PROVE  Recency!lookup(p)
  <2>1. Recency!Answers("lookup", p, Map[p], 0)
    BY <1>1, <1>3 DEF Answers, Recency!Answers
  <2> QED BY <1>2, <1>3, <2>1 DEF Recency!lookup, Map, NotFound, Recency!NotFound
<1>4. CASE p \notin Live /\ Answers("lookup", p, NotFound) /\ Rests
  <2>1. Map' = Map /\ Forward' = Forward
    BY <1>4, RestsRefines
  <2>2. node[p].frame_id = NotFound
    BY <1>4 DEF Live
  <2>3. Map'[p] = NotFound
    BY <1>1, <2>1, <2>2
  <2>4. Recency!Uses(p)
    BY <2>1, <2>3 DEF Recency!Uses, Map, NotFound, Recency!NotFound
  <2> QED BY <1>3, <1>4, <2>1, <2>2, <2>4
<1>5. CASE /\ p \in Live /\ Answers("lookup", p, node[p].frame_id)
           /\ Becomes(list_push_front(list_detach(This, p), p))
           /\ UNCHANGED <<buckets, count>>
  <2>1. /\ \A q \in Page : node'[q].frame_id = node[q].frame_id
        /\ \E i \in 1 .. Len(Forward) :
              Forward[i] = p /\ Forward' = <<p>> \o RemoveAt(Forward, i)
    BY <1>5, LookupTouches
  <2>2. Map' = Map
    BY <1>1, <2>1 DEF Frames
  <2>3. node'[p].frame_id # NotFound
    BY <1>5, <2>1 DEF Live
  <2>4. Recency!Uses(p)
    BY <2>1, <2>3, UsedInFront
  <2> QED BY <1>3, <1>5, <2>2, <2>4
<1> QED BY <1>4, <1>5, LookupStep

\* lru_insert puts the page in the map and uses it, unless there is no memory.
LEMMA InsertRefines ==
    ASSUME Inv, Inv', NEW p \in Page, NEW f \in FrameId, lru_insert(p, f)
    PROVE  Recency!insert(p, f) /\ Recency!Uses(p)
<1>1. /\ Map = Frames /\ Map' = Frames'
      /\ Map[p] = node[p].frame_id /\ Map'[p] = node'[p].frame_id
  BY MapsAre
<1>2. Recency!Answers("insert", p, f, 0)
  BY InsertStep DEF Answers, Recency!Answers
<1>3. ASSUME \A q \in Page : node'[q].frame_id = IF q = p THEN f ELSE node[q].frame_id,
             \/ \E i \in 1 .. Len(Forward) :
                   Forward[i] = p /\ Forward' = <<p>> \o RemoveAt(Forward, i)
             \/ p \notin Live /\ Forward' = <<p>> \o Forward
      PROVE  Recency!insert(p, f) /\ Recency!Uses(p)
  <2>1. Frames' = [Frames EXCEPT ![p] = f]
    BY <1>3 DEF Frames
  <2>2. Recency!insert(p, f)
    BY <1>1, <1>2, <2>1 DEF Recency!insert, Map, NotFound, Recency!NotFound
  <2>3. node'[p].frame_id # NotFound
    BY <1>3, SizeFacts
  <2>4. Recency!Uses(p)
    BY <1>3, <2>3, UsedInFront
  <2> QED BY <2>2, <2>4
<1>4. CASE /\ p \in Live
           /\ Becomes(list_push_front(
                 list_detach([This EXCEPT !.node[p].frame_id = f], p), p))
           /\ UNCHANGED <<buckets, count>>
  BY <1>3, <1>4, InsertTouches
<1>5. CASE p \notin Live /\ Link(p, f)
  BY <1>3, <1>5, LinkStep
<1>6. CASE p \notin Live /\ OutOfMemory /\ Rests
  <2>1. Map' = Map /\ Forward' = Forward
    BY <1>6, RestsRefines
  <2>2. Map[p] = NotFound /\ Map'[p] = NotFound
    BY <1>1, <1>6, <2>1 DEF Live
  <2>3. Recency!insert(p, f)
    BY <1>2, <1>6, <2>1, <2>2 DEF Recency!insert, Map, NotFound, Recency!NotFound
  <2>4. Recency!Uses(p)
    BY <2>1, <2>2 DEF Recency!Uses, Map, NotFound, Recency!NotFound
  <2> QED BY <2>3, <2>4
<1> QED BY <1>4, <1>5, <1>6, InsertStep

\* lru_evict_victim takes out the page used least recently, if there is any.
LEMMA EvictRefines ==
    ASSUME Inv, Inv', lru_evict_victim
    PROVE  Recency!RecencyNext
<1>1. /\ Map = Frames /\ Map' = Frames'
      /\ \A p \in Page : Map[p] = node[p].frame_id
  BY MapsAre
<1>2. CASE tail = Null
  <2>1. Rests /\ Answers("evict", 0, NotFound)
    BY <1>2 DEF lru_evict_victim, Rests
  <2>2. Map' = Map /\ Forward' = Forward
    BY <2>1, RestsRefines
  <2>3. \A p \in Page : Map[p] = NotFound
    <3>1. Once(Forward) /\ tail = At(Forward, Len(Forward)) /\ ToSet(Forward) = Live
      BY ThisType DEF Inv, ListSound, Linked
    <3>2. Len(Forward) \notin 1 .. Len(Forward)
      BY <1>2, <3>1, AtType
    <3>3. Live = {}
      BY <3>1, <3>2, SetFacts DEF Once
    <3> QED BY <1>1, <3>3 DEF Live
  <2>4. Recency!evict_empty
    BY <2>1, <2>2, <2>3
    DEF Recency!evict_empty, Answers, Recency!Answers, Map, NotFound, Recency!NotFound
  <2> QED BY <2>2, <2>4 DEF Recency!RecencyNext
<1>3. CASE tail # Null
  <2>1. EvictTail /\ Answers("evict", tail, node[tail].frame_id)
    BY <1>3 DEF lru_evict_victim
  <2>2. /\ tail \in Live
        /\ \A q \in Page : node'[q].frame_id = IF q = tail THEN NotFound
                                               ELSE node[q].frame_id
        /\ Forward # <<>> /\ tail = Last(Forward) /\ Forward' = Front(Forward)
    BY <1>3, <2>1, EvictStep
  <2>3. Frames' = [Frames EXCEPT ![tail] = NotFound]
    BY <2>2 DEF Frames
  <2>4. Map[tail] = node[tail].frame_id /\ Map[tail] # NotFound
    BY <1>1, <2>2 DEF Live
  <2>5. Recency!Last(Forward) = tail /\ Recency!Front(Forward) = Front(Forward)
    BY <2>2 DEF Last, Front, Recency!Last, Recency!Front
  <2>6. Recency!evict_victim(Recency!Last(Forward))
    BY <1>1, <2>1, <2>3, <2>4, <2>5
    DEF Recency!evict_victim, Answers, Recency!Answers, Map, NotFound, Recency!NotFound
  <2> QED BY <2>2, <2>5, <2>6 DEF Recency!RecencyNext
<1> QED BY <1>2, <1>3

\* Table and list together are a map whose victim is the page used least
\* recently: every call of lru.c is a call of RecencyIndex.
THEOREM ImplementsRecency == Spec => RecencySpec
<1>1. Inv /\ Inv' /\ [Next]_vars => [Recency!RecencyNext]_Recency!recencyVars
  <2> SUFFICES ASSUME Inv, Inv', [Next]_vars
               PROVE  [Recency!RecencyNext]_Recency!recencyVars
    OBVIOUS
  <2>1. CASE UNCHANGED vars
    <3>1. Rests /\ answer' = answer
      BY <2>1 DEF vars, Rests
    <3>2. Map' = Map /\ Forward' = Forward
      BY <3>1, RestsRefines
    <3> QED BY <3>1, <3>2 DEF Recency!recencyVars, Recency!vars, Map
  <2>2. ASSUME NEW p \in Page, lru_lookup(p) PROVE Recency!RecencyNext
    BY <2>2, LookupRefines DEF Recency!RecencyNext
  <2>3. ASSUME NEW p \in Page, NEW f \in FrameId, lru_insert(p, f)
        PROVE  Recency!RecencyNext
    BY <2>3, InsertRefines DEF Recency!RecencyNext
  <2>4. CASE lru_evict_victim
    BY <2>4, EvictRefines
  <2> QED BY <2>1, <2>2, <2>3, <2>4 DEF Next
<1> QED BY InitRefines, Invariance, <1>1, PTL DEF Spec, RecencySpec, Recency!RecencySpec

=============================================================================
