---------------------------- MODULE SearchTrees ----------------------------
(***************************************************************************)
(* What Splay and Prototipo, the splay tree of the library and the one of  *)
(* the prototype, have to be told about binary search trees: the loops     *)
(* that walk them, their rotations, and what splaying does to the depth of *)
(* their nodes.  The trees are the arrays of the pointers; which records   *)
(* hold them is the business of the two modules' proofs.                   *)
(*                                                                         *)
(* A tree is whole if each node q can be given a span s[q], the pages that *)
(* may be in its subtree: the root's is all of them, a left child's is the *)
(* part of its parent's below the parent, a right child's the part above.  *)
(* What one pointer says of another and what the order says are then facts *)
(* of one node and its children, and no induction over the tree is needed. *)
(*                                                                         *)
(* A rotation is proved to keep the tree whole once, for arrays l and r    *)
(* and the two sides a and b of an order that may be exchanged.            *)
(***************************************************************************)
EXTENDS Integers, FiniteSets, TLAPS, FiniteSetTheorems, NaturalsInduction,
        WellFoundedInduction

CONSTANTS
    Page,   \* what the nodes of a tree are called
    Null    \* the pointer to none

\* What both modules assume of them.
PagesOK == Page \subseteq Nat /\ IsFiniteSet(Page) /\ Null \notin Page

-----------------------------------------------------------------------------
(* Loops and recursion.                                                    *)

\* Induction over the naturals: among some of them there is a least one.
LEMMA LeastNat ==
    ASSUME NEW S, S \subseteq Nat, S # {}
    PROVE  \E m \in S : \A y \in S : m <= y
<1> DEFINE Less == OpToRel(<, Nat)
<1>1. PICK m \in S : \A y \in S : ~(<<y, m>> \in Less)
  <2>1. IsWellFoundedOn(Less, Nat)
    BY NatLessThanWellFounded
  <2> HIDE DEF Less
  <2> QED BY <2>1, WFMin
<1>2. ASSUME NEW y \in S PROVE m <= y
  <2>1. y \in Nat /\ m \in Nat
    OBVIOUS
  <2>2. Less = {ss \in Nat \X Nat : ss[1] < ss[2]}
    BY DEF OpToRel
  <2> HIDE DEF Less
  <2>3. y < m => <<y, m>> \in Less
    BY <2>1, <2>2
  <2> QED BY <1>1, <2>1, <2>3
<1> QED BY <1>2

\* The same, as it is mostly used: what holds of 0 and is kept by adding 1.
LEMMA NatSteps ==
    ASSUME NEW I, 0 \in I, \A k \in Nat : k \in I => k + 1 \in I
    PROVE  Nat \subseteq I
<1> DEFINE Out == {k \in Nat : k \notin I}
<1> SUFFICES ASSUME Out # {} PROVE FALSE
  OBVIOUS
<1>1. PICK m \in Out : \A y \in Out : m <= y
  <2> Out \subseteq Nat
    OBVIOUS
  <2> HIDE DEF Out
  <2> QED BY LeastNat
<1>2. m \in Nat /\ m # 0
  OBVIOUS
<1>3. m - 1 \in Nat /\ ~(m <= m - 1) /\ (m - 1) + 1 = m
  BY <1>2
<1>4. m - 1 \notin Out
  <2> HIDE DEF Out
  <2> QED BY <1>1, <1>3
<1>5. m \in I
  BY <1>3, <1>4
<1> QED BY <1>1, <1>5

\* The first n turns of a loop that starts with a and whose body is g.
Turns(S, a, g, h, n) ==
    /\ h \in [0 .. n -> S]
    /\ h[0] = a
    /\ \A k \in 0 .. n - 1 : h[k + 1] = g[h[k]]

\* They are the same each time,
LEMMA TurnsAgree ==
    ASSUME NEW S, NEW a \in S, NEW g \in [S -> S], NEW n \in Nat, NEW m \in Nat,
           NEW h, NEW i, Turns(S, a, g, h, n), Turns(S, a, g, i, m)
    PROVE  \A k \in Nat : k <= n /\ k <= m => h[k] = i[k]
<1> DEFINE Same == {k \in Nat : k <= n /\ k <= m => h[k] = i[k]}
<1>1. 0 \in Same
  BY DEF Turns
<1>2. ASSUME NEW k \in Nat, k \in Same PROVE k + 1 \in Same
  <2> SUFFICES ASSUME k + 1 <= n, k + 1 <= m PROVE h[k + 1] = i[k + 1]
    OBVIOUS
  <2>1. h[k] = i[k]
    BY <1>2
  <2>2. k \in 0 .. n - 1 /\ k \in 0 .. m - 1
    OBVIOUS
  <2> QED BY <2>1, <2>2 DEF Turns
<1> HIDE DEF Same
<1>3. Nat \subseteq Same
  BY <1>1, <1>2, NatSteps
<1> QED BY <1>3 DEF Same

\* there are as many as one likes,
LEMMA TurnsExist ==
    ASSUME NEW S, NEW a \in S, NEW g \in [S -> S], NEW n \in Nat
    PROVE  \E h : Turns(S, a, g, h, n)
<1> DEFINE Long == {k \in Nat : \E h : Turns(S, a, g, h, k)}
<1>1. 0 \in Long
  <2> DEFINE h == [k \in 0 .. 0 |-> a]
  <2>1. Turns(S, a, g, h, 0)
    BY DEF Turns
  <2> QED BY <2>1
<1>2. ASSUME NEW k \in Nat, k \in Long PROVE k + 1 \in Long
  <2>1. PICK h : Turns(S, a, g, h, k)
    BY <1>2
  <2> DEFINE i == [j \in 0 .. k + 1 |-> IF j = k + 1 THEN g[h[k]] ELSE h[j]]
  <2>2. h \in [0 .. k -> S] /\ h[k] \in S /\ g[h[k]] \in S
    BY <2>1 DEF Turns
  <2>3. i \in [0 .. k + 1 -> S]
    BY <2>2
  <2>4. i[0] = a
    BY <2>1 DEF Turns
  <2>5. ASSUME NEW j \in 0 .. k PROVE i[j + 1] = g[i[j]]
    <3>1. CASE j = k
      BY <3>1
    <3>2. CASE j # k
      BY <2>1, <3>2 DEF Turns
    <3> QED BY <3>1, <3>2
  <2>6. (k + 1) - 1 = k
    OBVIOUS
  <2> HIDE DEF i
  <2>7. Turns(S, a, g, i, k + 1)
    BY <2>3, <2>4, <2>5, <2>6 DEF Turns
  <2> QED BY <2>7
<1> HIDE DEF Long
<1>3. Nat \subseteq Long
  BY <1>1, <1>2, NatSteps
<1> QED BY <1>3 DEF Long

\* and together they are the whole loop.
LEMMA Loop ==
    ASSUME NEW S, NEW a \in S, NEW g \in [S -> S]
    PROVE  \E f \in [Nat -> S] : f[0] = a /\ \A k \in Nat : f[k + 1] = g[f[k]]
<1> DEFINE H(n) == CHOOSE h : Turns(S, a, g, h, n)
           f    == [k \in Nat |-> H(k)[k]]
<1>1. ASSUME NEW n \in Nat PROVE Turns(S, a, g, H(n), n)
  BY TurnsExist
<1> HIDE DEF H
<1>2. f \in [Nat -> S]
  <2>1. ASSUME NEW k \in Nat PROVE H(k)[k] \in S
    BY <1>1 DEF Turns
  <2> QED BY <2>1
<1>3. f[0] = a
  BY <1>1 DEF Turns
<1>4. ASSUME NEW k \in Nat PROVE f[k + 1] = g[f[k]]
  <2>1. k + 1 \in Nat /\ k <= k + 1 /\ k <= k /\ k \in 0 .. (k + 1) - 1
    OBVIOUS
  <2>2. H(k + 1)[k] = H(k)[k]
    BY <1>1, <2>1, TurnsAgree
  <2>3. H(k + 1)[k + 1] = g[H(k + 1)[k]]
    BY <1>1, <2>1 DEF Turns
  <2> QED BY <2>2, <2>3
<1> HIDE DEF f
<1> QED BY <1>2, <1>3, <1>4

\* f starts at a and goes on by g, another body each time.
Stays(S, g) == \A k \in Nat : \A q \in S : g[k][q] \in S
GoesOn(a, g, f) == f[0] = a /\ \A k \in Nat : f[k + 1] = g[k][f[k]]

LEMMA LoopAt ==
    ASSUME NEW S, NEW a \in S, NEW g, Stays(S, g)
    PROVE  \E f \in [Nat -> S] : GoesOn(a, g, f)
<1> DEFINE T == Nat \X S
           G == [v \in T |-> <<v[1] + 1, g[v[1]][v[2]]>>]
           b == <<0, a>>
<1>1. PICK e \in [Nat -> T] : e[0] = b /\ \A k \in Nat : e[k + 1] = G[e[k]]
  <2>1. G \in [T -> T] /\ b \in T
    BY DEF Stays
  <2> HIDE DEF G, T, b
  <2> QED BY <2>1, Loop
<1>2. \A k \in Nat : /\ e[k][1] \in Nat /\ e[k][2] \in S
                     /\ e[k + 1] = <<e[k][1] + 1, g[e[k][1]][e[k][2]]>>
  BY <1>1 DEF Stays
<1> HIDE DEF G, T
<1> DEFINE I == {k \in Nat : e[k][1] = k}
<1>3. Nat \subseteq I
  <2>1. 0 \in I
    BY <1>1
  <2>2. ASSUME NEW k \in Nat, k \in I PROVE k + 1 \in I
    BY <1>2, <2>2
  <2> HIDE DEF I
  <2> QED BY <2>1, <2>2, NatSteps
<1>4. \A k \in Nat : e[k][1] = k
  BY <1>3
<1> HIDE DEF I
<1> DEFINE f == [k \in Nat |-> e[k][2]]
<1>5. f \in [Nat -> S]
  BY <1>2
<1>6. f[0] = a
  BY <1>1
<1>7. ASSUME NEW k \in Nat PROVE f[k + 1] = g[k][f[k]]
  <2>1. e[k + 1] = <<k + 1, g[k][e[k][2]]>>
    BY <1>2, <1>4
  <2> QED BY <2>1
<1> HIDE DEF f
<1> QED BY <1>5, <1>6, <1>7 DEF GoesOn

\* So a function that is defined from its value before, by following the pointers
\* in g, is one.
LEMMA Follow ==
    ASSUME NEW S, NEW a \in S, NEW g, \A q \in S : g[q] \in S
    PROVE  LET f == CHOOSE f : f = [k \in Nat |-> IF k = 0 THEN a ELSE g[f[k - 1]]]
           IN  f[0] = a /\ \A k \in Nat : f[k] \in S /\ f[k + 1] = g[f[k]]
<1> DEFINE Is(f) == f = [k \in Nat |-> IF k = 0 THEN a ELSE g[f[k - 1]]]
           f == CHOOSE f : Is(f)
           G == [q \in S |-> g[q]]
<1>1. PICK e \in [Nat -> S] : e[0] = a /\ \A k \in Nat : e[k + 1] = G[e[k]]
  <2>1. G \in [S -> S]
    OBVIOUS
  <2> HIDE DEF G
  <2> QED BY <2>1, Loop
<1>2. Is(e)
  <2>1. ASSUME NEW k \in Nat PROVE e[k] = IF k = 0 THEN a ELSE g[e[k - 1]]
    <3>1. CASE k = 0
      BY <1>1, <3>1
    <3>2. CASE k # 0
      <4>1. k - 1 \in Nat /\ (k - 1) + 1 = k
        BY <3>2
      <4>2. e[k] = G[e[k - 1]] /\ e[k - 1] \in S
        BY <1>1, <4>1
      <4> QED BY <3>2, <4>2
    <3> QED BY <3>1, <3>2
  <2>2. e = [k \in Nat |-> e[k]]
    BY <1>1
  <2> QED BY <2>1, <2>2
<1>3. Is(f)
  BY <1>2
<1>4. f = [k \in Nat |-> IF k = 0 THEN a ELSE g[f[k - 1]]]
  BY <1>3
<1> HIDE DEF f, G
<1>5. \A k \in Nat : f[k] = IF k = 0 THEN a ELSE g[f[k - 1]]
  BY <1>4
<1>6. ASSUME NEW k \in Nat PROVE f[k + 1] = g[f[k]]
  <2>1. k + 1 \in Nat /\ k + 1 # 0 /\ (k + 1) - 1 = k
    OBVIOUS
  <2> QED BY <1>5, <2>1
<1> DEFINE I == {k \in Nat : f[k] \in S}
<1>7. Nat \subseteq I
  <2>1. 0 \in I
    BY <1>5
  <2>2. ASSUME NEW k \in Nat, k \in I PROVE k + 1 \in I
    BY <1>6, <2>2
  <2> HIDE DEF I
  <2> QED BY <2>1, <2>2, NatSteps
<1> QED BY <1>5, <1>6, <1>7 DEF f

\* Where the loop that follows g from a is after k turns.
Walk(g, a) ==
    LET f[k \in Nat] == IF k = 0 THEN a ELSE g[f[k - 1]] IN f

LEMMA Walks ==
    ASSUME NEW S, NEW a \in S, NEW g, \A q \in S : g[q] \in S
    PROVE  /\ Walk(g, a)[0] = a
           /\ \A k \in Nat : Walk(g, a)[k] \in S /\ Walk(g, a)[k + 1] = g[Walk(g, a)[k]]
<1> DEFINE f == CHOOSE f : f = [k \in Nat |-> IF k = 0 THEN a ELSE g[f[k - 1]]]
<1>1. Walk(g, a) = f
  BY Zenon DEF Walk
<1>2. f[0] = a /\ \A k \in Nat : f[k] \in S /\ f[k + 1] = g[f[k]]
  BY Follow
<1> HIDE DEF f
<1> QED BY <1>1, <1>2

\* What it ends at, once more turns have been taken than there are pages, if each
\* one leaves fewer of them ahead, in z.
Shrinks(S, z, g) ==
    \A q \in S : /\ z[q] \subseteq Page /\ z[q] # {}
                 /\ g[q] # q => z[g[q]] \subseteq z[q] /\ z[g[q]] # z[q]

LEMMA Settles ==
    ASSUME PagesOK, NEW S, NEW z, NEW g, NEW f,
           \A k \in Nat : f[k] \in S /\ f[k + 1] = g[f[k]], Shrinks(S, z, g)
    PROVE  g[f[Cardinality(Page)]] = f[Cardinality(Page)]
<1> DEFINE N == Cardinality(Page)
           size == [q \in S |-> Cardinality(z[q])]
           I == {k \in Nat : g[f[k]] = f[k] \/ size[f[k]] + k <= N}
<1>1. N \in Nat
  BY FS_CardinalityType DEF PagesOK
<1>2. ASSUME NEW q \in S
      PROVE  /\ IsFiniteSet(z[q]) /\ size[q] = Cardinality(z[q])
             /\ size[q] \in Nat /\ size[q] <= N /\ size[q] # 0
  BY FS_Subset, FS_CardinalityType, FS_EmptySet DEF PagesOK, Shrinks
<1>3. ASSUME NEW q \in S, g[q] # q, g[q] \in S PROVE size[g[q]] < size[q]
  <2>1. z[g[q]] \subseteq z[q] /\ z[g[q]] # z[q]
    BY <1>3 DEF Shrinks
  <2>2. Cardinality(z[g[q]]) <= Cardinality(z[q]) /\ Cardinality(z[g[q]]) # Cardinality(z[q])
    BY <1>2, <2>1, FS_Subset
  <2>3. size[g[q]] \in Nat /\ size[q] \in Nat
    BY <1>2, <1>3
  <2> HIDE DEF size
  <2> QED BY <1>2, <1>3, <2>2, <2>3
<1> HIDE DEF size, N
<1>4. \A q \in S : size[q] \in Nat /\ size[q] <= N /\ size[q] # 0
  BY <1>2
<1>5. 0 \in I
  BY <1>1, <1>4
<1>6. ASSUME NEW k \in Nat, k \in I PROVE k + 1 \in I
  <2>1. f[k] \in S /\ f[k + 1] \in S /\ f[k + 1] = g[f[k]]
    OBVIOUS
  <2>2. CASE g[f[k]] = f[k]
    BY <2>1, <2>2
  <2>3. CASE g[f[k]] # f[k]
    <3>1. size[f[k + 1]] < size[f[k]] /\ size[f[k]] + k <= N
      BY <1>3, <1>6, <2>1, <2>3
    <3>2. size[f[k + 1]] \in Nat /\ size[f[k]] \in Nat
      BY <1>4, <2>1
    <3>3. size[f[k + 1]] + (k + 1) <= N
      BY <1>1, <3>1, <3>2
    <3> QED BY <3>3
  <2> QED BY <2>2, <2>3
<1>7. Nat \subseteq I
  <2> HIDE DEF I
  <2> QED BY <1>5, <1>6, NatSteps
<1>8. N \in I
  <2> HIDE DEF I
  <2> QED BY <1>1, <1>7
<1>9. g[f[N]] = f[N]
  <2>1. size[f[N]] \in Nat /\ size[f[N]] # 0
    BY <1>1, <1>4
  <2> QED BY <1>1, <1>8, <2>1
<1> QED BY <1>9 DEF N

-----------------------------------------------------------------------------
(* Binary search trees.                                                    *)

Lower == [q \in Page |-> {p \in Page : p < q}]
Upper == [q \in Page |-> {p \in Page : q < p}]

\* What the two sides of an order are to each other: all that a rotation needs
\* to know of it, and the same when the sides are exchanged.
Sides(a, b) ==
    /\ a \in [Page -> SUBSET Page]
    /\ b \in [Page -> SUBSET Page]
    /\ \A p, q \in Page :
          /\ p \in a[q] <=> q \in b[p]
          /\ p \in a[q] => a[p] \subseteq a[q] /\ b[q] \subseteq b[p]
          /\ p \in b[q] => b[p] \subseteq b[q] /\ a[q] \subseteq a[p]
          /\ p = q \/ p \in a[q] \/ p \in b[q]
    /\ \A q \in Page : q \notin a[q] /\ q \notin b[q] /\ a[q] \cap b[q] = {}

\* s[q] is the set of pages that may be in the subtree of q.  The child c[q] may
\* hold those of them on side a; without a child, no node is one of them.
Hangs(live, pa, s, c, a) ==
    \A q \in live :
       IF c[q] = Null THEN s[q] \cap a[q] \cap live = {}
       ELSE c[q] \in live /\ pa[c[q]] = q /\ s[c[q]] = s[q] \cap a[q]

\* Every node but the one on top is a child of its parent.
Top(top, live, l, r, pa, s, all) ==
    /\ live \subseteq Page
    /\ s \in [Page -> SUBSET Page]
    /\ IF top = Null THEN live = {}
       ELSE top \in live /\ pa[top] = Null /\ s[top] = all
    /\ \A q \in live : /\ q \in s[q]
                       /\ pa[q] = Null => q = top
                       /\ pa[q] # Null => pa[q] \in live /\ q \in {l[pa[q]], r[pa[q]]}

\* The nodes in live, under top, are a search tree.
Whole(top, live, l, r, pa, s, all, a, b) ==
    /\ Top(top, live, l, r, pa, s, all)
    /\ Hangs(live, pa, s, l, a)
    /\ Hangs(live, pa, s, r, b)

\* Below and above are the sides of an order.
LEMMA LowerUpper ==
    ASSUME PagesOK
    PROVE  Sides(Lower, Upper)
<1>1. /\ Lower \in [Page -> SUBSET Page] /\ Upper \in [Page -> SUBSET Page]
      /\ \A p, q \in Page : (p \in Lower[q] <=> p < q) /\ (p \in Upper[q] <=> q < p)
      /\ \A q \in Page : Lower[q] \subseteq Page /\ Upper[q] \subseteq Page
  BY DEF Lower, Upper
<1>2. \A p, q \in Page : p \in Nat /\ q \in Nat
  BY DEF PagesOK
<1>3. ASSUME NEW p \in Page, NEW q \in Page, p < q
      PROVE  Lower[p] \subseteq Lower[q] /\ Upper[q] \subseteq Upper[p]
  <2>1. ASSUME NEW r \in Page PROVE (r < p => r < q) /\ (q < r => p < r)
    BY <1>2, <1>3
  <2> QED BY <1>1, <2>1
<1>4. \A q \in Page : q \notin Lower[q] /\ q \notin Upper[q] /\ Lower[q] \cap Upper[q] = {}
  BY <1>1, <1>2
<1>5. \A p, q \in Page : p = q \/ p < q \/ q < p
  BY <1>2
<1> QED BY <1>1, <1>3, <1>4, <1>5 DEF Sides

\* Both can be looked at in a mirror.
LEMMA Mirror ==
    ASSUME NEW top, NEW live, NEW l, NEW r, NEW pa, NEW s, NEW all, NEW a, NEW b
    PROVE  /\ Sides(a, b) => Sides(b, a)
           /\ Whole(top, live, l, r, pa, s, all, a, b) => Whole(top, live, r, l, pa, s, all, b, a)
<1>1. Sides(a, b) => Sides(b, a)
  BY DEF Sides
<1>2. Top(top, live, l, r, pa, s, all) => Top(top, live, r, l, pa, s, all)
  BY DEF Top
<1> QED BY <1>1, <1>2 DEF Whole

\* A node has one parent, and is on one side of it.
LEMMA OneSide ==
    ASSUME NEW top, NEW live, NEW l, NEW r, NEW pa, NEW s, NEW all, NEW a, NEW b,
           PagesOK, Sides(a, b), Whole(top, live, l, r, pa, s, all, a, b),
           NEW x \in live, pa[x] # Null
    PROVE  /\ pa[x] \in live /\ s[x] \subseteq s[pa[x]]
           /\ pa[x] \notin s[x] /\ x # pa[x]
           /\ \/ l[pa[x]] = x /\ r[pa[x]] # x /\ s[x] = s[pa[x]] \cap a[pa[x]]
              \/ r[pa[x]] = x /\ l[pa[x]] # x /\ s[x] = s[pa[x]] \cap b[pa[x]]
<1> DEFINE p == pa[x]
<1>1. p \in live /\ x \in {l[p], r[p]} /\ x \in s[x] /\ live \subseteq Page
  BY DEF Whole, Top
<1>2. x # Null
  BY <1>1 DEF PagesOK
<1>3. l[p] = x => s[x] = s[p] \cap a[p]
  BY <1>1, <1>2 DEF Whole, Hangs
<1>4. r[p] = x => s[x] = s[p] \cap b[p]
  BY <1>1, <1>2 DEF Whole, Hangs
<1>5. p \notin a[p] /\ p \notin b[p] /\ a[p] \cap b[p] = {}
  BY <1>1 DEF Sides
<1> HIDE DEF p
<1>6. QED
  BY <1>1, <1>3, <1>4, <1>5 DEF p

-----------------------------------------------------------------------------
(* Rotations.                                                              *)

\* What becomes of the pointers when x goes up, from side l of its parent.
Turned(top, l, r, pa, x, topT, lT, rT, paT) ==
    LET p == pa[x]
        g == pa[p]
    IN  /\ topT = IF g = Null THEN x ELSE top
        /\ \A q \in Page :
              /\ lT[q] = IF q = p THEN r[x] ELSE IF q = g /\ l[g] = p THEN x ELSE l[q]
              /\ rT[q] = IF q = x THEN p ELSE IF q = g /\ r[g] = p THEN x ELSE r[q]
              /\ paT[q] = IF q = p THEN x ELSE IF q = x THEN g
                          ELSE IF q = r[x] THEN p ELSE pa[q]

\* The nodes that a rotation of x changes are different nodes.
LEMMA Kin ==
    ASSUME NEW top, NEW live, NEW l, NEW r, NEW pa, NEW s, NEW all, NEW a, NEW b,
           PagesOK, Sides(a, b), Whole(top, live, l, r, pa, s, all, a, b),
           NEW x \in live, pa[x] # Null, l[pa[x]] = x
    PROVE  /\ pa[x] \in live /\ x # pa[x] /\ x \in a[pa[x]] /\ pa[x] \in b[x]
           /\ s[x] = s[pa[x]] \cap a[pa[x]]
           /\ pa[pa[x]] \notin {x, pa[x]}
           /\ r[x] # Null => /\ r[x] \in live /\ pa[r[x]] = x
                             /\ r[x] \notin {x, pa[x], pa[pa[x]]}
<1> DEFINE p == pa[x]
           g == pa[p]
<1>0. ASSUME NEW y \in live, pa[y] # Null
      PROVE  /\ pa[y] \in live /\ s[y] \subseteq s[pa[y]]
             /\ pa[y] \notin s[y] /\ y # pa[y]
  BY <1>0, OneSide
<1>1. /\ p \in live /\ live \subseteq Page /\ x # p /\ x \in s[x] /\ p \in s[p]
      /\ s[x] = s[p] \cap a[p]
  <2>1. p \in live /\ x # p /\ live \subseteq Page /\ x \in s[x] /\ p \in s[p]
    BY <1>0 DEF Whole, Top
  <2> HIDE DEF p
  <2>2. l[p] = x /\ x # Null
    BY <2>1 DEF PagesOK, p
  <2>3. s[x] = s[p] \cap a[p]
    BY <2>1, <2>2 DEF Whole, Hangs
  <2> QED BY <2>1, <2>3
<1>2. x \in a[p] /\ p \in b[x]
  <2> HIDE DEF p
  <2> QED BY <1>1 DEF Sides
<1>3. g # Null => /\ g \in live /\ s[p] \subseteq s[g] /\ g \notin s[p]
                  /\ g \in s[g]
  BY <1>0, <1>1 DEF Whole, Top
<1>4. g \notin {x, p}
  <2>1. x \in s[p] /\ x # Null /\ p # Null
    BY <1>1 DEF PagesOK
  <2> QED BY <1>1, <1>3, <2>1
<1>5. ASSUME r[x] # Null
      PROVE  r[x] \in live /\ pa[r[x]] = x /\ r[x] \notin {x, p, g}
  <2>1. r[x] \in live /\ pa[r[x]] = x /\ s[r[x]] = s[x] \cap b[x]
    BY <1>5 DEF Whole, Hangs
  <2>2. r[x] # x /\ r[x] # p
    BY <1>1, <1>4, <2>1
  <2>3. ASSUME r[x] = g PROVE FALSE
    <3>1. g \in s[g] /\ s[g] \subseteq s[x] /\ s[x] \subseteq s[p]
      BY <1>1, <2>1, <2>3 DEF Whole, Top
    <3> HIDE DEF g, p
    <3> QED BY <1>3, <1>5, <2>3, <3>1
  <2> QED BY <2>1, <2>2, <2>3
<1> QED BY <1>1, <1>2, <1>4, <1>5

\* A rotation keeps a search tree one: x may hold what its parent could, and
\* the parent what of that is on the other side of x.
SpanT(s, x, p, b) == [q \in Page |-> IF q = x THEN s[p]
                                     ELSE IF q = p THEN s[p] \cap b[x] ELSE s[q]]

LEMMA TurnedWhole ==
    ASSUME NEW top, NEW live, NEW l, NEW r, NEW pa, NEW s, NEW all, NEW a, NEW b,
           PagesOK, Sides(a, b), Whole(top, live, l, r, pa, s, all, a, b),
           NEW x \in live, pa[x] # Null, l[pa[x]] = x,
           NEW topT, NEW lT, NEW rT, NEW paT,
           Turned(top, l, r, pa, x, topT, lT, rT, paT)
    PROVE  Whole(topT, live, lT, rT, paT, SpanT(s, x, pa[x], b), all, a, b)
<1> DEFINE p  == pa[x]
           g  == pa[p]
           i  == r[x]
           sT == SpanT(s, x, p, b)
<1>1. /\ p \in live /\ live \subseteq Page /\ x # p /\ x \in a[p] /\ p \in b[x]
      /\ s[x] = s[p] \cap a[p] /\ g \notin {x, p}
      /\ i # Null => i \in live /\ pa[i] = x /\ i \notin {x, p, g}
      /\ x # Null /\ p # Null
  <2>1. live \subseteq Page
    BY DEF Whole, Top
  <2>2. x # Null
    BY <2>1 DEF PagesOK
  <2> QED BY <2>1, <2>2, Kin
<1>2. /\ topT = IF g = Null THEN x ELSE top
      /\ \A q \in Page :
            /\ lT[q] = IF q = p THEN i ELSE IF q = g /\ l[g] = p THEN x ELSE l[q]
            /\ rT[q] = IF q = x THEN p ELSE IF q = g /\ r[g] = p THEN x ELSE r[q]
            /\ paT[q] = IF q = p THEN x ELSE IF q = x THEN g
                        ELSE IF q = i THEN p ELSE pa[q]
  BY DEF Turned
<1>3. /\ s \in [Page -> SUBSET Page]
      /\ IF top = Null THEN live = {} ELSE top \in live /\ pa[top] = Null /\ s[top] = all
      /\ \A q \in live : /\ q \in s[q]
                         /\ pa[q] = Null => q = top
                         /\ pa[q] # Null => pa[q] \in live /\ q \in {l[pa[q]], r[pa[q]]}
  BY DEF Whole, Top
<1>4. l[p] = x
  OBVIOUS
<1>5. /\ \A q \in live : IF l[q] = Null THEN s[q] \cap a[q] \cap live = {}
                         ELSE l[q] \in live /\ pa[l[q]] = q /\ s[l[q]] = s[q] \cap a[q]
      /\ \A q \in live : IF r[q] = Null THEN s[q] \cap b[q] \cap live = {}
                         ELSE r[q] \in live /\ pa[r[q]] = q /\ s[r[q]] = s[q] \cap b[q]
  BY DEF Whole, Hangs
<1>6. /\ b[p] \subseteq b[x] /\ a[x] \subseteq a[p]
      /\ a[p] \subseteq Page /\ b[x] \subseteq Page
  BY <1>1 DEF Sides
<1>7. g # Null => /\ g \in live
                  /\ (l[g] = p /\ r[g] # p) \/ (r[g] = p /\ l[g] # p)
  <2> SUFFICES ASSUME g # Null
               PROVE  g \in live /\ ((l[g] = p /\ r[g] # p) \/ (r[g] = p /\ l[g] # p))
    OBVIOUS
  <2>1. pa[p] # Null
    OBVIOUS
  <2>2. /\ pa[p] \in live
        /\ \/ l[pa[p]] = p /\ r[pa[p]] # p
           \/ r[pa[p]] = p /\ l[pa[p]] # p
    <3> HIDE DEF p
    <3> QED BY <1>1, <2>1, OneSide
  <2> QED BY <2>2
<1>8. /\ sT \in [Page -> SUBSET Page]
      /\ sT[x] = s[p] /\ sT[p] = s[p] \cap b[x]
      /\ \A q \in Page \ {x, p} : sT[q] = s[q]
  BY <1>1, <1>3 DEF SpanT
<1> HIDE DEF p, g, i, sT
<1>9. Top(topT, live, lT, rT, paT, sT, all)
  <2>1. IF topT = Null THEN live = {}
        ELSE topT \in live /\ paT[topT] = Null /\ sT[topT] = all
    <3>1. CASE g = Null
      <4>1. p = top
        BY <1>1, <1>3, <3>1 DEF g
      <4> QED BY <1>1, <1>2, <1>3, <1>8, <3>1, <4>1
    <3>2. CASE g # Null
      <4>1. top \in live /\ pa[top] = Null /\ s[top] = all
        BY <1>1, <1>3
      <4>2. top # p /\ top # x /\ top # i
        <5>1. top \in Page /\ Null \notin Page
          BY <1>1, <4>1 DEF PagesOK
        <5> QED BY <1>1, <3>2, <4>1, <5>1 DEF g, p
      <4>3. topT = top /\ paT[top] = pa[top] /\ sT[top] = s[top]
        BY <1>1, <1>2, <1>8, <3>2, <4>1, <4>2
      <4> QED BY <1>1, <4>1, <4>3 DEF PagesOK
    <3> QED BY <3>1, <3>2
  <2>2. ASSUME NEW q \in live PROVE q \in sT[q]
    BY <1>1, <1>3, <1>8
  <2>3. ASSUME NEW q \in live, paT[q] = Null PROVE q = topT
    <3>1. q # p /\ q # i
      BY <1>1, <1>2, <2>3
    <3>2. CASE q = x
      BY <1>1, <1>2, <2>3, <3>1, <3>2
    <3>3. CASE q # x
      <4>1. pa[q] = Null /\ q = top
        BY <1>1, <1>2, <1>3, <2>3, <3>1, <3>3
      <4>2. g # Null
        BY <1>1, <1>3, <3>1, <4>1 DEF g
      <4> QED BY <1>2, <4>1, <4>2
    <3> QED BY <3>2, <3>3
  <2>4. ASSUME NEW q \in live, paT[q] # Null
        PROVE  paT[q] \in live /\ q \in {lT[paT[q]], rT[paT[q]]}
    <3>1. CASE q = p
      BY <1>1, <1>2, <3>1
    <3>2. CASE q = x
      <4>1. paT[q] = g /\ g \in live /\ g # Null
        BY <1>1, <1>2, <1>7, <2>4, <3>2
      <4>2. x \in {lT[g], rT[g]}
        BY <1>1, <1>2, <1>7, <4>1
      <4> QED BY <3>2, <4>1, <4>2
    <3>3. CASE q = i /\ q # p /\ q # x
      <4>1. paT[q] = p /\ lT[p] = i
        BY <1>1, <1>2, <3>3
      <4> QED BY <1>1, <3>3, <4>1
    <3>4. CASE q # p /\ q # x /\ q # i
      <4>1. paT[q] = pa[q] /\ pa[q] \in live /\ q \in {l[pa[q]], r[pa[q]]}
        BY <1>1, <1>2, <1>3, <2>4, <3>4
      <4>2. CASE pa[q] = p
        <5>1. q = r[p]
          BY <1>4, <3>4, <4>1, <4>2
        <5>2. rT[p] = r[p]
          BY <1>1, <1>2
        <5> QED BY <4>1, <4>2, <5>1, <5>2
      <4>3. CASE pa[q] = x
        <5>1. q = l[x] /\ lT[x] = l[x]
          BY <1>1, <1>2, <3>4, <4>1, <4>3 DEF i
        <5> QED BY <4>1, <4>3, <5>1
      <4>4. CASE pa[q] = g
        BY <1>1, <1>2, <3>4, <4>1, <4>4
      <4>5. CASE pa[q] \notin {p, x, g}
        BY <1>1, <1>2, <4>1, <4>5
      <4> QED BY <4>2, <4>3, <4>4, <4>5
    <3> QED BY <3>1, <3>2, <3>3, <3>4
  <2> QED BY <1>1, <1>8, <2>1, <2>2, <2>3, <2>4 DEF Top
<1>10. ASSUME NEW q \in live, NEW c \in live, pa[c] = q, q \notin {p, x}, c # p
       PROVE  c \notin {x, p, i} /\ paT[c] = q /\ sT[c] = s[c] /\ sT[q] = s[q]
  <2>1. c # x /\ c # i
    <3>1. c \in Page /\ Null \notin Page
      BY <1>1 DEF PagesOK
    <3> QED BY <1>1, <1>10, <3>1 DEF p
  <2> QED BY <1>1, <1>2, <1>8, <1>10, <2>1
<1>11. Hangs(live, paT, sT, lT, a)
  <2> SUFFICES ASSUME NEW q \in live
               PROVE  IF lT[q] = Null THEN sT[q] \cap a[q] \cap live = {}
                      ELSE /\ lT[q] \in live /\ paT[lT[q]] = q
                           /\ sT[lT[q]] = sT[q] \cap a[q]
    BY DEF Hangs
  <2>1. CASE q = p
    <3>1. lT[q] = i /\ sT[q] = s[p] \cap b[x] /\ s[x] = s[p] \cap a[p]
      BY <1>1, <1>2, <1>8, <2>1
    <3>2. i = Null => s[x] \cap b[x] \cap live = {}
      BY <1>5 DEF i
    <3>3. i # Null => s[i] = s[x] \cap b[x] /\ paT[i] = p /\ sT[i] = s[i] /\ i \in live
      BY <1>1, <1>2, <1>5, <1>8 DEF i
    <3> QED BY <2>1, <3>1, <3>2, <3>3
  <2>2. CASE q = x
    <3>1. lT[q] = l[x] /\ sT[q] = s[p]
      BY <1>1, <1>2, <1>8, <2>2
    <3>2. s[p] \cap a[x] = s[x] \cap a[x]
      BY <1>1, <1>6
    <3>3. CASE l[x] = Null
      BY <1>5, <2>2, <3>1, <3>2, <3>3
    <3>4. CASE l[x] # Null
      <4>1. l[x] \in live /\ pa[l[x]] = x /\ s[l[x]] = s[x] \cap a[x]
        BY <1>5, <3>4
      <4>2. l[x] # x /\ l[x] # p
        BY <1>1, <4>1 DEF p, g
      <4>3. l[x] # i
        <5>1. ~(l[x] = i)
          <6> SUFFICES ASSUME l[x] = i PROVE FALSE
            OBVIOUS
          <6>1. i # Null /\ s[i] = s[x] \cap b[x]
            BY <1>5, <3>4 DEF i
          <6>2. i \in s[i] /\ a[x] \cap b[x] = {}
            BY <1>1, <1>3, <6>1 DEF Sides
          <6> QED BY <4>1, <6>1, <6>2
        <5> QED BY <5>1
      <4>4. paT[l[x]] = x /\ sT[l[x]] = s[l[x]]
        BY <1>1, <1>2, <1>8, <4>1, <4>2, <4>3
      <4> QED BY <2>2, <3>1, <3>2, <3>4, <4>1, <4>4
    <3> QED BY <3>3, <3>4
  <2>3. CASE q \notin {p, x} /\ l[q] = p
    <3>1. pa[p] = q /\ s[p] = s[q] \cap a[q] /\ q = g
      BY <1>1, <1>5, <2>3 DEF g
    <3>2. lT[q] = x /\ paT[x] = g /\ sT[x] = s[p] /\ sT[q] = s[q]
      BY <1>1, <1>2, <1>8, <2>3, <3>1
    <3> QED BY <1>1, <3>1, <3>2
  <2>4. CASE q \notin {p, x} /\ l[q] # p
    <3>1. lT[q] = l[q] /\ sT[q] = s[q]
      BY <1>1, <1>2, <1>8, <2>4
    <3>2. l[q] # Null => l[q] \in live /\ pa[l[q]] = q /\ s[l[q]] = s[q] \cap a[q]
      BY <1>5
    <3>3. l[q] # Null => paT[l[q]] = q /\ sT[l[q]] = s[l[q]]
      BY <1>10, <2>4, <3>2
    <3> QED BY <1>5, <3>1, <3>2, <3>3
  <2> QED BY <2>1, <2>2, <2>3, <2>4
<1>12. Hangs(live, paT, sT, rT, b)
  <2> SUFFICES ASSUME NEW q \in live
               PROVE  IF rT[q] = Null THEN sT[q] \cap b[q] \cap live = {}
                      ELSE /\ rT[q] \in live /\ paT[rT[q]] = q
                           /\ sT[rT[q]] = sT[q] \cap b[q]
    BY DEF Hangs
  <2>1. CASE q = x
    BY <1>1, <1>2, <1>8, <2>1
  <2>2. CASE q = p
    <3>1. rT[q] = r[p] /\ sT[q] = s[p] \cap b[x]
      BY <1>1, <1>2, <1>8, <2>2
    <3>2. s[p] \cap b[x] \cap b[p] = s[p] \cap b[p]
      BY <1>6
    <3>3. CASE r[p] = Null
      BY <1>1, <1>5, <2>2, <3>1, <3>2, <3>3
    <3>4. CASE r[p] # Null
      <4>1. r[p] \in live /\ pa[r[p]] = p /\ s[r[p]] = s[p] \cap b[p]
        BY <1>1, <1>5, <3>4
      <4>2. r[p] # p /\ r[p] # i
        BY <1>1, <3>4, <4>1 DEF g
      <4>3. r[p] # x
        <5>1. a[p] \cap b[p] = {} /\ x \in s[x]
          BY <1>1, <1>3 DEF Sides
        <5> QED BY <1>1, <4>1, <5>1
      <4>4. paT[r[p]] = p /\ sT[r[p]] = s[r[p]]
        <5>1. paT[r[p]] = pa[r[p]]
          BY <1>1, <1>2, <4>1, <4>2, <4>3
        <5> QED BY <1>1, <1>8, <4>1, <4>2, <4>3, <5>1
      <4> QED BY <2>2, <3>1, <3>2, <3>4, <4>1, <4>4
    <3> QED BY <3>3, <3>4
  <2>3. CASE q \notin {p, x} /\ r[q] = p
    <3>1. pa[p] = q /\ s[p] = s[q] \cap b[q] /\ q = g
      BY <1>1, <1>5, <2>3 DEF g
    <3>2. rT[q] = x /\ paT[x] = g /\ sT[x] = s[p] /\ sT[q] = s[q]
      BY <1>1, <1>2, <1>8, <2>3, <3>1
    <3> QED BY <1>1, <3>1, <3>2
  <2>4. CASE q \notin {p, x} /\ r[q] # p
    <3>1. rT[q] = r[q] /\ sT[q] = s[q]
      BY <1>1, <1>2, <1>8, <2>4
    <3>2. r[q] # Null => r[q] \in live /\ pa[r[q]] = q /\ s[r[q]] = s[q] \cap b[q]
      BY <1>5
    <3>3. r[q] # Null => paT[r[q]] = q /\ sT[r[q]] = s[r[q]]
      BY <1>10, <2>4, <3>2
    <3> QED BY <1>5, <3>1, <3>2, <3>3
  <2> QED BY <2>1, <2>2, <2>3, <2>4
<1>13. Whole(topT, live, lT, rT, paT, sT, all, a, b)
  BY <1>9, <1>11, <1>12 DEF Whole
<1> QED BY <1>13 DEF p, sT

-----------------------------------------------------------------------------
(* The tree as one value, and the depth of its nodes.                      *)

\* The shape h of a tree: its top and its three arrays.  Its nodes are those in
\* live, and what may be in it are the pages in all.
SearchTree(h, live, s, all) ==
    Whole(h.top, live, h.l, h.r, h.pa, s, all, Lower, Upper)

\* The side of p that x is on.
Side(x, p) == IF x < p THEN Lower[p] ELSE Upper[p]

\* A node, its span and its parent.
LEMMA NodeFacts ==
    ASSUME PagesOK, NEW h, NEW live, NEW s, NEW all, SearchTree(h, live, s, all),
           NEW x \in live
    PROVE  /\ x \in Page /\ x \in s[x] /\ s[x] \subseteq Page
           /\ h.pa[x] = Null => h.top = x /\ s[x] = all
           /\ h.pa[x] # Null =>
                 LET p == h.pa[x] IN
                 /\ p \in live /\ p # x /\ p \in s[p] /\ p \notin s[x]
                 /\ s[x] = s[p] \cap Side(x, p)
<1> DEFINE p == h.pa[x]
<1>1. Sides(Lower, Upper) /\ Whole(h.top, live, h.l, h.r, h.pa, s, all, Lower, Upper)
  BY LowerUpper DEF SearchTree
<1>2. /\ s \in [Page -> SUBSET Page] /\ live \subseteq Page
      /\ IF h.top = Null THEN live = {}
         ELSE h.top \in live /\ h.pa[h.top] = Null /\ s[h.top] = all
      /\ \A q \in live : q \in s[q] /\ (h.pa[q] = Null => q = h.top)
  BY <1>1 DEF Whole, Top
<1>3. ASSUME p # Null
      PROVE  /\ p \in live /\ p # x /\ p \in s[p] /\ p \notin s[x]
             /\ s[x] = s[p] \cap Side(x, p)
  <2> DEFINE pa == h.pa
  <2>1. pa[x] # Null
    BY <1>3
  <2> HIDE DEF pa
  <2>2. /\ pa[x] \in live /\ pa[x] # x /\ pa[x] \notin s[x]
        /\ \/ s[x] = s[pa[x]] \cap Lower[pa[x]]
           \/ s[x] = s[pa[x]] \cap Upper[pa[x]]
    BY <1>1, <2>1, OneSide DEF pa
  <2>3. p \in live /\ p # x /\ p \notin s[x] /\ p \in s[p] /\ p \in Page /\ x \in Page
    BY <1>2, <2>2 DEF pa
  <2>4. (x \in Lower[p] => x < p) /\ (x \in Upper[p] => ~(x < p))
    <3> HIDE DEF p
    <3>1. x \in Nat /\ p \in Nat /\ (x \in Upper[p] => p < x)
      BY <2>3 DEF PagesOK, Upper
    <3>2. x \in Lower[p] => x < p
      BY <2>3 DEF Lower
    <3> QED BY <3>1, <3>2
  <2>5. x \in s[x]
    BY <1>2
  <2> QED BY <2>2, <2>3, <2>4, <2>5 DEF Side, pa
<1> QED BY <1>2, <1>3

\* What is in the span of a node has its own span there, and its parent,
LEMMA Under ==
    ASSUME PagesOK, NEW h, NEW live, NEW s, NEW all, SearchTree(h, live, s, all)
    PROVE  \A w \in live : \A q \in live :
              q \in s[w] /\ q # w =>
                 /\ h.pa[q] # Null /\ h.pa[q] \in live /\ h.pa[q] \in s[w]
                 /\ s[q] \subseteq s[w]
<1> DEFINE Has(w) == \A q \in live :
                        q \in s[w] /\ q # w =>
                           /\ h.pa[q] # Null /\ h.pa[q] \in live /\ h.pa[q] \in s[w]
                           /\ s[q] \subseteq s[w]
           size == [w \in live |-> Cardinality(s[w] \cap live)]
           I == {n \in Nat : \A w \in live : size[w] <= n => Has(w)}
<1>1. /\ live \subseteq Page /\ IsFiniteSet(live) /\ Page \subseteq Nat /\ Null \notin Page
      /\ \A w \in live : w \in s[w] /\ s[w] \subseteq Page
      /\ \A w \in live : IF h.l[w] = Null THEN s[w] \cap Lower[w] \cap live = {}
                         ELSE /\ h.l[w] \in live /\ h.pa[h.l[w]] = w
                              /\ s[h.l[w]] = s[w] \cap Lower[w]
      /\ \A w \in live : IF h.r[w] = Null THEN s[w] \cap Upper[w] \cap live = {}
                         ELSE /\ h.r[w] \in live /\ h.pa[h.r[w]] = w
                              /\ s[h.r[w]] = s[w] \cap Upper[w]
  <2>1. live \subseteq Page
    BY DEF SearchTree, Whole, Top
  <2>2. IsFiniteSet(live)
    BY <2>1, FS_Subset DEF PagesOK
  <2> QED BY <2>1, <2>2 DEF SearchTree, Whole, Top, Hangs, PagesOK
<1>2. ASSUME NEW w \in live
      PROVE  /\ size[w] \in Nat /\ size[w] = Cardinality(s[w] \cap live)
             /\ IsFiniteSet(s[w] \cap live)
  <2>1. IsFiniteSet(s[w] \cap live)
    <3>1. s[w] \cap live \subseteq live
      OBVIOUS
    <3> QED BY <1>1, <3>1, FS_Subset
  <2> QED BY <2>1, FS_CardinalityType
<1>n. \A w \in live : size[w] \in Nat
  BY <1>2
<1>3. ASSUME NEW w \in live, NEW c \in live, s[c] \subseteq s[w], w \notin s[c]
      PROVE  size[c] < size[w]
  <2>1. s[c] \cap live \subseteq s[w] \cap live /\ s[c] \cap live # s[w] \cap live
    BY <1>1, <1>3
  <2>2. size[c] <= size[w] /\ size[c] # size[w]
    BY <1>2, <2>1, FS_Subset
  <2> HIDE DEF size
  <2> QED BY <1>n, <2>2
<1>4. ASSUME NEW w \in live, NEW q \in live, q \in s[w], q # w
      PROVE  \E c \in live : /\ h.pa[c] = w /\ s[c] \subseteq s[w] /\ w \notin s[c]
                             /\ q \in s[c]
  <2>1. /\ q \in Lower[w] \/ q \in Upper[w]
        /\ w \notin Lower[w] /\ w \notin Upper[w]
    <3>1. Sides(Lower, Upper)
      BY LowerUpper
    <3>2. q \in Page /\ w \in Page
      BY <1>1
    <3> QED BY <1>4, <3>1, <3>2 DEF Sides
  <2>2. CASE q \in Lower[w]
    <3>1. h.l[w] # Null
      BY <1>1, <1>4, <2>2
    <3> DEFINE c == h.l[w]
    <3>2. c \in live /\ h.pa[c] = w /\ s[c] = s[w] \cap Lower[w]
      BY <1>1, <3>1
    <3> HIDE DEF c
    <3>3. s[c] \subseteq s[w] /\ w \notin s[c] /\ q \in s[c]
      BY <1>4, <2>1, <2>2, <3>2
    <3> QED BY <3>2, <3>3
  <2>3. CASE q \in Upper[w]
    <3>1. h.r[w] # Null
      BY <1>1, <1>4, <2>3
    <3> DEFINE c == h.r[w]
    <3>2. c \in live /\ h.pa[c] = w /\ s[c] = s[w] \cap Upper[w]
      BY <1>1, <3>1
    <3> HIDE DEF c
    <3>3. s[c] \subseteq s[w] /\ w \notin s[c] /\ q \in s[c]
      BY <1>4, <2>1, <2>3, <3>2
    <3> QED BY <3>2, <3>3
  <2> QED BY <2>1, <2>2, <2>3
<1>5. 0 \in I
  <2> SUFFICES ASSUME NEW w \in live, size[w] <= 0 PROVE FALSE
    OBVIOUS
  <2>1. size[w] = 0
    <3> HIDE DEF size
    <3> QED BY <1>n
  <2>2. s[w] \cap live = {}
    BY <1>2, <2>1, FS_EmptySet
  <2> QED BY <1>1, <2>2
<1>6. ASSUME NEW n \in Nat, n \in I PROVE n + 1 \in I
  <2> SUFFICES ASSUME NEW w \in live, size[w] <= n + 1, NEW q \in live, q \in s[w], q # w
               PROVE  /\ h.pa[q] # Null /\ h.pa[q] \in live /\ h.pa[q] \in s[w]
                      /\ s[q] \subseteq s[w]
    OBVIOUS
  <2>1. PICK c \in live : /\ h.pa[c] = w /\ s[c] \subseteq s[w] /\ w \notin s[c]
                          /\ q \in s[c]
    BY <1>4
  <2>2. Has(c)
    <3>1. size[c] < size[w]
      BY <1>3, <2>1
    <3>2. size[c] <= n
      <4> HIDE DEF size
      <4> QED BY <1>n, <3>1
    <3> HIDE DEF Has, size
    <3> QED BY <1>6, <3>2
  <2>3. CASE q = c
    BY <1>1, <2>1, <2>3
  <2>4. CASE q # c
    BY <2>1, <2>2, <2>4
  <2> QED BY <2>3, <2>4
<1>7. Nat \subseteq I
  <2> HIDE DEF I
  <2> QED BY <1>5, <1>6, NatSteps
<1>8. ASSUME NEW w \in live PROVE Has(w)
  <2>1. size[w] \in Nat /\ size[w] <= size[w]
    <3>1. size[w] \in Nat
      BY <1>2
    <3> HIDE DEF size
    <3> QED BY <3>1
  <2>2. size[w] \in I
    BY <1>7, <2>1
  <2> HIDE DEF Has, size
  <2> QED BY <2>1, <2>2
<1> QED BY <1>8

\* so that the nodes above one are its ancestors and itself: those whose span it
\* is in.
Above(live, s, q) == {w \in live : q \in s[w]}

\* The number of its ancestors.
Depth(live, s, q) == Cardinality(Above(live, s, q)) - 1

LEMMA AboveChild ==
    ASSUME PagesOK, NEW h, NEW live, NEW s, NEW all, SearchTree(h, live, s, all),
           NEW q \in live
    PROVE  /\ IsFiniteSet(Above(live, s, q)) /\ Depth(live, s, q) \in Nat
           /\ h.pa[q] = Null => Above(live, s, q) = {q} /\ Depth(live, s, q) = 0
           /\ h.pa[q] # Null => /\ Above(live, s, q) = Above(live, s, h.pa[q]) \cup {q}
                                /\ Depth(live, s, q) = Depth(live, s, h.pa[q]) + 1
<1> DEFINE p == h.pa[q]
           A == Above(live, s, q)
           B == Above(live, s, p)
<1>1. ASSUME NEW w \in live
      PROVE  w \in s[w] /\ w \in Page /\ (h.pa[w] # Null =>
                  h.pa[w] \in live /\ h.pa[w] \notin s[w] /\ s[w] \subseteq s[h.pa[w]])
  <2> DEFINE v == h.pa[w]
  <2>1. /\ w \in s[w] /\ w \in Page
        /\ v # Null => v \in live /\ v \notin s[w] /\ s[w] = s[v] \cap Side(w, v)
    BY NodeFacts
  <2> HIDE DEF v
  <2>2. v # Null => s[w] \subseteq s[v]
    BY <2>1
  <2> QED BY <2>1, <2>2 DEF v
<1>2. \A w \in live : q \in s[w] /\ q # w =>
         p # Null /\ p \in live /\ p \in s[w]
  BY Under
<1>3. IsFiniteSet(live)
  <2>1. live \subseteq Page
    BY DEF SearchTree, Whole, Top
  <2> QED BY <2>1, FS_Subset DEF PagesOK
<1>4. ASSUME NEW v \in Page
      PROVE  /\ IsFiniteSet(Above(live, s, v)) /\ Cardinality(Above(live, s, v)) \in Nat
  <2>1. Above(live, s, v) \subseteq live
    BY DEF Above
  <2> QED BY <1>3, <2>1, FS_Subset, FS_CardinalityType
<1>5. q \in A /\ q \in Page
  BY <1>1 DEF Above
<1>6. IsFiniteSet(A) /\ Cardinality(A) \in Nat /\ Cardinality(A) # 0
  BY <1>4, <1>5, FS_EmptySet
<1>7. ASSUME p = Null PROVE A = {q} /\ Cardinality(A) = 1
  <2> HIDE DEF p
  <2>1. A = {q}
    BY <1>2, <1>5, <1>7 DEF Above
  <2> QED BY <2>1, FS_Singleton
<1>8. ASSUME p # Null
      PROVE  /\ A = B \cup {q}
             /\ Cardinality(A) = Cardinality(B) + 1 /\ Cardinality(B) \in Nat
  <2>1. p \in live /\ p \notin s[q] /\ s[q] \subseteq s[p] /\ p \in Page
    BY <1>1, <1>8
  <2>2. ASSUME NEW w \in live, p \in s[w] PROVE q \in s[w]
    <3>1. w = p \/ s[p] \subseteq s[w]
      <4> HIDE DEF p
      <4> QED BY <2>1, <2>2, Under
    <3> HIDE DEF p
    <3> QED BY <1>1, <2>1, <3>1
  <2> HIDE DEF p
  <2>3. A = B \cup {q} /\ q \notin B
    BY <1>2, <1>5, <2>1, <2>2 DEF Above
  <2>4. IsFiniteSet(B) /\ Cardinality(B) \in Nat
    BY <1>4, <2>1
  <2> QED BY <2>3, <2>4, FS_AddElement
<1> HIDE DEF p, A, B
<1>9. /\ Depth(live, s, q) = Cardinality(A) - 1
      /\ Depth(live, s, p) = Cardinality(B) - 1
  BY DEF Depth, A, B
<1> QED BY <1>6, <1>7, <1>8, <1>9 DEF A, B, p

\* A node is deeper than those above it.
LEMMA AboveLess ==
    ASSUME PagesOK, NEW h, NEW live, NEW s, NEW all, SearchTree(h, live, s, all),
           NEW q \in live, NEW w \in Above(live, s, q), w # q
    PROVE  Depth(live, s, w) < Depth(live, s, q)
<1> DEFINE A == Above(live, s, q)
           B == Above(live, s, w)
<1>1. w \in live /\ q \in s[w]
  BY DEF Above
<1>2. h.pa[q] # Null /\ h.pa[q] \in s[w] /\ s[q] \subseteq s[w]
  BY <1>1, Under
<1>3. q \in s[q] /\ w \in s[w] /\ h.pa[q] \notin s[q]
  <2> DEFINE p == h.pa[q]
  <2>1. q \in s[q] /\ (p # Null => p \notin s[q])
    BY NodeFacts
  <2>2. w \in s[w]
    BY <1>1, NodeFacts
  <2> QED BY <1>2, <2>1, <2>2
<1>4. w \notin s[q]
  <2>1. w \in s[q] => s[w] \subseteq s[q]
    BY <1>1, Under
  <2> QED BY <1>2, <1>3, <2>1
<1>5. B \subseteq A /\ q \in A /\ q \notin B
  <2>1. ASSUME NEW v \in B PROVE v \in A
    <3>1. v \in live /\ w \in s[v]
      BY DEF Above
    <3>2. v = w \/ s[w] \subseteq s[v]
      BY <1>1, <3>1, Under
    <3> QED BY <1>1, <3>1, <3>2 DEF Above
  <2> QED BY <1>3, <1>4, <2>1 DEF Above
<1>6. IsFiniteSet(A) /\ IsFiniteSet(B)
  BY <1>1, AboveChild
<1>7. Cardinality(B) < Cardinality(A) /\ Cardinality(A) \in Nat /\ Cardinality(B) \in Nat
  <2> HIDE DEF A, B
  <2>1. Cardinality(B) <= Cardinality(A) /\ (Cardinality(B) = Cardinality(A) => B = A)
    BY <1>5, <1>6, FS_Subset
  <2>2. Cardinality(A) \in Nat /\ Cardinality(B) \in Nat
    BY <1>6, FS_CardinalityType
  <2> QED BY <1>5, <2>1, <2>2
<1>8. Depth(live, s, w) = Cardinality(B) - 1 /\ Depth(live, s, q) = Cardinality(A) - 1
  BY DEF Depth
<1> HIDE DEF A, B
<1> QED BY <1>7, <1>8

\* i is h once a rotation has taken x up.
Lifted(h, x, i) ==
    /\ h.pa[x] # Null
    /\ IF h.l[h.pa[x]] = x
       THEN Turned(h.top, h.l, h.r, h.pa, x, i.top, i.l, i.r, i.pa)
       ELSE Turned(h.top, h.r, h.l, h.pa, x, i.top, i.r, i.l, i.pa)

\* The side of x that its parent p is on.
Beyond(x, p) == IF x < p THEN Upper[x] ELSE Lower[x]

\* The spans after that: x may hold what p could, and p what of that is on its
\* side of x.
LiftedSpan(s, x, p) ==
    [q \in Page |-> IF q = x THEN s[p]
                    ELSE IF q = p THEN s[p] \cap Beyond(x, p) ELSE s[q]]

LEMMA LiftedTree ==
    ASSUME PagesOK, NEW h, NEW live, NEW s, NEW all, SearchTree(h, live, s, all),
           NEW x \in live, NEW i, Lifted(h, x, i)
    PROVE  /\ SearchTree(i, live, LiftedSpan(s, x, h.pa[x]), all)
           /\ i.pa[x] = h.pa[h.pa[x]]
           /\ \A q \in Page \ live :
                 i.l[q] = h.l[q] /\ i.r[q] = h.r[q] /\ i.pa[q] = h.pa[q]
<1> DEFINE p == h.pa[x]
<1>1. /\ Sides(Lower, Upper) /\ Sides(Upper, Lower)
      /\ Whole(h.top, live, h.l, h.r, h.pa, s, all, Lower, Upper)
      /\ Whole(h.top, live, h.r, h.l, h.pa, s, all, Upper, Lower)
  BY LowerUpper, Mirror DEF SearchTree
<1>2. x \in Page /\ p # Null /\ p \in live /\ live \subseteq Page /\ p # x
  BY NodeFacts DEF Lifted, SearchTree, Whole, Top
<1>3. \/ h.l[p] = x /\ s[x] = s[p] \cap Lower[p]
      \/ h.r[p] = x /\ h.l[p] # x /\ s[x] = s[p] \cap Upper[p]
  <2> DEFINE pa == h.pa
  <2>1. pa[x] # Null
    BY <1>2
  <2> HIDE DEF pa
  <2>2. \/ h.l[pa[x]] = x /\ s[x] = s[pa[x]] \cap Lower[pa[x]]
        \/ h.r[pa[x]] = x /\ h.l[pa[x]] # x /\ s[x] = s[pa[x]] \cap Upper[pa[x]]
    BY <1>1, <2>1, OneSide DEF pa
  <2>3. pa[x] = p
    BY DEF pa
  <2> HIDE DEF p
  <2> QED BY <2>2, <2>3
<1>4. /\ x \in s[x] /\ (x \in Lower[p] => x < p) /\ (x \in Upper[p] => ~(x < p))
  <2> HIDE DEF p
  <2>0. x \in s[x]
    BY NodeFacts
  <2>1. x \in Nat /\ p \in Nat /\ (x \in Upper[p] => p < x)
    BY <1>2 DEF PagesOK, Upper
  <2>2. x \in Lower[p] => x < p
    BY <1>2 DEF Lower
  <2> QED BY <2>0, <2>1, <2>2
<1>5. CASE h.l[p] = x
  <2> DEFINE pa == h.pa
  <2>1. pa[x] # Null /\ h.l[pa[x]] = x
    BY <1>2, <1>5
  <2>2. Turned(h.top, h.l, h.r, pa, x, i.top, i.l, i.r, i.pa)
    BY <1>5 DEF Lifted
  <2>3. x < p
    <3> HIDE DEF p
    <3> QED BY <1>1, <1>2, <1>3, <1>4, <1>5 DEF Whole, Hangs, PagesOK
  <2>4. SpanT(s, x, p, Upper) = LiftedSpan(s, x, p)
    <3> HIDE DEF p
    <3> QED BY <2>3 DEF SpanT, LiftedSpan, Beyond
  <2>5. Whole(i.top, live, i.l, i.r, i.pa, SpanT(s, x, pa[x], Upper), all, Lower, Upper)
    <3> HIDE DEF pa
    <3>1. Whole(h.top, live, h.l, h.r, pa, s, all, Lower, Upper)
      BY <1>1 DEF pa
    <3> QED BY <1>1, <2>1, <2>2, <3>1, TurnedWhole
  <2>6. SearchTree(i, live, LiftedSpan(s, x, p), all)
    BY <2>4, <2>5 DEF SearchTree
  <2>7. h.r[x] # Null => h.r[x] \in live
    BY <1>1 DEF Whole, Hangs
  <2>8. h.pa[p] # Null => h.pa[p] \in live
    BY <1>1, <1>2 DEF Whole, Top
  <2>9. \A q \in Page \ live :
                 i.l[q] = h.l[q] /\ i.r[q] = h.r[q] /\ i.pa[q] = h.pa[q]
    BY <1>2, <2>2, <2>7, <2>8 DEF Turned, PagesOK
  <2> QED BY <1>2, <2>2, <2>6, <2>9 DEF Turned
<1>6. CASE h.l[p] # x
  <2> DEFINE pa == h.pa
  <2>1. pa[x] # Null /\ h.r[pa[x]] = x
    BY <1>2, <1>3, <1>6
  <2>2. Turned(h.top, h.r, h.l, pa, x, i.top, i.r, i.l, i.pa)
    BY <1>6 DEF Lifted
  <2>3. ~(x < p)
    <3> HIDE DEF p
    <3> QED BY <1>3, <1>4, <1>6
  <2>4. SpanT(s, x, p, Lower) = LiftedSpan(s, x, p)
    <3> HIDE DEF p
    <3> QED BY <2>3 DEF SpanT, LiftedSpan, Beyond
  <2>5. Whole(i.top, live, i.r, i.l, i.pa, SpanT(s, x, pa[x], Lower), all, Upper, Lower)
    <3> HIDE DEF pa
    <3>1. Whole(h.top, live, h.r, h.l, pa, s, all, Upper, Lower)
      BY <1>1 DEF pa
    <3> QED BY <1>1, <2>1, <2>2, <3>1, TurnedWhole
  <2>6. SearchTree(i, live, LiftedSpan(s, x, p), all)
    BY <2>4, <2>5, Mirror DEF SearchTree
  <2>7. h.l[x] # Null => h.l[x] \in live
    BY <1>1 DEF Whole, Hangs
  <2>8. h.pa[p] # Null => h.pa[p] \in live
    BY <1>1, <1>2 DEF Whole, Top
  <2>9. \A q \in Page \ live :
                 i.l[q] = h.l[q] /\ i.r[q] = h.r[q] /\ i.pa[q] = h.pa[q]
    BY <1>2, <2>2, <2>7, <2>8 DEF Turned, PagesOK
  <2> QED BY <1>2, <2>2, <2>6, <2>9 DEF Turned
<1> QED BY <1>5, <1>6

\* What that does to the depth of a node q: x is one level higher and p one lower,
\* what was under x does not sink, nor rise if it has gone over to p, and the rest
\* of what was under p sinks by one.
LEMMA LiftedDepth ==
    ASSUME PagesOK, NEW h, NEW live, NEW s, NEW all, SearchTree(h, live, s, all),
           NEW x \in live, NEW i, Lifted(h, x, i), NEW q \in live
    PROVE  LET p  == h.pa[x]
               sT == LiftedSpan(s, x, p)
               d  == Depth(live, s, q)
               e  == Depth(live, sT, q)
           IN  /\ d \in Nat /\ e \in Nat
               /\ q \notin s[p] => e = d
               /\ q = x => e = d - 1
               /\ q = p => e = d + 1
               /\ q \in s[x] => e <= d
               /\ q \in s[x] /\ q \notin Beyond(x, p) => e = d - 1
               /\ e <= d + 1
<1> DEFINE p  == h.pa[x]
           sT == LiftedSpan(s, x, p)
           A  == Above(live, s, q)
           B  == Above(live, sT, q)
           R  == A \ {x, p}
<1>1. /\ x \in Page /\ p # Null /\ p \in live /\ p # x /\ x \in s[x] /\ p \in s[p]
      /\ s[x] \subseteq s[p] /\ live \subseteq Page /\ p \notin s[x] /\ p \in Page
  <2>1. h.pa[x] # Null
    BY DEF Lifted
  <2>2. live \subseteq Page
    BY DEF SearchTree, Whole, Top
  <2> QED BY <2>1, <2>2, NodeFacts
<1>2. SearchTree(i, live, sT, all)
  BY LiftedTree
<1>3. IsFiniteSet(A) /\ IsFiniteSet(B)
  <2> HIDE DEF sT
  <2> QED BY <1>2, AboveChild
<1>4. x \notin Beyond(x, p) /\ p \in Beyond(x, p)
  <2> HIDE DEF p
  <2>1. x \in Nat /\ p \in Nat
    BY <1>1 DEF PagesOK
  <2>2. x \notin Lower[x] /\ x \notin Upper[x]
    BY <1>1, <2>1 DEF Lower, Upper
  <2>3. CASE x < p
    <3>1. p \in Upper[x]
      BY <1>1, <2>3 DEF Upper
    <3> QED BY <2>2, <2>3, <3>1 DEF Beyond
  <2>4. CASE ~(x < p)
    <3>1. p < x
      BY <1>1, <2>1, <2>4
    <3>2. p \in Lower[x]
      BY <1>1, <3>1 DEF Lower
    <3> QED BY <2>2, <2>4, <3>2 DEF Beyond
  <2> QED BY <2>3, <2>4
<1> DEFINE S == Beyond(x, p)
<1>5. /\ sT[x] = s[p] /\ sT[p] = s[p] \cap S
      /\ \A w \in live \ {x, p} : sT[w] = s[w]
  <2> HIDE DEF p
  <2> QED BY <1>1 DEF LiftedSpan
<1> HIDE DEF p, sT, S
<1>6. IsFiniteSet(R) /\ Cardinality(R) \in Nat /\ x \notin R /\ p \notin R
  <2>1. R \subseteq A
    OBVIOUS
  <2> QED BY <1>3, <2>1, FS_Subset, FS_CardinalityType
<1>7. ASSUME q \notin s[p] PROVE B = A
  BY <1>1, <1>5, <1>7 DEF Above
<1>8. ASSUME q \in s[p]
      PROVE  /\ A = IF q \in s[x] THEN (R \cup {p}) \cup {x} ELSE R \cup {p}
             /\ B = IF q \in S THEN (R \cup {x}) \cup {p} ELSE R \cup {x}
  BY <1>1, <1>5, <1>8 DEF Above
<1>9. /\ Cardinality(R \cup {p}) = Cardinality(R) + 1
      /\ Cardinality(R \cup {x}) = Cardinality(R) + 1
      /\ Cardinality((R \cup {p}) \cup {x}) = Cardinality(R) + 2
      /\ Cardinality((R \cup {x}) \cup {p}) = Cardinality(R) + 2
  <2> HIDE DEF R
  <2>1. /\ IsFiniteSet(R \cup {p}) /\ Cardinality(R \cup {p}) = Cardinality(R) + 1
        /\ IsFiniteSet(R \cup {x}) /\ Cardinality(R \cup {x}) = Cardinality(R) + 1
    BY <1>6, FS_AddElement
  <2>2. x \notin R \cup {p} /\ p \notin R \cup {x}
    BY <1>1, <1>6
  <2>3. /\ Cardinality((R \cup {p}) \cup {x}) = Cardinality(R \cup {p}) + 1
        /\ Cardinality((R \cup {x}) \cup {p}) = Cardinality(R \cup {x}) + 1
    BY <2>1, <2>2, FS_AddElement
  <2> QED BY <1>6, <2>1, <2>3
<1>10. Depth(live, s, q) \in Nat /\ Depth(live, sT, q) \in Nat
  BY <1>2, AboveChild
<1>11. /\ Depth(live, s, q) = Cardinality(A) - 1
       /\ Depth(live, sT, q) = Cardinality(B) - 1
  BY DEF Depth
<1> HIDE DEF A, B, R
<1> DEFINE d == Depth(live, s, q)
           e == Depth(live, sT, q)
           n == Cardinality(R)
<1>12. CASE q \notin s[p]
  BY <1>1, <1>7, <1>10, <1>11, <1>12 DEF p, sT, S
<1>13. CASE q \in s[p]
  <2>1. /\ Cardinality(A) = IF q \in s[x] THEN n + 2 ELSE n + 1
        /\ Cardinality(B) = IF q \in S THEN n + 2 ELSE n + 1
    BY <1>8, <1>9, <1>13
  <2>2. /\ d = IF q \in s[x] THEN n + 1 ELSE n
        /\ e = IF q \in S THEN n + 1 ELSE n
        /\ n \in Nat
    <3> HIDE DEF d, e, n
    <3>1. n \in Nat
      BY <1>6 DEF n
    <3>2. d = Cardinality(A) - 1 /\ e = Cardinality(B) - 1
      BY <1>11 DEF d, e
    <3> QED BY <2>1, <3>1, <3>2
  <2>3. /\ d \in Nat /\ e \in Nat /\ e <= d + 1
        /\ q = x => e = d - 1
        /\ q = p => e = d + 1
        /\ q \in s[x] => e <= d
        /\ q \in s[x] /\ q \notin S => e = d - 1
    <3>1. (q = x => q \in s[x] /\ q \notin S) /\ (q = p => q \notin s[x] /\ q \in S)
      BY <1>1, <1>4 DEF S
    <3> HIDE DEF d, e, n
    <3> QED BY <2>2, <3>1
  <2> QED BY <1>13, <2>3 DEF p, sT, S
<1> QED BY <1>12, <1>13

-----------------------------------------------------------------------------
(* The rounds of splay.                                                    *)

\* i is h after one: a rotation if the parent of x is the root, or else two, the
\* first around the grandparent if x and its parent are on the same side.
SameSide(h, x) == (h.l[h.pa[x]] = x) <=> (h.l[h.pa[h.pa[x]]] = h.pa[x])

First(h, x, m) == IF SameSide(h, x) THEN Lifted(h, h.pa[x], m) ELSE Lifted(h, x, m)

Round(h, x, i) == IF h.pa[h.pa[x]] = Null THEN Lifted(h, x, i)
                  ELSE \E m : First(h, x, m) /\ Lifted(m, x, i)

\* The pointer says on which side of its parent a node is.
LEMMA WhichSide ==
    ASSUME PagesOK, NEW h, NEW live, NEW s, NEW all, SearchTree(h, live, s, all),
           NEW x \in live, h.pa[x] # Null
    PROVE  LET p == h.pa[x] IN
           /\ h.l[p] = x \/ h.r[p] = x
           /\ (h.l[p] = x) <=> (x < p)
           /\ h.l[p] = x => h.r[p] # x
<1> DEFINE p == h.pa[x]
<1>1. x \in Page /\ p \in live /\ x \in s[x] /\ p \in Page
  BY NodeFacts
<1>2. Sides(Lower, Upper) /\ Whole(h.top, live, h.l, h.r, h.pa, s, all, Lower, Upper)
  BY LowerUpper DEF SearchTree
<1>3. \/ h.l[p] = x /\ h.r[p] # x /\ s[x] = s[p] \cap Lower[p]
      \/ h.r[p] = x /\ h.l[p] # x /\ s[x] = s[p] \cap Upper[p]
  <2> DEFINE pa == h.pa
  <2>1. pa[x] # Null
    OBVIOUS
  <2> HIDE DEF pa
  <2>2. \/ h.l[pa[x]] = x /\ h.r[pa[x]] # x /\ s[x] = s[pa[x]] \cap Lower[pa[x]]
        \/ h.r[pa[x]] = x /\ h.l[pa[x]] # x /\ s[x] = s[pa[x]] \cap Upper[pa[x]]
    BY <1>2, <2>1, OneSide DEF pa
  <2>3. pa[x] = p
    BY DEF pa
  <2> HIDE DEF p
  <2> QED BY <2>2, <2>3
<1> HIDE DEF p
<1>4. (x \in Lower[p] => x < p) /\ (x \in Upper[p] => ~(x < p))
  <2>1. x \in Nat /\ p \in Nat /\ (x \in Upper[p] => p < x)
    BY <1>1 DEF PagesOK, Upper
  <2>2. x \in Lower[p] => x < p
    BY <1>1 DEF Lower
  <2> QED BY <2>1, <2>2
<1>5. QED
  BY <1>1, <1>3, <1>4 DEF p

\* The second rotation of a round goes around the node that the first one has
\* left above x.
Second(h, x, m) ==
    /\ m.pa[x] = IF SameSide(h, x) THEN h.pa[x] ELSE h.pa[h.pa[x]]
    /\ m.pa[m.pa[x]] = h.pa[h.pa[h.pa[x]]]

LEMMA TwoLifts ==
    ASSUME PagesOK, NEW h, NEW live, NEW s, NEW all, SearchTree(h, live, s, all),
           NEW x \in live, h.pa[x] # Null, h.pa[h.pa[x]] # Null,
           NEW m, First(h, x, m)
    PROVE  Second(h, x, m)
<1> DEFINE p == h.pa[x]
           g == h.pa[p]
<1>1. /\ x \in Page /\ p \in live /\ p # x /\ p \in Page /\ p # Null
      /\ x \in s[x] /\ p \in s[p] /\ p \notin s[x] /\ s[x] \subseteq s[p]
  BY NodeFacts
<1>2. /\ g \in live /\ g # p /\ g \in Page /\ g \in s[g] /\ g \notin s[p] /\ g # x
  <2>1. g # Null
    OBVIOUS
  <2> HIDE DEF p
  <2> QED BY <1>1, <2>1, NodeFacts
<1>3. /\ h.l[p] = x \/ h.r[p] = x
      /\ h.l[p] = x => h.r[p] # x
  BY WhichSide
<1>4. /\ h.r[x] # Null => s[h.r[x]] \subseteq s[x] /\ h.r[x] \in s[h.r[x]]
      /\ h.l[x] # Null => s[h.l[x]] \subseteq s[x] /\ h.l[x] \in s[h.l[x]]
  BY DEF SearchTree, Whole, Hangs, Top
<1>5. g # h.r[x] /\ g # h.l[x]
  <2> HIDE DEF p, g
  <2> QED BY <1>1, <1>2, <1>4 DEF PagesOK
<1>6. ASSUME Lifted(h, p, m), (h.l[p] = x) <=> (h.l[g] = p)
      PROVE  m.pa[x] = p /\ m.pa[p] = h.pa[g]
  <2>1. m.pa[p] = h.pa[g]
    <3> HIDE DEF p
    <3> QED BY <1>1, <1>6, LiftedTree DEF g
  <2>2. CASE h.l[g] = p
    <3>1. Turned(h.top, h.l, h.r, h.pa, p, m.top, m.l, m.r, m.pa)
      BY <1>6, <2>2 DEF Lifted
    <3>2. h.r[p] # x /\ x # p /\ x # h.pa[p]
      BY <1>1, <1>2, <1>3, <1>6, <2>2
    <3> HIDE DEF p
    <3>3. m.pa[x] = h.pa[x]
      BY <1>1, <3>1, <3>2 DEF Turned
    <3> QED BY <2>1, <3>3 DEF p
  <2>3. CASE h.l[g] # p
    <3>1. Turned(h.top, h.r, h.l, h.pa, p, m.top, m.r, m.l, m.pa)
      BY <1>6, <2>3 DEF Lifted
    <3>2. h.l[p] # x /\ x # p /\ x # h.pa[p]
      BY <1>1, <1>2, <1>3, <1>6, <2>3
    <3> HIDE DEF p
    <3>3. m.pa[x] = h.pa[x]
      BY <1>1, <3>1, <3>2 DEF Turned
    <3> QED BY <2>1, <3>3 DEF p
  <2> QED BY <2>2, <2>3
<1>7. ASSUME Lifted(h, x, m)
      PROVE  m.pa[x] = g /\ m.pa[g] = h.pa[g]
  <2>1. m.pa[x] = g
    BY <1>7, LiftedTree
  <2>2. m.pa[g] = h.pa[g]
    <3>1. \/ Turned(h.top, h.l, h.r, h.pa, x, m.top, m.l, m.r, m.pa)
          \/ Turned(h.top, h.r, h.l, h.pa, x, m.top, m.r, m.l, m.pa)
      BY <1>7 DEF Lifted
    <3>2. g # x /\ g # h.pa[x]
      BY <1>2
    <3> HIDE DEF p, g
    <3> QED BY <1>2, <1>5, <3>1, <3>2 DEF Turned
  <2> QED BY <2>1, <2>2
<1> QED BY <1>6, <1>7 DEF First, Second, SameSide

\* What a round does to the tree, to the spans and to the depths d, which become
\* e: x rises past its parent and grandparent; of what goes below it, what was
\* there before rises by one at least, the parent stays, the rest sinks by two at
\* most; a round of one rotation does half of that.
Climbs(live, x, p, g, s, d, sT, e) ==
    /\ p \in sT[x] /\ s[x] \subseteq sT[x]
    /\ e[x] = IF g = Null THEN d[x] - 1 ELSE d[x] - 2
    /\ e[p] = IF g = Null THEN d[p] + 1 ELSE d[p]
    /\ \A q \in live :
          /\ q \notin sT[x] => sT[q] = s[q] /\ e[q] = d[q]
          /\ q \in s[x] => e[q] <= IF g = Null THEN d[q] ELSE d[q] - 1
          /\ e[q] <= IF g = Null THEN d[q] + 1 ELSE d[q] + 2

\* The depths of all nodes.
Depths(live, s) == [q \in live |-> Depth(live, s, q)]

LEMMA RoundTree ==
    ASSUME PagesOK, NEW h, NEW live, NEW s, NEW all, SearchTree(h, live, s, all),
           NEW x \in live, h.pa[x] # Null, NEW i, Round(h, x, i)
    PROVE  /\ \A q \in Page \ live :
                 i.l[q] = h.l[q] /\ i.r[q] = h.r[q] /\ i.pa[q] = h.pa[q]
           /\ \E sT : /\ SearchTree(i, live, sT, all)
                      /\ sT[x] = IF h.pa[h.pa[x]] = Null THEN s[h.pa[x]]
                                 ELSE s[h.pa[h.pa[x]]]
                      /\ Climbs(live, x, h.pa[x], h.pa[h.pa[x]],
                                s, Depths(live, s), sT, Depths(live, sT))
<1> DEFINE p == h.pa[x]
           g == h.pa[p]
           d == Depths(live, s)
<1>1. /\ x \in Page /\ p \in live /\ p # x /\ p \in Page /\ p # Null
      /\ x \in s[x] /\ p \in s[p] /\ p \notin s[x]
      /\ s[x] = s[p] \cap Side(x, p)
  BY NodeFacts
<1>2. ASSUME g # Null
      PROVE  /\ g \in live /\ g # p /\ g \in Page /\ g \in s[g] /\ g \notin s[p]
             /\ s[p] = s[g] \cap Side(p, g) /\ g # x
  <2>1. /\ g \in live /\ g # p /\ g \in s[g] /\ g \notin s[p]
        /\ s[p] = s[g] \cap Side(p, g)
    <3> HIDE DEF p
    <3> QED BY <1>1, <1>2, NodeFacts
  <2> HIDE DEF g, p
  <2>2. g # x
    BY <1>1, <2>1
  <2> QED BY <2>1, <2>2, NodeFacts
<1>3. live \subseteq Page
  BY DEF SearchTree, Whole, Top
<1>4. ASSUME NEW q \in live PROVE d[q] = Depth(live, s, q) /\ d[q] \in Nat
  BY AboveChild DEF Depths
<1>5. CASE g = Null
  <2> DEFINE sT == LiftedSpan(s, x, p)
             e  == Depths(live, sT)
  <2>1. Lifted(h, x, i)
    BY <1>5 DEF Round
  <2>2. SearchTree(i, live, sT, all) /\ \A q \in Page \ live :
                 i.l[q] = h.l[q] /\ i.r[q] = h.r[q] /\ i.pa[q] = h.pa[q]
    BY <2>1, LiftedTree
  <2>3. ASSUME NEW q \in live
        PROVE  /\ e[q] = Depth(live, sT, q)
               /\ q \notin s[p] => e[q] = d[q]
               /\ q = x => e[q] = d[q] - 1
               /\ q = p => e[q] = d[q] + 1
               /\ q \in s[x] => e[q] <= d[q]
               /\ e[q] <= d[q] + 1
    <3>1. e[q] = Depth(live, sT, q)
      BY DEF Depths
    <3> HIDE DEF e
    <3>2. d[q] = Depth(live, s, q)
      BY <1>4
    <3> HIDE DEF d
    <3> QED BY <2>1, <3>1, <3>2, LiftedDepth
  <2>4. sT[x] = s[p] /\ \A q \in live \ {x, p} : sT[q] = s[q]
    <3> HIDE DEF p
    <3> QED BY <1>1, <1>3 DEF LiftedSpan
  <2> HIDE DEF sT, e, d, p, g
  <2>5. Climbs(live, x, p, g, s, d, sT, e)
    BY <1>1, <1>5, <2>3, <2>4 DEF Climbs
  <2> QED BY <1>5, <2>2, <2>4, <2>5 DEF p, g, d, e
<1>6. CASE g # Null
  <2>1. PICK m : /\ IF (h.l[p] = x) <=> (h.l[g] = p) THEN Lifted(h, p, m) ELSE Lifted(h, x, m)
                 /\ Lifted(m, x, i)
    BY <1>6 DEF Round, First, SameSide
  <2>2. /\ (h.l[p] = x) <=> (x < p)
        /\ h.l[p] = x \/ h.r[p] = x
        /\ h.l[p] = x => h.r[p] # x
    BY WhichSide
  <2>3. /\ (h.l[g] = p) <=> (p < g)
    <3> HIDE DEF p
    <3> QED BY <1>1, <1>6, WhichSide
  <2>4. /\ x \in Nat /\ p \in Nat /\ g \in Nat /\ x # p /\ p # g
        /\ (p < g) <=> (x < g)
    <3>1. x \in Side(p, g)
      BY <1>1, <1>2, <1>6
    <3>2. x \in Nat /\ p \in Nat /\ g \in Nat /\ x # p /\ p # g
      BY <1>1, <1>2, <1>6 DEF PagesOK
    <3>3. (x \in Lower[g] => x < g) /\ (x \in Upper[g] => g < x)
      <4> HIDE DEF p, g
      <4> QED BY <1>1, <1>2, <1>6 DEF Lower, Upper
    <3> HIDE DEF p, g
    <3> QED BY <3>1, <3>2, <3>3 DEF Side
  <2>5. CASE (h.l[p] = x) <=> (h.l[g] = p)
    <3> DEFINE s1 == LiftedSpan(s, p, g)
               sT == LiftedSpan(s1, x, p)
               c  == Depths(live, s1)
               e  == Depths(live, sT)
    <3>1. Lifted(h, p, m) /\ Lifted(m, x, i)
      BY <2>1, <2>5
    <3>2. /\ SearchTree(m, live, s1, all)
          /\ \A q \in Page \ live :
                 m.l[q] = h.l[q] /\ m.r[q] = h.r[q] /\ m.pa[q] = h.pa[q]
      <4> HIDE DEF p
      <4> QED BY <1>1, <3>1, LiftedTree
    <3>3. m.pa[x] = p
      <4>1. SameSide(h, x) /\ First(h, x, m)
        BY <2>5, <3>1 DEF SameSide, First
      <4> QED BY <1>6, <4>1, TwoLifts DEF Second
    <3>4. /\ SearchTree(i, live, sT, all)
          /\ \A q \in Page \ live :
                 i.l[q] = h.l[q] /\ i.r[q] = h.r[q] /\ i.pa[q] = h.pa[q]
      <4> HIDE DEF s1, p
      <4> QED BY <3>1, <3>2, <3>3, LiftedTree
    <3>5. /\ s1[p] = s[g] /\ s1[g] = s[g] \cap Beyond(p, g)
          /\ \A q \in live \ {p, g} : s1[q] = s[q]
      <4> HIDE DEF p, g
      <4> QED BY <1>1, <1>2, <1>3, <1>6 DEF LiftedSpan
    <3>6. /\ sT[x] = s1[p] /\ \A q \in live \ {x, p} : sT[q] = s1[q]
      <4> HIDE DEF p, g, s1
      <4> QED BY <1>1, <1>3 DEF LiftedSpan
    <3>7. ASSUME NEW q \in live
          PROVE  /\ c[q] = Depth(live, s1, q)
                 /\ q \notin s[g] => c[q] = d[q]
                 /\ q = p => c[q] = d[q] - 1
                 /\ q \in s[p] /\ q \notin Beyond(p, g) => c[q] = d[q] - 1
                 /\ c[q] <= d[q] + 1 /\ c[q] \in Nat
      <4>1. c[q] = Depth(live, s1, q) /\ d[q] = Depth(live, s, q)
        BY <1>4 DEF Depths
      <4> HIDE DEF c, d, p
      <4> QED BY <1>1, <3>1, <4>1, LiftedDepth
    <3>8. ASSUME NEW q \in live
          PROVE  /\ q \notin s1[p] => e[q] = c[q]
                 /\ q = x => e[q] = c[q] - 1
                 /\ q = p => e[q] = c[q] + 1
                 /\ q \in s1[x] => e[q] <= c[q]
                 /\ e[q] <= c[q] + 1 /\ e[q] \in Nat
      <4>1. e[q] = Depth(live, sT, q) /\ c[q] = Depth(live, s1, q)
        BY <3>7 DEF Depths
      <4> HIDE DEF c, e, p, s1
      <4> QED BY <3>1, <3>2, <3>3, <4>1, LiftedDepth
    <3>9. \A q \in s[x] : q \in s[p] /\ q \notin Beyond(p, g)
      <4> HIDE DEF p, g
      <4>1. x < p <=> p < g
        BY <2>2, <2>3, <2>5
      <4>2. Lower[p] \cap Upper[p] = {}
        <5>1. Sides(Lower, Upper)
          BY LowerUpper
        <5> QED BY <1>1, <5>1 DEF Sides
      <4> QED BY <1>1, <4>1, <4>2 DEF Side, Beyond
    <3>10. s[p] \subseteq s[g] /\ s1[x] = s[x] /\ sT[x] = s[g]
      BY <1>1, <1>2, <1>6, <3>5, <3>6
    <3> HIDE DEF s1, sT, c, e, d, p, g
    <3>11. Climbs(live, x, p, g, s, d, sT, e)
      <4>1. ASSUME NEW q \in live
            PROVE  /\ q \notin sT[x] => sT[q] = s[q] /\ e[q] = d[q]
                   /\ q \in s[x] => e[q] <= d[q] - 1
                   /\ e[q] <= d[q] + 2
        <5>1. q \notin sT[x] => q \notin {x, p, g}
          BY <1>1, <1>2, <1>6, <3>10
        <5>2. q \notin sT[x] => sT[q] = s[q]
          BY <3>5, <3>6, <5>1
        <5>3. q \notin sT[x] => e[q] = d[q]
          BY <3>5, <3>7, <3>8, <3>10
        <5>4. d[q] \in Nat /\ c[q] \in Nat /\ e[q] \in Nat
          BY <1>4, <3>7, <3>8
        <5>5. q \in s[x] => e[q] <= d[q] - 1
          BY <3>7, <3>8, <3>9, <3>10, <5>4
        <5>6. e[q] <= d[q] + 2
          BY <3>7, <3>8, <5>4
        <5> QED BY <5>2, <5>3, <5>5, <5>6
      <4>2. e[x] = d[x] - 2
        <5>1. c[x] = d[x] - 1 /\ e[x] = c[x] - 1 /\ d[x] \in Nat
          BY <1>1, <1>4, <3>7, <3>8, <3>9
        <5> QED BY <5>1
      <4>3. e[p] = d[p]
        <5>1. c[p] = d[p] - 1 /\ e[p] = c[p] + 1 /\ d[p] \in Nat
          BY <1>1, <1>4, <3>7, <3>8
        <5> QED BY <5>1
      <4>4. p \in sT[x] /\ s[x] \subseteq sT[x]
        BY <1>1, <3>10
      <4> QED BY <1>6, <4>1, <4>2, <4>3, <4>4 DEF Climbs
    <3> QED BY <1>6, <3>4, <3>10, <3>11 DEF p, g, d, e
  <2>6. CASE ~((h.l[p] = x) <=> (h.l[g] = p))
    <3> DEFINE s1 == LiftedSpan(s, x, p)
               sT == LiftedSpan(s1, x, g)
               c  == Depths(live, s1)
               e  == Depths(live, sT)
    <3>1. Lifted(h, x, m) /\ Lifted(m, x, i)
      BY <2>1, <2>6
    <3>2. /\ SearchTree(m, live, s1, all)
          /\ m.pa[x] = g
          /\ \A q \in Page \ live :
                 m.l[q] = h.l[q] /\ m.r[q] = h.r[q] /\ m.pa[q] = h.pa[q]
      BY <3>1, LiftedTree
    <3>3. /\ SearchTree(i, live, sT, all)
          /\ \A q \in Page \ live :
                 i.l[q] = h.l[q] /\ i.r[q] = h.r[q] /\ i.pa[q] = h.pa[q]
      <4> HIDE DEF s1, p, g
      <4> QED BY <3>1, <3>2, LiftedTree
    <3>4. /\ s1[x] = s[p] /\ s1[p] = s[p] \cap Beyond(x, p)
          /\ \A q \in live \ {x, p} : s1[q] = s[q]
      <4> HIDE DEF p, g
      <4> QED BY <1>1, <1>3 DEF LiftedSpan
    <3>5. /\ sT[x] = s1[g] /\ \A q \in live \ {x, g} : sT[q] = s1[q]
      <4> HIDE DEF p, g, s1
      <4> QED BY <1>1, <1>2, <1>3, <1>6 DEF LiftedSpan
    <3>6. ASSUME NEW q \in live
          PROVE  /\ c[q] = Depth(live, s1, q)
                 /\ q \notin s[p] => c[q] = d[q]
                 /\ q = x => c[q] = d[q] - 1
                 /\ q = p => c[q] = d[q] + 1
                 /\ q \in s[x] => c[q] <= d[q]
                 /\ q \in s[x] /\ q \notin Beyond(x, p) => c[q] = d[q] - 1
                 /\ c[q] <= d[q] + 1 /\ c[q] \in Nat
      <4>1. c[q] = Depth(live, s1, q) /\ d[q] = Depth(live, s, q)
        BY <1>4 DEF Depths
      <4> HIDE DEF c, d
      <4> QED BY <3>1, <4>1, LiftedDepth
    <3>7. ASSUME NEW q \in live
          PROVE  /\ q \notin s1[g] => e[q] = c[q]
                 /\ q = x => e[q] = c[q] - 1
                 /\ q \in s1[x] => e[q] <= c[q]
                 /\ q \in s1[x] /\ q \notin Beyond(x, g) => e[q] = c[q] - 1
                 /\ e[q] <= c[q] + 1 /\ e[q] \in Nat
      <4>1. e[q] = Depth(live, sT, q) /\ c[q] = Depth(live, s1, q)
        BY <3>6 DEF Depths
      <4> HIDE DEF c, e, g, s1
      <4> QED BY <3>1, <3>2, <4>1, LiftedDepth
    <3>8. /\ \A q \in Page : q \in Beyond(x, p) => q \notin Beyond(x, g)
          /\ p \in Beyond(x, p)
      <4> HIDE DEF p, g
      <4>1. x < p <=> ~(x < g)
        BY <2>2, <2>3, <2>4, <2>6
      <4>2. Lower[x] \cap Upper[x] = {}
        <5>1. Sides(Lower, Upper)
          BY LowerUpper
        <5> QED BY <1>1, <5>1 DEF Sides
      <4>3. (x < p => p \in Upper[x]) /\ (p < x => p \in Lower[x])
        BY <1>1 DEF Lower, Upper
      <4> QED BY <2>4, <4>1, <4>2, <4>3 DEF Beyond
    <3>9. s[p] \subseteq s[g] /\ s1[g] = s[g] /\ sT[x] = s[g]
      BY <1>1, <1>2, <1>6, <3>4, <3>5
    <3> HIDE DEF s1, sT, c, e, d, p, g
    <3>10. Climbs(live, x, p, g, s, d, sT, e)
      <4>1. ASSUME NEW q \in live
            PROVE  /\ q \notin sT[x] => sT[q] = s[q] /\ e[q] = d[q]
                   /\ q \in s[x] => e[q] <= d[q] - 1
                   /\ e[q] <= d[q] + 2
        <5>1. q \notin sT[x] => q \notin {x, p, g}
          BY <1>1, <1>2, <1>6, <3>9
        <5>2. q \notin sT[x] => sT[q] = s[q]
          BY <3>4, <3>5, <5>1
        <5>3. q \notin sT[x] => e[q] = d[q]
          BY <3>6, <3>7, <3>9
        <5>4. d[q] \in Nat /\ c[q] \in Nat /\ e[q] \in Nat
          BY <1>4, <3>6, <3>7
        <5>5. ASSUME q \in s[x] PROVE e[q] <= d[q] - 1
          <6>1. q \in s1[x] /\ q \in Page
            BY <1>1, <1>3, <3>4, <5>5
          <6>2. CASE q \in Beyond(x, p)
            <7>1. e[q] = c[q] - 1 /\ c[q] <= d[q]
              BY <3>6, <3>7, <3>8, <5>5, <6>1, <6>2
            <7> QED BY <5>4, <7>1
          <6>3. CASE q \notin Beyond(x, p)
            <7>1. c[q] = d[q] - 1 /\ e[q] <= c[q]
              BY <3>6, <3>7, <5>5, <6>1, <6>3
            <7> QED BY <5>4, <7>1
          <6> QED BY <6>2, <6>3
        <5>6. e[q] <= d[q] + 2
          BY <3>6, <3>7, <5>4
        <5> QED BY <5>2, <5>3, <5>5, <5>6
      <4>2. e[x] = d[x] - 2
        <5>1. c[x] = d[x] - 1 /\ e[x] = c[x] - 1 /\ d[x] \in Nat
          BY <1>4, <3>6, <3>7
        <5> QED BY <5>1
      <4>3. e[p] = d[p]
        <5>1. p \in s1[x] /\ p \notin Beyond(x, g)
          BY <1>1, <3>4, <3>8
        <5>2. c[p] = d[p] + 1 /\ e[p] = c[p] - 1 /\ d[p] \in Nat
          BY <1>1, <1>4, <3>6, <3>7, <5>1
        <5> QED BY <5>2
      <4>4. p \in sT[x] /\ s[x] \subseteq sT[x]
        BY <1>1, <3>9
      <4> QED BY <1>6, <4>1, <4>2, <4>3, <4>4 DEF Climbs
    <3> QED BY <1>6, <3>3, <3>9, <3>10 DEF p, g, d, e
  <2> QED BY <2>5, <2>6
<1> QED BY <1>5, <1>6

\* Of what goes below x in a round only the parent and the grandparent were above x.
LEMMA JoinsFromPath ==
    ASSUME PagesOK, NEW h, NEW live, NEW s, NEW all, SearchTree(h, live, s, all),
           NEW x \in live, h.pa[x] # Null,
           NEW q \in live, q # x, x \in s[q],
           q \in IF h.pa[h.pa[x]] = Null THEN s[h.pa[x]] ELSE s[h.pa[h.pa[x]]]
    PROVE  q \in {h.pa[x], h.pa[h.pa[x]]}
<1> DEFINE p == h.pa[x]
           g == h.pa[p]
<1>1. \A w \in live : \A v \in live :
         v \in s[w] /\ v # w =>
            h.pa[v] # Null /\ h.pa[v] \in live /\ h.pa[v] \in s[w] /\ s[v] \subseteq s[w]
  BY Under
<1>2. p \in live /\ p \in s[q]
  BY <1>1
<1>3. ASSUME NEW v \in live, h.pa[v] # Null
      PROVE  h.pa[v] \in live /\ h.pa[v] \notin s[v]
  <2> DEFINE w == h.pa[v]
  <2>1. w \in live /\ w \notin s[v]
    BY <1>3, NodeFacts
  <2> QED BY <2>1
<1> HIDE DEF p
<1>4. CASE q = p
  BY <1>4 DEF p
<1>5. CASE q # p
  <2>1. g # Null /\ g \in live /\ g \in s[q]
    BY <1>1, <1>2, <1>5
  <2>2. q \in s[g]
    BY <2>1 DEF p
  <2> HIDE DEF g
  <2>3. CASE q # g
    <3>1. h.pa[g] # Null /\ h.pa[g] \in s[q] /\ s[q] \subseteq s[g]
      BY <1>1, <2>1, <2>2, <2>3
    <3>2. h.pa[g] \notin s[g]
      BY <1>3, <2>1, <3>1
    <3> QED BY <3>1, <3>2
  <2> QED BY <2>3 DEF g, p
<1> QED BY <1>4, <1>5

\* Where a node at depth d may be after x, at depth X, has been splayed: at about
\* half its depth if it was above x, or else two levels lower at most.
HalfWay(X, d, above) ==
    IF ~above THEN d + 2
    ELSE IF (X - d) % 2 = 1 THEN (d \div 2) + 1
    ELSE ((d + 1) \div 2) + 2

\* The arithmetic of a round, from Y to Z levels above x.
LEMMA HalfWayRound ==
    ASSUME NEW X \in Nat, NEW Y \in Nat, NEW Z \in Nat, (X - Y) % 2 = 0,
           NEW d \in Nat, NEW e \in Nat, NEW above \in BOOLEAN
    PROVE  /\ Y = 1 /\ Z = 0 /\ d = 0 /\ e <= 1 => e - (Z \div 2) <= HalfWay(X, d, above)
           /\ Z = Y - 2 /\ d = Y - 1 /\ e <= d => e - (Z \div 2) <= HalfWay(X, d, above)
           /\ Z = Y - 2 /\ d = Y - 2 /\ e <= d + 2 => e - (Z \div 2) <= HalfWay(X, d, above)
<1>1. PICK m \in Nat : Z = 2 * m \/ Z = 2 * m + 1
  <2>1. Z \div 2 \in Nat /\ (Z = 2 * (Z \div 2) \/ Z = 2 * (Z \div 2) + 1)
    OBVIOUS
  <2> QED BY <2>1
<1>2. Z \div 2 = m
  BY <1>1
<1>3. HalfWay(X, d, above) \in {d + 2, (d \div 2) + 1, ((d + 1) \div 2) + 2}
  BY DEF HalfWay
<1>4. ASSUME Y = 1, Z = 0, d = 0, e <= 1 PROVE e - (Z \div 2) <= HalfWay(X, d, above)
  <2>1. Z \div 2 = 0 /\ d \div 2 = 0 /\ (d + 1) \div 2 = 0
    BY <1>4
  <2> QED BY <1>3, <1>4, <2>1
<1>5. ASSUME Z = Y - 2, d = Y - 1, e <= d PROVE e - (Z \div 2) <= HalfWay(X, d, above)
  <2>1. (X - d) % 2 = 1
    BY <1>5
  <2>2. d = Z + 1
    BY <1>5
  <2>3. e - m <= (d \div 2) + 1 /\ e - m <= d + 2
    BY <1>1, <1>5, <2>2
  <2> QED BY <1>2, <2>1, <2>3 DEF HalfWay
<1>6. ASSUME Z = Y - 2, d = Y - 2, e <= d + 2 PROVE e - (Z \div 2) <= HalfWay(X, d, above)
  <2>1. (X - d) % 2 = 0
    BY <1>6
  <2>2. e - m <= ((d + 1) \div 2) + 2 /\ e - m <= d + 2
    BY <1>1, <1>6
  <2> QED BY <1>2, <2>1, <2>2 DEF HalfWay
<1> QED BY <1>4, <1>5, <1>6

\* i has the pointers of h at the nodes that are not in live.
SameOutside(live, h, i) ==
    \A q \in Page \ live : i.l[q] = h.l[q] /\ i.r[q] = h.r[q] /\ i.pa[q] = h.pa[q]

\* How many rotations a round takes.
Rotations(h, x) == IF h.pa[h.pa[x]] = Null THEN 1 ELSE 2

\* h[k] and c[k] are the tree and the rotations counted after k rounds of the
\* loop of splay.
Splays(h, c, x) ==
    \A k \in Nat : IF h[k].pa[x] = Null
                   THEN h[k + 1] = h[k] /\ c[k + 1] = c[k]
                   ELSE /\ Round(h[k], x, h[k + 1])
                        /\ c[k + 1] = c[k] + Rotations(h[k], x)

\* i is h with x on top; the nodes that were above x are at about half their
\* depth, and no node has sunk by more than two.
OnTop(h, i, live, s, all, x) ==
    /\ i.pa[x] = Null /\ i.top = x
    /\ SameOutside(live, h, i)
    /\ \E sT : /\ SearchTree(i, live, sT, all)
               /\ \A q \in live \ {x} :
                     Depth(live, sT, q) <= HalfWay(Depth(live, s, x),
                                                   Depth(live, s, q), x \in s[q])

\* The loop takes x there, in as many rotations as x was deep.
LEMMA Splayed ==
    ASSUME PagesOK, NEW live, NEW s, NEW all, NEW x \in live, NEW h, NEW c,
           SearchTree(h[0], live, s, all), c[0] \in Nat, Splays(h, c, x)
    PROVE  LET N == Cardinality(Page) IN
           /\ OnTop(h[0], h[N], live, s, all, x)
           /\ c[N] = c[0] + Depth(live, s, x)
<1> DEFINE N == Cardinality(Page)
           d == Depths(live, s)
           X == d[x]
           Limit(q) == HalfWay(X, d[q], x \in s[q])
           Joined(u, e, q) == IF q \in u[x] THEN e[q] - (e[x] \div 2) <= Limit(q)
                              ELSE u[q] = s[q] /\ e[q] = d[q]
           Good(k, u) == LET e == Depths(live, u) IN
                         /\ SearchTree(h[k], live, u, all)
                         /\ SameOutside(live, h[0], h[k])
                         /\ c[k] \in Nat /\ c[k] + e[x] = c[0] + X
                         /\ e[x] = 0 \/ (e[x] + k <= X /\ (X - e[x]) % 2 = 0)
                         /\ \A q \in live \ {x} : Joined(u, e, q)
           I == {k \in Nat : \E u : Good(k, u)}
<1>1. live \subseteq Page /\ x \in Page /\ N \in Nat
  <2>1. live \subseteq Page
    BY DEF SearchTree, Whole, Top
  <2> QED BY <2>1, FS_CardinalityType DEF PagesOK
<1>2. ASSUME NEW i, NEW u, SearchTree(i, live, u, all), NEW q \in live
      PROVE  /\ Depths(live, u)[q] \in Nat
             /\ Depths(live, u)[q] = Depth(live, u, q)
             /\ i.pa[q] = Null => Depths(live, u)[q] = 0
             /\ i.pa[q] # Null =>
                   /\ i.pa[q] \in live
                   /\ Depths(live, u)[q] = Depths(live, u)[i.pa[q]] + 1
  <2>1. i.pa[q] # Null => i.pa[q] \in live
    BY <1>2, NodeFacts
  <2>2. ASSUME NEW w \in live PROVE Depths(live, u)[w] = Depth(live, u, w)
    BY DEF Depths
  <2> QED BY <1>2, <2>1, <2>2, AboveChild
<1>3. \A q \in live : d[q] \in Nat
  BY <1>2
<1>4. 0 \in I
  <2>1. ASSUME NEW q \in live \ {x} PROVE Joined(s, d, q)
    <3>1. ASSUME q \in s[x] PROVE d[q] - (d[x] \div 2) <= Limit(q)
      <4>1. x \notin s[q]
        <5> SUFFICES ASSUME x \in s[q] PROVE FALSE
          OBVIOUS
        <5>1. s[x] \subseteq s[q] /\ h[0].pa[x] \in s[q] /\ h[0].pa[x] # Null
          BY Under
        <5>2. s[q] \subseteq s[x]
          BY <3>1, Under
        <5>3. h[0].pa[x] \notin s[x]
          BY <5>1, NodeFacts
        <5> QED BY <5>1, <5>2, <5>3
      <4>2. X \in Nat /\ d[q] \in Nat
        BY <1>3
      <4>3. Limit(q) = d[q] + 2
        BY <4>1 DEF HalfWay
      <4> HIDE DEF d, X, Limit
      <4>4. d[x] \div 2 \in Nat
        BY <1>3
      <4> QED BY <4>2, <4>3, <4>4
    <3> QED BY <3>1
  <2>2. SameOutside(live, h[0], h[0])
    BY DEF SameOutside
  <2>3. X \in Nat
    BY <1>3
  <2>4. X + 0 <= X /\ (X - X) % 2 = 0
    <3> HIDE DEF X
    <3> QED BY <2>3
  <2> HIDE DEF Joined
  <2>5. Good(0, s)
    BY <2>1, <2>2, <2>4
  <2> QED BY <2>5
<1>5. ASSUME NEW k \in Nat, NEW u, Good(k, u) PROVE \E v : Good(k + 1, v)
  <2> DEFINE e == Depths(live, u)
             p == h[k].pa[x]
             g == h[k].pa[p]
  <2>1. /\ SearchTree(h[k], live, u, all)
        /\ SameOutside(live, h[0], h[k])
        /\ c[k] \in Nat /\ c[k] + e[x] = c[0] + X
        /\ e[x] = 0 \/ (e[x] + k <= X /\ (X - e[x]) % 2 = 0)
        /\ \A q \in live \ {x} : Joined(u, e, q)
    BY <1>5
  <2>2. CASE p = Null
    <3>1. h[k + 1] = h[k] /\ c[k + 1] = c[k]
      BY <2>2 DEF Splays
    <3>2. e[x] = 0
      BY <1>2, <2>1, <2>2
    <3> HIDE DEF Joined, e, d
    <3>3. Good(k + 1, u)
      BY <2>1, <3>1, <3>2 DEF e
    <3> QED BY <3>3
  <2>3. CASE p # Null
    <3>1. Round(h[k], x, h[k + 1]) /\ c[k + 1] = c[k] + Rotations(h[k], x)
      BY <2>3 DEF Splays
    <3>2. SameOutside(live, h[k], h[k + 1])
      BY <2>1, <2>3, <3>1, RoundTree DEF SameOutside
    <3>3. PICK v : /\ SearchTree(h[k + 1], live, v, all)
                   /\ v[x] = IF g = Null THEN u[p] ELSE u[g]
                   /\ Climbs(live, x, p, g, u, e, v, Depths(live, v))
      BY <2>1, <2>3, <3>1, RoundTree
    <3> DEFINE f == Depths(live, v)
    <3>4. /\ p \in live /\ e[x] = e[p] + 1 /\ e[p] \in Nat /\ e[x] \in Nat
          /\ g = Null => e[p] = 0
          /\ g # Null => g \in live /\ e[p] = e[g] + 1 /\ e[g] \in Nat
          /\ p # x /\ p \notin u[x]
          /\ g # Null => g # x
      <4>1. p \in live /\ e[x] = e[p] + 1 /\ p # x /\ p \notin u[x]
        BY <1>2, <2>1, <2>3, NodeFacts
      <4>2. e[p] \in Nat /\ e[x] \in Nat
        BY <1>2, <2>1, <4>1
      <4>3. g = Null => e[p] = 0
        <5> HIDE DEF p, e
        <5> QED BY <1>2, <2>1, <4>1 DEF e
      <4>4. g # Null => g \in live /\ e[p] = e[g] + 1 /\ e[g] \in Nat
        <5> HIDE DEF p, e
        <5> QED BY <1>2, <2>1, <4>1 DEF e
      <4> HIDE DEF e, p, g
      <4>5. g # Null => g # x
        BY <4>1, <4>2, <4>4
      <4> QED BY <4>1, <4>2, <4>3, <4>4, <4>5
    <3>5. \A q \in live : f[q] \in Nat /\ e[q] \in Nat
      BY <1>2, <2>1, <3>3
    <3>6. /\ p \in v[x] /\ u[x] \subseteq v[x]
          /\ f[x] = IF g = Null THEN e[x] - 1 ELSE e[x] - 2
          /\ f[p] = IF g = Null THEN e[p] + 1 ELSE e[p]
          /\ \A q \in live :
                /\ q \notin v[x] => v[q] = u[q] /\ f[q] = e[q]
                /\ q \in u[x] => f[q] <= IF g = Null THEN e[q] ELSE e[q] - 1
                /\ f[q] <= IF g = Null THEN e[q] + 1 ELSE e[q] + 2
      BY <3>3 DEF Climbs
    <3>7. Rotations(h[k], x) = IF g = Null THEN 1 ELSE 2
      BY DEF Rotations
    <3>8. X \in Nat /\ c[0] \in Nat
      BY <1>3
    <3>9. ASSUME NEW q \in live \ {x} PROVE Joined(v, f, q)
      <4>1. CASE q \notin v[x]
        <5>1. q \notin u[x]
          BY <3>6, <4>1
        <5>2. u[q] = s[q] /\ e[q] = d[q]
          BY <2>1, <5>1
        <5> HIDE DEF e, d, f
        <5> QED BY <3>6, <4>1, <5>2
      <4>2. CASE q \in u[x]
        <5>1. e[q] - (e[x] \div 2) <= Limit(q)
          BY <2>1, <4>2
        <5>2. q \in v[x]
          BY <3>6, <4>2
        <5>3. /\ e[q] \in Nat /\ f[q] \in Nat /\ e[x] \in Nat /\ f[x] \in Nat
              /\ g = Null => f[q] <= e[q] /\ f[x] = 0 /\ e[x] = 1
              /\ g # Null => f[q] <= e[q] - 1 /\ f[x] = e[x] - 2
          <6> HIDE DEF e, f, g, p
          <6> QED BY <3>4, <3>5, <3>6, <4>2
        <5>4. Limit(q) \in Int
          <6>1. d[q] \in Nat /\ X \in Nat
            BY <1>3
          <6> HIDE DEF d, X
          <6> QED BY <6>1 DEF HalfWay
        <5> HIDE DEF e, d, f, Limit, g
        <5>5. f[q] - (f[x] \div 2) <= Limit(q)
          <6>1. CASE g = Null
            <7>1. f[x] \div 2 = 0 /\ e[x] \div 2 = 0
              BY <5>3, <6>1
            <7> QED BY <5>1, <5>3, <5>4, <6>1, <7>1
          <6>2. CASE g # Null
            <7>1. e[x] \div 2 = (f[x] \div 2) + 1 /\ f[x] \div 2 \in Int
              BY <5>3, <6>2
            <7> QED BY <5>1, <5>3, <5>4, <6>2, <7>1
          <6> QED BY <6>1, <6>2
        <5> QED BY <5>2, <5>5
      <4>3. CASE q \in v[x] /\ q \notin u[x]
        <5>1. u[q] = s[q] /\ e[q] = d[q]
          BY <2>1, <4>3
        <5>2. x \in s[q] => q \in {p, g}
          <6> SUFFICES ASSUME x \in u[q] PROVE q \in {p, g}
            BY <5>1
          <6>1. q \in IF g = Null THEN u[p] ELSE u[g]
            BY <3>3, <4>3
          <6> QED BY <2>1, <2>3, <6>1, JoinsFromPath
        <5>3. /\ d[q] \in Nat /\ f[q] \in Nat /\ X \in Nat /\ f[x] \in Nat /\ e[x] \in Nat
              /\ g = Null => f[x] = 0 /\ e[x] = 1 /\ f[q] <= d[q] + 1
              /\ g # Null => f[x] = e[x] - 2 /\ f[q] <= d[q] + 2
              /\ (X - e[x]) % 2 = 0
              /\ q = p => d[q] = e[x] - 1 /\ f[q] = IF g = Null THEN d[q] + 1 ELSE d[q]
              /\ q = g /\ g # Null => d[q] = e[x] - 2
          <6> HIDE DEF e, f, d, X, p, g
          <6>1. /\ e[q] = d[q] /\ e[q] \in Nat /\ f[q] \in Nat /\ X \in Nat
                /\ f[x] \in Nat /\ e[x] \in Nat /\ e[x] # 0
            BY <3>4, <3>5, <3>8, <5>1
          <6>2. /\ g = Null => f[x] = 0 /\ e[x] = 1
                /\ g # Null => f[x] = e[x] - 2
            BY <3>4, <3>6
          <6>3. f[q] <= IF g = Null THEN d[q] + 1 ELSE d[q] + 2
            BY <3>6, <6>1
          <6>4. (X - e[x]) % 2 = 0
            BY <2>1, <6>1
          <6>5. q = p => d[q] = e[x] - 1 /\ f[q] = IF g = Null THEN d[q] + 1 ELSE d[q]
            BY <3>4, <3>6, <6>1
          <6>6. q = g /\ g # Null => d[q] = e[x] - 2
            BY <3>4, <6>1
          <6> QED BY <6>1, <6>2, <6>3, <6>4, <6>5, <6>6
        <5>4. g = Null => q # g
          <6> QED BY <1>1 DEF PagesOK
        <5> HIDE DEF e, d, f, X, g, p
        <5>5. f[q] - (f[x] \div 2) <= HalfWay(X, d[q], x \in s[q])
          <6>0. (x \in s[q]) \in BOOLEAN
            OBVIOUS
          <6>1. CASE x \notin s[q]
            <7>1. f[q] <= d[q] + 2
              BY <5>3
            <7>2. f[x] \div 2 \in Nat /\ HalfWay(X, d[q], x \in s[q]) = d[q] + 2
              BY <5>3, <6>1 DEF HalfWay
            <7> QED BY <5>3, <7>1, <7>2
          <6>2. CASE x \in s[q] /\ g = Null
            <7>1. e[x] = 1 /\ f[x] = 0 /\ d[q] = 0 /\ f[q] <= 1
              BY <5>2, <5>3, <5>4, <6>2
            <7>2. f[q] - (f[x] \div 2) <= HalfWay(X, d[q], TRUE)
              BY <5>3, <7>1, HalfWayRound
            <7> QED BY <6>2, <7>2
          <6>3. CASE x \in s[q] /\ g # Null /\ q = p
            <7>1. f[x] = e[x] - 2 /\ d[q] = e[x] - 1 /\ f[q] <= d[q]
              BY <5>3, <6>3
            <7>2. f[q] - (f[x] \div 2) <= HalfWay(X, d[q], TRUE)
              BY <5>3, <7>1, HalfWayRound
            <7> QED BY <6>3, <7>2
          <6>4. CASE x \in s[q] /\ g # Null /\ q # p
            <7>1. f[x] = e[x] - 2 /\ d[q] = e[x] - 2 /\ f[q] <= d[q] + 2
              BY <5>2, <5>3, <6>4
            <7>2. f[q] - (f[x] \div 2) <= HalfWay(X, d[q], TRUE)
              BY <5>3, <7>1, HalfWayRound
            <7> QED BY <6>4, <7>2
          <6> QED BY <6>1, <6>2, <6>3, <6>4
        <5> QED BY <4>3, <5>5 DEF X
      <4> QED BY <4>1, <4>2, <4>3
    <3>10. SameOutside(live, h[0], h[k + 1])
      BY <2>1, <3>2 DEF SameOutside
    <3>11. /\ c[k + 1] \in Nat /\ c[k + 1] + f[x] = c[0] + X
           /\ f[x] = 0 \/ (f[x] + (k + 1) <= X /\ (X - f[x]) % 2 = 0)
      <4> HIDE DEF e, f, d, X, p, g
      <4>1. /\ e[x] \in Nat /\ f[x] \in Nat /\ X \in Nat /\ e[x] # 0
            /\ g = Null => e[x] = 1 /\ f[x] = 0
            /\ g # Null => f[x] = e[x] - 2
        BY <3>4, <3>5, <3>6, <3>8
      <4>2. c[k] = (c[0] + X) - e[x]
        BY <2>1, <3>8, <4>1
      <4>3. c[k + 1] = c[k] + (IF g = Null THEN 1 ELSE 2)
        BY <3>1, <3>7
      <4>4. c[k + 1] \in Nat /\ c[k + 1] + f[x] = c[0] + X
        BY <2>1, <3>8, <4>1, <4>2, <4>3
      <4>5. f[x] = 0 \/ (f[x] + (k + 1) <= X /\ (X - f[x]) % 2 = 0)
        BY <2>1, <4>1
      <4> QED BY <4>4, <4>5
    <3> HIDE DEF Joined, d, X
    <3>12. Good(k + 1, v)
      BY <3>3, <3>9, <3>10, <3>11
    <3> QED BY <3>12
  <2> QED BY <2>2, <2>3
<1> HIDE DEF Good
<1>6. Nat \subseteq I
  <2>1. ASSUME NEW k \in Nat, k \in I PROVE k + 1 \in I
    BY <1>5, <2>1
  <2> HIDE DEF I
  <2> QED BY <1>4, <2>1, NatSteps
<1>7. PICK u : Good(N, u)
  <2>1. N \in I
    <3> HIDE DEF I, N
    <3> QED BY <1>1, <1>6
  <2> HIDE DEF N
  <2> QED BY <2>1
<1> DEFINE e == Depths(live, u)
<1>8. /\ SearchTree(h[N], live, u, all)
      /\ SameOutside(live, h[0], h[N])
      /\ c[N] \in Nat /\ c[N] + e[x] = c[0] + X
      /\ e[x] = 0 \/ (e[x] + N <= X /\ (X - e[x]) % 2 = 0)
      /\ \A q \in live \ {x} : Joined(u, e, q)
  BY <1>7 DEF Good
<1>9. X < N
  <2>1. /\ IsFiniteSet(Above(live, s, x)) /\ Cardinality(Above(live, s, x)) \in Nat
    BY AboveChild, FS_CardinalityType
  <2>2. Cardinality(Above(live, s, x)) <= N
    <3>1. Above(live, s, x) \subseteq Page
      BY <1>1 DEF Above
    <3> QED BY <3>1, FS_Subset DEF PagesOK
  <2>3. X = Cardinality(Above(live, s, x)) - 1
    BY DEF Depths, Depth
  <2> HIDE DEF X, N
  <2> QED BY <1>1, <2>1, <2>2, <2>3
<1>10. e[x] = 0
  <2>1. e[x] \in Nat /\ X \in Nat
    BY <1>2, <1>3, <1>8
  <2> HIDE DEF e, X, N
  <2> QED BY <1>1, <1>8, <1>9, <2>1
<1>11. h[N].pa[x] = Null
  <2> SUFFICES ASSUME h[N].pa[x] # Null PROVE FALSE
    OBVIOUS
  <2>1. /\ e[x] = e[h[N].pa[x]] + 1 /\ h[N].pa[x] \in live
    BY <1>2, <1>8
  <2>2. e[h[N].pa[x]] \in Nat
    BY <1>2, <1>8, <2>1
  <2> HIDE DEF e, N
  <2> QED BY <1>10, <2>1, <2>2
<1>12. h[N].top = x
  BY <1>8, <1>11, NodeFacts
<1>13. c[N] = c[0] + Depth(live, s, x)
  <2>1. X = Depth(live, s, x) /\ X \in Nat
    BY <1>2
  <2> HIDE DEF X, e, N
  <2> QED BY <1>8, <1>10, <2>1
<1>14. ASSUME NEW q \in live \ {x}
       PROVE  Depth(live, u, q) <= HalfWay(Depth(live, s, x), Depth(live, s, q), x \in s[q])
  <2>1. /\ e[q] = Depth(live, u, q) /\ d[q] = Depth(live, s, q) /\ X = Depth(live, s, x)
        /\ e[q] \in Nat /\ d[q] \in Nat /\ X \in Nat
    BY <1>2, <1>8
  <2>2. Limit(q) \in Int
    <3> HIDE DEF d, X
    <3> QED BY <2>1 DEF HalfWay
  <2>3. e[q] <= Limit(q)
    <3>1. CASE q \in u[x]
      <4>1. e[q] - (e[x] \div 2) <= Limit(q)
        BY <1>8, <3>1
      <4> HIDE DEF e, Limit
      <4>2. e[x] \div 2 = 0
        BY <1>10
      <4> QED BY <2>1, <2>2, <4>1, <4>2
    <3>2. CASE q \notin u[x]
      <4>1. u[q] = s[q] /\ e[q] = d[q]
        BY <1>8, <3>2
      <4>2. x \notin u[q]
        <5> SUFFICES ASSUME x \in u[q] PROVE FALSE
          OBVIOUS
        <5>1. h[N].pa[x] # Null
          BY <1>8, Under
        <5> QED BY <1>11, <5>1
      <4>3. Limit(q) = d[q] + 2
        BY <4>1, <4>2 DEF HalfWay
      <4> HIDE DEF e, d, Limit
      <4> QED BY <2>1, <4>1, <4>3
    <3> QED BY <3>1, <3>2
  <2> HIDE DEF e, d, X
  <2> QED BY <2>1, <2>3
<1> HIDE DEF N
<1> QED BY <1>8, <1>11, <1>12, <1>13, <1>14 DEF N, OnTop

-----------------------------------------------------------------------------
(* Searching.                                                              *)

\* What the search for p follows at node q.
Ahead(h, q, p) == IF p < q THEN h.l[q] ELSE h.r[q]

\* The children of a node.
Kids(h, live, s, q) ==
    /\ q \in Page /\ q \in s[q] /\ s[q] \subseteq Page
    /\ IF h.l[q] = Null THEN s[q] \cap Lower[q] \cap live = {}
       ELSE /\ h.l[q] \in live /\ h.pa[h.l[q]] = q /\ h.l[q] # q
            /\ s[h.l[q]] = s[q] \cap Lower[q]
    /\ IF h.r[q] = Null THEN s[q] \cap Upper[q] \cap live = {}
       ELSE /\ h.r[q] \in live /\ h.pa[h.r[q]] = q /\ h.r[q] # q
            /\ s[h.r[q]] = s[q] \cap Upper[q]

LEMMA KidsAre ==
    ASSUME PagesOK, NEW h, NEW live, NEW s, NEW all, SearchTree(h, live, s, all),
           NEW q \in live
    PROVE  Kids(h, live, s, q)
<1>1. /\ \A w \in live : IF h.l[w] = Null THEN s[w] \cap Lower[w] \cap live = {}
                         ELSE /\ h.l[w] \in live /\ h.pa[h.l[w]] = w
                              /\ s[h.l[w]] = s[w] \cap Lower[w]
      /\ \A w \in live : IF h.r[w] = Null THEN s[w] \cap Upper[w] \cap live = {}
                         ELSE /\ h.r[w] \in live /\ h.pa[h.r[w]] = w
                              /\ s[h.r[w]] = s[w] \cap Upper[w]
  BY DEF SearchTree, Whole, Hangs
<1>2. q \in Page /\ s[q] \subseteq Page /\ \A w \in live : w \in s[w]
  BY NodeFacts
<1>3. q \notin Lower[q] /\ q \notin Upper[q]
  BY <1>2, LowerUpper DEF Sides
<1> QED BY <1>1, <1>2, <1>3 DEF Kids

\* The other pages are on one side of a node.
LEMMA Either ==
    ASSUME PagesOK, NEW p \in Page, NEW q \in Page
    PROVE  /\ p \in Lower[q] <=> p < q
           /\ p \in Upper[q] <=> q < p
           /\ ~(p < q) => p = q \/ q < p
           /\ ~(p < q /\ q < p) /\ (p = q => ~(p < q))
BY DEF PagesOK, Lower, Upper

\* What is below a node is below one of its children, and the searches for what
\* may be there go that way.
Branch(h, live, s, q, w, c) ==
    /\ c # Null /\ c \in live /\ w \in s[c] /\ s[w] \subseteq s[c] /\ s[c] \subseteq s[q]
    /\ \A p \in s[c] : p # q /\ Ahead(h, q, p) = c

LEMMA Branches ==
    ASSUME PagesOK, NEW h, NEW live, NEW s, NEW all, SearchTree(h, live, s, all),
           NEW q \in live, NEW w \in live, w \in s[q], w # q
    PROVE  Branch(h, live, s, q, w, Ahead(h, q, w))
<1> DEFINE c == Ahead(h, q, w)
<1>1. Kids(h, live, s, q) /\ w \in Page /\ q \in Page
  BY KidsAre, NodeFacts
<1>2. c # Null /\ c \in live /\ w \in s[c] /\ s[c] = s[q] \cap Side(w, q)
  <2>1. CASE w < q
    <3>1. w \in Lower[q]
      BY <1>1, <2>1, Either
    <3> QED BY <1>1, <2>1, <3>1 DEF Kids, Ahead, Side
  <2>2. CASE ~(w < q)
    <3>1. w \in Upper[q]
      BY <1>1, <2>2, Either
    <3> QED BY <1>1, <2>2, <3>1 DEF Kids, Ahead, Side
  <2> QED BY <2>1, <2>2
<1>3. s[w] \subseteq s[c]
  <2> HIDE DEF c
  <2>1. CASE w = c
    BY <2>1
  <2>2. CASE w # c
    BY <1>2, <2>2, Under
  <2> QED BY <2>1, <2>2
<1>4. ASSUME NEW p \in s[c] PROVE p # q /\ Ahead(h, q, p) = c
  <2>1. p \in Page /\ p \in Side(w, q)
    BY <1>1, <1>2 DEF Kids
  <2>2. CASE w < q
    <3>1. p < q /\ p # q
      BY <1>1, <2>1, <2>2, Either DEF Side
    <3> QED BY <2>2, <3>1 DEF Ahead
  <2>3. CASE ~(w < q)
    <3>1. ~(p < q) /\ p # q
      BY <1>1, <2>1, <2>3, Either DEF Side
    <3> QED BY <2>3, <3>1 DEF Ahead
  <2> QED BY <2>2, <2>3
<1> HIDE DEF c
<1>5. s[c] \subseteq s[q]
  BY <1>2
<1> QED BY <1>2, <1>3, <1>4, <1>5 DEF Branch, c

\* The root has them all.
LEMMA AllIn ==
    ASSUME PagesOK, NEW h, NEW live, NEW s, NEW all, SearchTree(h, live, s, all),
           NEW x \in live
    PROVE  x \in all /\ h.top \in live /\ h.top # Null /\ s[h.top] = all
<1> DEFINE S == {w \in live : x \in s[w]}
           g == [w \in live |-> IF h.pa[w] = Null THEN w ELSE h.pa[w]]
           z == [w \in live |-> (Page \ s[w]) \cup {w}]
           f == Walk(g, x)
           N == Cardinality(Page)
<1>1. x \in S
  BY NodeFacts
<1>2. ASSUME NEW w \in S
      PROVE  /\ g[w] \in S
             /\ z[w] \subseteq Page /\ z[w] # {}
             /\ g[w] # w => z[g[w]] \subseteq z[w] /\ z[g[w]] # z[w]
             /\ g[w] = w => h.pa[w] = Null
  <2>1. /\ w \in Page /\ s[w] \subseteq Page /\ w \in s[w] /\ x \in s[w]
        /\ h.pa[w] # Null => /\ h.pa[w] \in live /\ h.pa[w] # w /\ h.pa[w] \in Page
                            /\ h.pa[w] \notin s[w] /\ s[w] \subseteq s[h.pa[w]]
    BY NodeFacts
  <2>2. CASE h.pa[w] = Null
    BY <2>1, <2>2
  <2>3. CASE h.pa[w] # Null
    <3>1. g[w] = h.pa[w] /\ z[w] = (Page \ s[w]) \cup {w}
      BY <2>3
    <3>2. h.pa[w] \in live /\ z[h.pa[w]] = (Page \ s[h.pa[w]]) \cup {h.pa[w]}
      BY <2>1, <2>3
    <3> HIDE DEF g, z
    <3>3. z[g[w]] \subseteq z[w] /\ w \in z[w] /\ w \notin z[g[w]]
      BY <2>1, <2>3, <3>1, <3>2
    <3> QED BY <2>1, <2>3, <3>1, <3>2, <3>3
  <2> QED BY <2>2, <2>3
<1> HIDE DEF g, z
<1>3. \A k \in Nat : f[k] \in S /\ f[k + 1] = g[f[k]]
  <2>1. \A q \in S : g[q] \in S
    BY <1>2
  <2> HIDE DEF S
  <2> QED BY <1>1, <2>1, Walks
<1>4. g[f[N]] = f[N]
  <2>1. Shrinks(S, z, g)
    BY <1>2 DEF Shrinks
  <2> HIDE DEF S, f
  <2> QED BY <1>3, <2>1, Settles
<1>5. N \in Nat
  BY FS_CardinalityType DEF PagesOK
<1>6. f[N] \in S
  <2> HIDE DEF S, f, N
  <2> QED BY <1>3, <1>5
<1>7. h.pa[f[N]] = Null /\ f[N] \in live /\ x \in s[f[N]]
  <2>1. f[N] \in live /\ x \in s[f[N]]
    BY <1>6
  <2> HIDE DEF S, f, N
  <2> QED BY <1>2, <1>4, <1>6, <2>1
<1> HIDE DEF f, N
<1>8. h.top = f[N] /\ s[f[N]] = all /\ f[N] \in Page
  BY <1>7, NodeFacts
<1> QED BY <1>7, <1>8 DEF PagesOK

\* e is where the search for p ends.
SearchEnd(h, live, s, p, e) ==
    /\ e \in live /\ p \in s[e]
    /\ p \in live <=> e = p
    /\ e # p => Ahead(h, e, p) = Null
    /\ \A w \in live : p \in s[w] => e \in s[w]

\* The body of its loop.
Searches(h, live, p, g) ==
    \A q \in live : g[q] = IF q = p \/ Ahead(h, q, p) = Null THEN q ELSE Ahead(h, q, p)

LEMMA Search ==
    ASSUME PagesOK, NEW h, NEW live, NEW s, NEW all, SearchTree(h, live, s, all),
           h.top # Null, NEW p \in Page, p \in all,
           NEW g, Searches(h, live, p, g)
    PROVE  SearchEnd(h, live, s, p, Walk(g, h.top)[Cardinality(Page)])
<1> DEFINE S == {q \in live : /\ p \in s[q]
                            /\ \A w \in live : p \in s[w] => q \in s[w] \/ w \in s[q]}
           f == Walk(g, h.top)
           N == Cardinality(Page)
<1>1. h.top \in S
  <2>1. h.top \in live /\ s[h.top] = all
    BY DEF SearchTree, Whole, Top
  <2> QED BY <2>1, AllIn
<1>2. ASSUME NEW q \in live, NEW w \in live, p \in s[q], p \in s[w], w \in s[q], w # q
      PROVE  /\ q # p /\ Ahead(h, q, p) # Null /\ w \in s[Ahead(h, q, p)]
  <2>1. Branch(h, live, s, q, w, Ahead(h, q, w))
    BY <1>2, Branches
  <2> QED BY <1>2, <2>1 DEF Branch
<1>3. ASSUME NEW q \in S
      PROVE  /\ g[q] \in S
             /\ s[q] \subseteq Page /\ s[q] # {}
             /\ g[q] # q => s[g[q]] \subseteq s[q] /\ s[g[q]] # s[q]
             /\ g[q] = q => SearchEnd(h, live, s, p, q)
  <2> DEFINE c == Ahead(h, q, p)
  <2>1. Kids(h, live, s, q) /\ g[q] = IF q = p \/ c = Null THEN q ELSE c
    BY KidsAre DEF Searches
  <2>2. /\ q \in Page /\ q \in s[q] /\ s[q] \subseteq Page /\ p \in s[q] /\ q \in live
        /\ \A w \in live : p \in s[w] => q \in s[w] \/ w \in s[q]
    BY <2>1 DEF Kids
  <2>3. q # p /\ c # Null => c \in live /\ p \in s[c] /\ s[c] \subseteq s[q] /\ q \notin s[c]
    <3>1. CASE p < q
      <4>1. c = h.l[q] /\ p \in Lower[q] /\ q \notin Lower[q]
        BY <2>2, <3>1, Either DEF Ahead
      <4> QED BY <2>1, <2>2, <4>1 DEF Kids
    <3>2. CASE ~(p < q)
      <4>1. c = h.r[q] /\ (p # q => p \in Upper[q]) /\ q \notin Upper[q]
        BY <2>2, <3>2, Either DEF Ahead
      <4> QED BY <2>1, <2>2, <4>1 DEF Kids
    <3> QED BY <3>1, <3>2
  <2>4. q # p /\ c = Null => p \notin live
    <3>1. CASE p < q
      <4>1. c = h.l[q] /\ p \in Lower[q]
        BY <2>2, <3>1, Either DEF Ahead
      <4> QED BY <2>1, <2>2, <4>1 DEF Kids
    <3>2. CASE ~(p < q)
      <4>1. c = h.r[q] /\ (p # q => p \in Upper[q])
        BY <2>2, <3>2, Either DEF Ahead
      <4> QED BY <2>1, <2>2, <4>1 DEF Kids
    <3> QED BY <3>1, <3>2
  <2> HIDE DEF c, S
  <2>5. CASE q = p \/ c = Null
    <3>1. g[q] = q
      BY <2>1, <2>5
    <3>2. ASSUME NEW w \in live, p \in s[w] PROVE q \in s[w]
      BY <1>2, <2>2, <2>5, <3>2 DEF c
    <3>3. p \in live <=> q = p
      BY <2>2, <2>4, <2>5
    <3> QED BY <2>2, <2>5, <3>1, <3>2, <3>3 DEF SearchEnd, c
  <2>6. CASE q # p /\ c # Null
    <3>1. g[q] = c /\ c # q
      BY <2>1, <2>2, <2>3, <2>6
    <3>2. ASSUME NEW w \in live, p \in s[w] PROVE c \in s[w] \/ w \in s[c]
      <4>1. CASE w \in s[q] /\ w # q
        BY <1>2, <2>2, <3>2, <4>1 DEF c
      <4>2. CASE q \in s[w]
        <5>1. s[q] \subseteq s[w]
          <6>1. CASE q = w
            BY <6>1
          <6>2. CASE q # w
            BY <2>2, <4>2, <6>2, Under
          <6> QED BY <6>1, <6>2
        <5>2. c \in s[c]
          BY <2>3, <2>6, NodeFacts
        <5> QED BY <2>3, <2>6, <5>1, <5>2
      <4> QED BY <2>2, <3>2, <4>1, <4>2
    <3>3. c \in S
      BY <2>3, <2>6, <3>2 DEF S
    <3> QED BY <2>2, <2>3, <2>6, <3>1, <3>3
  <2> QED BY <2>5, <2>6
<1>4. \A k \in Nat : f[k] \in S /\ f[k + 1] = g[f[k]]
  <2>1. \A q \in S : g[q] \in S
    BY <1>3
  <2> HIDE DEF S
  <2> QED BY <1>1, <2>1, Walks
<1>5. g[f[N]] = f[N]
  <2>1. Shrinks(S, s, g)
    BY <1>3 DEF Shrinks
  <2> HIDE DEF S, f
  <2> QED BY <1>4, <2>1, Settles
<1>6. N \in Nat
  BY FS_CardinalityType DEF PagesOK
<1>7. f[N] \in S
  <2> HIDE DEF S, f, N
  <2> QED BY <1>4, <1>6
<1>8. SearchEnd(h, live, s, p, f[N])
  <2> HIDE DEF S, f, N
  <2> QED BY <1>3, <1>5, <1>7
<1> HIDE DEF f, N
<1> QED BY <1>8 DEF f, N

\* The walk to the right ends at the greatest page.
Greatest(h, live, m) ==
    m \in live /\ h.r[m] = Null /\ \A q \in live : q = m \/ q \in Lower[m]

LEMMA Rightmost ==
    ASSUME PagesOK, NEW h, NEW live, NEW s, NEW all, SearchTree(h, live, s, all),
           h.top # Null,
           NEW g, \A q \in live : g[q] = IF h.r[q] = Null THEN q ELSE h.r[q]
    PROVE  Greatest(h, live, Walk(g, h.top)[Cardinality(Page)])
<1> DEFINE S == {q \in live : \A w \in live : w \in s[q] \/ w \in Lower[q]}
           f == Walk(g, h.top)
           N == Cardinality(Page)
<1>1. h.top \in S
  <2>1. h.top \in live /\ s[h.top] = all
    BY DEF SearchTree, Whole, Top
  <2> QED BY <2>1, AllIn
<1>2. ASSUME NEW q \in S
      PROVE  /\ g[q] \in S
             /\ s[q] \subseteq Page /\ s[q] # {}
             /\ g[q] # q => s[g[q]] \subseteq s[q] /\ s[g[q]] # s[q]
             /\ g[q] = q => Greatest(h, live, q)
  <2> DEFINE c == h.r[q]
  <2>1. Kids(h, live, s, q) /\ g[q] = IF c = Null THEN q ELSE c
    BY KidsAre
  <2>2. q \in Page /\ q \in s[q] /\ s[q] \subseteq Page /\ q \notin Upper[q]
    BY <2>1, Either DEF Kids
  <2>3. \A w \in live : w \in Page /\ (w = q \/ w \in Lower[q] \/ w \in Upper[q])
    BY <2>2, NodeFacts, Either
  <2>4. CASE c = Null
    <3>1. \A w \in live : w = q \/ w \in Lower[q]
      BY <2>1, <2>3, <2>4 DEF Kids
    <3> QED BY <2>1, <2>2, <2>4, <3>1 DEF Greatest
  <2>5. CASE c # Null
    <3>1. c \in live /\ s[c] = s[q] \cap Upper[q] /\ c # q
      BY <2>1, <2>5 DEF Kids
    <3>2. c \in Upper[q] /\ c \in Page
      BY <3>1, NodeFacts
    <3>3. ASSUME NEW w \in live PROVE w \in s[c] \/ w \in Lower[c]
      <4>1. CASE w \in Upper[q]
        BY <3>1, <4>1, <2>2, <2>3, Either
      <4>2. CASE w \in Lower[q] \/ w = q
        <5>1. q \in Lower[c] /\ (w \in Lower[q] => w \in Lower[c])
          BY <2>2, <2>3, <3>2, LowerUpper DEF Sides
        <5> QED BY <4>2, <5>1
      <4> QED BY <2>3, <4>1, <4>2
    <3> QED BY <2>1, <2>2, <2>5, <3>1, <3>3
  <2> QED BY <2>4, <2>5
<1>3. /\ f[0] = h.top
      /\ \A k \in Nat : f[k] \in S /\ f[k + 1] = g[f[k]]
  <2>1. \A q \in S : g[q] \in S
    BY <1>2
  <2> HIDE DEF S
  <2> QED BY <1>1, <2>1, Walks
<1>4. g[f[N]] = f[N]
  <2>1. Shrinks(S, s, g)
    BY <1>2 DEF Shrinks
  <2>2. \A k \in Nat : f[k] \in S /\ f[k + 1] = g[f[k]]
    BY <1>3
  <2> HIDE DEF S, f
  <2> QED BY <2>1, <2>2, Settles
<1>5. N \in Nat
  BY FS_CardinalityType DEF PagesOK
<1>6. f[N] \in S
  <2> HIDE DEF S, f, N
  <2> QED BY <1>3, <1>5
<1>7. Greatest(h, live, f[N])
  <2> HIDE DEF S, f, N
  <2> QED BY <1>2, <1>4, <1>6
<1> HIDE DEF f, N
<1> QED BY <1>7 DEF f, N

-----------------------------------------------------------------------------
(* Hanging a new leaf.                                                     *)

\* From one side: what is given up of a node's span is what no other node has
\* room for.
LeafSpan(s, x, f, a) == [q \in Page |-> IF q = x THEN s[f] \cap a[f] ELSE s[q]]

LEMMA LeafWhole ==
    ASSUME NEW top, NEW live, NEW l, NEW r, NEW pa, NEW s, NEW all, NEW a, NEW b,
           PagesOK, Sides(a, b), Whole(top, live, l, r, pa, s, all, a, b),
           NEW f \in live, l[f] = Null, NEW x \in Page, x \notin live, x \in s[f] \cap a[f],
           \A q \in live : l[q] = Null /\ x \in s[q] \cap a[q] => q = f,
           \A q \in live : r[q] = Null => x \notin s[q] \cap b[q],
           NEW lT, NEW rT, NEW paT,
           \A q \in Page : /\ lT[q] = IF q = x THEN Null ELSE IF q = f THEN x ELSE l[q]
                           /\ rT[q] = IF q = x THEN Null ELSE r[q]
                           /\ paT[q] = IF q = x THEN f ELSE pa[q]
    PROVE  Whole(top, live \cup {x}, lT, rT, paT, LeafSpan(s, x, f, a), all, a, b)
<1> DEFINE sT == LeafSpan(s, x, f, a)
           liveT == live \cup {x}
<1>1. /\ live \subseteq Page /\ s \in [Page -> SUBSET Page] /\ x # f /\ f \in Page
      /\ x # Null /\ f # Null /\ Null \notin live
      /\ IF top = Null THEN live = {} ELSE top \in live /\ pa[top] = Null /\ s[top] = all
      /\ \A q \in live : /\ q \in s[q]
                         /\ pa[q] = Null => q = top
                         /\ pa[q] # Null => pa[q] \in live /\ q \in {l[pa[q]], r[pa[q]]}
  BY DEF Whole, Top, PagesOK
<1>2. /\ \A q \in live : IF l[q] = Null THEN s[q] \cap a[q] \cap live = {}
                         ELSE l[q] \in live /\ pa[l[q]] = q /\ s[l[q]] = s[q] \cap a[q]
      /\ \A q \in live : IF r[q] = Null THEN s[q] \cap b[q] \cap live = {}
                         ELSE r[q] \in live /\ pa[r[q]] = q /\ s[r[q]] = s[q] \cap b[q]
  BY DEF Whole, Hangs
<1>3. /\ sT \in [Page -> SUBSET Page] /\ sT[x] = s[f] \cap a[f]
      /\ \A q \in live : sT[q] = s[q]
  BY <1>1 DEF LeafSpan
<1>4. x \notin a[x] /\ x \notin b[x]
  BY DEF Sides
<1> HIDE DEF sT
<1>5. Top(top, liveT, lT, rT, paT, sT, all)
  <2>1. top # Null /\ top \in live /\ paT[top] = Null /\ sT[top] = all
    BY <1>1, <1>3
  <2>2. ASSUME NEW q \in liveT
        PROVE  /\ q \in sT[q]
               /\ paT[q] = Null => q = top
               /\ paT[q] # Null => paT[q] \in liveT /\ q \in {lT[paT[q]], rT[paT[q]]}
    <3>1. CASE q = x
      <4>1. paT[q] = f /\ lT[f] = x
        BY <1>1, <3>1
      <4> QED BY <1>1, <1>3, <3>1, <4>1
    <3>2. CASE q # x
      <4>1. q \in live /\ q \in Page /\ paT[q] = pa[q] /\ q \in sT[q]
        BY <1>1, <1>3, <3>2
      <4>2. ASSUME pa[q] # Null PROVE pa[q] \in liveT /\ q \in {lT[pa[q]], rT[pa[q]]}
        <5> DEFINE w == pa[q]
        <5>1. w \in live /\ w \in Page /\ w # x /\ q \in {l[w], r[w]}
          BY <1>1, <4>1, <4>2
        <5>2. w = f => l[w] # q
          BY <1>1, <4>1
        <5> HIDE DEF w
        <5>3. w \in liveT /\ q \in {lT[w], rT[w]}
          BY <5>1, <5>2
        <5> QED BY <5>3 DEF w
      <4> QED BY <1>1, <4>1, <4>2
    <3> QED BY <3>1, <3>2
  <2>3. liveT \subseteq Page
    BY <1>1
  <2> QED BY <1>3, <2>1, <2>2, <2>3 DEF Top
<1>6. Hangs(liveT, paT, sT, lT, a)
  <2>1. ASSUME NEW q \in liveT
        PROVE  IF lT[q] = Null THEN sT[q] \cap a[q] \cap liveT = {}
               ELSE lT[q] \in liveT /\ paT[lT[q]] = q /\ sT[lT[q]] = sT[q] \cap a[q]
    <3>1. CASE q = x
      <4>1. lT[q] = Null
        BY <1>1, <3>1
      <4>2. s[f] \cap a[f] \cap live = {}
        BY <1>2
      <4> QED BY <1>1, <1>3, <1>4, <3>1, <4>1, <4>2
    <3>2. CASE q = f
      <4>1. lT[q] = x /\ paT[x] = f
        BY <1>1, <3>2
      <4> QED BY <1>1, <1>3, <3>2, <4>1
    <3>3. CASE q # x /\ q # f
      <4>1. q \in live /\ lT[q] = l[q] /\ sT[q] = s[q]
        BY <1>1, <1>3, <3>3
      <4>2. CASE l[q] = Null
        BY <1>2, <3>3, <4>1, <4>2
      <4>3. CASE l[q] # Null
        <5>1. l[q] \in live /\ pa[l[q]] = q /\ s[l[q]] = s[q] \cap a[q]
          BY <1>2, <4>1, <4>3
        <5>2. paT[l[q]] = q /\ sT[l[q]] = s[l[q]]
          BY <1>1, <1>3, <5>1
        <5> QED BY <4>1, <4>3, <5>1, <5>2
      <4> QED BY <4>2, <4>3
    <3> QED BY <3>1, <3>2, <3>3
  <2> QED BY <2>1 DEF Hangs
<1>7. Hangs(liveT, paT, sT, rT, b)
  <2>1. ASSUME NEW q \in liveT
        PROVE  IF rT[q] = Null THEN sT[q] \cap b[q] \cap liveT = {}
               ELSE rT[q] \in liveT /\ paT[rT[q]] = q /\ sT[rT[q]] = sT[q] \cap b[q]
    <3>1. CASE q = x
      <4>1. rT[q] = Null
        BY <1>1, <3>1
      <4>2. s[f] \cap a[f] \cap live = {}
        BY <1>2
      <4> QED BY <1>1, <1>3, <1>4, <3>1, <4>1, <4>2
    <3>3. CASE q # x
      <4>1. q \in live /\ rT[q] = r[q] /\ sT[q] = s[q]
        BY <1>1, <1>3, <3>3
      <4>2. CASE r[q] = Null
        BY <1>2, <3>3, <4>1, <4>2
      <4>3. CASE r[q] # Null
        <5>1. r[q] \in live /\ pa[r[q]] = q /\ s[r[q]] = s[q] \cap b[q]
          BY <1>2, <4>1, <4>3
        <5>2. paT[r[q]] = q /\ sT[r[q]] = s[r[q]]
          BY <1>1, <1>3, <5>1
        <5> QED BY <4>1, <4>3, <5>1, <5>2
      <4> QED BY <4>2, <4>3
    <3> QED BY <3>1, <3>3
  <2> QED BY <2>1 DEF Hangs
<1> QED BY <1>5, <1>6, <1>7 DEF Whole, sT

\* i is h with x below f, or alone.
Hung(h, x, f, i) ==
    /\ i.top = IF f = Null THEN x ELSE h.top
    /\ \A q \in Page :
          /\ i.l[q] = IF q = x THEN Null ELSE IF q = f /\ x < f THEN x ELSE h.l[q]
          /\ i.r[q] = IF q = x THEN Null ELSE IF q = f /\ ~(x < f) THEN x ELSE h.r[q]
          /\ i.pa[q] = IF q = x THEN f ELSE h.pa[q]

HungSpan(s, x, f, all) ==
    [q \in Page |-> IF q = x THEN IF f = Null THEN all ELSE s[f] \cap Side(x, f)
                    ELSE s[q]]

LEMMA HungTree ==
    ASSUME PagesOK, NEW h, NEW live, NEW s, NEW all, SearchTree(h, live, s, all),
           NEW x \in Page, x \notin live, x \in all, all \subseteq Page,
           NEW f, IF h.top = Null THEN f = Null ELSE SearchEnd(h, live, s, x, f),
           NEW i, Hung(h, x, f, i)
    PROVE  /\ SearchTree(i, live \cup {x}, HungSpan(s, x, f, all), all)
           /\ \A q \in Page \ (live \cup {x}) :
                 i.l[q] = h.l[q] /\ i.r[q] = h.r[q] /\ i.pa[q] = h.pa[q]
<1>1. /\ Sides(Lower, Upper) /\ Sides(Upper, Lower)
      /\ Whole(h.top, live, h.l, h.r, h.pa, s, all, Lower, Upper)
      /\ Whole(h.top, live, h.r, h.l, h.pa, s, all, Upper, Lower)
  BY LowerUpper, Mirror DEF SearchTree
<1>2. live \subseteq Page /\ s \in [Page -> SUBSET Page] /\ Null \notin Page
  BY DEF SearchTree, Whole, Top, PagesOK
<1>3. CASE h.top = Null
  <2> DEFINE sT == HungSpan(s, x, f, all)
  <2>1. live = {} /\ f = Null
    BY <1>3 DEF SearchTree, Whole, Top
  <2>2. i.top = x /\ i.l[x] = Null /\ i.r[x] = Null /\ i.pa[x] = Null
    BY <2>1 DEF Hung
  <2>3. sT \in [Page -> SUBSET Page] /\ sT[x] = all
    BY <1>2, <2>1 DEF HungSpan
  <2>4. x \notin Lower[x] /\ x \notin Upper[x] /\ x # Null
    BY <1>1, <1>2 DEF Sides
  <2> HIDE DEF sT
  <2>5. /\ Top(i.top, {x}, i.l, i.r, i.pa, sT, all)
        /\ Hangs({x}, i.pa, sT, i.l, Lower) /\ Hangs({x}, i.pa, sT, i.r, Upper)
    BY <2>2, <2>3, <2>4 DEF Top, Hangs
  <2>6. SearchTree(i, live \cup {x}, sT, all)
    <3>1. live \cup {x} = {x}
      BY <2>1
    <3> QED BY <2>5, <3>1 DEF SearchTree, Whole
  <2>7. \A q \in Page \ {x} :
                 i.l[q] = h.l[q] /\ i.r[q] = h.r[q] /\ i.pa[q] = h.pa[q]
    BY <1>2, <2>1 DEF Hung
  <2> QED BY <2>1, <2>6, <2>7 DEF sT
<1>4. CASE h.top # Null
  <2>1. /\ f \in live /\ x \in s[f] /\ f # x /\ Ahead(h, f, x) = Null /\ f \in Page /\ f # Null
        /\ \A w \in live : x \in s[w] => f \in s[w]
    BY <1>2, <1>4 DEF SearchEnd
  <2>2. ASSUME NEW q \in live, x \in s[q], Ahead(h, q, x) = Null PROVE q = f
    <3> SUFFICES ASSUME q # f PROVE FALSE
      OBVIOUS
    <3>1. Branch(h, live, s, q, f, Ahead(h, q, f))
      BY <2>1, <2>2, Branches
    <3>2. Ahead(h, q, x) = Ahead(h, q, f) /\ Ahead(h, q, f) # Null
      BY <2>1, <3>1 DEF Branch
    <3> QED BY <2>2, <3>2
  <2>3. i.top = h.top
    BY <2>1 DEF Hung
  <2>4. \A q \in Page : (x \in Lower[q] <=> x < q) /\ (x \in Upper[q] => ~(x < q))
    BY Either
  <2>5. CASE x < f
    <3>1. h.l[f] = Null /\ x \in s[f] \cap Lower[f]
      BY <2>1, <2>4, <2>5 DEF Ahead
    <3>2. /\ \A q \in live : h.l[q] = Null /\ x \in s[q] \cap Lower[q] => q = f
          /\ \A q \in live : h.r[q] = Null => x \notin s[q] \cap Upper[q]
      <4>1. ASSUME NEW q \in live, h.l[q] = Null, x \in s[q] \cap Lower[q] PROVE q = f
        <5>1. Ahead(h, q, x) = Null
          BY <1>2, <2>4, <4>1 DEF Ahead
        <5> QED BY <2>2, <4>1, <5>1
      <4>2. ASSUME NEW q \in live, h.r[q] = Null, x \in s[q] \cap Upper[q] PROVE FALSE
        <5>1. Ahead(h, q, x) = Null /\ ~(x < q)
          BY <1>2, <2>4, <4>2 DEF Ahead
        <5> QED BY <2>2, <2>5, <4>2, <5>1
      <4> QED BY <4>1, <4>2
    <3>3. \A q \in Page :
             /\ i.l[q] = IF q = x THEN Null ELSE IF q = f THEN x ELSE h.l[q]
             /\ i.r[q] = IF q = x THEN Null ELSE h.r[q]
             /\ i.pa[q] = IF q = x THEN f ELSE h.pa[q]
      BY <2>5 DEF Hung
    <3>4. Whole(h.top, live \cup {x}, i.l, i.r, i.pa, LeafSpan(s, x, f, Lower), all,
                Lower, Upper)
      BY <1>1, <2>1, <3>1, <3>2, <3>3, LeafWhole
    <3>5. LeafSpan(s, x, f, Lower) = HungSpan(s, x, f, all)
      BY <2>1, <2>5 DEF LeafSpan, HungSpan, Side
    <3>6. \A q \in Page \ (live \cup {x}) :
                 i.l[q] = h.l[q] /\ i.r[q] = h.r[q] /\ i.pa[q] = h.pa[q]
      BY <2>1, <3>3
    <3> QED BY <2>3, <3>4, <3>5, <3>6 DEF SearchTree
  <2>6. CASE ~(x < f)
    <3>1. h.r[f] = Null /\ x \in s[f] \cap Upper[f]
      BY <2>1, <2>6, Either DEF Ahead
    <3>2. /\ \A q \in live : h.r[q] = Null /\ x \in s[q] \cap Upper[q] => q = f
          /\ \A q \in live : h.l[q] = Null => x \notin s[q] \cap Lower[q]
      <4>1. ASSUME NEW q \in live, h.r[q] = Null, x \in s[q] \cap Upper[q] PROVE q = f
        <5>1. Ahead(h, q, x) = Null
          BY <1>2, <2>4, <4>1 DEF Ahead
        <5> QED BY <2>2, <4>1, <5>1
      <4>2. ASSUME NEW q \in live, h.l[q] = Null, x \in s[q] \cap Lower[q] PROVE FALSE
        <5>1. Ahead(h, q, x) = Null /\ x < q
          BY <1>2, <2>4, <4>2 DEF Ahead
        <5> QED BY <2>2, <2>6, <4>2, <5>1
      <4> QED BY <4>1, <4>2
    <3>3. \A q \in Page :
             /\ i.r[q] = IF q = x THEN Null ELSE IF q = f THEN x ELSE h.r[q]
             /\ i.l[q] = IF q = x THEN Null ELSE h.l[q]
             /\ i.pa[q] = IF q = x THEN f ELSE h.pa[q]
      BY <2>6 DEF Hung
    <3>4. Whole(h.top, live \cup {x}, i.r, i.l, i.pa, LeafSpan(s, x, f, Upper), all,
                Upper, Lower)
      BY <1>1, <2>1, <3>1, <3>2, <3>3, LeafWhole
    <3>5. LeafSpan(s, x, f, Upper) = HungSpan(s, x, f, all)
      BY <2>1, <2>6 DEF LeafSpan, HungSpan, Side
    <3>6. \A q \in Page \ (live \cup {x}) :
                 i.l[q] = h.l[q] /\ i.r[q] = h.r[q] /\ i.pa[q] = h.pa[q]
      BY <2>1, <3>3
    <3>7. SearchTree(i, live \cup {x}, LeafSpan(s, x, f, Upper), all)
      BY <2>3, <3>4, Mirror DEF SearchTree
    <3> QED BY <3>5, <3>6, <3>7
  <2> QED BY <2>5, <2>6
<1> QED BY <1>3, <1>4

\* What it makes of the depths: sT is s with x, below f.
HungBelow(live, s, x, f, liveT, sT) ==
    /\ Depth(liveT, sT, x) = IF f = Null THEN 0 ELSE Depth(live, s, f) + 1
    /\ Above(liveT, sT, x) = IF f = Null THEN {x} ELSE Above(live, s, f) \cup {x}
    /\ \A q \in live : /\ Depth(liveT, sT, q) = Depth(live, s, q)
                       /\ (x \in sT[q]) <=> (f \in s[q])

\* It is one level below f, and no other node is at another level than before.
LEMMA HungDepth ==
    ASSUME PagesOK, NEW h, NEW live, NEW s, NEW all, SearchTree(h, live, s, all),
           NEW x \in Page, x \notin live, x \in all, all \subseteq Page,
           NEW f, IF h.top = Null THEN f = Null ELSE SearchEnd(h, live, s, x, f)
    PROVE  HungBelow(live, s, x, f, live \cup {x}, HungSpan(s, x, f, all))
<1> DEFINE liveT == live \cup {x}
           sT == HungSpan(s, x, f, all)
<1>1. live \subseteq Page /\ s \in [Page -> SUBSET Page] /\ Null \notin Page
  BY DEF SearchTree, Whole, Top, PagesOK
<1>2. \A q \in live : sT[q] = s[q]
  BY <1>1 DEF HungSpan
<1>3. sT[x] = IF f = Null THEN all ELSE s[f] \cap Side(x, f)
  BY DEF HungSpan
<1>4. CASE h.top = Null
  <2>1. live = {} /\ f = Null
    BY <1>4 DEF SearchTree, Whole, Top
  <2>2. Above(liveT, sT, x) = {x}
    BY <1>3, <2>1 DEF Above
  <2>3. Depth(liveT, sT, x) = 0
    <3>1. Cardinality({x}) = 1
      BY FS_Singleton
    <3>2. Depth(liveT, sT, x) = Cardinality({x}) - 1
      BY <2>2 DEF Depth
    <3> QED BY <3>1, <3>2
  <2> QED BY <2>1, <2>2, <2>3 DEF HungBelow
<1>5. CASE h.top # Null
  <2>1. /\ f \in live /\ x \in s[f] /\ f # x /\ Ahead(h, f, x) = Null /\ f \in Page /\ f # Null
        /\ \A w \in live : x \in s[w] => f \in s[w]
    BY <1>1, <1>5 DEF SearchEnd
  <2>2. Kids(h, live, s, f)
    BY <2>1, KidsAre
  <2>3. x \in sT[x] /\ sT[x] \cap live = {}
    <3>1. CASE x < f
      <4>1. x \in Lower[f] /\ s[f] \cap Lower[f] \cap live = {}
        BY <2>1, <2>2, <3>1, Either DEF Kids, Ahead
      <4> QED BY <1>3, <2>1, <3>1, <4>1 DEF Side
    <3>2. CASE ~(x < f)
      <4>1. x \in Upper[f] /\ s[f] \cap Upper[f] \cap live = {}
        BY <2>1, <2>2, <3>2, Either DEF Kids, Ahead
      <4> QED BY <1>3, <2>1, <3>2, <4>1 DEF Side
    <3> QED BY <3>1, <3>2
  <2>4. ASSUME NEW q \in live PROVE (x \in sT[q]) <=> (f \in s[q])
    <3>1. f \in s[q] => s[f] \subseteq s[q]
      <4>1. CASE q = f
        BY <4>1
      <4>2. CASE q # f
        BY <2>1, <4>2, Under
      <4> QED BY <4>1, <4>2
    <3> QED BY <1>2, <2>1, <3>1
  <2>5. ASSUME NEW q \in live PROVE Above(liveT, sT, q) = Above(live, s, q)
    <3> HIDE DEF sT
    <3> QED BY <1>2, <2>3 DEF Above
  <2>6. Above(liveT, sT, x) = Above(live, s, f) \cup {x}
    <3> HIDE DEF sT
    <3> QED BY <1>2, <2>3, <2>4 DEF Above
  <2>7. Depth(liveT, sT, x) = Depth(live, s, f) + 1
    <3> DEFINE A == Above(live, s, f)
    <3>1. IsFiniteSet(A) /\ x \notin A
      BY <2>1, AboveChild DEF Above
    <3>2. Cardinality(A \cup {x}) = Cardinality(A) + 1 /\ Cardinality(A) \in Nat
      <4> HIDE DEF A
      <4> QED BY <3>1, FS_AddElement, FS_CardinalityType
    <3>3. Depth(liveT, sT, x) = Cardinality(A \cup {x}) - 1
      BY <2>6 DEF Depth
    <3>4. Depth(live, s, f) = Cardinality(A) - 1
      BY DEF Depth
    <3> HIDE DEF A, sT, liveT
    <3> QED BY <3>2, <3>3, <3>4
  <2>8. ASSUME NEW q \in live PROVE Depth(liveT, sT, q) = Depth(live, s, q)
    BY <2>5 DEF Depth
  <2> QED BY <2>1, <2>4, <2>6, <2>7, <2>8 DEF HungBelow
<1> QED BY <1>4, <1>5

-----------------------------------------------------------------------------
(* Cutting a tree in two at its root, and joining two into one.            *)

\* All that is below the top on one of its sides stays there.
LEMMA BelowTop ==
    ASSUME PagesOK, NEW h, NEW live, NEW s, NEW all, SearchTree(h, live, s, all),
           NEW x \in live, h.top = x, NEW q \in live, q # x
    PROVE  LET c == Ahead(h, x, q) IN
           /\ s[q] \subseteq Side(q, x)
           /\ q # c => h.pa[q] \in Side(q, x)
<1> DEFINE c == Ahead(h, x, q)
<1>1. live \subseteq all /\ s[x] = all /\ x \in Page /\ live \subseteq Page /\ x # Null
  <2>1. live \subseteq all
    BY AllIn
  <2> QED BY <2>1 DEF SearchTree, Whole, Top, PagesOK
<1>2. Branch(h, live, s, x, q, c)
  BY <1>1, Branches
<1>3. Kids(h, live, s, x)
  BY KidsAre
<1>4. s[c] \subseteq Side(q, x)
  BY <1>1, <1>2, <1>3 DEF Kids, Branch, Ahead, Side
<1> HIDE DEF c
<1>5. q # c => h.pa[q] \in s[c]
  BY <1>2, Under DEF Branch
<1> QED BY <1>2, <1>4, <1>5 DEF Branch, c

\* Nothing is below the top but what may be in the tree.
LEMMA SpanIn ==
    ASSUME PagesOK, NEW h, NEW live, NEW s, NEW all, SearchTree(h, live, s, all),
           NEW q \in live
    PROVE  s[q] \subseteq s[h.top]
<1> DEFINE x == h.top  c == Ahead(h, x, q)
<1>1. x \in live /\ live \subseteq all /\ s[x] = all /\ q \in s[x]
  <2>1. live \subseteq all
    BY AllIn
  <2> QED BY <2>1 DEF SearchTree, Whole, Top, PagesOK
<1>2. CASE q = x
  BY <1>2
<1>3. CASE q # x
  <2>1. Branch(h, live, s, x, q, c)
    BY <1>1, <1>3, Branches
  <2> HIDE DEF c
  <2> QED BY <2>1 DEF Branch
<1> QED BY <1>2, <1>3

\* Whatever of live is in side stays in side down to its last page and, unless it
\* is c, up to its parent.
Apart(live, pa, s, side, c) ==
    \A q \in live : q \in side => s[q] \subseteq side /\ (q # c => pa[q] \in side)

\* The nodes other than x, once each child of x has become a root.
Freed(x, l, r, pa, lT, rT, paT) ==
    \A q \in Page \ {x} : /\ lT[q] = l[q] /\ rT[q] = r[q]
                          /\ paT[q] = IF q \in {l[x], r[x]} THEN Null ELSE pa[q]

\* From one side: what hangs there is a tree of its own.
LEMMA CutWhole ==
    ASSUME NEW x, NEW live, NEW l, NEW r, NEW pa, NEW s, NEW all, NEW a, NEW b,
           PagesOK, Sides(a, b), Whole(x, live, l, r, pa, s, all, a, b), x # Null,
           live \subseteq all,
           Apart(live, pa, s, a[x], l[x]),
           NEW lT, NEW rT, NEW paT, Freed(x, l, r, pa, lT, rT, paT)
    PROVE  Whole(l[x], live \cap a[x], lT, rT, paT, s, all \cap a[x], a, b)
<1> DEFINE liveT == live \cap a[x]
<1>1. /\ live \subseteq Page /\ s \in [Page -> SUBSET Page] /\ x \in live /\ x \in Page
      /\ x \in s[x] /\ s[x] = all /\ Null \notin live
      /\ \A q \in live : /\ q \in s[q]
                         /\ pa[q] = Null => q = x
                         /\ pa[q] # Null => pa[q] \in live /\ q \in {l[pa[q]], r[pa[q]]}
  BY DEF Whole, Top, PagesOK
<1>2. /\ \A q \in live : IF l[q] = Null THEN s[q] \cap a[q] \cap live = {}
                         ELSE l[q] \in live /\ pa[l[q]] = q /\ s[l[q]] = s[q] \cap a[q]
      /\ \A q \in live : IF r[q] = Null THEN s[q] \cap b[q] \cap live = {}
                         ELSE r[q] \in live /\ pa[r[q]] = q /\ s[r[q]] = s[q] \cap b[q]
  BY DEF Whole, Hangs
<1>3. x \notin a[x] /\ a[x] \cap b[x] = {}
  BY <1>1 DEF Sides
<1>4. ASSUME NEW q \in liveT
      PROVE  /\ q \in live /\ q # x /\ q \in Page /\ q # r[x] /\ q \in a[x]
             /\ paT[q] = IF q = l[x] THEN Null ELSE pa[q]
             /\ lT[q] = l[q] /\ rT[q] = r[q] /\ pa[q] # Null
  <2>1. q \in live /\ q # x /\ q \in Page /\ q # Null
    BY <1>1, <1>3
  <2>2. q # r[x]
    BY <1>1, <1>2, <1>3, <2>1
  <2> QED BY <1>1, <2>1, <2>2 DEF Freed
<1>5. Top(l[x], liveT, lT, rT, paT, s, all \cap a[x])
  <2>1. IF l[x] = Null THEN liveT = {}
        ELSE l[x] \in liveT /\ paT[l[x]] = Null /\ s[l[x]] = all \cap a[x]
    <3>1. CASE l[x] = Null
      <4>1. s[x] \cap a[x] \cap live = {}
        BY <1>1, <1>2, <3>1
      <4> QED BY <1>1, <3>1, <4>1
    <3>2. CASE l[x] # Null
      <4>1. l[x] \in live /\ s[l[x]] = all \cap a[x] /\ l[x] \in s[l[x]]
        BY <1>1, <1>2, <3>2
      <4>2. l[x] \in liveT
        BY <4>1
      <4> QED BY <1>4, <3>2, <4>1, <4>2
    <3> QED BY <3>1, <3>2
  <2>2. ASSUME NEW q \in liveT
        PROVE  /\ q \in s[q]
               /\ paT[q] = Null => q = l[x]
               /\ paT[q] # Null => paT[q] \in liveT /\ q \in {lT[paT[q]], rT[paT[q]]}
    <3>1. CASE q = l[x]
      BY <1>1, <1>4, <3>1
    <3>2. CASE q # l[x]
      <4> DEFINE w == pa[q]
      <4>1. paT[q] = w /\ w # Null /\ w \in live /\ q \in {l[w], r[w]} /\ w \in a[x] /\ q \in s[q]
        BY <1>1, <1>4, <3>2 DEF Apart
      <4> HIDE DEF w
      <4>2. w \in liveT
        BY <4>1
      <4>3. lT[w] = l[w] /\ rT[w] = r[w]
        BY <1>4, <4>2
      <4> QED BY <3>2, <4>1, <4>2, <4>3
    <3> QED BY <3>1, <3>2
  <2>3. liveT \subseteq Page
    BY <1>1
  <2> HIDE DEF liveT
  <2> QED BY <1>1, <2>1, <2>2, <2>3 DEF Top
<1>6. ASSUME NEW q \in liveT, NEW c \in live, pa[c] = q, s[c] \subseteq s[q]
      PROVE  c \in liveT /\ paT[c] = q
  <2>1. c \in s[c] /\ s[q] \subseteq a[x]
    BY <1>1, <1>4 DEF Apart
  <2>2. c \in liveT
    BY <1>6, <2>1
  <2>3. c # l[x]
    <3>1. q # x
      BY <1>4
    <3> QED BY <1>1, <1>2, <1>6, <3>1
  <2> QED BY <1>4, <1>6, <2>2, <2>3
<1>7. Hangs(liveT, paT, s, lT, a)
  <2>1. ASSUME NEW q \in liveT
        PROVE  IF lT[q] = Null THEN s[q] \cap a[q] \cap liveT = {}
               ELSE lT[q] \in liveT /\ paT[lT[q]] = q /\ s[lT[q]] = s[q] \cap a[q]
    <3>1. lT[q] = l[q] /\ q \in live
      BY <1>4
    <3>2. CASE l[q] = Null
      BY <1>2, <3>1, <3>2
    <3>3. CASE l[q] # Null
      <4>1. l[q] \in live /\ pa[l[q]] = q /\ s[l[q]] = s[q] \cap a[q]
        BY <1>2, <3>1, <3>3
      <4> HIDE DEF liveT
      <4>2. l[q] \in liveT /\ paT[l[q]] = q
        BY <1>6, <4>1
      <4> QED BY <3>1, <3>3, <4>1, <4>2
    <3> QED BY <3>2, <3>3
  <2> HIDE DEF liveT
  <2> QED BY <2>1 DEF Hangs
<1>8. Hangs(liveT, paT, s, rT, b)
  <2>1. ASSUME NEW q \in liveT
        PROVE  IF rT[q] = Null THEN s[q] \cap b[q] \cap liveT = {}
               ELSE rT[q] \in liveT /\ paT[rT[q]] = q /\ s[rT[q]] = s[q] \cap b[q]
    <3>1. rT[q] = r[q] /\ q \in live
      BY <1>4
    <3>2. CASE r[q] = Null
      BY <1>2, <3>1, <3>2
    <3>3. CASE r[q] # Null
      <4>1. r[q] \in live /\ pa[r[q]] = q /\ s[r[q]] = s[q] \cap b[q]
        BY <1>2, <3>1, <3>3
      <4> HIDE DEF liveT
      <4>2. r[q] \in liveT /\ paT[r[q]] = q
        BY <1>6, <4>1
      <4> QED BY <3>1, <3>3, <4>1, <4>2
    <3> QED BY <3>2, <3>3
  <2> HIDE DEF liveT
  <2> QED BY <2>1 DEF Hangs
<1> QED BY <1>5, <1>7, <1>8 DEF Whole

\* i has the nodes of h without its root x, and each child of x has become a root.
Cut(h, x, i) == Freed(x, h.l, h.r, h.pa, i.l, i.r, i.pa)

LEMMA CutTree ==
    ASSUME PagesOK, NEW h, NEW live, NEW s, NEW all, SearchTree(h, live, s, all),
           NEW x \in live, h.top = x, NEW i, Cut(h, x, i)
    PROVE  /\ i.top = h.l[x] => SearchTree(i, live \cap Lower[x], s, all \cap Lower[x])
           /\ i.top = h.r[x] => SearchTree(i, live \cap Upper[x], s, all \cap Upper[x])
<1>1. /\ Sides(Lower, Upper) /\ Sides(Upper, Lower)
      /\ Whole(x, live, h.l, h.r, h.pa, s, all, Lower, Upper)
      /\ Whole(x, live, h.r, h.l, h.pa, s, all, Upper, Lower)
  BY LowerUpper, Mirror DEF SearchTree
<1>2. live \subseteq all /\ x # Null /\ s[x] = all /\ x \in Page /\ live \subseteq Page
  <2>1. live \subseteq all
    BY AllIn
  <2> QED BY <2>1 DEF SearchTree, Whole, Top, PagesOK
<1>3. ASSUME NEW q \in live, q # x
      PROVE  LET c == Ahead(h, x, q) IN
             /\ s[q] \subseteq Side(q, x)
             /\ q # c => h.pa[q] \in Side(q, x)
  BY <1>3, BelowTop
<1>4. /\ Apart(live, h.pa, s, Lower[x], h.l[x])
      /\ Apart(live, h.pa, s, Upper[x], h.r[x])
  <2>1. ASSUME NEW q \in live
        PROVE  /\ q \in Lower[x] => q < x /\ q # x
               /\ q \in Upper[x] => ~(q < x) /\ q # x
    BY <1>2, Either
  <2> QED BY <1>3, <2>1 DEF Ahead, Side, Apart
<1>5. Freed(x, h.l, h.r, h.pa, i.l, i.r, i.pa) /\ Freed(x, h.r, h.l, h.pa, i.r, i.l, i.pa)
  BY DEF Cut, Freed
<1> DEFINE l == h.l  r == h.r  pa == h.pa  lT == i.l  rT == i.r  paT == i.pa
<1> HIDE DEF l, r, pa, lT, rT, paT
<1>6. Whole(l[x], live \cap Lower[x], lT, rT, paT, s, all \cap Lower[x], Lower, Upper)
  <2>1. /\ Sides(Lower, Upper) /\ Whole(x, live, l, r, pa, s, all, Lower, Upper)
        /\ Apart(live, pa, s, Lower[x], l[x]) /\ Freed(x, l, r, pa, lT, rT, paT)
    BY <1>1, <1>4, <1>5 DEF l, r, pa, lT, rT, paT
  <2> QED BY <1>2, <2>1, CutWhole
<1>7. Whole(r[x], live \cap Upper[x], rT, lT, paT, s, all \cap Upper[x], Upper, Lower)
  <2>1. /\ Sides(Upper, Lower) /\ Whole(x, live, r, l, pa, s, all, Upper, Lower)
        /\ Apart(live, pa, s, Upper[x], r[x]) /\ Freed(x, r, l, pa, rT, lT, paT)
    BY <1>1, <1>4, <1>5 DEF l, r, pa, lT, rT, paT
  <2> QED BY <1>2, <2>1, CutWhole
<1>8. Whole(r[x], live \cap Upper[x], lT, rT, paT, s, all \cap Upper[x], Lower, Upper)
  BY <1>7, Mirror
<1> QED BY <1>6, <1>8 DEF SearchTree, l, r, pa, lT, rT, paT

\* From one side: a tree may hold more than it did, if all of that is beyond its
\* last node d.
WideSpan(s, d, more) == [q \in Page |-> IF d \in s[q] THEN s[q] \cup more ELSE s[q]]

LEMMA WideWhole ==
    ASSUME NEW top, NEW live, NEW l, NEW r, NEW pa, NEW s, NEW all, NEW a, NEW b,
           PagesOK, Sides(a, b), Whole(top, live, l, r, pa, s, all, a, b),
           live \subseteq all, NEW d \in live, \A q \in live : q = d \/ d \in a[q],
           NEW more \in SUBSET Page, more \cap all = {},
           \A y \in more : \A q \in live : y \in a[q]
    PROVE  Whole(top, live, l, r, pa, WideSpan(s, d, more), all \cup more, a, b)
<1> DEFINE sT == WideSpan(s, d, more)
<1>1. /\ live \subseteq Page /\ s \in [Page -> SUBSET Page] /\ d \in Page
      /\ top # Null /\ top \in live /\ pa[top] = Null /\ s[top] = all
      /\ \A q \in live : /\ q \in s[q]
                         /\ pa[q] = Null => q = top
                         /\ pa[q] # Null => pa[q] \in live /\ q \in {l[pa[q]], r[pa[q]]}
  BY DEF Whole, Top, PagesOK
<1>2. /\ \A q \in live : IF l[q] = Null THEN s[q] \cap a[q] \cap live = {}
                         ELSE l[q] \in live /\ pa[l[q]] = q /\ s[l[q]] = s[q] \cap a[q]
      /\ \A q \in live : IF r[q] = Null THEN s[q] \cap b[q] \cap live = {}
                         ELSE r[q] \in live /\ pa[r[q]] = q /\ s[r[q]] = s[q] \cap b[q]
  BY DEF Whole, Hangs
<1>3. sT \in [Page -> SUBSET Page]
      /\ \A q \in live : sT[q] = IF d \in s[q] THEN s[q] \cup more ELSE s[q]
  BY <1>1 DEF WideSpan
<1>4. ASSUME NEW q \in live
      PROVE  /\ a[q] \cap b[q] = {} /\ q \notin a[q] /\ q \notin b[q]
             /\ more \subseteq a[q] /\ d \notin b[q]
  BY <1>1 DEF Sides
<1>5. ASSUME NEW c \in live PROVE c \notin a[d]
  <2>1. c \in a[d] /\ d \in a[c] => d \in a[d]
    BY <1>1 DEF Sides
  <2> QED BY <1>4, <2>1
<1> HIDE DEF sT
<1>6. Top(top, live, l, r, pa, sT, all \cup more)
  <2>1. sT[top] = all \cup more
    BY <1>1, <1>3
  <2>2. \A q \in live : q \in sT[q]
    BY <1>1, <1>3
  <2> QED BY <1>1, <1>3, <2>1, <2>2 DEF Top
<1>7. Hangs(live, pa, sT, l, a)
  <2>1. ASSUME NEW q \in live
        PROVE  IF l[q] = Null THEN sT[q] \cap a[q] \cap live = {}
               ELSE l[q] \in live /\ pa[l[q]] = q /\ sT[l[q]] = sT[q] \cap a[q]
    <3>1. CASE l[q] = Null
      <4>1. s[q] \cap a[q] \cap live = {}
        BY <1>2, <3>1
      <4> QED BY <1>3, <3>1, <4>1
    <3>2. CASE l[q] # Null
      <4> DEFINE c == l[q]
      <4>1. c \in live /\ pa[c] = q /\ s[c] = s[q] \cap a[q] /\ c \in s[c]
        BY <1>1, <1>2, <3>2
      <4> HIDE DEF c
      <4>2. q # d
        BY <1>5, <4>1
      <4>3. d \in s[c] <=> d \in s[q]
        BY <4>1, <4>2
      <4>4. sT[c] = sT[q] \cap a[q]
        BY <1>3, <1>4, <4>1, <4>3
      <4> QED BY <3>2, <4>1, <4>4 DEF c
    <3> QED BY <3>1, <3>2
  <2> QED BY <2>1 DEF Hangs
<1>8. Hangs(live, pa, sT, r, b)
  <2>1. ASSUME NEW q \in live
        PROVE  IF r[q] = Null THEN sT[q] \cap b[q] \cap live = {}
               ELSE r[q] \in live /\ pa[r[q]] = q /\ sT[r[q]] = sT[q] \cap b[q]
    <3>1. CASE r[q] = Null
      <4>1. s[q] \cap b[q] \cap live = {}
        BY <1>2, <3>1
      <4> QED BY <1>3, <3>1, <4>1
    <3>2. CASE r[q] # Null
      <4> DEFINE c == r[q]
      <4>1. c \in live /\ pa[c] = q /\ s[c] = s[q] \cap b[q]
        BY <1>2, <3>2
      <4> HIDE DEF c
      <4>2. d \notin s[c] /\ more \cap b[q] = {}
        BY <1>4, <4>1
      <4>3. sT[c] = sT[q] \cap b[q]
        BY <1>3, <4>1, <4>2
      <4> QED BY <3>2, <4>1, <4>3 DEF c
    <3> QED BY <3>1, <3>2
  <2> QED BY <2>1 DEF Hangs
<1> QED BY <1>6, <1>7, <1>8 DEF Whole, sT


\* more lies beyond all of live, on one side or on the other.
AllBeyond(live, more) ==
    \/ \A y \in more : \A q \in live : y \in Upper[q]
    \/ \A y \in more : \A q \in live : y \in Lower[q]

LEMMA WideTree ==
    ASSUME PagesOK, NEW h, NEW live, NEW s, NEW all, SearchTree(h, live, s, all),
           all \subseteq Page, NEW more \in SUBSET Page, more \cap all = {},
           AllBeyond(live, more)
    PROVE  \E sT : SearchTree(h, live, sT, all \cup more)
<1>1. /\ Sides(Lower, Upper) /\ Sides(Upper, Lower)
      /\ Whole(h.top, live, h.l, h.r, h.pa, s, all, Lower, Upper)
      /\ Whole(h.top, live, h.r, h.l, h.pa, s, all, Upper, Lower)
  BY LowerUpper, Mirror DEF SearchTree
<1>2. live \subseteq all /\ live \subseteq Page
  <2>1. live \subseteq all
    BY AllIn
  <2> QED BY <2>1 DEF SearchTree, Whole, Top
<1>3. CASE live = {}
  <2>1. h.top = Null
    BY <1>3 DEF SearchTree, Whole, Top
  <2>2. SearchTree(h, live, s, all \cup more)
    BY <2>1 DEF SearchTree, Whole, Top
  <2> QED BY <2>2
<1>4. CASE live # {} /\ \A y \in more : \A q \in live : y \in Upper[q]
  <2>1. h.top # Null
    BY <1>4 DEF SearchTree, Whole, Top
  <2>2. PICK d \in live : \A q \in live : q = d \/ q \in Lower[d]
    <3> DEFINE g == [q \in live |-> IF h.r[q] = Null THEN q ELSE h.r[q]]
    <3>1. \A q \in live : g[q] = IF h.r[q] = Null THEN q ELSE h.r[q]
      OBVIOUS
    <3> HIDE DEF g
    <3>2. Greatest(h, live, Walk(g, h.top)[Cardinality(Page)])
      BY <2>1, <3>1, Rightmost
    <3> QED BY <3>2 DEF Greatest
  <2>3. \A q \in live : q = d \/ d \in Upper[q]
    BY <1>1, <1>2, <2>2 DEF Sides
  <2> DEFINE top == h.top  l == h.l  r == h.r  pa == h.pa
  <2>4. Whole(top, live, r, l, pa, s, all, Upper, Lower)
    BY <1>1
  <2> HIDE DEF top, l, r, pa
  <2>5. Whole(top, live, r, l, pa, WideSpan(s, d, more), all \cup more, Upper, Lower)
    BY <1>1, <1>2, <1>4, <2>3, <2>4, WideWhole
  <2>6. Whole(top, live, l, r, pa, WideSpan(s, d, more), all \cup more, Lower, Upper)
    BY <2>5, Mirror
  <2> QED BY <2>6 DEF SearchTree, top, l, r, pa
<1>5. CASE live # {} /\ \A y \in more : \A q \in live : y \in Lower[q]
  <2>1. PICK d \in live : \A q \in live : d <= q
    <3>1. live \subseteq Nat
      BY <1>2 DEF PagesOK
    <3> QED BY <1>5, <3>1, LeastNat
  <2>2. \A q \in live : q = d \/ d \in Lower[q]
    <3>1. \A q \in live : q \in Nat /\ q \in Page
      BY <1>2 DEF PagesOK
    <3> QED BY <2>1, <3>1 DEF Lower
  <2> DEFINE top == h.top  l == h.l  r == h.r  pa == h.pa
  <2>3. Whole(top, live, l, r, pa, s, all, Lower, Upper)
    BY <1>1
  <2> HIDE DEF top, l, r, pa
  <2>4. Whole(top, live, l, r, pa, WideSpan(s, d, more), all \cup more, Lower, Upper)
    BY <1>1, <1>2, <1>5, <2>2, <2>3, WideWhole
  <2> QED BY <2>4 DEF SearchTree, top, l, r, pa
<1> QED BY <1>3, <1>4, <1>5 DEF AllBeyond

\* i has the nodes of h1 that are in L1 and those of h2 that are in L2, and the
\* top d of h2 to the right of the top m of h1.
Glued(h1, L1, m, h2, L2, d, i) ==
    /\ i.top = m
    /\ \A q \in L1 : /\ i.l[q] = h1.l[q] /\ i.pa[q] = h1.pa[q]
                     /\ i.r[q] = IF q = m THEN d ELSE h1.r[q]
    /\ \A q \in L2 : /\ i.l[q] = h2.l[q] /\ i.r[q] = h2.r[q]
                     /\ i.pa[q] = IF q = d THEN m ELSE h2.pa[q]

\* What a tree says of one node.
OneNode(top, live, l, r, pa, s, q) ==
    /\ q \in Page /\ q \in s[q] /\ s[q] \subseteq Page
    /\ pa[q] = Null => q = top
    /\ pa[q] # Null => pa[q] \in live /\ q \in {l[pa[q]], r[pa[q]]}
    /\ IF l[q] = Null THEN s[q] \cap Lower[q] \cap live = {}
       ELSE l[q] \in live /\ pa[l[q]] = q /\ s[l[q]] = s[q] \cap Lower[q]
    /\ IF r[q] = Null THEN s[q] \cap Upper[q] \cap live = {}
       ELSE r[q] \in live /\ pa[r[q]] = q /\ s[r[q]] = s[q] \cap Upper[q]

LEMMA NodeByNode ==
    ASSUME NEW h, NEW live, NEW s, NEW all
    PROVE  SearchTree(h, live, s, all) <=>
              /\ live \subseteq Page /\ s \in [Page -> SUBSET Page]
              /\ IF h.top = Null THEN live = {}
                 ELSE h.top \in live /\ h.pa[h.top] = Null /\ s[h.top] = all
              /\ \A q \in live : OneNode(h.top, live, h.l, h.r, h.pa, s, q)
BY DEF SearchTree, Whole, Top, Hangs, OneNode

\* The greatest node on top, without a right child, takes all that is greater.
LEMMA GluedTree ==
    ASSUME PagesOK, NEW h1, NEW L1, NEW s1, NEW all, SearchTree(h1, L1, s1, all),
           NEW m, h1.top = m, m # Null, h1.r[m] = Null, \A q \in L1 : q = m \/ q \in Lower[m],
           NEW h2, NEW L2, NEW s2, SearchTree(h2, L2, s2, all \cap Upper[m]),
           NEW d, h2.top = d, d # Null,
           NEW i, Glued(h1, L1, m, h2, L2, d, i)
    PROVE  \E sT : SearchTree(i, L1 \cup L2, sT, all)
<1> DEFINE live == L1 \cup L2
           sT == [q \in Page |-> IF q \in L1 THEN s1[q] ELSE s2[q]]
<1>1. /\ L1 \subseteq Page /\ s1 \in [Page -> SUBSET Page] /\ m \in L1 /\ h1.pa[m] = Null
      /\ s1[m] = all /\ Null \notin Page /\ m \in Page
      /\ \A q \in L1 : OneNode(m, L1, h1.l, h1.r, h1.pa, s1, q)
  <2>1. Null \notin Page
    BY DEF PagesOK
  <2> QED BY <2>1, NodeByNode
<1>2. /\ L2 \subseteq Page /\ s2 \in [Page -> SUBSET Page] /\ d \in L2 /\ h2.pa[d] = Null
      /\ s2[d] = all \cap Upper[m] /\ d \in Page
      /\ \A q \in L2 : OneNode(d, L2, h2.l, h2.r, h2.pa, s2, q)
  BY NodeByNode
<1>3. \A q \in L2 : q \in all /\ q \in Upper[m]
  BY AllIn
<1>4. Sides(Lower, Upper)
  BY LowerUpper
<1>5. \A q \in L2 : q \notin L1
  BY <1>1, <1>2, <1>3, <1>4 DEF Sides
<1>6. /\ \A q \in L1 : /\ i.l[q] = h1.l[q] /\ i.pa[q] = h1.pa[q]
                       /\ i.r[q] = IF q = m THEN d ELSE h1.r[q]
      /\ \A q \in L2 : /\ i.l[q] = h2.l[q] /\ i.r[q] = h2.r[q]
                       /\ i.pa[q] = IF q = d THEN m ELSE h2.pa[q]
      /\ i.top = m
  BY DEF Glued
<1>7. /\ sT \in [Page -> SUBSET Page]
      /\ \A q \in L1 : sT[q] = s1[q]
      /\ \A q \in L2 : sT[q] = s2[q]
  BY <1>1, <1>2, <1>5
<1> HIDE DEF sT
<1> DEFINE l == i.l  r == i.r  pa == i.pa  l1 == h1.l  r1 == h1.r  p1 == h1.pa
           l2 == h2.l  r2 == h2.r  p2 == h2.pa
<1>8. /\ \A q \in L1 : l[q] = l1[q] /\ pa[q] = p1[q] /\ r[q] = IF q = m THEN d ELSE r1[q]
      /\ \A q \in L2 : l[q] = l2[q] /\ r[q] = r2[q] /\ pa[q] = IF q = d THEN m ELSE p2[q]
      /\ \A q \in L1 : OneNode(m, L1, l1, r1, p1, s1, q)
      /\ \A q \in L2 : OneNode(d, L2, l2, r2, p2, s2, q)
      /\ r1[m] = Null /\ p1[m] = Null /\ p2[d] = Null
  BY <1>1, <1>2, <1>6
<1> HIDE DEF l, r, pa, l1, r1, p1, l2, r2, p2
<1>10. ASSUME NEW q \in L1, q # m PROVE s1[q] \subseteq Lower[m]
  <2>1. s1[q] \subseteq Side(q, m)
    BY <1>1, <1>10, BelowTop
  <2>2. q < m
    <3>1. q \in Lower[m] /\ q \in Page
      BY <1>1, <1>10
    <3> QED BY <1>1, <3>1, Either
  <2> QED BY <2>1, <2>2 DEF Side
<1>9. ASSUME NEW q \in L1 PROVE OneNode(m, live, l, r, pa, sT, q)
  <2>1. OneNode(m, L1, l1, r1, p1, s1, q) /\ q \in Page /\ sT[q] = s1[q]
    BY <1>1, <1>7, <1>8
  <2>2. /\ q \in sT[q] /\ sT[q] \subseteq Page
        /\ pa[q] = Null => q = m
        /\ pa[q] # Null => pa[q] \in live /\ q \in {l[pa[q]], r[pa[q]]}
    <3>1. /\ q \in s1[q] /\ s1[q] \subseteq Page /\ pa[q] = p1[q]
          /\ p1[q] = Null => q = m
          /\ p1[q] # Null => p1[q] \in L1 /\ q \in {l1[p1[q]], r1[p1[q]]}
      BY <1>8, <2>1 DEF OneNode
    <3>2. p1[q] # Null => q \in {l[p1[q]], r[p1[q]]}
      <4>1. ASSUME p1[q] # Null PROVE q \in {l[p1[q]], r[p1[q]]}
        <5>1. l[p1[q]] = l1[p1[q]] /\ r[p1[q]] = IF p1[q] = m THEN d ELSE r1[p1[q]]
          BY <1>8, <3>1, <4>1
        <5>2. q # Null
          BY <1>1, <2>1
        <5> QED BY <1>8, <3>1, <4>1, <5>1, <5>2
      <4> QED BY <4>1
    <3> QED BY <2>1, <3>1, <3>2
  <2>3. IF l[q] = Null THEN sT[q] \cap Lower[q] \cap live = {}
        ELSE l[q] \in live /\ pa[l[q]] = q /\ sT[l[q]] = sT[q] \cap Lower[q]
    <3>1. /\ l[q] = l1[q]
          /\ IF l1[q] = Null THEN s1[q] \cap Lower[q] \cap L1 = {}
             ELSE l1[q] \in L1 /\ p1[l1[q]] = q /\ s1[l1[q]] = s1[q] \cap Lower[q]
      BY <1>8, <2>1 DEF OneNode
    <3>2. CASE l1[q] = Null
      <4>1. \A w \in L2 : w \notin Lower[q]
        BY <1>1, <1>2, <1>3, <1>4 DEF Sides
      <4> QED BY <2>1, <3>1, <3>2, <4>1
    <3>3. CASE l1[q] # Null
      <4>1. pa[l1[q]] = q /\ sT[l1[q]] = s1[l1[q]]
        BY <1>7, <1>8, <3>1, <3>3
      <4> QED BY <2>1, <3>1, <3>3, <4>1
    <3> QED BY <3>2, <3>3
  <2>4. IF r[q] = Null THEN sT[q] \cap Upper[q] \cap live = {}
        ELSE r[q] \in live /\ pa[r[q]] = q /\ sT[r[q]] = sT[q] \cap Upper[q]
    <3>1. IF r1[q] = Null THEN s1[q] \cap Upper[q] \cap L1 = {}
          ELSE r1[q] \in L1 /\ p1[r1[q]] = q /\ s1[r1[q]] = s1[q] \cap Upper[q]
      BY <1>8, <2>1 DEF OneNode
    <3>2. CASE q = m
      <4>1. r[q] = d /\ pa[d] = m /\ sT[d] = s2[d] /\ s1[q] = all
        BY <1>1, <1>2, <1>7, <1>8, <3>2
      <4> QED BY <1>2, <2>1, <3>2, <4>1
    <3>3. CASE q # m /\ r1[q] = Null
      <4>1. s1[q] \subseteq Lower[m]
        BY <1>10, <3>3
      <4>2. \A w \in L2 : w \notin s1[q]
        BY <1>1, <1>2, <1>3, <1>4, <4>1 DEF Sides
      <4> QED BY <1>8, <2>1, <3>1, <3>3, <4>2
    <3>4. CASE q # m /\ r1[q] # Null
      <4>1. r[q] = r1[q] /\ pa[r1[q]] = q /\ sT[r1[q]] = s1[r1[q]]
        BY <1>7, <1>8, <3>1, <3>4
      <4> QED BY <2>1, <3>1, <3>4, <4>1
    <3> QED BY <3>2, <3>3, <3>4
  <2> QED BY <2>1, <2>2, <2>3, <2>4 DEF OneNode
<1>11. ASSUME NEW q \in L2 PROVE OneNode(m, live, l, r, pa, sT, q)
  <2>1. OneNode(d, L2, l2, r2, p2, s2, q) /\ q \in Page /\ sT[q] = s2[q] /\ s2[q] \subseteq Upper[m]
    <3>1. s2[q] \subseteq s2[d]
      BY <1>2, SpanIn
    <3> QED BY <1>2, <1>7, <1>8, <3>1
  <2>2. /\ q \in s2[q] /\ s2[q] \subseteq Page
        /\ p2[q] = Null => q = d
        /\ p2[q] # Null => p2[q] \in L2 /\ q \in {l2[p2[q]], r2[p2[q]]}
        /\ IF l2[q] = Null THEN s2[q] \cap Lower[q] \cap L2 = {}
           ELSE l2[q] \in L2 /\ p2[l2[q]] = q /\ s2[l2[q]] = s2[q] \cap Lower[q]
        /\ IF r2[q] = Null THEN s2[q] \cap Upper[q] \cap L2 = {}
           ELSE r2[q] \in L2 /\ p2[r2[q]] = q /\ s2[r2[q]] = s2[q] \cap Upper[q]
    BY <2>1 DEF OneNode
  <2>3. /\ l[q] = l2[q] /\ r[q] = r2[q] /\ pa[q] = IF q = d THEN m ELSE p2[q]
        /\ m \in live /\ m # Null /\ r[m] = d
    BY <1>1, <1>8
  <2>4. \A w \in L1 : w \notin s2[q]
    BY <1>1, <1>4, <2>1 DEF Sides
  <2>5. pa[q] # Null => pa[q] \in live /\ q \in {l[pa[q]], r[pa[q]]}
    <3>1. CASE q = d
      BY <2>3, <3>1
    <3>2. CASE q # d
      BY <1>8, <2>2, <2>3, <3>2
    <3> QED BY <3>1, <3>2
  <2>6. pa[q] # Null
    BY <2>2, <2>3
  <2>7. IF l[q] = Null THEN sT[q] \cap Lower[q] \cap live = {}
        ELSE l[q] \in live /\ pa[l[q]] = q /\ sT[l[q]] = sT[q] \cap Lower[q]
    <3>1. CASE l2[q] = Null
      BY <2>1, <2>2, <2>3, <2>4, <3>1
    <3>2. CASE l2[q] # Null
      <4>1. l2[q] # d
        BY <1>8, <2>1, <2>2, <3>2, <1>1
      <4>2. pa[l2[q]] = q /\ sT[l2[q]] = s2[l2[q]]
        BY <1>7, <1>8, <2>2, <3>2, <4>1
      <4> QED BY <2>1, <2>2, <2>3, <3>2, <4>2
    <3> QED BY <3>1, <3>2
  <2>8. IF r[q] = Null THEN sT[q] \cap Upper[q] \cap live = {}
        ELSE r[q] \in live /\ pa[r[q]] = q /\ sT[r[q]] = sT[q] \cap Upper[q]
    <3>1. CASE r2[q] = Null
      BY <2>1, <2>2, <2>3, <2>4, <3>1
    <3>2. CASE r2[q] # Null
      <4>1. r2[q] # d
        BY <1>8, <2>1, <2>2, <3>2, <1>1
      <4>2. pa[r2[q]] = q /\ sT[r2[q]] = s2[r2[q]]
        BY <1>7, <1>8, <2>2, <3>2, <4>1
      <4> QED BY <2>1, <2>2, <2>3, <3>2, <4>2
    <3> QED BY <3>1, <3>2
  <2> QED BY <2>1, <2>2, <2>5, <2>6, <2>7, <2>8 DEF OneNode
<1>12. /\ i.top = m /\ m \in live /\ pa[m] = Null /\ sT[m] = all /\ live \subseteq Page
  BY <1>1, <1>2, <1>6, <1>7, <1>8
<1>13. \A q \in live : OneNode(i.top, live, i.l, i.r, i.pa, sT, q)
  BY <1>9, <1>11, <1>12 DEF l, r, pa
<1> HIDE DEF live
<1>14. SearchTree(i, live, sT, all)
  BY <1>1, <1>7, <1>12, <1>13, NodeByNode DEF pa
<1> QED BY <1>14 DEF live

\* A tree on one side of x may be a tree of all that is not beyond x, or of every
\* page.
LEMMA OneHalf ==
    ASSUME PagesOK, NEW x \in Page, NEW h, NEW live, NEW s, NEW all \in {Lower[x], Upper[x]},
           SearchTree(h, live, s, all), NEW goal \in SUBSET Page, all \subseteq goal
    PROVE  \E sT : SearchTree(h, live, sT, goal)
<1> DEFINE more == goal \ all
<1>1. Sides(Lower, Upper) /\ live \subseteq all /\ live \subseteq Page
  <2>1. live \subseteq all
    BY AllIn
  <2> QED BY <2>1, LowerUpper DEF SearchTree, Whole, Top
<1>2. all \subseteq Page
  BY <1>1 DEF Sides
<1>3. AllBeyond(live, more)
  <2>1. CASE all = Lower[x]
    <3>1. \A y \in more : \A q \in live : y \in Upper[q]
      BY <1>1, <2>1 DEF Sides
    <3> QED BY <3>1 DEF AllBeyond
  <2>2. CASE all = Upper[x]
    <3>1. \A y \in more : \A q \in live : y \in Lower[q]
      BY <1>1, <2>2 DEF Sides
    <3> QED BY <3>1 DEF AllBeyond
  <2> QED BY <2>1, <2>2
<1>4. more \in SUBSET Page /\ more \cap all = {} /\ all \cup more = goal
  OBVIOUS
<1> HIDE DEF more
<1>5. \E sT : SearchTree(h, live, sT, all \cup more)
  BY <1>2, <1>3, <1>4, WideTree
<1> QED BY <1>4, <1>5

\* The two halves of a tree around x, once the greatest page m of the one below x
\* has come to its top, are one tree again.
LEMMA TwoHalves ==
    ASSUME PagesOK, NEW x \in Page, NEW h1, NEW L1, NEW s1, SearchTree(h1, L1, s1, Lower[x]),
           NEW m, h1.top = m, m # Null, \A q \in L1 : q = m \/ q \in Lower[m],
           NEW h2, NEW L2, NEW s2, SearchTree(h2, L2, s2, Upper[x]),
           NEW d, h2.top = d, d # Null,
           NEW i, Glued(h1, L1, m, h2, L2, d, i)
    PROVE  /\ h1.r[m] = Null
           /\ \E sT : SearchTree(i, L1 \cup L2, sT, Page)
<1>1. /\ Sides(Lower, Upper) /\ L1 \subseteq Lower[x] /\ L1 \subseteq Page /\ m \in L1
      /\ Lower[x] \subseteq Page
  <2>1. L1 \subseteq Lower[x]
    BY AllIn
  <2>2. L1 \subseteq Page /\ m \in L1
    BY DEF SearchTree, Whole, Top
  <2>3. Lower[x] \subseteq Page
    BY LowerUpper DEF Sides
  <2> QED BY <2>1, <2>2, <2>3, LowerUpper
<1>2. h1.r[m] = Null
  <2>1. Kids(h1, L1, s1, m)
    BY <1>1, KidsAre
  <2>2. ASSUME h1.r[m] # Null PROVE FALSE
    <3> DEFINE c == h1.r[m]
    <3>1. c \in L1 /\ c # m /\ s1[c] = s1[m] \cap Upper[m]
      BY <2>1, <2>2 DEF Kids
    <3> HIDE DEF c
    <3>2. c \in s1[c]
      BY <3>1, KidsAre DEF Kids
    <3>3. c \in Upper[m] /\ c \in Lower[m]
      BY <3>1, <3>2
    <3> QED BY <1>1, <3>3 DEF Sides
  <2> QED BY <2>2
<1>3. PICK sE : SearchTree(h1, L1, sE, Page)
  BY <1>1, OneHalf
<1>4. Upper[x] \subseteq Upper[m] /\ Upper[m] \in SUBSET Page /\ Page \cap Upper[m] = Upper[m]
  BY <1>1 DEF Sides
<1>5. PICK sD : SearchTree(h2, L2, sD, Upper[m])
  BY <1>4, OneHalf
<1>6. SearchTree(h2, L2, sD, Page \cap Upper[m])
  BY <1>4, <1>5
<1> QED BY <1>2, <1>3, <1>6, GluedTree
=============================================================================
