---------------------------- MODULE SplayProofs ----------------------------
(***************************************************************************)
(* Theorems about Splay, for every finite set of pages and every set of    *)
(* frames.                                                                 *)
(*                                                                         *)
(* What rotations do to a tree of pointers is proved in SearchTrees.       *)
(* Shape reads the nodes of Splay as such a tree; rotate, a round of       *)
(* splay_node, the loop, and the hanging of a new node are then its        *)
(* Lifted, Round, OnTop and Hung.  What is left is what only this code     *)
(* does: the search, that counts the depth; the walk, whose levels end     *)
(* because each has a node less below it than the one before; and the      *)
(* unlinking of the deepest leaf.                                          *)
(***************************************************************************)
EXTENDS Splay, TLAPS, FiniteSetTheorems

INSTANCE SearchTrees

LEMMA PagesAreOK == PagesOK
BY PageAssumption DEF PagesOK, Null

\* The number of pages is a natural, and Null is none of them.
LEMMA PageFacts ==
    /\ IsFiniteSet(Page) /\ Cardinality(Page) \in Nat
    /\ Page \subseteq Nat /\ Null \notin Page
BY PageAssumption, FS_CardinalityType DEF Null


-----------------------------------------------------------------------------
(* The trees of Splay.                                                     *)

LeftOf(t)   == [q \in Page |-> t.node[q].left]
RightOf(t)  == [q \in Page |-> t.node[q].right]
ParentOf(t) == [q \in Page |-> t.node[q].parent]
LiveOf(t)   == {q \in Page : t.node[q].frame_id # NotFound}

\* A tree of Splay, as one of SearchTrees.
Shape(t) == [top |-> t.root, l |-> LeftOf(t), r |-> RightOf(t), pa |-> ParentOf(t)]

IsTree(t, s) == SearchTree(Shape(t), LiveOf(t), s, Page)

\* m is node n with these fields.
Fields(m, n, left, right, parent) ==
    /\ m \in Snode
    /\ m.frame_id = n.frame_id
    /\ m.left = left /\ m.right = right /\ m.parent = parent

\* The nodes that a rotation changes, one by one.
LEMMA TurnedFields ==
    ASSUME NEW n, \A r \in Page : n[r] \in Snode,
           NEW q \in Page, NEW x \in Page, NEW p \in Page,
           NEW g \in NodeOrNull, NEW inner \in NodeOrNull,
           x # p, g \notin {x, p}, inner = Null \/ inner \notin {x, p, g}
    PROVE  Fields(TurnedNode(n, q, x, p, g, inner), n[q],
                  IF q = p /\ n[p].left = x THEN inner
                  ELSE IF q = x /\ n[p].left # x THEN p
                  ELSE IF q = g /\ n[g].left = p THEN x ELSE n[q].left,
                  IF q = p /\ n[p].left # x THEN inner
                  ELSE IF q = x /\ n[p].left = x THEN p
                  ELSE IF q = g /\ n[g].left # p THEN x ELSE n[q].right,
                  IF q = p THEN x ELSE IF q = x THEN g
                  ELSE IF q = inner THEN p ELSE n[q].parent)
<1> DEFINE m == TurnedNode(n, q, x, p, g, inner)
<1>1. n[q] \in Snode /\ x \in NodeOrNull /\ p \in NodeOrNull
  BY DEF NodeOrNull
<1>2. CASE q = p /\ n[p].left = x
  <2>1. m = [n[p] EXCEPT !.left = inner, !.parent = x]
    BY <1>2 DEF TurnedNode
  <2>2. Fields(m, n[p], inner, n[p].right, x)
    BY <1>1, <1>2, <2>1 DEF Fields, Snode
  <2> QED BY <1>2, <2>2 DEF Fields
<1>3. CASE q = p /\ n[p].left # x
  <2>1. m = [n[p] EXCEPT !.right = inner, !.parent = x]
    BY <1>3 DEF TurnedNode
  <2>2. Fields(m, n[p], n[p].left, inner, x)
    BY <1>1, <1>3, <2>1 DEF Fields, Snode
  <2> QED BY <1>3, <2>2 DEF Fields
<1>4. CASE q = x /\ n[p].left = x
  <2>1. m = [n[x] EXCEPT !.right = p, !.parent = g]
    BY <1>4 DEF TurnedNode
  <2>2. Fields(m, n[x], n[x].left, p, g)
    BY <1>1, <1>4, <2>1 DEF Fields, Snode
  <2> QED BY <1>4, <2>2 DEF Fields
<1>5. CASE q = x /\ n[p].left # x
  <2>1. m = [n[x] EXCEPT !.left = p, !.parent = g]
    BY <1>5 DEF TurnedNode
  <2>2. Fields(m, n[x], p, n[x].right, g)
    BY <1>1, <1>5, <2>1 DEF Fields, Snode
  <2> QED BY <1>5, <2>2 DEF Fields
<1>6. CASE q \notin {x, p} /\ q = inner
  <2>1. m = [n[q] EXCEPT !.parent = p]
    BY <1>6 DEF TurnedNode
  <2>2. Fields(m, n[q], n[q].left, n[q].right, p)
    BY <1>1, <2>1 DEF Fields, Snode
  <2>3. q # g
    BY <1>6, PageFacts
  <2> QED BY <1>6, <2>2, <2>3 DEF Fields
<1>7. CASE q \notin {x, p, inner} /\ q = g /\ n[g].left = p
  <2>1. m = [n[q] EXCEPT !.left = x]
    BY <1>7 DEF TurnedNode
  <2>2. Fields(m, n[q], x, n[q].right, n[q].parent)
    BY <1>1, <2>1 DEF Fields, Snode
  <2> QED BY <1>7, <2>2 DEF Fields
<1>8. CASE q \notin {x, p, inner} /\ q = g /\ n[g].left # p
  <2>1. m = [n[q] EXCEPT !.right = x]
    BY <1>8 DEF TurnedNode
  <2>2. Fields(m, n[q], n[q].left, x, n[q].parent)
    BY <1>1, <2>1 DEF Fields, Snode
  <2> QED BY <1>8, <2>2 DEF Fields
<1>9. CASE q \notin {x, p, inner, g}
  <2>1. m = n[q]
    BY <1>9 DEF TurnedNode
  <2>2. Fields(m, n[q], n[q].left, n[q].right, n[q].parent)
    BY <1>1, <2>1 DEF Fields, Snode
  <2> QED BY <1>9, <2>2 DEF Fields
<1> QED BY <1>2, <1>3, <1>4, <1>5, <1>6, <1>7, <1>8, <1>9

\* Trees with the same frames have the same nodes.
SameFrames(t, u) == \A q \in Page : u.node[q].frame_id = t.node[q].frame_id

LEMMA SameLive ==
    ASSUME NEW t, NEW u, SameFrames(t, u)
    PROVE  LiveOf(u) = LiveOf(t)
BY DEF SameFrames, LiveOf

\* The types of a tree's parts.
LEMMA TreeTypes ==
    ASSUME NEW t \in Tree
    PROVE  /\ t.root \in NodeOrNull
           /\ t.node \in [Page -> Snode]
           /\ \A q \in Page : /\ t.node[q] \in Snode
                              /\ t.node[q].left \in NodeOrNull
                              /\ t.node[q].right \in NodeOrNull
                              /\ t.node[q].parent \in NodeOrNull
                              /\ LeftOf(t)[q] = t.node[q].left
                              /\ RightOf(t)[q] = t.node[q].right
                              /\ ParentOf(t)[q] = t.node[q].parent
           /\ LiveOf(t) \subseteq Page
BY DEF Tree, Snode, LeftOf, RightOf, ParentOf, LiveOf

\* rotate takes x up, and leaves every node its frame.
LEMMA RotateLifts ==
    ASSUME NEW t \in Tree, NEW s, IsTree(t, s),
           NEW x \in LiveOf(t), t.node[x].parent # Null
    PROVE  /\ rotate(t, x) \in Tree
           /\ SameFrames(t, rotate(t, x))
           /\ Lifted(Shape(t), x, Shape(rotate(t, x)))
<1> DEFINE p == t.node[x].parent
           g == t.node[p].parent
           inner == IF t.node[p].left = x THEN t.node[x].right ELSE t.node[x].left
           n == [q \in Page |-> TurnedNode(t.node, q, x, p, g, inner)]
           u == rotate(t, x)
           L == LeftOf(t)
           R == RightOf(t)
           P == ParentOf(t)
<1>1. u = [root |-> IF g = Null THEN x ELSE t.root, node |-> n]
  BY DEF rotate
<1>2. /\ Sides(Lower, Upper) /\ Sides(Upper, Lower)
      /\ Whole(t.root, LiveOf(t), L, R, P, s, Page, Lower, Upper)
      /\ Whole(t.root, LiveOf(t), R, L, P, s, Page, Upper, Lower)
  BY PagesAreOK, LowerUpper, Mirror DEF IsTree, SearchTree, Shape
<1>3. x \in Page /\ P[x] = p /\ p # Null
  BY TreeTypes
<1>4. /\ p \in LiveOf(t) /\ p \in Page /\ x # p
      /\ \/ L[p] = x /\ R[p] # x
         \/ R[p] = x /\ L[p] # x
  <2> HIDE DEF p, L, R, P
  <2>1. P[x] # Null
    BY <1>3
  <2>2. /\ P[x] \in LiveOf(t) /\ x # P[x]
        /\ \/ L[P[x]] = x /\ R[P[x]] # x
           \/ R[P[x]] = x /\ L[P[x]] # x
    BY <1>2, <2>1, PagesAreOK, OneSide
  <2> QED BY <1>3, <2>2, TreeTypes
<1>5. /\ L[p] = t.node[p].left /\ R[p] = t.node[p].right /\ P[p] = g
      /\ L[x] = t.node[x].left /\ R[x] = t.node[x].right
      /\ g \in NodeOrNull /\ inner \in NodeOrNull /\ Null \notin Page
      /\ inner = IF L[p] = x THEN R[x] ELSE L[x]
  <2> HIDE DEF p
  <2> QED BY <1>3, <1>4, TreeTypes, PageFacts
<1> HIDE DEF p, g, inner, n, u, L, R, P
<1>6. g \notin {x, p} /\ (inner = Null \/ inner \notin {x, p, g})
  <2>1. CASE L[p] = x
    <3>1. L[P[x]] = x /\ P[x] # Null
      BY <1>3, <2>1
    <3>2. /\ P[P[x]] \notin {x, P[x]}
          /\ R[x] # Null => R[x] \notin {x, P[x], P[P[x]]}
      BY <1>2, <3>1, PagesAreOK, Kin
    <3> QED BY <1>3, <1>5, <2>1, <3>2
  <2>2. CASE L[p] # x
    <3>1. R[P[x]] = x /\ P[x] # Null
      BY <1>3, <1>4, <2>2
    <3>2. /\ P[P[x]] \notin {x, P[x]}
          /\ L[x] # Null => L[x] \notin {x, P[x], P[P[x]]}
      BY <1>2, <3>1, PagesAreOK, Kin
    <3> QED BY <1>3, <1>5, <2>2, <3>2
  <2> QED BY <2>1, <2>2
<1>7. ASSUME g # Null
      PROVE  /\ g \in Page /\ L[g] = t.node[g].left /\ R[g] = t.node[g].right
             /\ R[g] = p <=> L[g] # p
  <2>1. P[p] # Null
    BY <1>5, <1>7
  <2>2. /\ P[p] \in LiveOf(t)
        /\ \/ L[P[p]] = p /\ R[P[p]] # p
           \/ R[P[p]] = p /\ L[P[p]] # p
    BY <1>2, <1>4, <2>1, PagesAreOK, OneSide
  <2> QED BY <1>5, <2>2, TreeTypes DEF L, R
<1>8. ASSUME NEW q \in Page
      PROVE  /\ n[q] \in Snode /\ n[q].frame_id = t.node[q].frame_id
             /\ n[q].left = IF q = p /\ L[p] = x THEN inner
                            ELSE IF q = x /\ L[p] # x THEN p
                            ELSE IF q = g /\ L[g] = p THEN x ELSE L[q]
             /\ n[q].right = IF q = p /\ L[p] # x THEN inner
                             ELSE IF q = x /\ L[p] = x THEN p
                             ELSE IF q = g /\ R[g] = p THEN x ELSE R[q]
             /\ n[q].parent = IF q = p THEN x ELSE IF q = x THEN g
                              ELSE IF q = inner THEN p ELSE P[q]
  <2> DEFINE m == TurnedNode(t.node, q, x, p, g, inner)
  <2>1. n[q] = m
    BY DEF n
  <2>2. \A r \in Page : t.node[r] \in Snode
    BY TreeTypes
  <2>3. Fields(m, t.node[q],
               IF q = p /\ t.node[p].left = x THEN inner
               ELSE IF q = x /\ t.node[p].left # x THEN p
               ELSE IF q = g /\ t.node[g].left = p THEN x ELSE t.node[q].left,
               IF q = p /\ t.node[p].left # x THEN inner
               ELSE IF q = x /\ t.node[p].left = x THEN p
               ELSE IF q = g /\ t.node[g].left # p THEN x ELSE t.node[q].right,
               IF q = p THEN x ELSE IF q = x THEN g
               ELSE IF q = inner THEN p ELSE t.node[q].parent)
    <3>1. /\ x \in Page /\ p \in Page /\ g \in NodeOrNull /\ inner \in NodeOrNull
          /\ x # p /\ g \notin {x, p}
          /\ inner = Null \/ inner \notin {x, p, g}
      BY <1>3, <1>4, <1>5, <1>6
    <3> QED BY <2>2, <3>1, TurnedFields, Zenon
  <2>4. /\ L[q] = t.node[q].left /\ R[q] = t.node[q].right /\ P[q] = t.node[q].parent
    BY TreeTypes DEF L, R, P
  <2>5. q = g => g # Null
    BY <1>5
  <2> HIDE DEF m
  <2> QED BY <1>5, <1>7, <2>1, <2>3, <2>4, <2>5 DEF Fields
<1>9. u \in Tree /\ u.node = n /\ u.root = IF g = Null THEN x ELSE t.root
  <2>1. n \in [Page -> Snode]
    <3>1. n = [q \in Page |-> n[q]]
      BY DEF n
    <3> QED BY <1>8, <3>1
  <2> QED BY <1>1, <1>3, <2>1, TreeTypes DEF Tree, NodeOrNull
<1>10. \A q \in Page : /\ LeftOf(u)[q] = n[q].left /\ RightOf(u)[q] = n[q].right
                       /\ ParentOf(u)[q] = n[q].parent
  BY <1>9 DEF LeftOf, RightOf, ParentOf
<1>11. SameFrames(t, u) /\ LiveOf(u) = LiveOf(t)
  BY <1>8, <1>9, SameLive DEF SameFrames
<1>12. u.node[x].parent = g
  BY <1>3, <1>4, <1>8, <1>9
<1>13. /\ Shape(t).top = t.root /\ Shape(t).l = L /\ Shape(t).r = R /\ Shape(t).pa = P
       /\ Shape(u).top = u.root /\ Shape(u).l = LeftOf(u) /\ Shape(u).r = RightOf(u)
       /\ Shape(u).pa = ParentOf(u)
  BY DEF Shape, L, R, P
<1>14. Lifted(Shape(t), x, Shape(u))
  <2>1. CASE L[p] = x
    <3>1. Turned(t.root, L, R, P, x, u.root, LeftOf(u), RightOf(u), ParentOf(u))
      BY <1>3, <1>4, <1>5, <1>6, <1>8, <1>9, <1>10, <2>1 DEF Turned
    <3> QED BY <1>3, <1>13, <2>1, <3>1 DEF Lifted
  <2>2. CASE L[p] # x
    <3>1. Turned(t.root, R, L, P, x, u.root, RightOf(u), LeftOf(u), ParentOf(u))
      BY <1>3, <1>4, <1>5, <1>6, <1>8, <1>9, <1>10, <2>2 DEF Turned
    <3> QED BY <1>3, <1>13, <2>2, <3>1 DEF Lifted
  <2> QED BY <2>1, <2>2
<1> QED BY <1>9, <1>11, <1>14 DEF u

\* u is t with its nodes rearranged as in a round of the loop.
OneRound(t, x, u) ==
    /\ u \in Tree
    /\ SameFrames(t, u)
    /\ Round(Shape(t), x, Shape(u))

\* Zig, zig-zig and zig-zag are the rounds of SearchTrees.
LEMMA StepRound ==
    ASSUME NEW t \in Tree, NEW s, IsTree(t, s),
           NEW x \in LiveOf(t), t.node[x].parent # Null
    PROVE  OneRound(t, x, SplayStep(t, x))
<1> DEFINE p == t.node[x].parent
           g == t.node[p].parent
           h == Shape(t)
<1>1. SearchTree(h, LiveOf(t), s, Page) /\ PagesOK
  BY PagesAreOK DEF IsTree
<1>2. \A q \in Page : h.l[q] = t.node[q].left /\ h.pa[q] = t.node[q].parent
  BY TreeTypes DEF Shape
<1>3. x \in Page /\ h.pa[x] = p /\ p # Null
  BY <1>2, TreeTypes
<1> HIDE DEF h
<1>4. p \in LiveOf(t) /\ p \in Page /\ h.pa[p] = g
  <2> HIDE DEF p
  <2>1. p \in LiveOf(t)
    BY <1>1, <1>3, NodeFacts
  <2> QED BY <1>2, <2>1, TreeTypes DEF p
<1>5. h.l[p] = t.node[p].left
  BY <1>2, <1>4
<1>6. ASSUME g # Null PROVE h.l[g] = t.node[g].left
  <2> HIDE DEF p, g
  <2>1. g \in LiveOf(t)
    BY <1>1, <1>4, <1>6, NodeFacts
  <2> QED BY <1>2, <2>1, TreeTypes
<1>7. \/ g = Null /\ SplayStep(t, x) = rotate(t, x)
      \/ g # Null /\ SameSide(h, x) /\ SplayStep(t, x) = rotate(rotate(t, p), x)
      \/ g # Null /\ ~SameSide(h, x) /\ SplayStep(t, x) = rotate(rotate(t, x), x)
  <2>1. g # Null => (SameSide(h, x) <=> ((t.node[g].left = p) = (t.node[p].left = x)))
    <3> HIDE DEF p, g
    <3> QED BY <1>3, <1>4, <1>5, <1>6 DEF SameSide
  <2> QED BY <2>1 DEF SplayStep
<1> HIDE DEF p, g
<1>8. CASE g = Null /\ SplayStep(t, x) = rotate(t, x)
  <2>1. /\ rotate(t, x) \in Tree /\ SameFrames(t, rotate(t, x))
        /\ Lifted(h, x, Shape(rotate(t, x)))
    BY RotateLifts DEF h
  <2> QED BY <1>3, <1>4, <1>8, <2>1 DEF OneRound, Round, h
<1>9. ASSUME g # Null, NEW y \in {x, p}, y = IF SameSide(h, x) THEN p ELSE x
      PROVE  OneRound(t, x, rotate(rotate(t, y), x))
  <2> DEFINE u == rotate(t, y)
             m == Shape(u)
  <2>1. y \in LiveOf(t) /\ t.node[y].parent # Null
    BY <1>3, <1>4, <1>9 DEF g, p
  <2>2. u \in Tree /\ SameFrames(t, u) /\ Lifted(h, y, m)
    BY <2>1, RotateLifts DEF h
  <2>3. LiveOf(u) = LiveOf(t)
    BY <2>2, SameLive
  <2> HIDE DEF u, m
  <2>4. SearchTree(m, LiveOf(t), LiftedSpan(s, y, h.pa[y]), Page)
    BY <1>1, <2>1, <2>2, LiftedTree
  <2>5. First(h, x, m)
    BY <1>3, <1>9, <2>2 DEF First
  <2>6. m.pa[x] # Null
    <3>1. Second(h, x, m)
      BY <1>1, <1>3, <1>4, <1>9, <2>5, TwoLifts
    <3> QED BY <1>3, <1>4, <1>9, <3>1 DEF Second
  <2>7. u.node[x].parent # Null
    BY <1>3, <2>2, <2>6, TreeTypes DEF Shape, m
  <2>8. IsTree(u, LiftedSpan(s, y, h.pa[y])) /\ x \in LiveOf(u)
    BY <2>3, <2>4 DEF IsTree, m
  <2>9. /\ rotate(u, x) \in Tree /\ SameFrames(u, rotate(u, x))
        /\ Lifted(m, x, Shape(rotate(u, x)))
    <3> HIDE DEF IsTree
    <3> QED BY <2>2, <2>7, <2>8, RotateLifts DEF m
  <2>10. SameFrames(t, rotate(u, x))
    BY <2>2, <2>9 DEF SameFrames
  <2>11. Round(h, x, Shape(rotate(u, x)))
    BY <1>3, <1>4, <1>9, <2>5, <2>9 DEF Round
  <2> QED BY <2>9, <2>10, <2>11 DEF OneRound, u, h
<1> QED BY <1>7, <1>8, <1>9

\* What splay_node does to x.
Turn(u, x) == IF u.node[x].parent = Null THEN u ELSE SplayStep(u, x)

\* u is t with x on top, after all the rounds of the loop.
Topped(t, s, x, u) ==
    /\ u \in Tree
    /\ SameFrames(t, u)
    /\ u.root = x
    /\ OnTop(Shape(t), Shape(u), LiveOf(t), s, Page, x)

\* splay_node ends, with x on top of a search tree of the same nodes.
LEMMA SplayNode ==
    ASSUME NEW t \in Tree, NEW s, IsTree(t, s), NEW x \in LiveOf(t)
    PROVE  /\ Topped(t, s, x, splay_node(t, x))
           /\ \E sT : IsTree(splay_node(t, x), sT)
<1> DEFINE Good == {u \in Tree : SameFrames(t, u) /\ \E sT : IsTree(u, sT)}
           body == [u \in Good |-> Turn(u, x)]
           Follows(f) == f = [k \in Nat |-> IF k = 0 THEN t ELSE Turn(f[k - 1], x)]
           after == CHOOSE f : Follows(f)
           N == Cardinality(Page)
<1>1. t \in Good
  BY DEF SameFrames
<1>2. ASSUME NEW u \in Good
      PROVE  /\ u \in Tree /\ SameFrames(t, u) /\ LiveOf(u) = LiveOf(t)
             /\ u.node[x].parent = Shape(u).pa[x]
             /\ u.node[x].parent # Null => Round(Shape(u), x, Shape(Turn(u, x)))
             /\ Turn(u, x) \in Good
  <2>1. u \in Tree /\ SameFrames(t, u) /\ LiveOf(u) = LiveOf(t)
    BY SameLive
  <2>2. u.node[x].parent = Shape(u).pa[x]
    BY <2>1, TreeTypes DEF Shape
  <2>3. CASE u.node[x].parent = Null
    BY <2>1, <2>2, <2>3 DEF Turn
  <2>4. CASE u.node[x].parent # Null
    <3>1. PICK sT : IsTree(u, sT)
      OBVIOUS
    <3>2. OneRound(u, x, Turn(u, x))
      BY <2>1, <2>4, <3>1, StepRound DEF Turn
    <3> DEFINE w == Turn(u, x)
    <3>3. w \in Tree /\ SameFrames(u, w) /\ Round(Shape(u), x, Shape(w))
      BY <3>2 DEF OneRound
    <3>4. LiveOf(w) = LiveOf(u) /\ SameFrames(t, w)
      BY <2>1, <3>3, SameLive DEF SameFrames
    <3> HIDE DEF w
    <3>5. \E sU : IsTree(w, sU)
      <4> DEFINE h == Shape(u)
                 i == Shape(w)
                 live == LiveOf(u)
      <4>1. SearchTree(h, live, sT, Page) /\ x \in live
        BY <2>1, <3>1 DEF IsTree
      <4>2. h.pa[x] # Null
        BY <2>2, <2>4
      <4>3. Round(h, x, i)
        BY <3>3
      <4> HIDE DEF h, i, live
      <4>4. \E sU : SearchTree(i, live, sU, Page)
        BY <4>1, <4>2, <4>3, PagesAreOK, RoundTree
      <4> QED BY <3>4, <4>4 DEF i, live, IsTree
    <3> QED BY <2>1, <2>2, <3>3, <3>4, <3>5 DEF w
  <2> QED BY <2>3, <2>4
<1>3. splay_node(t, x) = [after[N] EXCEPT !.root = x]
  BY DEF splay_node, Turn
<1> HIDE DEF Good
<1>4. \E f : Follows(f)
  <2>1. body \in [Good -> Good]
    BY <1>2
  <2> HIDE DEF body
  <2>2. PICK f \in [Nat -> Good] : f[0] = t /\ \A k \in Nat : f[k + 1] = body[f[k]]
    BY <1>1, <2>1, Loop
  <2>3. ASSUME NEW k \in Nat PROVE f[k] = IF k = 0 THEN t ELSE Turn(f[k - 1], x)
    <3>1. CASE k = 0
      BY <2>2, <3>1
    <3>2. CASE k # 0
      <4>1. k - 1 \in Nat /\ (k - 1) + 1 = k
        BY <3>2
      <4>2. f[k] = body[f[k - 1]] /\ f[k - 1] \in Good
        BY <2>2, <4>1
      <4> QED BY <3>2, <4>2 DEF body
    <3> QED BY <3>1, <3>2
  <2>4. f = [k \in Nat |-> f[k]]
    BY <2>2
  <2>5. f = [k \in Nat |-> IF k = 0 THEN t ELSE Turn(f[k - 1], x)]
    BY <2>3, <2>4
  <2> QED BY <2>5
<1>5. after[0] = t /\ \A k \in Nat : after[k + 1] = Turn(after[k], x)
  <2>1. Follows(after)
    BY <1>4
  <2>2. after = [k \in Nat |-> IF k = 0 THEN t ELSE Turn(after[k - 1], x)]
    BY <2>1
  <2> HIDE DEF after
  <2>3. \A k \in Nat : after[k] = IF k = 0 THEN t ELSE Turn(after[k - 1], x)
    BY <2>2
  <2>4. ASSUME NEW k \in Nat PROVE after[k + 1] = Turn(after[k], x)
    <3>1. k + 1 \in Nat /\ k + 1 # 0 /\ (k + 1) - 1 = k
      OBVIOUS
    <3> QED BY <2>3, <3>1
  <2> QED BY <2>3, <2>4
<1> HIDE DEF after, Follows, body
<1>6. \A k \in Nat : after[k] \in Good
  <2> DEFINE I == {k \in Nat : after[k] \in Good}
  <2>1. 0 \in I /\ \A k \in Nat : k \in I => k + 1 \in I
    BY <1>1, <1>2, <1>5
  <2> HIDE DEF I
  <2>2. Nat \subseteq I
    BY <2>1, NatSteps
  <2> QED BY <2>2 DEF I
<1> DEFINE h == [k \in Nat |-> Shape(after[k])]
<1>7. \E c : c[0] \in Nat /\ Splays(h, c, x)
  <2> DEFINE g == [k \in Nat |-> [n \in Nat |-> IF h[k].pa[x] = Null THEN n
                                                ELSE n + Rotations(h[k], x)]]
  <2>1. Stays(Nat, g)
    <3>1. \A k \in Nat : Rotations(h[k], x) \in Nat
      BY DEF Rotations
    <3> HIDE DEF h
    <3> QED BY <3>1 DEF Stays
  <2>2. PICK c \in [Nat -> Nat] : GoesOn(0, g, c)
    <3> HIDE DEF g
    <3> QED BY <2>1, LoopAt
  <2>3. c[0] \in Nat
    BY <2>2
  <2>4. ASSUME NEW k \in Nat
        PROVE  IF h[k].pa[x] = Null THEN h[k + 1] = h[k] /\ c[k + 1] = c[k]
               ELSE Round(h[k], x, h[k + 1]) /\ c[k + 1] = c[k] + Rotations(h[k], x)
    <3>1. /\ h[k] = Shape(after[k]) /\ h[k + 1] = Shape(after[k + 1])
          /\ after[k] \in Good /\ after[k + 1] = Turn(after[k], x)
      BY <1>5, <1>6
    <3>2. c[k + 1] = IF h[k].pa[x] = Null THEN c[k] ELSE c[k] + Rotations(h[k], x)
      <4>1. c[k + 1] = g[k][c[k]] /\ c[k] \in Nat
        BY <2>2 DEF GoesOn
      <4> HIDE DEF h
      <4> QED BY <4>1
    <3> HIDE DEF h
    <3>3. CASE h[k].pa[x] = Null
      <4>1. after[k + 1] = after[k]
        BY <1>2, <3>1, <3>3 DEF Turn
      <4> QED BY <3>1, <3>2, <3>3, <4>1
    <3>4. CASE h[k].pa[x] # Null
      BY <1>2, <3>1, <3>2, <3>4
    <3> QED BY <3>3, <3>4
  <2> HIDE DEF g, h
  <2>5. Splays(h, c, x)
    BY <2>4 DEF Splays
  <2> QED BY <2>3, <2>5
<1>8. OnTop(h[0], h[N], LiveOf(t), s, Page, x)
  <2>1. h[0] = Shape(t)
    BY <1>5
  <2>2. SearchTree(h[0], LiveOf(t), s, Page)
    BY <2>1 DEF IsTree
  <2> HIDE DEF h, N
  <2>3. PICK c : c[0] \in Nat /\ Splays(h, c, x)
    BY <1>7
  <2> QED BY <2>2, <2>3, PagesAreOK, Splayed DEF N
<1>9. /\ after[N] \in Tree /\ SameFrames(t, after[N]) /\ LiveOf(after[N]) = LiveOf(t)
      /\ h[0] = Shape(t) /\ h[N] = Shape(after[N]) /\ after[N].root = x
  <2>1. N \in Nat
    BY PageFacts
  <2> HIDE DEF N
  <2>2. h[0] = Shape(t) /\ h[N] = Shape(after[N])
    BY <1>5, <2>1
  <2>3. h[N].top = x
    BY <1>8 DEF OnTop
  <2>4. after[N].root = x
    BY <2>2, <2>3 DEF Shape
  <2> QED BY <1>2, <1>6, <2>1, <2>2, <2>4
<1> HIDE DEF N, h
<1>10. splay_node(t, x) = after[N]
  <2> DEFINE u == after[N]
  <2>1. u \in Tree /\ u.root = x
    BY <1>9
  <2> HIDE DEF u
  <2>2. [u EXCEPT !.root = x] = u
    BY <2>1 DEF Tree
  <2> QED BY <1>3, <2>2 DEF u
<1>11. \E sT : IsTree(after[N], sT)
  BY <1>8, <1>9 DEF OnTop, IsTree
<1> QED BY <1>8, <1>9, <1>10, <1>11 DEF Topped

-----------------------------------------------------------------------------
(* The search.                                                             *)

\* The tree of the state.
Linked(s) == This \in Tree /\ IsTree(This, s)

\* What This is.
LEMMA ThisTree ==
    ASSUME NEW s, Linked(s)
    PROVE  /\ root \in NodeOrNull /\ node \in [Page -> Snode]
           /\ \A q \in Page : /\ node[q] \in Snode
                              /\ node[q].left \in NodeOrNull
                              /\ node[q].right \in NodeOrNull
                              /\ node[q].parent \in NodeOrNull
           /\ This.root = root /\ This.node = node
           /\ LiveOf(This) = Live /\ Live \subseteq Page /\ Null \notin Page
           /\ IsFiniteSet(Live) /\ Cardinality(Live) \in Nat
           /\ Cardinality(Live) <= Cardinality(Page)
<1>1. This.root = root /\ This.node = node
  BY DEF This
<1>2. LiveOf(This) = Live /\ Live \subseteq Page
  BY <1>1 DEF LiveOf, Live
<1>3. IsFiniteSet(Live) /\ Cardinality(Live) <= Cardinality(Page)
  BY <1>2, PageFacts, FS_Subset
<1>4. Cardinality(Live) \in Nat
  BY <1>3, FS_CardinalityType
<1>5. This \in Tree
  BY DEF Linked
<1>6. /\ root \in NodeOrNull /\ node \in [Page -> Snode]
      /\ \A q \in Page : /\ node[q] \in Snode
                         /\ node[q].left \in NodeOrNull
                         /\ node[q].right \in NodeOrNull
                         /\ node[q].parent \in NodeOrNull
  BY <1>1, <1>5, TreeTypes
<1> QED BY <1>1, <1>2, <1>3, <1>4, <1>6, PageFacts

\* The state's tree, in terms of its variables.
LEMMA LinkedFacts ==
    ASSUME NEW s, Linked(s)
    PROVE  /\ s \in [Page -> SUBSET Page]
           /\ IF root = Null THEN Live = {}
              ELSE root \in Live /\ node[root].parent = Null /\ s[root] = Page
           /\ \A q \in Live :
                 /\ q \in s[q] /\ s[q] \subseteq Page
                 /\ node[q].parent = Null => q = root
                 /\ node[q].parent # Null =>
                       /\ node[q].parent \in Live
                       /\ q \in {node[node[q].parent].left, node[node[q].parent].right}
                 /\ IF node[q].left = Null THEN s[q] \cap Lower[q] \cap Live = {}
                    ELSE /\ node[q].left \in Live /\ node[node[q].left].parent = q
                         /\ s[node[q].left] = s[q] \cap Lower[q]
                 /\ IF node[q].right = Null THEN s[q] \cap Upper[q] \cap Live = {}
                    ELSE /\ node[q].right \in Live /\ node[node[q].right].parent = q
                         /\ s[node[q].right] = s[q] \cap Upper[q]
<1> DEFINE L == LeftOf(This)
           R == RightOf(This)
           P == ParentOf(This)
<1>1. Whole(root, Live, L, R, P, s, Page, Lower, Upper)
  BY ThisTree DEF Linked, IsTree, SearchTree, Shape
<1>2. \A q \in Page : L[q] = node[q].left /\ R[q] = node[q].right /\ P[q] = node[q].parent
  BY ThisTree DEF LeftOf, RightOf, ParentOf
<1>3. Live \subseteq Page
  BY ThisTree
<1> HIDE DEF L, R, P
<1>4. /\ s \in [Page -> SUBSET Page]
      /\ IF root = Null THEN Live = {}
         ELSE root \in Live /\ P[root] = Null /\ s[root] = Page
      /\ \A q \in Live : /\ q \in s[q]
                         /\ P[q] = Null => q = root
                         /\ P[q] # Null => P[q] \in Live /\ q \in {L[P[q]], R[P[q]]}
  BY <1>1 DEF Whole, Top
<1>5. /\ \A q \in Live : IF L[q] = Null THEN s[q] \cap Lower[q] \cap Live = {}
                         ELSE L[q] \in Live /\ P[L[q]] = q /\ s[L[q]] = s[q] \cap Lower[q]
      /\ \A q \in Live : IF R[q] = Null THEN s[q] \cap Upper[q] \cap Live = {}
                         ELSE R[q] \in Live /\ P[R[q]] = q /\ s[R[q]] = s[q] \cap Upper[q]
  BY <1>1 DEF Whole, Hangs
<1> QED BY <1>2, <1>3, <1>4, <1>5

\* Pages below and above, in terms of the order.
LEMMA Order ==
    ASSUME NEW p \in Page, NEW q \in Page
    PROVE  /\ p \in Lower[q] <=> p < q
           /\ p \in Upper[q] <=> q < p
           /\ p \in Nat /\ q \in Nat
BY PageFacts DEF Lower, Upper

\* The search goes on to where its page may be.
LEMMA ChildFacts ==
    ASSUME NEW s, Linked(s), NEW q \in Live, NEW p \in s[q], p # q
    PROVE  LET c == Child(q, p) IN
           /\ c \in NodeOrNull
           /\ c = Null => p \notin Live
           /\ c # Null => /\ c \in Live /\ p \in s[c] /\ node[c].parent = q
                          /\ s[c] \subseteq s[q] /\ q \notin s[c]
<1>1. q \in Page /\ p \in Page /\ s[q] \subseteq Page
  BY ThisTree, LinkedFacts
<1>2. q \notin Lower[q] /\ q \notin Upper[q]
  BY <1>1, Order
<1>3. CASE p < q
  <2>1. Child(q, p) = node[q].left /\ p \in Lower[q]
    BY <1>1, <1>3, Order DEF Child
  <2> QED BY <1>1, <1>2, <2>1, ThisTree, LinkedFacts
<1>4. CASE ~(p < q)
  <2>1. Child(q, p) = node[q].right /\ p \in Upper[q]
    <3>1. q < p
      BY <1>1, <1>4, PageFacts
    <3> QED BY <1>1, <1>4, <3>1, Order DEF Child
  <2> QED BY <1>1, <1>2, <2>1, ThisTree, LinkedFacts
<1> QED BY <1>3, <1>4

\* A node's depth is one more than its parent's.
LEMMA OneBelow ==
    ASSUME NEW s, Linked(s), NEW q \in Live
    PROVE  /\ Depth(Live, s, q) \in Nat
           /\ node[q].parent = Null => Depth(Live, s, q) = 0
           /\ node[q].parent # Null =>
                 Depth(Live, s, q) = Depth(Live, s, node[q].parent) + 1
<1> DEFINE h == Shape(This)
           live == Live
<1>1. SearchTree(h, live, s, Page) /\ q \in live
  BY ThisTree DEF Linked, IsTree
<1>2. h.pa[q] = node[q].parent
  BY ThisTree DEF Shape, ParentOf
<1> HIDE DEF h, live
<1>3. /\ Depth(live, s, q) \in Nat
      /\ h.pa[q] = Null => Depth(live, s, q) = 0
      /\ h.pa[q] # Null => Depth(live, s, q) = Depth(live, s, h.pa[q]) + 1
  BY <1>1, PagesAreOK, AboveChild
<1> QED BY <1>2, <1>3 DEF live

\* Where the search for p ends.
Ends(q, p) == q \in {p, Null} \/ Child(q, p) = Null

\* The recursion by which LastVisited is defined: one step, when h tells what
\* the search finds in one step less.
Step(h, p, k) ==
    [q \in NodeOrNull |->
       IF k = 0 \/ q \in {p, Null} \/ Child(q, p) = Null THEN <<q, 0>>
       ELSE LET qd == h[k - 1][Child(q, p)] IN <<qd[1], qd[2] + 1>>]

Looks(f, p) == f = [k \in Nat |-> Step(f, p, k)]

LEMMA LastVisitedIs ==
    ASSUME NEW p
    PROVE  LastVisited(p) = (CHOOSE f : Looks(f, p))[Cardinality(Page)][root]
BY DEF LastVisited, Looks, Step

\* There is such a function.
LEMMA SearchExists ==
    ASSUME NEW s, Linked(s), NEW p \in Page
    PROVE  \E f : Looks(f, p)
<1> DEFINE S == [NodeOrNull -> NodeOrNull \X Nat]
           a == [q \in NodeOrNull |-> <<q, 0>>]
           further(F) == [q \in NodeOrNull |->
                            IF Ends(q, p) THEN <<q, 0>>
                            ELSE <<F[Child(q, p)][1], F[Child(q, p)][2] + 1>>]
           body == [F \in S |-> further(F)]
<1>1. a \in S
  OBVIOUS
<1>2. ASSUME NEW F \in S PROVE further(F) \in S
  <2>1. ASSUME NEW q \in NodeOrNull, ~Ends(q, p)
        PROVE  F[Child(q, p)] \in NodeOrNull \X Nat
    <3>1. q \in Page
      BY <2>1 DEF Ends, NodeOrNull
    <3>2. Child(q, p) \in NodeOrNull
      BY <3>1, ThisTree DEF Child
    <3> QED BY <3>2
  <2>2. ASSUME NEW q \in NodeOrNull, ~Ends(q, p)
        PROVE  <<F[Child(q, p)][1], F[Child(q, p)][2] + 1>> \in NodeOrNull \X Nat
    BY <2>1, <2>2
  <2> QED BY <2>2
<1>3. body \in [S -> S]
  BY <1>2
<1> HIDE DEF S, a, further
<1>4. PICK F \in [Nat -> S] : F[0] = a /\ \A k \in Nat : F[k + 1] = body[F[k]]
  <2> HIDE DEF body
  <2> QED BY <1>1, <1>3, Loop
<1>5. \A k \in Nat : F[k] \in S /\ F[k + 1] = further(F[k])
  BY <1>4
<1> HIDE DEF body
<1>6. ASSUME NEW k \in Nat PROVE F[k] = Step(F, p, k)
  <2>1. CASE k = 0
    BY <1>4, <2>1 DEF a, Step
  <2>2. CASE k # 0
    <3>1. k - 1 \in Nat /\ (k - 1) + 1 = k
      BY <2>2
    <3>2. F[k] = further(F[k - 1])
      BY <1>5, <3>1
    <3> QED BY <2>2, <3>2 DEF further, Ends, Step
  <2> QED BY <2>1, <2>2
<1>7. F = [k \in Nat |-> Step(F, p, k)]
  BY <1>6
<1> QED BY <1>7 DEF Looks

\* A finite set that loses an element has fewer.
LEMMA Fewer ==
    ASSUME NEW A, NEW B, IsFiniteSet(A), B \subseteq A, NEW e \in A, e \notin B
    PROVE  /\ Cardinality(A) \in Nat /\ Cardinality(B) \in Nat
           /\ Cardinality(B) < Cardinality(A)
<1>1. IsFiniteSet(B) /\ Cardinality(B) <= Cardinality(A) /\ Cardinality(B) # Cardinality(A)
  BY FS_Subset
<1>2. Cardinality(A) \in Nat /\ Cardinality(B) \in Nat
  BY <1>1, FS_CardinalityType
<1> QED BY <1>1, <1>2

\* qd is where the search for p ends when it starts at q: a node that p, if it
\* is in the tree, may be under, as far below q as it is deeper, which is no
\* more than there are other nodes under q.
Outcome(s, p, q, qd) ==
    /\ qd[1] \in Live /\ p \in s[qd[1]] /\ Ends(qd[1], p)
    /\ qd[2] \in Nat /\ qd[2] < Cardinality(s[q] \cap Live)
    /\ Depth(Live, s, qd[1]) = Depth(Live, s, q) + qd[2]

\* The search ends where its page is, or would be.
LEMMA SearchEnds ==
    ASSUME NEW s, Linked(s), NEW p \in Page
    PROVE  IF root = Null THEN LastVisited(p) = <<Null, 0>>
           ELSE Outcome(s, p, root, LastVisited(p))
<1> DEFINE search == CHOOSE f : Looks(f, p)
           N == Cardinality(Page)
<1>1. \A k \in Nat : search[k] = Step(search, p, k)
  <2>1. Looks(search, p)
    BY SearchExists
  <2> HIDE DEF search
  <2> QED BY <2>1 DEF Looks
<1>2. LastVisited(p) = search[N][root]
  BY LastVisitedIs
<1> HIDE DEF search
<1> DEFINE Right(k) == \A q \in Live :
                          p \in s[q] /\ Cardinality(s[q] \cap Live) <= k
                          => Outcome(s, p, q, search[k][q])
           I == {k \in Nat : Right(k)}
<1>3. ASSUME NEW q \in Live
      PROVE  /\ IsFiniteSet(s[q] \cap Live) /\ Cardinality(s[q] \cap Live) \in Nat
             /\ Cardinality(s[q] \cap Live) > 0
             /\ q \in NodeOrNull /\ q # Null /\ q \in s[q] \cap Live
  <2>1. q \in s[q] \cap Live /\ IsFiniteSet(s[q] \cap Live)
    BY ThisTree, LinkedFacts, FS_Subset
  <2>2. Cardinality(s[q] \cap Live) \in Nat
    BY <2>1, FS_CardinalityType
  <2>3. Cardinality(s[q] \cap Live) # 0
    BY <2>1, FS_EmptySet
  <2>4. q \in NodeOrNull /\ q # Null
    BY ThisTree DEF NodeOrNull
  <2> QED BY <2>1, <2>2, <2>3, <2>4
<1>4. Right(0)
  BY <1>3
<1>5. ASSUME NEW k \in Nat, Right(k) PROVE Right(k + 1)
  <2> SUFFICES ASSUME NEW q \in Live, p \in s[q], Cardinality(s[q] \cap Live) <= k + 1
               PROVE  Outcome(s, p, q, search[k + 1][q])
    OBVIOUS
  <2>1. search[k + 1] = Step(search, p, k + 1) /\ k + 1 # 0 /\ (k + 1) - 1 = k
    BY <1>1
  <2>2. CASE Ends(q, p)
    <3>1. search[k + 1][q] = <<q, 0>>
      BY <1>3, <2>1, <2>2 DEF Step, Ends
    <3>2. search[k + 1][q][1] = q /\ search[k + 1][q][2] = 0
      BY <3>1
    <3>3. 0 \in Nat /\ 0 < Cardinality(s[q] \cap Live)
      BY <1>3
    <3>4. Depth(Live, s, q) = Depth(Live, s, q) + 0
      BY OneBelow
    <3> QED BY <2>2, <3>2, <3>3, <3>4 DEF Outcome
  <2>3. CASE ~Ends(q, p)
    <3> DEFINE c == Child(q, p)
               qd == search[k][c]
    <3>1. /\ c \in Live /\ p \in s[c] /\ s[c] \subseteq s[q] /\ q \notin s[c]
          /\ node[c].parent = q
      BY <2>3, ChildFacts DEF Ends
    <3>2. /\ Cardinality(s[c] \cap Live) < Cardinality(s[q] \cap Live)
          /\ Cardinality(s[c] \cap Live) \in Nat
      BY <1>3, <3>1, Fewer
    <3>3. search[k + 1][q] = <<qd[1], qd[2] + 1>>
      BY <1>3, <2>1, <2>3 DEF Step, Ends
    <3> HIDE DEF c
    <3>4. Outcome(s, p, c, qd)
      <4>1. Cardinality(s[c] \cap Live) <= k
        BY <1>3, <3>2
      <4> QED BY <1>5, <3>1, <4>1
    <3> HIDE DEF qd
    <3>5. qd[2] + 1 \in Nat /\ qd[2] + 1 < Cardinality(s[q] \cap Live)
      <4> DEFINE m == Cardinality(s[c] \cap Live)
                 n == Cardinality(s[q] \cap Live)
      <4>1. qd[2] \in Nat /\ qd[2] < m
        BY <3>4 DEF Outcome
      <4>2. m \in Nat /\ n \in Nat /\ m < n
        BY <1>3, <3>2
      <4> HIDE DEF m, n
      <4>3. qd[2] + 1 \in Nat /\ qd[2] + 1 < n
        BY <4>1, <4>2
      <4> QED BY <4>3 DEF n
    <3>6. Depth(Live, s, qd[1]) = Depth(Live, s, q) + (qd[2] + 1)
      <4> DEFINE D(r) == Depth(Live, s, r)
      <4>1. D(c) = D(q) + 1 /\ D(q) \in Nat
        BY <1>3, <3>1, OneBelow
      <4>2. D(qd[1]) = D(c) + qd[2] /\ qd[2] \in Nat
        BY <3>4 DEF Outcome
      <4> HIDE DEF D
      <4>3. D(qd[1]) = D(q) + (qd[2] + 1)
        BY <4>1, <4>2
      <4> QED BY <4>3 DEF D
    <3> QED BY <3>3, <3>4, <3>5, <3>6 DEF Outcome
  <2> QED BY <2>2, <2>3
<1> HIDE DEF Right
<1>6. \A k \in Nat : Right(k)
  <2>1. 0 \in I /\ \A k \in Nat : k \in I => k + 1 \in I
    BY <1>4, <1>5
  <2>2. Nat \subseteq I
    <3> HIDE DEF I
    <3> QED BY <2>1, NatSteps
  <2> QED BY <2>2
<1>7. CASE root = Null
  <2>1. search[N] = Step(search, p, N)
    BY <1>1, PageFacts
  <2> HIDE DEF N
  <2>2. search[N][Null] = <<Null, 0>>
    BY <2>1 DEF Step, NodeOrNull
  <2> QED BY <1>2, <1>7, <2>2
<1>8. CASE root # Null
  <2>1. root \in Live /\ p \in s[root] /\ s[root] \cap Live = Live
    BY <1>8, ThisTree, LinkedFacts
  <2>2. Cardinality(s[root] \cap Live) <= N /\ N \in Nat
    BY <2>1, ThisTree, PageFacts
  <2> HIDE DEF N
  <2>3. Right(N)
    BY <1>6, <2>2
  <2> QED BY <1>2, <1>8, <2>1, <2>2, <2>3 DEF Right
<1> QED BY <1>7, <1>8

\* It finds the pages that have a node, at a depth below their number.
LEMMA FoundIsLive ==
    ASSUME NEW s, Linked(s), NEW p \in Page
    PROVE  /\ Found(p) <=> p \in Live
           /\ Found(p) => LastVisited(p)[2] \in 0 .. Cardinality(Live) - 1
<1>1. CASE root = Null
  <2>1. LastVisited(p)[1] = Null /\ Live = {}
    BY <1>1, SearchEnds, LinkedFacts
  <2>2. p # Null
    BY ThisTree
  <2> QED BY <2>1, <2>2 DEF Found
<1>2. CASE root # Null
  <2> DEFINE qd == LastVisited(p)
  <2>1. Outcome(s, p, root, qd) /\ s[root] \cap Live = Live
    BY <1>2, SearchEnds, ThisTree, LinkedFacts
  <2> HIDE DEF qd
  <2>2. /\ qd[1] \in Live /\ p \in s[qd[1]] /\ Ends(qd[1], p)
        /\ qd[2] \in Nat /\ qd[2] < Cardinality(Live)
    BY <2>1 DEF Outcome
  <2>3. p \in Live => qd[1] = p
    <3> SUFFICES ASSUME p \in Live, qd[1] # p PROVE FALSE
      OBVIOUS
    <3>1. Child(qd[1], p) = Null
      BY <2>2, ThisTree DEF Ends
    <3> QED BY <2>2, <3>1, ChildFacts
  <2>4. qd[2] \in 0 .. Cardinality(Live) - 1
    BY <2>2, ThisTree
  <2> QED BY <2>2, <2>3, <2>4 DEF Found, qd
<1> QED BY <1>1, <1>2

-----------------------------------------------------------------------------
(* The walk.                                                               *)

\* The nodes one level below those in A.
Down(A) == UNION {{node[r].left, node[r].right} \ {Null} : r \in A}

\* The recursion by which Level is defined.
Descends(f, q) ==
    f = [k \in Nat |-> IF k = 0 THEN {q} \ {Null} ELSE Down(f[k - 1])]

LEMMA LevelIs ==
    ASSUME NEW q
    PROVE  Level(q) = CHOOSE f : Descends(f, q)
BY DEF Level, Descends, Down

\* The levels, one after the other.
LEMMA Levels ==
    ASSUME NEW s, Linked(s), NEW q \in NodeOrNull
    PROVE  /\ Level(q)[0] = {q} \ {Null}
           /\ \A k \in Nat : Level(q)[k + 1] = Down(Level(q)[k])
<1> DEFINE S == SUBSET Page
           a == {q} \ {Null}
           body == [A \in S |-> Down(A)]
           level == CHOOSE f : Descends(f, q)
<1>1. a \in S
  BY DEF NodeOrNull
<1>2. ASSUME NEW A \in S PROVE Down(A) \in S
  BY ThisTree DEF Down, NodeOrNull
<1>3. body \in [S -> S]
  BY <1>2
<1> HIDE DEF S, a
<1>4. PICK F \in [Nat -> S] : F[0] = a /\ \A k \in Nat : F[k + 1] = body[F[k]]
  <2> HIDE DEF body
  <2> QED BY <1>1, <1>3, Loop
<1>5. \A k \in Nat : F[k + 1] = Down(F[k])
  BY <1>4
<1> HIDE DEF body
<1>6. ASSUME NEW k \in Nat PROVE F[k] = IF k = 0 THEN {q} \ {Null} ELSE Down(F[k - 1])
  <2>1. CASE k = 0
    BY <1>4, <2>1 DEF a
  <2>2. CASE k # 0
    <3>1. k - 1 \in Nat /\ (k - 1) + 1 = k
      BY <2>2
    <3>2. F[k] = Down(F[k - 1])
      BY <1>5, <3>1
    <3> QED BY <2>2, <3>2
  <2> QED BY <2>1, <2>2
<1>7. F = [k \in Nat |-> IF k = 0 THEN {q} \ {Null} ELSE Down(F[k - 1])]
  BY <1>6
<1>8. Descends(level, q)
  <2>1. Descends(F, q)
    BY <1>7 DEF Descends
  <2> QED BY <2>1
<1> HIDE DEF level
<1>9. \A k \in Nat : level[k] = IF k = 0 THEN {q} \ {Null} ELSE Down(level[k - 1])
  BY <1>8 DEF Descends
<1>10. ASSUME NEW k \in Nat PROVE level[k + 1] = Down(level[k])
  <2>1. k + 1 \in Nat /\ k + 1 # 0 /\ (k + 1) - 1 = k
    OBVIOUS
  <2> QED BY <1>9, <2>1
<1> QED BY <1>9, <1>10, LevelIs DEF level

\* A node below another one is a node, that may hold less.
LEMMA ChildOf ==
    ASSUME NEW s, Linked(s), NEW r \in Live, NEW c \in {node[r].left, node[r].right} \ {Null}
    PROVE  /\ c \in Live /\ node[c].parent = r
           /\ c \in s[c] /\ s[c] \subseteq s[r] /\ r \notin s[c]
<1>1. r \in Page /\ r \notin Lower[r] /\ r \notin Upper[r]
  BY ThisTree, Order
<1>2. \/ c = node[r].left /\ c \in Live /\ node[c].parent = r /\ s[c] = s[r] \cap Lower[r]
      \/ c = node[r].right /\ c \in Live /\ node[c].parent = r /\ s[c] = s[r] \cap Upper[r]
  BY LinkedFacts
<1>3. c \in s[c]
  BY <1>2, LinkedFacts
<1> QED BY <1>1, <1>2, <1>3

\* What the walk reaches from q at depth k are nodes under q, and each level
\* leaves one node at least behind.
LEMMA LevelBounds ==
    ASSUME NEW s, Linked(s), NEW q \in Live, NEW k \in Nat, NEW r \in Level(q)[k]
    PROVE  /\ r \in Live /\ s[r] \subseteq s[q] /\ r \in s[q]
           /\ k + Cardinality(s[r] \cap Live) <= Cardinality(Live)
           /\ k < Cardinality(Live)
<1> DEFINE Card(x) == Cardinality(s[x] \cap Live)
           Right(n) == \A x \in Level(q)[n] : /\ x \in Live /\ s[x] \subseteq s[q]
                                              /\ n + Card(x) <= Cardinality(Live)
           I == {n \in Nat : Right(n)}
<1>0. q \in NodeOrNull /\ Cardinality(Live) \in Nat
  BY ThisTree DEF NodeOrNull
<1>1. ASSUME NEW x \in Live PROVE Card(x) \in Nat /\ Card(x) <= Cardinality(Live) /\ Card(x) > 0
  <2>1. x \in s[x] \cap Live /\ IsFiniteSet(s[x] \cap Live) /\ Card(x) <= Cardinality(Live)
    BY ThisTree, LinkedFacts, FS_Subset
  <2>2. Card(x) \in Nat
    BY <2>1, FS_CardinalityType
  <2>3. Card(x) # 0
    BY <2>1, FS_EmptySet
  <2> HIDE DEF Card
  <2> QED BY <2>1, <2>2, <2>3
<1>2. Right(0)
  <2>1. Level(q)[0] = {q} \ {Null}
    BY <1>0, Levels
  <2> HIDE DEF Card
  <2> QED BY <1>0, <1>1, <2>1
<1>3. ASSUME NEW n \in Nat, Right(n) PROVE Right(n + 1)
  <2> SUFFICES ASSUME NEW x \in Level(q)[n + 1]
               PROVE  /\ x \in Live /\ s[x] \subseteq s[q]
                      /\ (n + 1) + Card(x) <= Cardinality(Live)
    OBVIOUS
  <2>1. PICK y \in Level(q)[n] : x \in {node[y].left, node[y].right} \ {Null}
    <3>1. x \in Down(Level(q)[n])
      BY <1>0, Levels
    <3> QED BY <3>1 DEF Down
  <2>2. y \in Live /\ s[y] \subseteq s[q] /\ n + Card(y) <= Cardinality(Live)
    BY <1>3
  <2>3. x \in Live /\ s[x] \subseteq s[y] /\ y \notin s[x] /\ y \in s[y]
    BY <2>1, <2>2, ChildOf, LinkedFacts
  <2>4. Card(x) < Card(y)
    <3>1. IsFiniteSet(s[y] \cap Live)
      BY ThisTree, FS_Subset
    <3> QED BY <2>2, <2>3, <3>1, Fewer
  <2> HIDE DEF Card
  <2>5. (n + 1) + Card(x) <= Cardinality(Live)
    BY <1>0, <1>1, <2>2, <2>3, <2>4
  <2> QED BY <2>2, <2>3, <2>5
<1> HIDE DEF Right
<1>4. k \in I
  <2>1. 0 \in I /\ \A n \in Nat : n \in I => n + 1 \in I
    BY <1>2, <1>3
  <2> HIDE DEF I
  <2> QED BY <2>1, NatSteps
<1>5. r \in Live /\ s[r] \subseteq s[q] /\ k + Card(r) <= Cardinality(Live)
  BY <1>4 DEF Right
<1>6. r \in s[q]
  BY <1>5, LinkedFacts
<1>7. k < Cardinality(Live)
  <2> HIDE DEF Card
  <2> QED BY <1>0, <1>1, <1>5
<1> QED BY <1>5, <1>6, <1>7

\* The walk from the root reaches every node,
LEMMA LevelReaches ==
    ASSUME NEW s, Linked(s), NEW p \in Live
    PROVE  \E k \in 0 .. Cardinality(Page) : p \in Level(root)[k]
<1> DEFINE M == Cardinality(Live)
           Near(n) == \/ \E j \in Nat : p \in Level(root)[j]
                      \/ \E r \in Level(root)[n] : p \in s[r]
           I == {n \in Nat : Near(n)}
<1>1. /\ root \in Live /\ s[root] = Page /\ p \in Page /\ root \in NodeOrNull
      /\ root # Null /\ M \in Nat /\ M <= Cardinality(Page) /\ Cardinality(Page) \in Nat
  BY ThisTree, LinkedFacts, PageFacts
<1>2. Near(0)
  BY <1>1, Levels
<1>3. ASSUME NEW n \in Nat, Near(n) PROVE Near(n + 1)
  <2>1. ASSUME NEW r \in Level(root)[n], p \in s[r], p # r
        PROVE  \E c \in Level(root)[n + 1] : p \in s[c]
    <3> DEFINE c == Child(r, p)
    <3>1. r \in Live
      BY <1>1, LevelBounds
    <3>2. c # Null /\ p \in s[c] /\ c \in {node[r].left, node[r].right}
      BY <2>1, <3>1, ChildFacts DEF Child
    <3>3. c \in Down(Level(root)[n])
      <4> HIDE DEF c
      <4> QED BY <3>2 DEF Down
    <3>4. c \in Level(root)[n + 1]
      BY <1>1, <3>3, Levels
    <3> QED BY <3>2, <3>4
  <2>2. CASE \E j \in Nat : p \in Level(root)[j]
    BY <2>2
  <2>3. CASE \E r \in Level(root)[n] : p \in s[r]
    BY <2>1, <2>3
  <2> QED BY <1>3, <2>2, <2>3
<1> HIDE DEF Near
<1>4. Near(M)
  <2>1. 0 \in I /\ \A n \in Nat : n \in I => n + 1 \in I
    BY <1>2, <1>3
  <2>2. M \in I
    <3> HIDE DEF I, M
    <3> QED BY <1>1, <2>1, NatSteps
  <2> QED BY <2>2
<1>5. PICK j \in Nat : p \in Level(root)[j]
  <2>1. ASSUME NEW r \in Level(root)[M] PROVE FALSE
    <3>1. M < Cardinality(Live)
      BY <1>1, LevelBounds
    <3> QED BY <1>1, <3>1
  <2> QED BY <1>4, <2>1 DEF Near
<1>6. j < M
  BY <1>1, <1>5, LevelBounds
<1> HIDE DEF M
<1>7. j \in 0 .. Cardinality(Page)
  BY <1>1, <1>6
<1> QED BY <1>5, <1>7

\* at the level that is its depth.
LEMMA LevelDepth ==
    ASSUME NEW s, Linked(s), root # Null, NEW k \in Nat, NEW q \in Level(root)[k]
    PROVE  q \in Live /\ Depth(Live, s, q) = k
<1> DEFINE I == {n \in Nat : \A r \in Level(root)[n] : Depth(Live, s, r) = n}
<1>1. root \in Live /\ root \in NodeOrNull /\ node[root].parent = Null
  BY ThisTree, LinkedFacts
<1>2. 0 \in I
  BY <1>1, Levels, OneBelow
<1>3. ASSUME NEW n \in Nat, n \in I PROVE n + 1 \in I
  <2> SUFFICES ASSUME NEW r \in Level(root)[n + 1] PROVE Depth(Live, s, r) = n + 1
    OBVIOUS
  <2>1. PICK y \in Level(root)[n] : r \in {node[y].left, node[y].right} \ {Null}
    <3>1. r \in Down(Level(root)[n])
      BY <1>1, Levels
    <3> QED BY <3>1 DEF Down
  <2>2. y \in Live
    BY <1>1, LevelBounds
  <2>3. r \in Live /\ node[r].parent = y /\ y # Null
    BY <2>1, <2>2, ChildOf, ThisTree
  <2> QED BY <1>3, <2>3, OneBelow
<1> HIDE DEF I
<1>4. k \in I
  BY <1>2, <1>3, NatSteps
<1>5. q \in Live
  BY <1>1, LevelBounds
<1> QED BY <1>4, <1>5 DEF I

\* What is in a subtree.
LEMMA SubtreeIs ==
    ASSUME NEW q, NEW r, NEW k
    PROVE  <<r, k>> \in Subtree(q) <=> k \in 0 .. Cardinality(Page) /\ r \in Level(q)[k]
BY DEF Subtree

LEMMA NodesAre ==
    ASSUME NEW q, NEW r
    PROVE  r \in Nodes(q) <=> \E k \in 0 .. Cardinality(Page) : r \in Level(q)[k]
<1>1. ASSUME NEW rd \in Subtree(q)
      PROVE  rd = <<rd[1], rd[2]>> /\ rd[2] \in 0 .. Cardinality(Page)
             /\ rd[1] \in Level(q)[rd[2]]
  BY DEF Subtree
<1>2. ASSUME NEW k \in 0 .. Cardinality(Page), r \in Level(q)[k] PROVE r \in Nodes(q)
  <2>1. <<r, k>> \in Subtree(q) /\ <<r, k>>[1] = r
    BY <1>2, SubtreeIs
  <2> QED BY <2>1 DEF Nodes
<1>3. r \in Nodes(q) => \E k \in 0 .. Cardinality(Page) : r \in Level(q)[k]
  BY <1>1 DEF Nodes
<1> QED BY <1>2, <1>3

\* An empty tree has none,
LEMMA NoNodes ==
    ASSUME NEW s, Linked(s), NEW k \in Nat
    PROVE  Level(Null)[k] = {}
<1> DEFINE I == {n \in Nat : Level(Null)[n] = {}}
<1>1. Null \in NodeOrNull
  BY DEF NodeOrNull
<1>2. 0 \in I /\ \A n \in Nat : n \in I => n + 1 \in I
  BY <1>1, Levels DEF Down
<1> HIDE DEF I
<1>3. k \in I
  BY <1>2, NatSteps
<1> QED BY <1>3 DEF I

\* that of a node has those that it may hold,
LEMMA NodesUnder ==
    ASSUME NEW s, Linked(s), NEW q \in NodeOrNull, NEW r \in Nodes(q)
    PROVE  q \in Page /\ (q \in Live => r \in Live /\ r \in s[q])
<1>1. PICK k \in 0 .. Cardinality(Page) : r \in Level(q)[k]
  BY NodesAre
<1>2. k \in Nat
  BY PageFacts
<1>3. q # Null
  BY <1>1, <1>2, NoNodes
<1>4. q \in Live => r \in Live /\ r \in s[q]
  BY <1>1, <1>2, LevelBounds
<1> QED BY <1>3, <1>4 DEF NodeOrNull

\* and the whole tree has all.
LEMMA RootHasAll ==
    ASSUME NEW s, Linked(s)
    PROVE  Nodes(root) = Live /\ Cardinality(Subtree(root)) = Cardinality(Live)
<1> DEFINE T == Subtree(root)
           f == [rd \in T |-> rd[1]]
           N == Cardinality(Page)
<1>0. root \in NodeOrNull /\ N \in Nat
  BY ThisTree, PageFacts
<1>1. ASSUME NEW r PROVE r \in Nodes(root) <=> r \in Live
  <2>1. r \in Live => r \in Nodes(root)
    BY LevelReaches, NodesAre
  <2>2. r \in Nodes(root) => root \in Page
    BY <1>0, NodesUnder
  <2>3. root \in Page => root \in Live
    BY ThisTree, LinkedFacts
  <2>4. r \in Nodes(root) => r \in Live
    BY <1>0, <2>2, <2>3, NodesUnder
  <2> QED BY <2>1, <2>4
<1>2. Nodes(root) = Live
  BY <1>1
<1>3. f \in [T -> Live]
  BY <1>2 DEF Nodes
<1>4. ASSUME NEW a \in T, NEW b \in T, f[a] = f[b] PROVE a = b
  <2>1. /\ a = <<a[1], a[2]>> /\ a[2] \in 0 .. N /\ a[1] \in Level(root)[a[2]]
        /\ b = <<b[1], b[2]>> /\ b[2] \in 0 .. N /\ b[1] \in Level(root)[b[2]]
    BY DEF Subtree
  <2>2. a[1] = b[1]
    BY <1>4
  <2>3. a[2] \in Nat /\ b[2] \in Nat
    BY <1>0, <2>1
  <2>4. root # Null
    BY <2>1, <2>3, NoNodes
  <2>5. a[2] = b[2]
    BY <2>1, <2>2, <2>3, <2>4, LevelDepth
  <2> QED BY <2>1, <2>2, <2>5
<1>5. ASSUME NEW p \in Live PROVE \E a \in T : f[a] = p
  <2>1. p \in Nodes(root)
    BY <1>2
  <2> QED BY <2>1 DEF Nodes
<1>6. f \in Injection(T, Live) /\ f \in Surjection(T, Live)
  <2> HIDE DEF f, T
  <2> QED BY <1>3, <1>4, <1>5 DEF Injection, Surjection, IsInjective
<1>7. Cardinality(T) = Cardinality(Live)
  <2> HIDE DEF f, T
  <2> QED BY <1>6, ThisTree, FS_Injection
<1> QED BY <1>2, <1>7

\* Among naturals that are not above n there is a greatest one.
LEMMA GreatestNat ==
    ASSUME NEW n \in Nat, NEW S, S \subseteq 0 .. n, S # {}
    PROVE  \E m \in S : \A y \in S : m >= y
<1> DEFINE D == {n - y : y \in S}
<1>1. PICK d \in D : \A e \in D : d <= e
  <2>1. D \subseteq Nat /\ D # {}
    <3>1. \A y \in S : n - y \in Nat
      OBVIOUS
    <3> QED BY <3>1
  <2> HIDE DEF D
  <2> QED BY <2>1, LeastNat
<1>2. PICK m \in S : d = n - m
  OBVIOUS
<1>3. ASSUME NEW y \in S PROVE m >= y
  <2>1. n - y \in D
    OBVIOUS
  <2>2. d <= n - y
    <3> HIDE DEF D
    <3> QED BY <1>1, <2>1
  <2> QED BY <1>2, <2>2
<1> QED BY <1>3

\* The deepest node is a leaf.
LEMMA DeepestIsLeaf ==
    ASSUME NEW s, Linked(s), root # Null
    PROVE  LET v == find_deepest(root) IN
           v \in Live /\ node[v].left = Null /\ node[v].right = Null
<1> DEFINE N == Cardinality(Page)
           T == Subtree(root)
           H == {rd[2] : rd \in T}
           h == Max(H)
           D == {rd[1] : rd \in {rd \in T : rd[2] = h}}
           v == find_deepest(root)
<1>0. root \in Live /\ root \in NodeOrNull /\ N \in Nat /\ Cardinality(Live) <= N
      /\ Cardinality(Live) \in Nat
  BY ThisTree, LinkedFacts, PageFacts
<1>1. ASSUME NEW rd \in T
      PROVE  rd[2] \in 0 .. N /\ rd[1] \in Level(root)[rd[2]]
  BY DEF Subtree
<1>2. h \in H /\ \A y \in H : h >= y
  <2>1. H \subseteq 0 .. N
    <3> HIDE DEF T
    <3> QED BY <1>1
  <2>2. <<root, 0>> \in T
    <3>1. root \in Level(root)[0] /\ 0 \in 0 .. N
      BY <1>0, Levels, ThisTree
    <3> QED BY <3>1, SubtreeIs
  <2>3. H # {}
    <3> HIDE DEF T
    <3> QED BY <2>2
  <2> HIDE DEF H
  <2>4. \E m \in H : \A y \in H : m >= y
    BY <1>0, <2>1, <2>3, GreatestNat
  <2> QED BY <2>4 DEF Max
<1> HIDE DEF h
<1>3. D \subseteq Live /\ D # {}
  <2>1. ASSUME NEW rd \in T PROVE rd[1] \in Live
    <3>1. rd[2] \in Nat
      BY <1>0, <1>1
    <3> HIDE DEF T
    <3> QED BY <1>0, <1>1, <3>1, LevelBounds
  <2> HIDE DEF T
  <2> QED BY <1>2, <2>1
<1>4. v \in D
  <2>1. v = Min(D)
    BY DEF find_deepest, h
  <2>2. \E m \in D : \A y \in D : m =< y
    <3>1. D \subseteq Nat
      BY <1>3, ThisTree, PageFacts
    <3> HIDE DEF D
    <3> QED BY <1>3, <3>1, LeastNat
  <2> HIDE DEF D, v
  <2> QED BY <2>1, <2>2 DEF Min
<1>5. v \in Level(root)[h] /\ h \in 0 .. N /\ v \in Live
  <2> HIDE DEF T, v
  <2> QED BY <1>1, <1>3, <1>4
<1> HIDE DEF v, D
<1>6. ASSUME NEW c \in {node[v].left, node[v].right} \ {Null} PROVE FALSE
  <2>1. h \in Nat /\ h + 1 \in Nat /\ ~(h >= h + 1)
    BY <1>0, <1>5
  <2>2. c \in Level(root)[h + 1]
    <3>1. c \in Down(Level(root)[h])
      BY <1>5 DEF Down
    <3> QED BY <1>0, <2>1, <3>1, Levels
  <2>3. h + 1 < Cardinality(Live)
    BY <1>0, <2>1, <2>2, LevelBounds
  <2>4. h + 1 \in 0 .. N
    <3> HIDE DEF N
    <3> QED BY <1>0, <2>1, <2>3
  <2>5. <<c, h + 1>> \in T
    BY <2>2, <2>4, SubtreeIs
  <2>6. h + 1 \in H
    <3> HIDE DEF T
    <3> QED BY <2>5
  <2> HIDE DEF H
  <2> QED BY <1>2, <2>1, <2>6
<1>7. node[v].left = Null /\ node[v].right = Null
  BY <1>6
<1> QED BY <1>5, <1>7 DEF v

-----------------------------------------------------------------------------
(* The operations on the tree.                                             *)

\* What makes a tree one, node by node.
LEMMA TreeFrom ==
    ASSUME NEW t \in Tree, NEW s \in [Page -> SUBSET Page],
           IF t.root = Null THEN LiveOf(t) = {}
           ELSE t.root \in LiveOf(t) /\ t.node[t.root].parent = Null /\ s[t.root] = Page,
           \A q \in LiveOf(t) :
              /\ q \in s[q]
              /\ t.node[q].parent = Null => q = t.root
              /\ t.node[q].parent # Null =>
                    /\ t.node[q].parent \in LiveOf(t)
                    /\ q \in {t.node[t.node[q].parent].left, t.node[t.node[q].parent].right}
              /\ IF t.node[q].left = Null THEN s[q] \cap Lower[q] \cap LiveOf(t) = {}
                 ELSE /\ t.node[q].left \in LiveOf(t) /\ t.node[t.node[q].left].parent = q
                      /\ s[t.node[q].left] = s[q] \cap Lower[q]
              /\ IF t.node[q].right = Null THEN s[q] \cap Upper[q] \cap LiveOf(t) = {}
                 ELSE /\ t.node[q].right \in LiveOf(t) /\ t.node[t.node[q].right].parent = q
                      /\ s[t.node[q].right] = s[q] \cap Upper[q]
    PROVE  IsTree(t, s)
<1> DEFINE L == LeftOf(t)
           R == RightOf(t)
           P == ParentOf(t)
           live == LiveOf(t)
<1>1. /\ live \subseteq Page
      /\ \A q \in live : L[q] = t.node[q].left /\ R[q] = t.node[q].right
                         /\ P[q] = t.node[q].parent
  BY TreeTypes
<1> HIDE DEF L, R, P, live
<1>2. Top(t.root, live, L, R, P, s, Page)
  BY <1>1 DEF Top, live
<1>3. Hangs(live, P, s, L, Lower) /\ Hangs(live, P, s, R, Upper)
  BY <1>1 DEF Hangs, live
<1> QED BY <1>2, <1>3 DEF IsTree, SearchTree, Shape, Whole, L, R, P, live

\* Where a search for p may end, it ends.
LEMMA OneEnd ==
    ASSUME NEW s, Linked(s), NEW p \in Page, NEW r \in Live, p \in s[r], Ends(r, p)
    PROVE  LastVisited(p)[1] = r
<1> DEFINE search == CHOOSE f : Looks(f, p)
           N == Cardinality(Page)
<1>1. \A k \in Nat : search[k] = Step(search, p, k)
  <2>1. Looks(search, p)
    BY SearchExists
  <2> HIDE DEF search
  <2> QED BY <2>1 DEF Looks
<1>2. LastVisited(p) = search[N][root]
  BY LastVisitedIs
<1> HIDE DEF search
<1>3. root \in Live /\ root \in NodeOrNull /\ root # Null /\ N \in Nat
  BY ThisTree, LinkedFacts, PageFacts
<1> DEFINE Passes(k) == k <= N => \A x \in Level(root)[k] :
                           p \in s[x] => search[N][root][1] = search[N - k][x][1]
           I == {k \in Nat : Passes(k)}
<1>4. Passes(0)
  BY <1>3, Levels
<1>5. ASSUME NEW k \in Nat, Passes(k) PROVE Passes(k + 1)
  <2> SUFFICES ASSUME k + 1 <= N, NEW x \in Level(root)[k + 1], p \in s[x]
               PROVE  search[N][root][1] = search[N - (k + 1)][x][1]
    OBVIOUS
  <2>1. PICK y \in Level(root)[k] : x \in {node[y].left, node[y].right} \ {Null}
    <3>1. x \in Down(Level(root)[k])
      BY <1>3, Levels
    <3> QED BY <3>1 DEF Down
  <2>2. y \in Live /\ y \in Page /\ y # Null
    BY <1>3, <2>1, LevelBounds, ThisTree
  <2>3. p \in s[y] /\ p # y
    BY <2>1, <2>2, ChildOf
  <2>4. Child(y, p) = x
    <3>1. y \notin Lower[y] /\ y \notin Upper[y] /\ (p < y => ~(y < p))
      BY <2>2, Order
    <3>2. CASE x = node[y].left
      <4>1. p \in Lower[y]
        BY <2>1, <2>2, <3>2, LinkedFacts
      <4> QED BY <2>2, <3>2, <4>1, Order DEF Child
    <3>3. CASE x = node[y].right
      <4>1. p \in Upper[y]
        BY <2>1, <2>2, <3>3, LinkedFacts
      <4>2. ~(p < y)
        BY <2>2, <4>1, Order
      <4> QED BY <3>3, <4>2 DEF Child
    <3> QED BY <2>1, <3>2, <3>3
  <2> HIDE DEF N
  <2>5. /\ N - k \in Nat /\ N - k # 0 /\ (N - k) - 1 = N - (k + 1) /\ k <= N
    BY <1>3
  <2>6. search[N - k][y] = <<search[N - (k + 1)][x][1], search[N - (k + 1)][x][2] + 1>>
    <3>1. search[N - k] = Step(search, p, N - k)
      BY <1>1, <2>5
    <3>2. y \in NodeOrNull /\ x # Null
      BY <2>1, <2>2 DEF NodeOrNull
    <3> QED BY <2>2, <2>3, <2>4, <2>5, <3>1, <3>2 DEF Step
  <2>7. search[N][root][1] = search[N - k][y][1]
    BY <1>5, <2>3, <2>5
  <2> QED BY <2>6, <2>7
<1> HIDE DEF Passes
<1>6. \A k \in Nat : Passes(k)
  <2>1. 0 \in I /\ \A k \in Nat : k \in I => k + 1 \in I
    BY <1>4, <1>5
  <2>2. Nat \subseteq I
    <3> HIDE DEF I
    <3> QED BY <2>1, NatSteps
  <2> QED BY <2>2
<1>7. PICK k \in 0 .. N : r \in Level(root)[k]
  BY LevelReaches
<1> HIDE DEF N
<1>8. k \in Nat /\ N - k \in Nat /\ k <= N
  BY <1>3
<1>9. search[N][root][1] = search[N - k][r][1]
  BY <1>6, <1>7, <1>8 DEF Passes
<1>10. search[N - k][r] = <<r, 0>>
  <2>1. search[N - k] = Step(search, p, N - k) /\ r \in NodeOrNull
    BY <1>1, <1>8, ThisTree DEF NodeOrNull
  <2> QED BY <2>1 DEF Step, Ends
<1> QED BY <1>2, <1>9, <1>10 DEF N

\* A new frame for a page that has a node.
LEMMA FrameTree ==
    ASSUME NEW s, Linked(s), NEW p \in Live, NEW f \in FrameId
    PROVE  LET t == [This EXCEPT !.node[p].frame_id = f] IN
           /\ t \in Tree /\ IsTree(t, s) /\ LiveOf(t) = Live
           /\ t.node[p].frame_id = f
           /\ \A q \in Page \ {p} : t.node[q].frame_id = node[q].frame_id
<1> DEFINE t == [This EXCEPT !.node[p].frame_id = f]
           n == [node EXCEPT ![p].frame_id = f]
<1>1. p \in Page /\ \A q \in Page : node[q] \in Snode
  BY ThisTree
<1>2. t = [root |-> root, node |-> n]
  BY DEF This
<1>3. ASSUME NEW q \in Page
      PROVE  Fields([n[q] EXCEPT !.frame_id = node[q].frame_id], node[q],
                    node[q].left, node[q].right, node[q].parent)
             /\ n[q].left = node[q].left /\ n[q].right = node[q].right
             /\ n[q].parent = node[q].parent /\ n[q] \in Snode
             /\ n[q].frame_id = IF q = p THEN f ELSE node[q].frame_id
  BY <1>1, ThisTree DEF Fields, Snode
<1>4. n \in [Page -> Snode]
  BY <1>1, <1>3, ThisTree
<1> HIDE DEF n, t
<1>5. t \in Tree /\ t.root = root /\ t.node = n
  BY <1>2, <1>4, ThisTree DEF Tree
<1>6. LiveOf(t) = Live
  <2>1. f # NotFound /\ node[p].frame_id # NotFound
    BY FrameAssumption DEF NotFound, Live
  <2> QED BY <1>1, <1>3, <1>5, <2>1 DEF LiveOf, Live
<1>7. IsTree(t, s)
  <2>1. \A q \in Page : /\ t.node[q].left = node[q].left
                        /\ t.node[q].right = node[q].right
                        /\ t.node[q].parent = node[q].parent
    BY <1>3, <1>5
  <2>2. s \in [Page -> SUBSET Page] /\ Live \subseteq Page
    BY ThisTree, LinkedFacts
  <2>3. IF t.root = Null THEN LiveOf(t) = {}
        ELSE t.root \in LiveOf(t) /\ t.node[t.root].parent = Null /\ s[t.root] = Page
    BY <1>5, <1>6, <2>1, <2>2, LinkedFacts
  <2>4. ASSUME NEW q \in LiveOf(t)
        PROVE  /\ q \in s[q]
               /\ t.node[q].parent = Null => q = t.root
               /\ t.node[q].parent # Null =>
                     /\ t.node[q].parent \in LiveOf(t)
                     /\ q \in {t.node[t.node[q].parent].left, t.node[t.node[q].parent].right}
               /\ IF t.node[q].left = Null THEN s[q] \cap Lower[q] \cap LiveOf(t) = {}
                  ELSE /\ t.node[q].left \in LiveOf(t) /\ t.node[t.node[q].left].parent = q
                       /\ s[t.node[q].left] = s[q] \cap Lower[q]
               /\ IF t.node[q].right = Null THEN s[q] \cap Upper[q] \cap LiveOf(t) = {}
                  ELSE /\ t.node[q].right \in LiveOf(t) /\ t.node[t.node[q].right].parent = q
                       /\ s[t.node[q].right] = s[q] \cap Upper[q]
    BY <1>5, <1>6, <2>1, <2>2, LinkedFacts
  <2> QED BY <1>5, <1>6, <2>2, <2>3, <2>4, TreeFrom
<1>8. /\ t.node[p].frame_id = f
      /\ \A q \in Page \ {p} : t.node[q].frame_id = node[q].frame_id
  BY <1>1, <1>3, <1>5
<1> QED BY <1>5, <1>6, <1>7, <1>8 DEF t

\* That is the end of a search of SearchTrees.
LEMMA SearchEndsThere ==
    ASSUME NEW s, Linked(s), root # Null, NEW p \in Page
    PROVE  SearchEnd(Shape(This), Live, s, p, LastVisited(p)[1])
<1> DEFINE h == Shape(This)
           live == Live
           g == [q \in live |-> IF q = p \/ Ahead(h, q, p) = Null THEN q
                                ELSE Ahead(h, q, p)]
           e == Walk(g, h.top)[Cardinality(Page)]
<1>1. SearchTree(h, live, s, Page) /\ p \in Page
  BY ThisTree DEF Linked, IsTree
<1>2. h.top = root /\ \A q \in Page : Ahead(h, q, p) = Child(q, p)
  BY ThisTree DEF Shape, LeftOf, RightOf, Ahead, Child
<1>3. Searches(h, live, p, g)
  BY DEF Searches
<1> HIDE DEF h, live, g
<1>4. SearchEnd(h, live, s, p, e)
  BY <1>1, <1>2, <1>3, PagesAreOK, Search
<1> HIDE DEF e
<1>5. e \in Live /\ p \in s[e] /\ (e # p => Ahead(h, e, p) = Null)
  BY <1>4 DEF SearchEnd, live
<1>6. Ends(e, p)
  BY <1>2, <1>5, ThisTree DEF Ends
<1>7. LastVisited(p)[1] = e
  BY <1>5, <1>6, OneEnd
<1> QED BY <1>4, <1>7 DEF h, live

\* A node for a page that has none, where the search for it ends.
LEMMA HangTree ==
    ASSUME NEW s, Linked(s), NEW p \in Page, p \notin Live, NEW f \in FrameId
    PROVE  LET q == LastVisited(p)[1]
               t == Hang(p, f, q)
               sT == HungSpan(s, p, q, Page)
           IN  /\ t \in Tree /\ LiveOf(t) = Live \cup {p}
               /\ t.node[p].frame_id = f
               /\ \A r \in Page \ {p} : t.node[r].frame_id = node[r].frame_id
               /\ IsTree(t, sT)
               /\ HungBelow(Live, s, p, q, Live \cup {p}, sT)
<1> DEFINE q == LastVisited(p)[1]
           t == Hang(p, f, q)
           n == t.node
           h == Shape(This)
           i == Shape(t)
           live == Live
           sT == HungSpan(s, p, q, Page)
<1>1. /\ SearchTree(h, live, s, Page) /\ p \notin live
      /\ h.top = root
      /\ \A r \in Page : h.l[r] = node[r].left /\ h.r[r] = node[r].right
                         /\ h.pa[r] = node[r].parent
  BY ThisTree DEF Linked, IsTree, Shape, LeftOf, RightOf, ParentOf
<1> HIDE DEF h
<1>2. IF h.top = Null THEN q = Null ELSE SearchEnd(h, live, s, p, q)
  <2>1. root = Null => LastVisited(p) = <<Null, 0>>
    BY SearchEnds
  <2>2. root # Null => SearchEnd(h, live, s, p, q)
    BY SearchEndsThere DEF h
  <2> QED BY <1>1, <2>1, <2>2
<1>3. q \in NodeOrNull /\ q # p
  <2>1. root # Null => q \in Live
    BY <1>1, <1>2 DEF SearchEnd
  <2> HIDE DEF q
  <2> QED BY <1>1, <1>2, <2>1, ThisTree DEF NodeOrNull
<1>4. /\ p # Null /\ f # NotFound /\ Live \subseteq Page
      /\ \A r \in Page : node[r] \in Snode
  BY ThisTree, FrameAssumption DEF NotFound
<1>5. /\ t.root = IF q = Null THEN p ELSE root
      /\ n = [r \in Page |->
                 IF r = p THEN [Zeroed EXCEPT !.frame_id = f, !.parent = q]
                 ELSE IF r # q THEN node[r]
                 ELSE IF p < q THEN [node[q] EXCEPT !.left = p]
                 ELSE [node[q] EXCEPT !.right = p]]
      /\ t = [root |-> t.root, node |-> n]
  BY DEF Hang
<1> HIDE DEF q, t
<1>6. /\ n[p] \in Snode /\ n[p].frame_id = f /\ n[p].left = Null /\ n[p].right = Null
      /\ n[p].parent = q
  BY <1>3, <1>5 DEF Zeroed, Snode, NodeOrNull
<1>7. ASSUME NEW r \in Page, r # p
      PROVE  /\ n[r] \in Snode
             /\ n[r].frame_id = node[r].frame_id /\ n[r].parent = node[r].parent
             /\ n[r].left = IF r = q /\ p < q THEN p ELSE node[r].left
             /\ n[r].right = IF r = q /\ ~(p < q) THEN p ELSE node[r].right
  <2>1. CASE r # q
    BY <1>4, <1>5, <1>7, <2>1
  <2>2. CASE r = q /\ p < q
    <3>1. n[r] = [node[r] EXCEPT !.left = p]
      BY <1>5, <1>7, <2>2
    <3> QED BY <1>4, <2>2, <3>1 DEF Snode, NodeOrNull
  <2>3. CASE r = q /\ ~(p < q)
    <3>1. n[r] = [node[r] EXCEPT !.right = p]
      BY <1>5, <1>7, <2>3
    <3> QED BY <1>4, <2>3, <3>1 DEF Snode, NodeOrNull
  <2> QED BY <2>1, <2>2, <2>3
<1>8. t \in Tree
  <2>1. n \in [Page -> Snode]
    BY <1>5, <1>6, <1>7
  <2>2. t.root \in NodeOrNull
    BY <1>5, ThisTree DEF NodeOrNull
  <2> QED BY <1>5, <2>1, <2>2 DEF Tree
<1>9. LiveOf(t) = live \cup {p}
  BY <1>4, <1>6, <1>7 DEF LiveOf, Live
<1>10. Hung(h, p, q, i)
  <2>1. i.top = IF q = Null THEN p ELSE h.top
    BY <1>1, <1>5 DEF Shape
  <2>2. \A r \in Page : i.l[r] = n[r].left /\ i.r[r] = n[r].right /\ i.pa[r] = n[r].parent
    BY DEF Shape, LeftOf, RightOf, ParentOf
  <2> HIDE DEF i, n
  <2>3. ASSUME NEW r \in Page
        PROVE  /\ i.l[r] = IF r = p THEN Null ELSE IF r = q /\ p < q THEN p ELSE h.l[r]
               /\ i.r[r] = IF r = p THEN Null ELSE IF r = q /\ ~(p < q) THEN p ELSE h.r[r]
               /\ i.pa[r] = IF r = p THEN q ELSE h.pa[r]
    BY <1>1, <1>6, <1>7, <2>2
  <2> QED BY <2>1, <2>3 DEF Hung
<1> HIDE DEF i, n, live
<1>11. SearchTree(i, live \cup {p}, sT, Page)
  BY <1>1, <1>2, <1>10, PagesAreOK, HungTree
<1>12. HungBelow(live, s, p, q, live \cup {p}, sT)
  BY <1>1, <1>2, PagesAreOK, HungDepth
<1>13. IsTree(t, sT)
  BY <1>9, <1>11 DEF IsTree, i
<1>14. t.node[p].frame_id = f /\ \A r \in Page \ {p} : t.node[r].frame_id = node[r].frame_id
  BY <1>6, <1>7 DEF n
<1> QED BY <1>8, <1>9, <1>12, <1>13, <1>14 DEF t, q, live

\* A leaf, and its parent without it.
LEMMA LeafTree ==
    ASSUME NEW s, Linked(s), NEW v \in Live, node[v].left = Null, node[v].right = Null
    PROVE  LET p == node[v].parent
               t == [root |-> IF p = Null THEN Null ELSE root,
                     node |-> [r \in Page |->
                           IF r = v THEN Zeroed
                           ELSE IF r # p THEN node[r]
                           ELSE IF node[p].left = v THEN [node[p] EXCEPT !.left = Null]
                           ELSE [node[p] EXCEPT !.right = Null]]]
           IN
           /\ t \in Tree /\ LiveOf(t) = Live \ {v}
           /\ t.node[v].frame_id = NotFound
           /\ \A r \in Page \ {v} : t.node[r].frame_id = node[r].frame_id
           /\ IsTree(t, s)
<1> DEFINE p == node[v].parent
           n == [r \in Page |->
                   IF r = v THEN Zeroed
                   ELSE IF r # p THEN node[r]
                   ELSE IF node[p].left = v THEN [node[p] EXCEPT !.left = Null]
                   ELSE [node[p] EXCEPT !.right = Null]]
           top == IF p = Null THEN Null ELSE root
           t == [root |-> top, node |-> n]
<1>1. /\ v \in Page /\ v # Null /\ Null \notin Page /\ Live \subseteq Page
      /\ p \in NodeOrNull
      /\ \A r \in Page : node[r] \in Snode
      /\ s \in [Page -> SUBSET Page]
  BY ThisTree, LinkedFacts
<1>2. /\ p = Null => v = root
      /\ p # Null => p \in Live /\ v \in {node[p].left, node[p].right}
      /\ v \in s[v] /\ root \in Live /\ root # Null /\ node[root].parent = Null
      /\ s[root] = Page
  BY <1>1, LinkedFacts
<1>3. s[v] \cap Live = {v}
  <2>1. ASSUME NEW r \in s[v] \cap Live PROVE r = v
    <3>1. r = v \/ r \in Lower[v] \/ r \in Upper[v]
      BY <1>1, PagesAreOK, LowerUpper DEF Sides
    <3>2. s[v] \cap Lower[v] \cap Live = {} /\ s[v] \cap Upper[v] \cap Live = {}
      BY LinkedFacts
    <3> QED BY <3>1, <3>2
  <2> QED BY <1>2, <2>1
<1>4. p # Null => /\ p \in Page /\ p # v
                  /\ node[p].left = v => node[p].right # v /\ s[v] = s[p] \cap Lower[p]
                  /\ node[p].left # v => node[p].right = v /\ s[v] = s[p] \cap Upper[p]
  <2> SUFFICES ASSUME p # Null
               PROVE  /\ p \in Page /\ p # v
                      /\ node[p].left = v => node[p].right # v /\ s[v] = s[p] \cap Lower[p]
                      /\ node[p].left # v => node[p].right = v /\ s[v] = s[p] \cap Upper[p]
    OBVIOUS
  <2>1. p \in Live /\ p \in Page /\ v \in {node[p].left, node[p].right}
    BY <1>1, <1>2
  <2> HIDE DEF p
  <2>2. node[p].left = v => s[v] = s[p] \cap Lower[p]
    BY <1>1, <2>1, LinkedFacts
  <2>3. node[p].right = v => s[v] = s[p] \cap Upper[p]
    BY <1>1, <2>1, LinkedFacts
  <2>4. ~(v \in Lower[p] /\ v \in Upper[p])
    BY <1>1, <2>1, PagesAreOK, LowerUpper DEF Sides
  <2>5. p # v
    BY <1>1, <2>1
  <2> QED BY <1>2, <2>1, <2>2, <2>3, <2>4, <2>5
<1>5. n[v] = Zeroed /\ Zeroed \in Snode /\ n[v].frame_id = NotFound
  BY <1>1 DEF Zeroed, Snode, NodeOrNull
<1>6. ASSUME NEW r \in Page, r # v
      PROVE  /\ n[r] \in Snode
             /\ n[r].frame_id = node[r].frame_id /\ n[r].parent = node[r].parent
             /\ n[r].left = IF r = p /\ node[p].left = v THEN Null ELSE node[r].left
             /\ n[r].right = IF r = p /\ node[p].left # v THEN Null ELSE node[r].right
  <2> HIDE DEF p
  <2>1. CASE r # p
    BY <1>1, <1>6, <2>1
  <2>2. CASE r = p /\ node[p].left = v
    <3>1. n[r] = [node[r] EXCEPT !.left = Null]
      BY <1>6, <2>2
    <3> HIDE DEF n
    <3> QED BY <1>1, <2>2, <3>1 DEF Snode, NodeOrNull
  <2>3. CASE r = p /\ node[p].left # v
    <3>1. n[r] = [node[r] EXCEPT !.right = Null]
      BY <1>6, <2>3
    <3> HIDE DEF n
    <3> QED BY <1>1, <2>3, <3>1 DEF Snode, NodeOrNull
  <2> QED BY <2>1, <2>2, <2>3
<1>7. n \in [Page -> Snode]
  <2>1. \A r \in Page : n[r] \in Snode
    BY <1>5, <1>6
  <2> QED BY <2>1
<1> HIDE DEF n, p
<1>8. t \in Tree /\ t.root = top /\ t.node = n
  <2>1. top \in NodeOrNull
    BY ThisTree DEF NodeOrNull
  <2> QED BY <1>7, <2>1 DEF Tree
<1>9. LiveOf(t) = Live \ {v}
  BY <1>5, <1>6, <1>8 DEF LiveOf, Live
<1> HIDE DEF t, top
<1>10. IF t.root = Null THEN LiveOf(t) = {}
       ELSE t.root \in LiveOf(t) /\ t.node[t.root].parent = Null /\ s[t.root] = Page
  <2>1. CASE p = Null
    BY <1>1, <1>2, <1>3, <1>8, <1>9, <2>1 DEF top
  <2>2. CASE p # Null
    <3>1. root # v
      BY <1>2, <2>2 DEF p
    <3> QED BY <1>1, <1>2, <1>6, <1>8, <1>9, <2>2, <3>1 DEF top
  <2> QED BY <2>1, <2>2
<1>11. ASSUME NEW r \in Live, r # v
       PROVE  /\ n[r].parent = Null => r = t.root
              /\ n[r].parent # Null =>
                    /\ n[r].parent \in LiveOf(t)
                    /\ r \in {n[n[r].parent].left, n[n[r].parent].right}
  <2>1. /\ n[r].parent = node[r].parent /\ r # Null
        /\ node[r].parent = Null => r = root
        /\ node[r].parent # Null => /\ node[r].parent \in Live
                                    /\ r \in {node[node[r].parent].left,
                                              node[node[r].parent].right}
    BY <1>1, <1>6, <1>11, LinkedFacts
  <2>2. node[r].parent # v
    BY <1>1, <2>1
  <2>3. r = root => p # Null
    BY <1>2, <1>11
  <2>4. ASSUME NEW w \in Live, w # v, r \in {node[w].left, node[w].right}
        PROVE  r \in {n[w].left, n[w].right}
    BY <1>1, <1>4, <1>6, <1>11, <2>1, <2>4
  <2> QED BY <1>8, <1>9, <2>1, <2>2, <2>3, <2>4 DEF top
<1>12. ASSUME NEW r \in Live, r # v
       PROVE  IF n[r].left = Null THEN s[r] \cap Lower[r] \cap LiveOf(t) = {}
              ELSE /\ n[r].left \in LiveOf(t) /\ n[n[r].left].parent = r
                   /\ s[n[r].left] = s[r] \cap Lower[r]
  <2>1. r \in Page
    BY <1>1
  <2>2. CASE r = p /\ node[p].left = v
    BY <1>1, <1>3, <1>4, <1>6, <1>9, <1>12, <2>1, <2>2
  <2>3. CASE ~(r = p /\ node[p].left = v) /\ node[r].left = Null
    BY <1>6, <1>9, <1>12, <2>1, <2>3, LinkedFacts
  <2>4. CASE ~(r = p /\ node[p].left = v) /\ node[r].left # Null
    <3>1. n[r].left = node[r].left
      BY <1>6, <1>12, <2>1, <2>4
    <3>2. /\ node[r].left \in Live /\ node[node[r].left].parent = r
          /\ s[node[r].left] = s[r] \cap Lower[r]
      BY <2>4, LinkedFacts
    <3>3. node[r].left # v
      BY <2>4, <3>2 DEF p
    <3> QED BY <1>1, <1>6, <1>9, <2>4, <3>1, <3>2, <3>3
  <2> QED BY <2>2, <2>3, <2>4
<1>13. ASSUME NEW r \in Live, r # v
       PROVE  IF n[r].right = Null THEN s[r] \cap Upper[r] \cap LiveOf(t) = {}
              ELSE /\ n[r].right \in LiveOf(t) /\ n[n[r].right].parent = r
                   /\ s[n[r].right] = s[r] \cap Upper[r]
  <2>1. r \in Page
    BY <1>1
  <2>2. CASE r = p /\ node[p].left # v
    BY <1>1, <1>3, <1>4, <1>6, <1>9, <1>13, <2>1, <2>2
  <2>3. CASE ~(r = p /\ node[p].left # v) /\ node[r].right = Null
    BY <1>6, <1>9, <1>13, <2>1, <2>3, LinkedFacts
  <2>4. CASE ~(r = p /\ node[p].left # v) /\ node[r].right # Null
    <3>1. n[r].right = node[r].right
      BY <1>6, <1>13, <2>1, <2>4
    <3>2. /\ node[r].right \in Live /\ node[node[r].right].parent = r
          /\ s[node[r].right] = s[r] \cap Upper[r]
      BY <2>4, LinkedFacts
    <3>3. node[r].right # v
      BY <1>1, <1>4, <2>4, <3>2 DEF p
    <3> QED BY <1>1, <1>6, <1>9, <2>4, <3>1, <3>2, <3>3
  <2> QED BY <2>2, <2>3, <2>4
<1>14. IsTree(t, s)
  <2>1. ASSUME NEW r \in LiveOf(t)
        PROVE  /\ r \in s[r]
               /\ n[r].parent = Null => r = t.root
               /\ n[r].parent # Null =>
                     /\ n[r].parent \in LiveOf(t)
                     /\ r \in {n[n[r].parent].left, n[n[r].parent].right}
               /\ IF n[r].left = Null THEN s[r] \cap Lower[r] \cap LiveOf(t) = {}
                  ELSE /\ n[r].left \in LiveOf(t) /\ n[n[r].left].parent = r
                       /\ s[n[r].left] = s[r] \cap Lower[r]
               /\ IF n[r].right = Null THEN s[r] \cap Upper[r] \cap LiveOf(t) = {}
                  ELSE /\ n[r].right \in LiveOf(t) /\ n[n[r].right].parent = r
                       /\ s[n[r].right] = s[r] \cap Upper[r]
    <3>1. r \in Live /\ r # v
      BY <1>9
    <3>2. r \in s[r]
      BY <3>1, LinkedFacts
    <3> QED BY <1>11, <1>12, <1>13, <3>1, <3>2
  <2> QED BY <1>1, <1>8, <1>10, <2>1, TreeFrom
<1> QED BY <1>5, <1>6, <1>8, <1>9, <1>14 DEF t, top, n, p

-----------------------------------------------------------------------------
(* The invariant.                                                          *)

\* What the last access brought to the root is there, if it has a node.
RootIsLast ==
    answer.op \in {"lookup", "insert"} /\ answer.page \in Live => root = answer.page

\* The inductive invariant: TypeOK, a tree, and the last access on top of it.
Inv ==
    /\ TypeOK
    /\ \E s \in [Page -> SUBSET Page] : Linked(s)
    /\ RootIsLast

LEMMA InvLinked ==
    ASSUME Inv
    PROVE  \E s : Linked(s) /\ s \in [Page -> SUBSET Page]
BY DEF Inv

\* The tree that a step leads to.
LEMMA BecomesLinked ==
    ASSUME NEW t \in Tree, NEW s, IsTree(t, s), Becomes(t)
    PROVE  /\ (\E z \in [Page -> SUBSET Page] : Linked(z))'
           /\ root' = t.root /\ node' = t.node /\ Live' = LiveOf(t)
<1>1. root' = t.root /\ node' = t.node
  BY DEF Becomes
<1>2. This' = t
  <2>1. t = [root |-> t.root, node |-> t.node]
    BY DEF Tree
  <2> QED BY <1>1, <2>1 DEF This
<1>3. Live' = LiveOf(t)
  BY <1>1 DEF Live, LiveOf
<1>4. s \in [Page -> SUBSET Page]
  BY DEF IsTree, SearchTree, Shape, Whole, Top
<1>5. Linked(s)'
  BY <1>2 DEF Linked
<1> QED BY <1>1, <1>3, <1>4, <1>5

\* Nothing changes.
LEMMA SameLinked ==
    ASSUME Inv, UNCHANGED <<root, node>>
    PROVE  (\E z \in [Page -> SUBSET Page] : Linked(z))' /\ Live' = Live
<1>1. PICK s \in [Page -> SUBSET Page] : Linked(s)
  BY DEF Inv
<1>2. This' = This /\ Live' = Live
  BY DEF This, Live
<1>3. Linked(s)'
  BY <1>1, <1>2 DEF Linked
<1> QED BY <1>2, <1>3

\* The frames of all the pages but p stay.
OthersKept(p) == \A q \in Page \ {p} : node'[q].frame_id = node[q].frame_id

\* What a lookup does.
LEMMA LookupDoes ==
    ASSUME Inv, NEW p \in Page, splay_lookup(p)
    PROVE  /\ (\E z \in [Page -> SUBSET Page] : Linked(z))'
           /\ OthersKept(p) /\ node'[p].frame_id = node[p].frame_id
           /\ p \in Live => root' = p
           /\ \E depth \in IF p \in Live THEN 0 .. Cardinality(Live) - 1 ELSE {-1} :
                 Answers("lookup", p, node[p].frame_id, depth)
<1>1. PICK s : Linked(s)
  BY InvLinked
<1>2. CASE p \in Live
  <2> DEFINE t == splay_node(This, p)
  <2>1. Found(p) /\ LastVisited(p)[2] \in 0 .. Cardinality(Live) - 1
    BY <1>1, <1>2, FoundIsLive
  <2>2. Becomes(t) /\ Answers("lookup", p, node[p].frame_id, LastVisited(p)[2])
    BY <2>1 DEF splay_lookup
  <2>3. This \in Tree /\ IsTree(This, s) /\ p \in LiveOf(This) /\ This.node = node
    BY <1>1, <1>2, ThisTree DEF Linked
  <2>4. t \in Tree /\ SameFrames(This, t) /\ t.root = p /\ \E sT : IsTree(t, sT)
    BY <2>3, SplayNode DEF Topped
  <2> HIDE DEF t
  <2>5. /\ (\E z \in [Page -> SUBSET Page] : Linked(z))'
        /\ root' = t.root /\ node' = t.node
    BY <2>2, <2>4, BecomesLinked
  <2>6. \A q \in Page : node'[q].frame_id = node[q].frame_id
    BY <2>3, <2>4, <2>5 DEF SameFrames
  <2> QED BY <1>2, <2>1, <2>2, <2>4, <2>5, <2>6 DEF OthersKept
<1>3. CASE p \notin Live
  <2>1. ~Found(p)
    BY <1>1, <1>3, FoundIsLive
  <2>2. UNCHANGED <<root, node>> /\ Answers("lookup", p, NotFound, -1)
    BY <2>1 DEF splay_lookup
  <2>3. node[p].frame_id = NotFound
    BY <1>3 DEF Live
  <2> QED BY <1>3, <2>2, <2>3, SameLinked DEF OthersKept
<1> QED BY <1>2, <1>3

\* What an insert does.
LEMMA InsertDoes ==
    ASSUME Inv, NEW p \in Page, NEW f \in FrameId, splay_insert(p, f)
    PROVE  /\ (\E z \in [Page -> SUBSET Page] : Linked(z))'
           /\ OthersKept(p) /\ Answers("insert", p, f, 0)
           /\ \/ node'[p].frame_id = f /\ root' = p
              \/ OutOfMemory /\ p \notin Live /\ UNCHANGED <<root, node>>
<1>1. PICK s : Linked(s)
  BY InvLinked
<1>2. Answers("insert", p, f, 0)
  BY DEF splay_insert
<1>3. ASSUME NEW t \in Tree, \E sT : IsTree(t, sT), p \in LiveOf(t),
             t.node[p].frame_id = f,
             \A q \in Page \ {p} : t.node[q].frame_id = node[q].frame_id,
             Becomes(splay_node(t, p))
      PROVE  /\ (\E z \in [Page -> SUBSET Page] : Linked(z))'
             /\ OthersKept(p) /\ node'[p].frame_id = f /\ root' = p
  <2> DEFINE u == splay_node(t, p)
  <2>1. u \in Tree /\ SameFrames(t, u) /\ u.root = p /\ \E sT : IsTree(u, sT)
    BY <1>3, SplayNode DEF Topped
  <2> HIDE DEF u
  <2>2. /\ (\E z \in [Page -> SUBSET Page] : Linked(z))'
        /\ root' = u.root /\ node' = u.node
    BY <1>3, <2>1, BecomesLinked DEF u
  <2> QED BY <1>3, <2>1, <2>2 DEF SameFrames, OthersKept
<1>4. CASE p \in Live
  <2> DEFINE t == [This EXCEPT !.node[p].frame_id = f]
  <2>1. Found(p)
    BY <1>1, <1>4, FoundIsLive
  <2>2. Becomes(splay_node(t, p))
    BY <2>1 DEF splay_insert
  <2>3. /\ t \in Tree /\ IsTree(t, s) /\ p \in LiveOf(t)
        /\ t.node[p].frame_id = f
        /\ \A q \in Page \ {p} : t.node[q].frame_id = node[q].frame_id
    BY <1>1, <1>4, FrameTree
  <2> HIDE DEF t
  <2> QED BY <1>2, <1>3, <2>2, <2>3
<1>5. CASE p \notin Live
  <2> DEFINE t == Hang(p, f, LastVisited(p)[1])
  <2>1. ~Found(p)
    BY <1>1, <1>5, FoundIsLive
  <2>2. Becomes(splay_node(t, p)) \/ (OutOfMemory /\ UNCHANGED <<root, node>>)
    BY <2>1 DEF splay_insert
  <2> DEFINE sT == HungSpan(s, p, LastVisited(p)[1], Page)
  <2>3. /\ t \in Tree /\ IsTree(t, sT) /\ LiveOf(t) = Live \cup {p}
        /\ t.node[p].frame_id = f
        /\ \A q \in Page \ {p} : t.node[q].frame_id = node[q].frame_id
    BY <1>1, <1>5, HangTree
  <2> HIDE DEF t, sT
  <2>4. CASE Becomes(splay_node(t, p))
    BY <1>2, <1>3, <2>3, <2>4
  <2>5. CASE OutOfMemory /\ UNCHANGED <<root, node>>
    BY <1>2, <1>5, <2>5, SameLinked DEF OthersKept
  <2> QED BY <2>2, <2>4, <2>5
<1> QED BY <1>4, <1>5

\* What an eviction does.
LEMMA EvictDoes ==
    ASSUME Inv, splay_evict_victim
    PROVE  /\ (\E z \in [Page -> SUBSET Page] : Linked(z))'
           /\ \/ Live = {} /\ Answers("evict", 0, NotFound, 0) /\ UNCHANGED <<root, node>>
              \/ \E v \in Live : /\ Answers("evict", v, node[v].frame_id, 0)
                                 /\ node'[v].frame_id = NotFound /\ OthersKept(v)
                                 /\ v = root => Live = {v}
<1>1. PICK s : Linked(s)
  BY InvLinked
<1>2. CASE root = Null
  <2>1. Live = {}
    BY <1>1, <1>2, LinkedFacts
  <2> QED BY <1>2, <2>1, SameLinked DEF splay_evict_victim
<1>3. CASE root # Null
  <2> DEFINE v == find_deepest(root)
             p == node[v].parent
             t == [root |-> IF p = Null THEN Null ELSE root,
                   node |-> [r \in Page |->
                         IF r = v THEN Zeroed
                         ELSE IF r # p THEN node[r]
                         ELSE IF node[p].left = v THEN [node[p] EXCEPT !.left = Null]
                         ELSE [node[p] EXCEPT !.right = Null]]]
  <2>1. v \in Live /\ node[v].left = Null /\ node[v].right = Null
    BY <1>1, <1>3, DeepestIsLeaf
  <2>2. Becomes(t) /\ Answers("evict", v, node[v].frame_id, 0)
    BY <1>3 DEF splay_evict_victim, Becomes
  <2> HIDE DEF v
  <2>3. /\ t \in Tree /\ IsTree(t, s)
        /\ t.node[v].frame_id = NotFound
        /\ \A r \in Page \ {v} : t.node[r].frame_id = node[r].frame_id
    BY <1>1, <2>1, LeafTree
  <2>4. v = root => Live = {v}
    <3> SUFFICES ASSUME v = root, NEW r \in Live PROVE r = v
      BY <2>1
    <3>1. v \in Page /\ r \in Page /\ s[v] = Page
      BY <1>1, <1>3, ThisTree, LinkedFacts
    <3>2. r = v \/ r \in Lower[v] \/ r \in Upper[v]
      BY <3>1, PagesAreOK, LowerUpper DEF Sides
    <3>3. s[v] \cap Lower[v] \cap Live = {} /\ s[v] \cap Upper[v] \cap Live = {}
      BY <1>1, <2>1, LinkedFacts
    <3> QED BY <3>1, <3>2, <3>3
  <2> HIDE DEF t
  <2>5. /\ (\E z \in [Page -> SUBSET Page] : Linked(z))'
        /\ node' = t.node
    BY <2>2, <2>3, BecomesLinked
  <2> QED BY <2>1, <2>2, <2>3, <2>4, <2>5 DEF OthersKept
<1> QED BY <1>2, <1>3

\* The empty tree is one.
LEMMA InitInv == Init => Inv
<1> SUFFICES ASSUME Init PROVE Inv
  OBVIOUS
<1>1. root = Null /\ \A p \in Page : node[p] = Zeroed /\ node[p].frame_id = NotFound
  BY DEF Init, Zeroed
<1>2. Live = {}
  BY <1>1 DEF Live
<1>3. root \in NodeOrNull /\ Zeroed \in Snode /\ node \in [Page -> Snode]
  BY DEF Init, Zeroed, Snode, NodeOrNull
<1>4. This \in Tree /\ This.root = Null /\ LiveOf(This) = {}
  BY <1>1, <1>2, <1>3 DEF This, Tree, LiveOf, Live
<1> DEFINE s == [q \in Page |-> Page]
<1>5. s \in [Page -> SUBSET Page] /\ Linked(s)
  <2>1. s \in [Page -> SUBSET Page]
    OBVIOUS
  <2> HIDE DEF s
  <2>2. IsTree(This, s)
    BY <1>4, <2>1, TreeFrom
  <2> QED BY <1>4, <2>1, <2>2 DEF Linked
<1>6. 0 \in -1 .. Cardinality(Page) - 1
  <2>1. Cardinality(Page) # 0
    BY PageAssumption, FS_EmptySet
  <2> QED BY <2>1, PageFacts
<1>7. TypeOK
  BY <1>3, <1>6 DEF Init, TypeOK
<1>8. RootIsLast
  BY DEF Init, RootIsLast
<1> HIDE DEF s
<1> QED BY <1>5, <1>7, <1>8 DEF Inv

\* A state is as sound as its tree and its answer.
LEMMA InvFrom ==
    ASSUME (\E z \in [Page -> SUBSET Page] : Linked(z))',
           answer' \in [op: {"create", "lookup", "insert", "evict"}, page: Nat,
                        frame: FrameId \cup {NotFound},
                        depth: -1 .. Cardinality(Page) - 1],
           RootIsLast'
    PROVE  Inv'
<1>1. PICK z \in [Page -> SUBSET Page] : Linked(z)'
  OBVIOUS
<1>2. This' \in Tree
  BY <1>1 DEF Linked
<1>3. root' \in NodeOrNull /\ node' \in [Page -> Snode]
  BY <1>2 DEF This, Tree
<1>4. TypeOK'
  BY <1>3 DEF TypeOK
<1> QED BY <1>4 DEF Inv

\* Every step keeps the invariant.
LEMMA StepInv == ASSUME Inv, [Next]_vars PROVE Inv'
<1> DEFINE Kept == (\E z \in [Page -> SUBSET Page] : Linked(z))'
           DepthRange == -1 .. Cardinality(Page) - 1
<1>1. /\ \A p \in Page : node[p].frame_id \in FrameId \cup {NotFound} /\ p \in Nat
      /\ Live \subseteq Page
      /\ 0 \in Nat /\ 0 \in DepthRange /\ -1 \in DepthRange
      /\ 0 .. Cardinality(Live) - 1 \subseteq DepthRange
  <2>1. PICK s : Linked(s)
    BY InvLinked
  <2>2. Cardinality(Page) # 0
    BY PageAssumption, FS_EmptySet
  <2>3. /\ Cardinality(Page) \in Nat /\ Cardinality(Live) \in Nat
        /\ Cardinality(Live) <= Cardinality(Page)
    BY <2>1, ThisTree, PageFacts
  <2>4. \A p \in Page : node[p] \in Snode /\ p \in Nat
    BY <2>1, ThisTree, PageFacts
  <2> QED BY <2>1, <2>2, <2>3, <2>4, ThisTree DEF Snode
<1> HIDE DEF Kept, DepthRange
<1>2. ASSUME NEW op \in {"lookup", "insert", "evict"}, NEW p \in Nat,
             NEW f \in FrameId \cup {NotFound}, NEW depth \in DepthRange,
             Answers(op, p, f, depth), Kept,
             op \in {"lookup", "insert"} /\ p \in Live' => root' = p
      PROVE  Inv'
  <2>1. answer' \in [op: {"create", "lookup", "insert", "evict"}, page: Nat,
                     frame: FrameId \cup {NotFound}, depth: DepthRange]
    BY <1>2 DEF Answers
  <2>2. RootIsLast'
    BY <1>2 DEF RootIsLast, Answers
  <2> QED BY <1>2, <2>1, <2>2, InvFrom DEF Kept, DepthRange
<1>3. CASE UNCHANGED vars
  <2>1. Kept /\ Live' = Live
    BY <1>3, SameLinked DEF vars, Kept
  <2>2. answer' = answer /\ root' = root
    BY <1>3 DEF vars
  <2>3. RootIsLast'
    BY <2>1, <2>2 DEF Inv, RootIsLast
  <2> QED BY <2>1, <2>2, <2>3, InvFrom DEF Inv, TypeOK, Kept
<1>4. ASSUME NEW p \in Page, splay_lookup(p) PROVE Inv'
  <2>1. Kept /\ node'[p].frame_id = node[p].frame_id /\ (p \in Live => root' = p)
    BY <1>4, LookupDoes DEF Kept
  <2>2. PICK depth \in IF p \in Live THEN 0 .. Cardinality(Live) - 1 ELSE {-1} :
           Answers("lookup", p, node[p].frame_id, depth)
    BY <1>4, LookupDoes
  <2>3. p \in Live' => p \in Live
    BY <2>1 DEF Live
  <2>4. depth \in DepthRange
    BY <1>1, <2>2
  <2> QED BY <1>1, <1>2, <2>1, <2>2, <2>3, <2>4
<1>5. ASSUME NEW p \in Page, NEW f \in FrameId, splay_insert(p, f) PROVE Inv'
  <2>1. Kept /\ Answers("insert", p, f, 0)
    BY <1>5, InsertDoes DEF Kept
  <2>2. root' = p \/ (p \notin Live /\ UNCHANGED <<root, node>>)
    BY <1>5, InsertDoes
  <2>3. p \in Live' => root' = p
    BY <2>2 DEF Live
  <2> QED BY <1>1, <1>2, <2>1, <2>3
<1>6. CASE splay_evict_victim
  <2>1. Kept
    BY <1>6, EvictDoes DEF Kept
  <2>2. \/ Answers("evict", 0, NotFound, 0)
        \/ \E v \in Live : Answers("evict", v, node[v].frame_id, 0)
    BY <1>6, EvictDoes
  <2> QED BY <1>1, <1>2, <2>1, <2>2
<1> QED BY <1>3, <1>4, <1>5, <1>6 DEF Next

-----------------------------------------------------------------------------
(* The theorems.                                                           *)

\* The invariant holds in every state.
THEOREM Invariance == Spec => []Inv
<1>1. Inv /\ [Next]_vars => Inv'
  BY StepInv
<1> QED BY InitInv, <1>1, PTL DEF Spec

\* Every field has its type, and a lookup's depth is below the number of pages.
THEOREM TypeCorrect == Spec => []TypeOK
<1>1. Inv => TypeOK
  BY DEF Inv
<1> QED BY Invariance, <1>1, PTL

\* The parent pointers are the child pointers read backwards.
THEOREM LinksStayAgreed == Spec => []LinksAgree
<1>1. Inv => LinksAgree
  <2> SUFFICES ASSUME Inv, NEW p \in Live, NEW q \in Live
               PROVE  node[p].parent = q <=> node[q].left = p \/ node[q].right = p
    BY DEF LinksAgree
  <2>1. PICK s : Linked(s)
    BY InvLinked
  <2>2. p # Null /\ q # Null
    BY <2>1, ThisTree
  <2> QED BY <2>1, <2>2, LinkedFacts
<1> QED BY Invariance, <1>1, PTL

\* The nodes that calloc gave are the nodes below the root, each once.
THEOREM StaysRooted == Spec => []Rooted
<1>1. Inv => Rooted
  <2> SUFFICES ASSUME Inv PROVE Rooted
    OBVIOUS
  <2>1. PICK s : Linked(s)
    BY InvLinked
  <2>2. root # Null => node[root].parent = Null
    BY <2>1, LinkedFacts
  <2> QED BY <2>1, <2>2, RootHasAll DEF Rooted
<1> QED BY Invariance, <1>1, PTL

\* Rotations, insertions and evictions keep the tree a search tree.
THEOREM StaysSorted == Spec => []Sorted
<1>1. Inv => Sorted
  <2> SUFFICES ASSUME Inv, NEW q \in Live
               PROVE  /\ \A p \in Nodes(node[q].left)  : p < q
                      /\ \A p \in Nodes(node[q].right) : q < p
    BY DEF Sorted
  <2>1. PICK s : Linked(s)
    BY InvLinked
  <2>2. q \in Page /\ node[q].left \in NodeOrNull /\ node[q].right \in NodeOrNull
    BY <2>1, ThisTree
  <2>3. ASSUME NEW p \in Nodes(node[q].left) PROVE p < q
    <3>1. node[q].left \in Page
      BY <2>1, <2>2, NodesUnder
    <3>2. node[q].left \in Live /\ s[node[q].left] = s[q] \cap Lower[q]
      BY <2>1, <3>1, ThisTree, LinkedFacts
    <3>3. p \in Lower[q]
      BY <2>1, <2>2, <3>2, NodesUnder
    <3> QED BY <2>2, <3>3 DEF Lower
  <2>4. ASSUME NEW p \in Nodes(node[q].right) PROVE q < p
    <3>1. node[q].right \in Page
      BY <2>1, <2>2, NodesUnder
    <3>2. node[q].right \in Live /\ s[node[q].right] = s[q] \cap Upper[q]
      BY <2>1, <3>1, ThisTree, LinkedFacts
    <3>3. p \in Upper[q]
      BY <2>1, <2>2, <3>2, NodesUnder
    <3> QED BY <2>2, <3>3 DEF Upper
  <2> QED BY <2>3, <2>4
<1> QED BY Invariance, <1>1, PTL

\* The page accessed last is never the next victim, unless it is alone: it is
\* at the root, and the victim is a leaf.
THEOREM SparesLast == Spec => EvictSparesLast
<1> DEFINE Spares == /\ answer.op \in {"lookup", "insert"}
                     /\ answer'.op = "evict"
                     /\ answer.page \in Live
                     /\ Live # {answer.page}
                     => answer'.page # answer.page
<1>1. Inv /\ [Next]_vars => [Spares]_vars
  <2> SUFFICES ASSUME Inv, Next,
                      answer.op \in {"lookup", "insert"}, answer'.op = "evict",
                      answer.page \in Live, Live # {answer.page}
               PROVE  answer'.page # answer.page
    OBVIOUS
  <2>1. ASSUME NEW p \in Page, splay_lookup(p) PROVE FALSE
    <3>1. answer'.op = "lookup"
      BY <2>1, LookupDoes DEF Answers
    <3> QED BY <3>1
  <2>2. ASSUME NEW p \in Page, NEW f \in FrameId, splay_insert(p, f) PROVE FALSE
    <3>1. answer'.op = "insert"
      BY <2>2 DEF splay_insert, Answers
    <3> QED BY <3>1
  <2>3. CASE splay_evict_victim
    <3>1. PICK v \in Live : Answers("evict", v, node[v].frame_id, 0) /\ (v = root => Live = {v})
      BY <2>3, EvictDoes
    <3>2. root = answer.page
      BY DEF Inv, RootIsLast
    <3> QED BY <3>1, <3>2 DEF Answers
  <2> QED BY <2>1, <2>2, <2>3 DEF Next
<1> QED BY Invariance, <1>1, PTL DEF Spec, EvictSparesLast

-----------------------------------------------------------------------------
(* What an access does to the depths.                                      *)

\* The walk from the root gives each node its depth,
LEMMA DepthsAre ==
    ASSUME NEW s, Linked(s), NEW qd \in Subtree(root)
    PROVE  /\ qd[1] \in Live
           /\ qd[2] = Depth(Live, s, qd[1]) /\ qd[2] \in Nat
<1>1. qd[2] \in 0 .. Cardinality(Page) /\ qd[1] \in Level(root)[qd[2]]
  BY DEF Subtree
<1>2. qd[2] \in Nat
  BY <1>1, PageFacts
<1>3. root # Null
  BY <1>1, <1>2, NoNodes
<1> QED BY <1>1, <1>2, <1>3, LevelDepth

\* in the next state, too.
LEMMA DepthsAfter ==
    (\A s : \A qd \in Subtree(root) : Linked(s) => qd[2] = Depth(Live, s, qd[1]))'
<1>1. \A s : \A qd \in Subtree(root) : Linked(s) => qd[2] = Depth(Live, s, qd[1])
  BY DepthsAre
<1> QED BY <1>1, PTL

\* The nodes below q are those that it may hold.
LEMMA NodesAreSpan ==
    ASSUME NEW s, Linked(s), NEW q \in Live, NEW e \in Live
    PROVE  e \in Nodes(q) <=> e \in s[q]
<1>1. q \in NodeOrNull /\ q # Null
  BY ThisTree DEF NodeOrNull
<1> DEFINE Reached(r) == \E k \in Nat : r \in Level(q)[k]
           I == {n \in Nat : \A r \in Live : r \in s[q] /\ Depth(Live, s, r) = n => Reached(r)}
<1>2. ASSUME NEW r \in Live, r \in s[q], r # q
      PROVE  /\ node[r].parent \in Live /\ node[r].parent \in s[q]
             /\ r \in {node[node[r].parent].left, node[node[r].parent].right}
             /\ Depth(Live, s, r) = Depth(Live, s, node[r].parent) + 1
  <2> DEFINE h == Shape(This)
             live == Live
  <2>1. SearchTree(h, live, s, Page) /\ r \in live /\ h.pa[r] = node[r].parent
    BY ThisTree DEF Linked, IsTree, Shape, ParentOf
  <2> HIDE DEF h, live
  <2>2. /\ h.pa[r] = Null => Above(live, s, r) = {r}
        /\ h.pa[r] # Null => Above(live, s, r) = Above(live, s, h.pa[r]) \cup {r}
    BY <2>1, PagesAreOK, AboveChild
  <2>3. q \in Above(live, s, r)
    BY <1>2 DEF Above, live
  <2>4. node[r].parent # Null /\ node[r].parent \in s[q]
    BY <1>2, <2>1, <2>2, <2>3 DEF Above
  <2> QED BY <2>4, LinkedFacts, OneBelow
<1>3. Reached(q)
  BY <1>1, Levels
<1>4. ASSUME NEW r \in Live, r \in s[q], r # q, Reached(node[r].parent) PROVE Reached(r)
  <2>1. PICK k \in Nat : node[r].parent \in Level(q)[k]
    BY <1>4
  <2>2. r \in Down(Level(q)[k])
    <3>1. r # Null
      BY ThisTree
    <3> QED BY <1>2, <1>4, <2>1, <3>1 DEF Down
  <2>3. r \in Level(q)[k + 1] /\ k + 1 \in Nat
    BY <1>1, <2>2, Levels
  <2> QED BY <2>3
<1> HIDE DEF Reached
<1>5. 0 \in I
  <2> SUFFICES ASSUME NEW r \in Live, r \in s[q], Depth(Live, s, r) = 0 PROVE r = q
    BY <1>3
  <2> SUFFICES ASSUME r # q PROVE FALSE
    OBVIOUS
  <2>1. node[r].parent \in Live /\ Depth(Live, s, r) = Depth(Live, s, node[r].parent) + 1
    BY <1>2
  <2>2. Depth(Live, s, node[r].parent) \in Nat
    BY <2>1, OneBelow
  <2> QED BY <2>1, <2>2
<1>6. ASSUME NEW n \in Nat, n \in I PROVE n + 1 \in I
  <2> SUFFICES ASSUME NEW r \in Live, r \in s[q], Depth(Live, s, r) = n + 1, r # q
               PROVE  Reached(r)
    BY <1>3
  <2>1. /\ node[r].parent \in Live /\ node[r].parent \in s[q]
        /\ Depth(Live, s, r) = Depth(Live, s, node[r].parent) + 1
    BY <1>2
  <2>2. Depth(Live, s, node[r].parent) = n
    BY <2>1, OneBelow
  <2>3. Reached(node[r].parent)
    BY <1>6, <2>1, <2>2
  <2> QED BY <1>4, <2>3
<1> HIDE DEF I
<1>7. Nat \subseteq I
  BY <1>5, <1>6, NatSteps
<1>8. e \in s[q] => e \in Nodes(q)
  <2> SUFFICES ASSUME e \in s[q] PROVE e \in Nodes(q)
    OBVIOUS
  <2>1. Reached(e)
    <3>1. Depth(Live, s, e) \in I
      BY <1>7, OneBelow
    <3> QED BY <3>1 DEF I
  <2>2. PICK k \in Nat : e \in Level(q)[k]
    BY <2>1 DEF Reached
  <2>3. k < Cardinality(Live)
    BY <2>2, LevelBounds
  <2>4. k \in 0 .. Cardinality(Page)
    BY <2>3, ThisTree, PageFacts
  <2> QED BY <2>2, <2>4, NodesAre
<1> QED BY <1>1, <1>8, NodesUnder

\* Where the search for p ends decides how deep p is, or is hung.
LEMMA AccessDepthIs ==
    ASSUME NEW s, Linked(s), NEW p \in Page
    PROVE  LET e == LastVisited(p)[1] IN
           /\ e \in Live \cup {Null} /\ (e = Null => Live = {})
           /\ p \in Live <=> e = p
           /\ AccessDepth(p) \in Nat
           /\ AccessDepth(p) = IF p \in Live THEN Depth(Live, s, p)
                               ELSE IF e = Null THEN 0 ELSE Depth(Live, s, e) + 1
<1> DEFINE qd == LastVisited(p)
<1>1. p \in Live <=> qd[1] = p
  BY FoundIsLive DEF Found
<1>2. p # Null
  BY ThisTree
<1>3. CASE root = Null
  <2>1. qd[1] = Null /\ Live = {}
    BY <1>3, SearchEnds, LinkedFacts
  <2>2. AccessDepth(p) = 0
    BY <1>3 DEF AccessDepth
  <2> HIDE DEF qd
  <2>3. /\ qd[1] \in Live \cup {Null} /\ (qd[1] = Null => Live = {})
        /\ AccessDepth(p) \in Nat
        /\ AccessDepth(p) = IF p \in Live THEN Depth(Live, s, p)
                            ELSE IF qd[1] = Null THEN 0 ELSE Depth(Live, s, qd[1]) + 1
    BY <2>1, <2>2
  <2> QED BY <1>1, <2>3 DEF qd
<1>4. CASE root # Null
  <2>1. Outcome(s, p, root, qd)
    BY <1>4, SearchEnds
  <2>2. AccessDepth(p) = qd[2] + (IF qd[1] = p THEN 0 ELSE 1)
    BY <1>4 DEF AccessDepth, Found
  <2> HIDE DEF qd
  <2>3. root \in Live /\ Depth(Live, s, root) = 0
    BY <1>4, LinkedFacts, OneBelow
  <2>4. qd[1] \in Live /\ qd[2] \in Nat /\ Depth(Live, s, qd[1]) = qd[2]
    BY <2>1, <2>3 DEF Outcome
  <2>5. qd[1] # Null
    BY <2>4, ThisTree
  <2>6. /\ AccessDepth(p) \in Nat
        /\ AccessDepth(p) = IF p \in Live THEN Depth(Live, s, p)
                            ELSE IF qd[1] = Null THEN 0 ELSE Depth(Live, s, qd[1]) + 1
    <3>1. CASE qd[1] = p
      BY <1>1, <2>2, <2>4, <3>1
    <3>2. CASE qd[1] # p
      BY <1>1, <2>2, <2>4, <2>5, <3>2
    <3> QED BY <3>1, <3>2
  <2> QED BY <1>1, <2>4, <2>5, <2>6 DEF qd
<1> QED BY <1>3, <1>4

\* The step has brought p, X levels deep, from where the search for it ends to
\* the root of u.
Brings(s, p, X, u) ==
    /\ Becomes(u) /\ u \in Tree /\ u.root = p
    /\ \E sU : /\ IsTree(u, sU)
               /\ \A q \in Live \ {p} :
                     /\ q \in LiveOf(u)
                     /\ Depth(LiveOf(u), sU, q) <=
                           HalfWay(X, Depth(Live, s, q), LastVisited(p)[1] \in s[q])

\* What the loop does to the tree it is given.
LEMMA SplayHalves ==
    ASSUME NEW t \in Tree, NEW s, IsTree(t, s), NEW p \in LiveOf(t)
    PROVE  LET u == splay_node(t, p) IN
           /\ u \in Tree /\ u.root = p
           /\ \E sU : /\ IsTree(u, sU)
                      /\ \A q \in LiveOf(t) \ {p} :
                            /\ q \in LiveOf(u)
                            /\ Depth(LiveOf(u), sU, q) <=
                                  HalfWay(Depth(LiveOf(t), s, p),
                                          Depth(LiveOf(t), s, q), p \in s[q])
<1> DEFINE u == splay_node(t, p)
           live == LiveOf(t)
<1>1. /\ u \in Tree /\ u.root = p /\ SameFrames(t, u)
      /\ OnTop(Shape(t), Shape(u), live, s, Page, p)
  BY SplayNode DEF Topped
<1> HIDE DEF u
<1>2. LiveOf(u) = live
  BY <1>1, SameLive
<1>3. PICK sU : /\ SearchTree(Shape(u), live, sU, Page)
                /\ \A q \in live \ {p} :
                      Depth(live, sU, q) <= HalfWay(Depth(live, s, p),
                                                    Depth(live, s, q), p \in s[q])
  BY <1>1 DEF OnTop
<1>4. IsTree(u, sU)
  BY <1>2, <1>3 DEF IsTree
<1> HIDE DEF live
<1>5. \A q \in live \ {p} :
         /\ q \in LiveOf(u)
         /\ Depth(LiveOf(u), sU, q) <=
               HalfWay(Depth(live, s, p), Depth(live, s, q), p \in s[q])
  BY <1>2, <1>3
<1> QED BY <1>1, <1>4, <1>5 DEF u, live

\* A page that has a node, whose frame may be new,
LEMMA HitBrings ==
    ASSUME NEW s, Linked(s), NEW p \in Live,
           NEW t \in Tree, IsTree(t, s), LiveOf(t) = Live, Becomes(splay_node(t, p))
    PROVE  Brings(s, p, AccessDepth(p), splay_node(t, p))
<1> DEFINE u == splay_node(t, p)
<1>1. /\ u \in Tree /\ u.root = p
      /\ \E sU : /\ IsTree(u, sU)
                 /\ \A q \in Live \ {p} :
                       /\ q \in LiveOf(u)
                       /\ Depth(LiveOf(u), sU, q) <=
                             HalfWay(Depth(Live, s, p), Depth(Live, s, q), p \in s[q])
  BY SplayHalves
<1>2. LastVisited(p)[1] = p /\ AccessDepth(p) = Depth(Live, s, p)
  BY ThisTree, AccessDepthIs
<1> HIDE DEF u
<1> QED BY <1>1, <1>2 DEF Brings, u

\* and one that gets one, one level below the last node visited.
LEMMA NewBrings ==
    ASSUME NEW s, Linked(s), NEW p \in Page, p \notin Live, NEW f \in FrameId,
           Becomes(splay_node(Hang(p, f, LastVisited(p)[1]), p))
    PROVE  Brings(s, p, AccessDepth(p), splay_node(Hang(p, f, LastVisited(p)[1]), p))
<1> DEFINE e == LastVisited(p)[1]
           t == Hang(p, f, e)
           u == splay_node(t, p)
           sT == HungSpan(s, p, e, Page)
           live == Live
           liveT == Live \cup {p}
           X == AccessDepth(p)
<1>1. /\ t \in Tree /\ LiveOf(t) = liveT /\ IsTree(t, sT)
      /\ HungBelow(live, s, p, e, liveT, sT)
  BY HangTree
<1>2. X = IF e = Null THEN 0 ELSE Depth(live, s, e) + 1
  BY AccessDepthIs
<1> HIDE DEF e, t, sT, live, X
<1>3. /\ Depth(liveT, sT, p) = X
      /\ \A q \in live : /\ Depth(liveT, sT, q) = Depth(live, s, q)
                         /\ (p \in sT[q]) <=> (e \in s[q])
  BY <1>1, <1>2 DEF HungBelow
<1>4. p \in liveT /\ p \notin live /\ \A q \in live : q \in liveT \ {p}
  BY DEF live
<1> HIDE DEF liveT
<1>5. p \in LiveOf(t)
  BY <1>1, <1>4
<1>6. /\ u \in Tree /\ u.root = p
      /\ \E sU : /\ IsTree(u, sU)
                 /\ \A q \in LiveOf(t) \ {p} :
                       /\ q \in LiveOf(u)
                       /\ Depth(LiveOf(u), sU, q) <=
                             HalfWay(Depth(LiveOf(t), sT, p),
                                     Depth(LiveOf(t), sT, q), p \in sT[q])
  BY <1>1, <1>5, SplayHalves
<1>7. Becomes(u)
  BY DEF u, t, e
<1> HIDE DEF u
<1>8. PICK sU : /\ IsTree(u, sU)
                /\ \A q \in liveT \ {p} :
                      /\ q \in LiveOf(u)
                      /\ Depth(LiveOf(u), sU, q) <=
                            HalfWay(X, Depth(liveT, sT, q), p \in sT[q])
  BY <1>1, <1>3, <1>6
<1>9. ASSUME NEW q \in live \ {p}
      PROVE  /\ q \in LiveOf(u)
             /\ Depth(LiveOf(u), sU, q) <= HalfWay(X, Depth(live, s, q), e \in s[q])
  <2>1. q \in liveT \ {p}
    BY <1>4
  <2>2. /\ q \in LiveOf(u)
        /\ Depth(LiveOf(u), sU, q) <= HalfWay(X, Depth(live, s, q), p \in sT[q])
    BY <1>3, <1>8, <2>1
  <2>3. (p \in sT[q]) <=> (e \in s[q])
    BY <1>3
  <2> QED BY <2>2, <2>3 DEF HalfWay
<1> QED BY <1>6, <1>7, <1>8, <1>9 DEF Brings, u, t, e, X, live

\* Every access does one or the other.
LEMMA AccessBrings ==
    ASSUME Inv, Next, Accessed
    PROVE  LET p == answer'.page IN
           p \in Page /\ \E s, u : Linked(s) /\ Brings(s, p, AccessDepth(p), u)
<1>1. PICK s : Linked(s)
  BY InvLinked
<1>2. answer'.op \in {"lookup", "insert"} /\ answer'.page \in Live'
  BY DEF Accessed
<1>3. ASSUME NEW p \in Page, splay_lookup(p)
      PROVE  answer'.page = p /\ \E u : Brings(s, p, AccessDepth(p), u)
  <2>1. answer'.page = p
    BY <1>3 DEF splay_lookup, Answers
  <2>2. p \in Live
    <3> SUFFICES ASSUME p \notin Live PROVE FALSE
      OBVIOUS
    <3>1. ~Found(p)
      BY <1>1, FoundIsLive
    <3>2. Live' = Live
      BY <1>3, <3>1 DEF splay_lookup, Live
    <3> QED BY <1>2, <2>1, <3>2
  <2>3. Becomes(splay_node(This, p))
    <3>1. Found(p)
      BY <1>1, <2>2, FoundIsLive
    <3> QED BY <1>3, <3>1 DEF splay_lookup
  <2>4. This \in Tree /\ IsTree(This, s) /\ LiveOf(This) = Live
    BY <1>1, ThisTree DEF Linked
  <2> QED BY <1>1, <2>1, <2>2, <2>3, <2>4, HitBrings
<1>4. ASSUME NEW p \in Page, NEW f \in FrameId, splay_insert(p, f)
      PROVE  answer'.page = p /\ \E u : Brings(s, p, AccessDepth(p), u)
  <2>1. answer'.page = p
    BY <1>4 DEF splay_insert, Answers
  <2>2. CASE p \in Live
    <3> DEFINE t == [This EXCEPT !.node[p].frame_id = f]
    <3>1. Found(p)
      BY <1>1, <2>2, FoundIsLive
    <3>2. Becomes(splay_node(t, p))
      BY <1>4, <3>1 DEF splay_insert
    <3>3. t \in Tree /\ IsTree(t, s) /\ LiveOf(t) = Live
      BY <1>1, <2>2, FrameTree
    <3> HIDE DEF t
    <3> QED BY <1>1, <2>1, <2>2, <3>2, <3>3, HitBrings
  <2>3. CASE p \notin Live
    <3> DEFINE t == Hang(p, f, LastVisited(p)[1])
    <3>1. ~Found(p)
      BY <1>1, <2>3, FoundIsLive
    <3>2. Becomes(splay_node(t, p)) \/ UNCHANGED <<root, node>>
      BY <1>4, <3>1 DEF splay_insert
    <3>3. Becomes(splay_node(t, p))
      <4>1. UNCHANGED <<root, node>> => Live' = Live
        BY DEF Live
      <4> HIDE DEF t
      <4> QED BY <1>2, <2>1, <2>3, <3>2, <4>1
    <3> QED BY <1>1, <2>1, <2>3, <3>3, NewBrings
  <2> QED BY <2>2, <2>3
<1>5. ~splay_evict_victim
  BY <1>2 DEF splay_evict_victim, Answers
<1>6. answer'.page \in Page /\ \E u : Brings(s, answer'.page, AccessDepth(answer'.page), u)
  BY <1>3, <1>4, <1>5 DEF Next
<1> QED BY <1>1, <1>6

\* What PathHalved says of an access to p.
Halves(p) ==
    /\ root' = p
    /\ LET bottom == AccessDepth(p) IN
       \A qd \in Subtree(root), rd \in Subtree(root)' :
          LET q == qd[1]
              d == qd[2]
          IN  q = rd[1] /\ q # p =>
                rd[2] <= IF LastVisited(p)[1] \notin Nodes(q) THEN d + 2
                         ELSE IF (bottom - d) % 2 = 1 THEN (d \div 2) + 1
                         ELSE ((d + 1) \div 2) + 2

LEMMA BringsHalves ==
    ASSUME NEW s, Linked(s), NEW p \in Page, NEW u, Brings(s, p, AccessDepth(p), u)
    PROVE  Halves(p)
<1> DEFINE X == AccessDepth(p)
           e == LastVisited(p)[1]
<1>1. PICK sU : /\ IsTree(u, sU)
                /\ \A q \in Live \ {p} :
                      /\ q \in LiveOf(u)
                      /\ Depth(LiveOf(u), sU, q) <= HalfWay(X, Depth(Live, s, q), e \in s[q])
  BY DEF Brings
<1>2. e \in Live \cup {Null} /\ (e = Null => Live = {})
  BY AccessDepthIs
<1>3. /\ Becomes(u) /\ u \in Tree /\ u.root = p
  BY DEF Brings
<1> HIDE DEF X, e
<1>4. root' = p
  BY <1>3 DEF Becomes
<1>5. Live' = LiveOf(u) /\ Linked(sU)'
  <2>1. root' = u.root /\ node' = u.node
    BY <1>3 DEF Becomes
  <2>2. This' = u
    <3>1. u = [root |-> u.root, node |-> u.node]
      BY <1>3 DEF Tree
    <3> QED BY <2>1, <3>1 DEF This
  <2> QED BY <1>1, <1>3, <2>1, <2>2 DEF Live, LiveOf, Linked
<1>6. ASSUME NEW rd \in Subtree(root)' PROVE rd[2] = Depth(Live', sU, rd[1])
  BY <1>5, DepthsAfter
<1>7. ASSUME NEW qd \in Subtree(root), NEW rd \in Subtree(root)', qd[1] = rd[1], qd[1] # p
      PROVE  rd[2] <= HalfWay(X, qd[2], e \in Nodes(qd[1]))
  <2>1. qd[1] \in Live /\ qd[2] = Depth(Live, s, qd[1])
    BY DepthsAre
  <2>2. rd[2] = Depth(LiveOf(u), sU, qd[1])
    BY <1>5, <1>6, <1>7
  <2>3. rd[2] <= HalfWay(X, qd[2], e \in s[qd[1]])
    BY <1>1, <1>7, <2>1, <2>2
  <2>4. e \in Live
    BY <1>2, <2>1
  <2>5. (e \in Nodes(qd[1])) <=> (e \in s[qd[1]])
    BY <2>1, <2>4, NodesAreSpan
  <2> QED BY <2>3, <2>5 DEF HalfWay
<1> QED BY <1>4, <1>7 DEF Halves, HalfWay, X, e

LEMMA AccessHalves ==
    ASSUME Inv, Next, Accessed
    PROVE  Halves(answer'.page)
BY AccessBrings, BringsHalves

\* The accessed page ends at the root, each node on its path at about half its
\* depth, and no other sinks by more than two levels: splay_node's order of
\* rotations, not the single rotations alone, is what shortens long paths.
THEOREM AlwaysPathHalved == Spec => PathHalved
<1>1. Inv /\ [Next]_vars => [Accessed => Halves(answer'.page)]_vars
  BY AccessHalves
<1>2. PathHalved <=> [][Accessed => Halves(answer'.page)]_vars
  BY DEF PathHalved, Halves
<1> QED BY <1>1, <1>2, Invariance, PTL DEF Spec

-----------------------------------------------------------------------------
(* The map that a search from the root finds.                              *)

Map    == [p \in Page |-> IF Found(p) THEN node[p].frame_id ELSE NotFound]
Frames == [p \in Page |-> node[p].frame_id]

\* It is the frames of the nodes: what has no node has no frame.
LEMMA MapIsFrames == Inv => Map = Frames
<1> SUFFICES ASSUME Inv PROVE Map = Frames
  OBVIOUS
<1>1. PICK s : Linked(s)
  BY InvLinked
<1>2. ASSUME NEW p \in Page
      PROVE  (IF Found(p) THEN node[p].frame_id ELSE NotFound) = node[p].frame_id
  <2>1. Found(p) <=> node[p].frame_id # NotFound
    BY <1>1, FoundIsLive DEF Live
  <2> QED BY <2>1
<1> QED BY <1>2 DEF Map, Frames

LEMMA NextMapIsFrames == Inv' => (Map = Frames)'
BY MapIsFrames, PTL

\* Before and after a step.
LEMMA MapsAre ==
    ASSUME Inv, Inv'
    PROVE  /\ Map = Frames /\ Map' = Frames'
           /\ \A p \in Page : Map[p] = node[p].frame_id /\ Map'[p] = node'[p].frame_id
           /\ Index!Mapped = Live
<1>1. Map = Frames
  BY MapIsFrames
<1>2. Map' = Frames'
  BY NextMapIsFrames
<1>3. \A p \in Page : Map[p] = node[p].frame_id /\ Map'[p] = node'[p].frame_id
  BY <1>1, <1>2 DEF Frames
<1>4. Index!Mapped = {p \in Page : Map[p] # NotFound}
  BY DEF Index!Mapped, Map, NotFound, Index!NotFound
<1> QED BY <1>1, <1>2, <1>3, <1>4 DEF Live

\* splay_create makes the empty map.
LEMMA InitRefines == Init => Index!Init
<1> SUFFICES ASSUME Init PROVE Index!Init
  OBVIOUS
<1>1. Inv
  BY InitInv
<1>2. Map = [p \in Page |-> NotFound]
  BY <1>1, MapIsFrames DEF Frames, Init, Zeroed
<1> QED BY <1>2 DEF Index!Init, Map, Init, NotFound, Index!NotFound

\* splay_lookup answers what the map holds, with a depth below the number of
\* pages in it.
LEMMA LookupRefines ==
    ASSUME Inv, Inv', NEW p \in Page, splay_lookup(p)
    PROVE  Index!lookup(p)
<1>1. /\ Map = Frames /\ Map' = Frames' /\ Map[p] = node[p].frame_id
      /\ Index!Mapped = Live
  BY MapsAre
<1>2. Frames' = Frames
  BY LookupDoes DEF OthersKept, Frames
<1>3. PICK depth \in IF p \in Live THEN 0 .. Cardinality(Live) - 1 ELSE {-1} :
         Answers("lookup", p, node[p].frame_id, depth)
  BY LookupDoes
<1>4. depth \in Index!Depths(p)
  <2>1. Index!Cardinality(Live) = Cardinality(Live)
    BY DEF Cardinality, Index!Cardinality
  <2>2. Map[p] # Index!NotFound <=> p \in Live
    BY <1>1 DEF Live, NotFound, Index!NotFound
  <2>3. Index!Depths(p) = IF Map[p] # Index!NotFound
                          THEN 0 .. Index!Cardinality(Index!Mapped) - 1 ELSE {0, -1}
    BY DEF Index!Depths, Map
  <2> QED BY <1>1, <1>3, <2>1, <2>2, <2>3
<1>5. Index!Answers("lookup", p, Map[p], depth)
  BY <1>1, <1>3 DEF Answers, Index!Answers
<1> QED BY <1>1, <1>2, <1>4, <1>5 DEF Index!lookup, Map

\* splay_insert puts the page in the map, unless there is no memory.
LEMMA InsertRefines ==
    ASSUME Inv, Inv', NEW p \in Page, NEW f \in FrameId, splay_insert(p, f)
    PROVE  Index!insert(p, f)
<1>1. /\ Map = Frames /\ Map' = Frames' /\ Map[p] = node[p].frame_id
  BY MapsAre
<1>2. Index!Answers("insert", p, f, 0)
  BY InsertDoes DEF Answers, Index!Answers
<1>3. CASE node'[p].frame_id = f
  <2>1. Frames' = [Frames EXCEPT ![p] = f]
    BY <1>3, InsertDoes DEF OthersKept, Frames
  <2> QED BY <1>1, <1>2, <2>1 DEF Index!insert, Map
<1>4. CASE OutOfMemory /\ p \notin Live /\ UNCHANGED <<root, node>>
  <2>1. Frames' = Frames /\ node[p].frame_id = NotFound
    BY <1>4 DEF Frames, Live
  <2> QED BY <1>1, <1>2, <1>4, <2>1 DEF Index!insert, Map, NotFound, Index!NotFound
<1> QED BY <1>3, <1>4, InsertDoes

\* splay_evict_victim takes a page out, if there is one.
LEMMA EvictRefines ==
    ASSUME Inv, Inv', splay_evict_victim
    PROVE  Index!Next
<1>1. /\ Map = Frames /\ Map' = Frames'
      /\ \A p \in Page : Map[p] = node[p].frame_id
  BY MapsAre
<1>2. CASE Live = {} /\ Answers("evict", 0, NotFound, 0) /\ UNCHANGED <<root, node>>
  <2>1. Frames' = Frames /\ \A p \in Page : Map[p] = NotFound
    BY <1>1, <1>2 DEF Frames, Live
  <2>2. Index!evict_empty
    BY <1>1, <1>2, <2>1
    DEF Index!evict_empty, Answers, Index!Answers, Map, NotFound, Index!NotFound
  <2> QED BY <2>2 DEF Index!Next
<1>3. ASSUME NEW v \in Live, Answers("evict", v, node[v].frame_id, 0),
             node'[v].frame_id = NotFound, OthersKept(v)
      PROVE  Index!Next
  <2>1. v \in Page /\ node[v].frame_id # NotFound
    BY DEF Live
  <2>2. Frames' = [Frames EXCEPT ![v] = NotFound]
    <3>1. \A q \in Page : node'[q].frame_id = IF q = v THEN NotFound ELSE node[q].frame_id
      BY <1>3, <2>1 DEF OthersKept
    <3> QED BY <3>1 DEF Frames
  <2>3. Index!evict_victim(v)
    BY <1>1, <1>3, <2>1, <2>2
    DEF Index!evict_victim, Answers, Index!Answers, Map, NotFound, Index!NotFound
  <2> QED BY <2>1, <2>3 DEF Index!Next
<1> QED BY <1>2, <1>3, EvictDoes

\* The tree, through rotations and evictions, is a map from pages to frames:
\* every call is a call on that map, and answers what the map holds.
THEOREM ImplementsIndex == Spec => IndexSpec
<1>1. Inv /\ Inv' /\ [Next]_vars => [Index!Next]_Index!vars
  <2> SUFFICES ASSUME Inv, Inv', [Next]_vars
               PROVE  [Index!Next]_Index!vars
    OBVIOUS
  <2>1. CASE UNCHANGED vars
    <3>1. answer' = answer /\ Frames' = Frames
      BY <2>1 DEF vars, Frames
    <3>2. Map' = Map
      BY <3>1, MapsAre
    <3> QED BY <3>1, <3>2 DEF Index!vars, Map
  <2>2. ASSUME NEW p \in Page, splay_lookup(p) PROVE Index!Next
    BY <2>2, LookupRefines DEF Index!Next
  <2>3. ASSUME NEW p \in Page, NEW f \in FrameId, splay_insert(p, f) PROVE Index!Next
    BY <2>3, InsertRefines DEF Index!Next
  <2>4. CASE splay_evict_victim
    BY <2>4, EvictRefines
  <2> QED BY <2>1, <2>2, <2>3, <2>4 DEF Next
<1> QED BY InitRefines, Invariance, <1>1, PTL DEF Spec, IndexSpec, Index!Spec

=============================================================================
