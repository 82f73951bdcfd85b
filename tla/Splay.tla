-------------------------------- MODULE Splay --------------------------------
(***************************************************************************)
(* The splay tree that indexes the pages of a shard (src/src/splay.c):     *)
(* nodes with left, right and parent pointers, the loop of zig, zig-zig    *)
(* and zig-zag rotations, the eviction of the deepest leaf.  A shard's     *)
(* mutex makes every call one step.                                        *)
(*                                                                         *)
(* A node is named by its page.  splay_insert calls calloc for a page that *)
(* its search did not find, and Sorted with Rooted, which hold before each *)
(* call, say that such a page has no node: the name is free.               *)
(***************************************************************************)
EXTENDS Integers, FiniteSets, FiniteSetsExt

CONSTANTS
    Page,        \* the page numbers
    FrameId,     \* the frame numbers
    OutOfMemory  \* whether calloc can fail

\* A uint64_t: there are finitely many, and some.
ASSUME PageAssumption == Page \subseteq Nat /\ Page # {} /\ IsFiniteSet(Page)
ASSUME FrameAssumption == FrameId \subseteq Nat
ASSUME MemoryAssumption == OutOfMemory \in BOOLEAN

VARIABLES
    root,    \* t->root
    node,    \* node[p]: the snode of page p, Zeroed if it has none
    answer   \* what the last call answered, with *out_depth

vars == <<root, node, answer>>

NotFound == -1
Null     == -1

NodeOrNull == Page \cup {Null}

Snode == [frame_id: FrameId \cup {NotFound}, left: NodeOrNull,
          right: NodeOrNull, parent: NodeOrNull]

Zeroed == [frame_id |-> NotFound, left |-> Null, right |-> Null, parent |-> Null]

Live == {p \in Page : node[p].frame_id # NotFound}

\* A tree as a value: what rotate and splay_node work on.
Tree == [root: NodeOrNull, node: [Page -> Snode]]
This == [root |-> root, node |-> node]

-----------------------------------------------------------------------------
(* rotate and splay_node                                                   *)

\* Mutant: the inner subtree's parent pointer is not updated.
TurnedNodeNoReparent(n, q, x, p, g, inner) ==
    IF q = p THEN IF n[p].left = x
                  THEN [n[p] EXCEPT !.left = inner, !.parent = x]
                  ELSE [n[p] EXCEPT !.right = inner, !.parent = x]
    ELSE IF q = x THEN IF n[p].left = x
                       THEN [n[x] EXCEPT !.right = p, !.parent = g]
                       ELSE [n[x] EXCEPT !.left = p, !.parent = g]
    ELSE IF q = g THEN IF n[g].left = p THEN [n[g] EXCEPT !.left = x]
                       ELSE [n[g] EXCEPT !.right = x]
    ELSE n[q]

\* Node q, one of those in n, once x is above its parent p, below g, and the
\* subtree inner has changed sides.
TurnedNode(n, q, x, p, g, inner) ==
    IF q = p THEN IF n[p].left = x
                  THEN [n[p] EXCEPT !.left = inner, !.parent = x]
                  ELSE [n[p] EXCEPT !.right = inner, !.parent = x]
    ELSE IF q = x THEN IF n[p].left = x
                       THEN [n[x] EXCEPT !.right = p, !.parent = g]
                       ELSE [n[x] EXCEPT !.left = p, !.parent = g]
    ELSE IF q = inner THEN [n[q] EXCEPT !.parent = p]
    ELSE IF q = g THEN IF n[g].left = p THEN [n[g] EXCEPT !.left = x]
                       ELSE [n[g] EXCEPT !.right = x]
    ELSE n[q]

\* x goes up one level, over its parent p; the subtree between the two changes
\* sides, and the grandparent g, if any, points to x.
rotate(t, x) ==
    LET p == t.node[x].parent
        g == t.node[p].parent
        inner == IF t.node[p].left = x THEN t.node[x].right ELSE t.node[x].left
    IN  [root |-> IF g = Null THEN x ELSE t.root,
         node |-> [q \in Page |-> TurnedNode(t.node, q, x, p, g, inner)]]

\* Mutant: x is rotated twice in both cases ("move to root").
SplayStepSimple(t, x) ==
    LET p == t.node[x].parent
        g == t.node[p].parent
    IN  IF g = Null THEN rotate(t, x) ELSE rotate(rotate(t, x), x)

\* One round of the loop: zig, zig-zig or zig-zag.
SplayStep(t, x) ==
    LET p == t.node[x].parent
        g == t.node[p].parent
        straight == (t.node[g].left = p) = (t.node[p].left = x)
    IN  IF g = Null THEN rotate(t, x)
        ELSE IF straight THEN rotate(rotate(t, p), x)
        ELSE rotate(rotate(t, x), x)

\* The loop ends when x has no parent.  Every round brings more pages below x, so
\* that there are fewer rounds than pages.
splay_node(t, x) ==
    LET after[k \in Nat] ==
            IF k = 0 THEN t
            ELSE LET u == after[k - 1] IN
                 IF u.node[x].parent = Null THEN u ELSE SplayStep(u, x)
    IN  [after[Cardinality(Page)] EXCEPT !.root = x]

-----------------------------------------------------------------------------
(* The search and the walk of the tree.                                    *)

\* Where the search for p turns at node q.
Child(q, p) == IF p < q THEN node[q].left ELSE node[q].right

\* Mutant: the depth of the root counts as 1.
LastVisitedFrom1(p) ==
    LET search[k \in Nat] ==
            [q \in NodeOrNull |->
               IF k = 0 \/ q \in {p, Null} \/ Child(q, p) = Null THEN <<q, 1>>
               ELSE LET qd == search[k - 1][Child(q, p)] IN <<qd[1], qd[2] + 1>>]
    IN  search[Cardinality(Page)][root]

\* The last node that the search for p visits, p's node or the one it would
\* hang from, with its depth.  A search visits no page twice.
LastVisited(p) ==
    LET search[k \in Nat] ==
            [q \in NodeOrNull |->
               IF k = 0 \/ q \in {p, Null} \/ Child(q, p) = Null THEN <<q, 0>>
               ELSE LET qd == search[k - 1][Child(q, p)] IN <<qd[1], qd[2] + 1>>]
    IN  search[Cardinality(Page)][root]

Found(p) == LastVisited(p)[1] = p

\* The nodes that the walk from q reaches at depth k.
Level(q) ==
    LET level[k \in Nat] ==
            IF k = 0 THEN {q} \ {Null}
            ELSE UNION {{node[r].left, node[r].right} \ {Null} : r \in level[k - 1]}
    IN  level

\* The subtree of q, each node with its depth below q.
Subtree(q) == UNION {Level(q)[k] \X {k} : k \in 0 .. Cardinality(Page)}

Nodes(q) == {rd[1] : rd \in Subtree(q)}

-----------------------------------------------------------------------------
(* The operations.                                                         *)

Answers(op, p, f, depth) ==
    answer' = [op |-> op, page |-> p, frame |-> f, depth |-> depth]

\* splay_create
Init ==
    /\ root = Null
    /\ node = [p \in Page |-> Zeroed]
    /\ answer = [op |-> "create", page |-> 0, frame |-> NotFound, depth |-> 0]

Becomes(t) == root' = t.root /\ node' = t.node

\* Mutant: the node found is not brought to the root.
splay_lookupNoSplay(p) ==
    IF Found(p)
    THEN /\ Answers("lookup", p, node[p].frame_id, LastVisited(p)[2])
         /\ UNCHANGED <<root, node>>
    ELSE /\ Answers("lookup", p, NotFound, -1)
         /\ UNCHANGED <<root, node>>

\* A hit answers the depth the node had before it was brought to the root.
splay_lookup(p) ==
    IF Found(p)
    THEN /\ Answers("lookup", p, node[p].frame_id, LastVisited(p)[2])
         /\ Becomes(splay_node(This, p))
    ELSE /\ Answers("lookup", p, NotFound, -1)
         /\ UNCHANGED <<root, node>>

\* Mutant: the new node is hung on the wrong side of its parent.
HangOtherSide(p, f, q) ==
    [root |-> IF q = Null THEN p ELSE root,
     node |-> [r \in Page |->
                 IF r = p THEN [Zeroed EXCEPT !.frame_id = f, !.parent = q]
                 ELSE IF r # q THEN node[r]
                 ELSE IF q < p THEN [node[q] EXCEPT !.left = p]
                 ELSE [node[q] EXCEPT !.right = p]]]

\* The new node under parent q, or alone in an empty tree.
Hang(p, f, q) ==
    [root |-> IF q = Null THEN p ELSE root,
     node |-> [r \in Page |->
                 IF r = p THEN [Zeroed EXCEPT !.frame_id = f, !.parent = q]
                 ELSE IF r # q THEN node[r]
                 ELSE IF p < q THEN [node[q] EXCEPT !.left = p]
                 ELSE [node[q] EXCEPT !.right = p]]]

\* Mutant: an existing page keeps its old frame.
splay_insertKeepsFrame(p, f) ==
    /\ Answers("insert", p, f, 0)
    /\ IF Found(p)
       THEN Becomes(splay_node(This, p))
       ELSE LET q == LastVisited(p)[1] IN
            \/ Becomes(splay_node(Hang(p, f, q), p))
            \/ OutOfMemory /\ UNCHANGED <<root, node>>

\* An existing page gets the new frame; a new one a node, if calloc has one.
splay_insert(p, f) ==
    /\ Answers("insert", p, f, 0)
    /\ IF Found(p)
       THEN Becomes(splay_node([This EXCEPT !.node[p].frame_id = f], p))
       ELSE LET q == LastVisited(p)[1] IN
            \/ Becomes(splay_node(Hang(p, f, q), p))
            \/ OutOfMemory /\ UNCHANGED <<root, node>>

\* Mutant: the walk goes down the left spine only.
find_deepestLeft(q) ==
    LET down[r \in Page] == IF node[r].left = Null THEN r ELSE down[node[r].left]
    IN  down[q]

\* The first of the deepest nodes in the walk's order, which is the leftmost.
find_deepest(q) ==
    LET height == Max({rd[2] : rd \in Subtree(q)})
    IN  Min({rd[1] : rd \in {rd \in Subtree(q) : rd[2] = height}})

\* The victim is a leaf: it is enough to unlink it from its parent.
splay_evict_victim ==
    IF root = Null
    THEN /\ Answers("evict", 0, NotFound, 0)
         /\ UNCHANGED <<root, node>>
    ELSE LET v == find_deepest(root)
             p == node[v].parent
         IN  /\ Answers("evict", v, node[v].frame_id, 0)
             /\ root' = IF p = Null THEN Null ELSE root
             /\ node' = [r \in Page |->
                           IF r = v THEN Zeroed
                           ELSE IF r # p THEN node[r]
                           ELSE IF node[p].left = v THEN [node[p] EXCEPT !.left = Null]
                           ELSE [node[p] EXCEPT !.right = Null]]

Next ==
    \/ \E p \in Page : splay_lookup(p)
    \/ \E p \in Page, f \in FrameId : splay_insert(p, f)
    \/ splay_evict_victim

Spec == Init /\ [][Next]_vars

-----------------------------------------------------------------------------
(* Properties.                                                             *)

\* Every field has the type the C declarations give it.
TypeOK ==
    /\ root \in NodeOrNull
    /\ node \in [Page -> Snode]
    /\ answer \in [op: {"create", "lookup", "insert", "evict"}, page: Nat,
                   frame: FrameId \cup {NotFound},
                   depth: -1 .. Cardinality(Page) - 1]

\* The parent pointers, which splay_node and the eviction follow upwards,
\* are the left and right pointers, which the search follows downwards, read
\* backwards.
LinksAgree ==
    \A p, q \in Live :
        node[p].parent = q <=> node[q].left = p \/ node[q].right = p

\* The tree is one piece: the nodes that calloc gave are the nodes below the
\* root, so none is leaked, freed while linked, or linked twice.
Rooted ==
    /\ Nodes(root) = Live
    /\ Cardinality(Subtree(root)) = Cardinality(Live)
    /\ root # Null => node[root].parent = Null

\* Rotations keep the tree a search tree.
Sorted ==
    \A q \in Live : /\ \A p \in Nodes(node[q].left)  : p < q
                    /\ \A p \in Nodes(node[q].right) : q < p

\* The map that the tree stores: what a search from the root finds.
Index == INSTANCE FrameIndex WITH
            map <- [p \in Page |-> IF Found(p) THEN node[p].frame_id ELSE NotFound]

\* The tree, through rotations and evictions, is a map from pages to frames, and
\* no page is found deeper than there are others: what pc_avg_depth adds up is
\* bounded by the frames of the shard.
IndexSpec == Index!Spec

\* The page that a lookup or an insert accessed, when it is in the tree.
Accessed == answer'.op \in {"lookup", "insert"} /\ answer'.page \in Live'

\* The depth at which a page is, or at which its new node is hung.
AccessDepth(p) ==
    IF root = Null THEN 0 ELSE LastVisited(p)[2] + (IF Found(p) THEN 0 ELSE 1)

\* Splaying shortens what it walks: the accessed page ends at the root, each
\* node on its path at about half its depth (a round turns a parent, at odd
\* distance from the page, and a grandparent, at even distance), and no other
\* node sinks by more than two levels.  That is where the amortized O(log n)
\* of the docs comes from; single rotations bring the page to the root, too,
\* but leave a long path long.
PathHalved ==
    [][Accessed =>
         /\ root' = answer'.page
         /\ LET bottom == AccessDepth(answer'.page) IN
            \A qd \in Subtree(root), rd \in Subtree(root)' :
               LET q == qd[1]
                   d == qd[2]
               IN  q = rd[1] /\ q # answer'.page =>
                     rd[2] <= IF LastVisited(answer'.page)[1] \notin Nodes(q) THEN d + 2
                              ELSE IF (bottom - d) % 2 = 1 THEN (d \div 2) + 1
                              ELSE ((d + 1) \div 2) + 2]_vars

\* The page accessed last is never the next victim, unless it is alone.
EvictSparesLast ==
    [][/\ answer.op \in {"lookup", "insert"}
       /\ answer'.op = "evict"
       /\ answer.page \in Live
       /\ Live # {answer.page}
       => answer'.page # answer.page]_vars
=============================================================================
