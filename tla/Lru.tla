--------------------------------- MODULE Lru ---------------------------------
(***************************************************************************)
(* The LRU baseline (src/src/lru.c): the nodes are at the same time on a   *)
(* doubly linked list, in the order of their last use, and on the singly   *)
(* linked chain of their hash bucket.  A shard's mutex makes every call    *)
(* one step.  A node is named by its page, as in Splay: ChainsWhole, which *)
(* holds before each call, says that a page that hfind does not find has   *)
(* no node.                                                                *)
(***************************************************************************)
EXTENDS Integers, FiniteSets, Sequences, SequencesExt

CONSTANTS
    Page,        \* the page numbers
    FrameId,     \* the frame numbers
    OutOfMemory, \* whether calloc can fail
    Capacity     \* lru_create's capacity

\* A uint64_t: there are finitely many.
ASSUME PageAssumption == Page \subseteq Nat /\ IsFiniteSet(Page)
ASSUME FrameAssumption == FrameId \subseteq Nat
ASSUME MemoryAssumption == OutOfMemory \in BOOLEAN
ASSUME CapacityAssumption == Capacity \in Nat \ {0}

VARIABLES
    head,     \* l->head: the node used last
    tail,     \* l->tail: the node used least recently
    node,     \* node[p]: the lnode of page p, Zeroed if it has none
    buckets,  \* buckets[b]: the first node of chain b
    count,    \* l->count
    answer    \* what the last call answered

vars == <<head, tail, node, buckets, count, answer>>

NotFound == -1
Null     == -1

NodeOrNull == Page \cup {Null}

Lnode == [frame_id: FrameId \cup {NotFound}, prev: NodeOrNull,
          next: NodeOrNull, hnext: NodeOrNull]

Zeroed == [frame_id |-> NotFound, prev |-> Null, next |-> Null, hnext |-> Null]

Live == {p \in Page : node[p].frame_id # NotFound}

nbuckets  == Capacity * 2 + 1
Bucket    == 0 .. nbuckets - 1
Hash(p)   == p % nbuckets

-----------------------------------------------------------------------------
(* The list and the chains.                                                *)

\* The pages from q on along the pointers g.  A list that is sound has at most
\* Cardinality(Page) of them.
Along(q, g) ==
    LET follow[k \in Nat] ==
            [r \in NodeOrNull |-> IF r = Null \/ k = 0 THEN <<>>
                                 ELSE <<r>> \o follow[k - 1][g[r]]]
    IN  follow[Cardinality(Page) + 1][q]

Forward  == Along(head, [p \in Page |-> node[p].next])
Backward == Along(tail, [p \in Page |-> node[p].prev])
Chain(b) == Along(buckets[b], [p \in Page |-> node[p].hnext])

\* hfind: the chain of p's bucket holds p.
hfind(p) == p \in ToSet(Chain(Hash(p)))

\* The list as a value: what list_detach and list_push_front work on.
This == [head |-> head, tail |-> tail, node |-> node]

\* Mutant: the tail is not moved when the last node is detached.
list_detachKeepsTail(l, n) ==
    LET p == l.node[n].prev
        x == l.node[n].next
    IN  [head |-> IF p = Null THEN x ELSE l.head,
         tail |-> l.tail,
         node |-> [q \in Page |->
                     CASE q = n -> [l.node[n] EXCEPT !.prev = Null, !.next = Null]
                       [] q # n /\ q = p -> [l.node[p] EXCEPT !.next = x]
                       [] q # n /\ q # p /\ q = x -> [l.node[x] EXCEPT !.prev = p]
                       [] OTHER -> l.node[q]]]

list_detach(l, n) ==
    LET p == l.node[n].prev
        x == l.node[n].next
    IN  [head |-> IF p = Null THEN x ELSE l.head,
         tail |-> IF x = Null THEN p ELSE l.tail,
         node |-> [q \in Page |->
                     CASE q = n -> [l.node[n] EXCEPT !.prev = Null, !.next = Null]
                       [] q # n /\ q = p -> [l.node[p] EXCEPT !.next = x]
                       [] q # n /\ q # p /\ q = x -> [l.node[x] EXCEPT !.prev = p]
                       [] OTHER -> l.node[q]]]

list_push_front(l, n) ==
    [head |-> n,
     tail |-> IF l.head = Null THEN n ELSE l.tail,
     node |-> [q \in Page |->
                 CASE q = n -> [l.node[n] EXCEPT !.prev = Null, !.next = l.head]
                   [] q # n /\ q = l.head -> [l.node[q] EXCEPT !.prev = n]
                   [] OTHER -> l.node[q]]]

-----------------------------------------------------------------------------
(* The operations.                                                         *)

\* *out_depth is 0, whatever the place in the list.
Answers(op, p, f) == answer' = [op |-> op, page |-> p, frame |-> f, depth |-> 0]

Becomes(l) == head' = l.head /\ tail' = l.tail /\ node' = l.node

\* lru_create
Init ==
    /\ head = Null
    /\ tail = Null
    /\ node = [p \in Page |-> Zeroed]
    /\ buckets = [b \in Bucket |-> Null]
    /\ count = 0
    /\ answer = [op |-> "create", page |-> 0, frame |-> NotFound, depth |-> 0]

\* Mutant: a lookup that hits leaves the node where it is.
lru_lookupInPlace(p) ==
    /\ Answers("lookup", p, IF hfind(p) THEN node[p].frame_id ELSE NotFound)
    /\ UNCHANGED <<head, tail, node, buckets, count>>

\* A hit makes the node the one used last.
lru_lookup(p) ==
    /\ IF hfind(p)
       THEN /\ Answers("lookup", p, node[p].frame_id)
            /\ Becomes(list_push_front(list_detach(This, p), p))
       ELSE /\ Answers("lookup", p, NotFound)
            /\ UNCHANGED <<head, tail, node>>
    /\ UNCHANGED <<buckets, count>>

\* Mutant: the page is stored as the frame.
LinkPageAsFrame(p, f) ==
    /\ Becomes(list_push_front(
          [This EXCEPT !.node[p] = [Zeroed EXCEPT !.frame_id = p,
                                                  !.hnext = buckets[Hash(p)]]], p))
    /\ buckets' = [buckets EXCEPT ![Hash(p)] = p]
    /\ count' = count + 1

\* A new node at the front of its chain and of the list.
Link(p, f) ==
    /\ Becomes(list_push_front(
          [This EXCEPT !.node[p] = [Zeroed EXCEPT !.frame_id = f,
                                                  !.hnext = buckets[Hash(p)]]], p))
    /\ buckets' = [buckets EXCEPT ![Hash(p)] = p]
    /\ count' = count + 1

\* An existing page gets the new frame and goes to the front; a new one gets
\* a node, if calloc has one.
lru_insert(p, f) ==
    /\ Answers("insert", p, f)
    /\ IF hfind(p)
       THEN /\ Becomes(list_push_front(
                  list_detach([This EXCEPT !.node[p].frame_id = f], p), p))
            /\ UNCHANGED <<buckets, count>>
       ELSE \/ Link(p, f)
            \/ OutOfMemory /\ UNCHANGED <<head, tail, node, buckets, count>>

\* Mutant: only a node at the front of its chain is taken out of it.
UnchainFront(nodes, v) ==
    /\ buckets' = [buckets EXCEPT ![Hash(v)] = IF @ = v THEN node[v].hnext ELSE @]
    /\ node' = [nodes EXCEPT ![v] = Zeroed]

\* v leaves its chain, whichever pointer leads to it, and is freed.
Unchain(nodes, v) ==
    /\ buckets' = [buckets EXCEPT ![Hash(v)] = IF @ = v THEN node[v].hnext ELSE @]
    /\ node' = [q \in Page |->
                  IF q = v THEN Zeroed
                  ELSE IF q \in ToSet(Chain(Hash(v))) /\ node[q].hnext = v
                       THEN [nodes[q] EXCEPT !.hnext = node[v].hnext]
                  ELSE nodes[q]]

\* Mutant: the counter is not decremented.
EvictTailUncounted ==
    LET l == list_detach(This, tail) IN
    /\ head' = l.head
    /\ tail' = l.tail
    /\ Unchain(l.node, tail)
    /\ UNCHANGED count

\* The tail leaves the list and its chain.
EvictTail ==
    LET l == list_detach(This, tail) IN
    /\ head' = l.head
    /\ tail' = l.tail
    /\ Unchain(l.node, tail)
    /\ count' = count - 1

lru_evict_victim ==
    IF tail = Null
    THEN /\ Answers("evict", 0, NotFound)
         /\ UNCHANGED <<head, tail, node, buckets, count>>
    ELSE /\ Answers("evict", tail, node[tail].frame_id)
         /\ EvictTail

Next ==
    \/ \E p \in Page : lru_lookup(p)
    \/ \E p \in Page, f \in FrameId : lru_insert(p, f)
    \/ lru_evict_victim

Spec == Init /\ [][Next]_vars

-----------------------------------------------------------------------------
(* Properties.                                                             *)

\* Every field has the type the C declarations give it.
TypeOK ==
    /\ head \in NodeOrNull
    /\ tail \in NodeOrNull
    /\ node \in [Page -> Lnode]
    /\ buckets \in [Bucket -> NodeOrNull]
    /\ count \in Int
    /\ answer \in [op: {"create", "lookup", "insert", "evict"}, page: Nat,
                   frame: FrameId \cup {NotFound}, depth: {0}]

\* The list read from head along next is the list read from tail along prev
\* the other way round, and it holds every node once: detaching from either
\* end or from the middle never loses, frees or doubles one.
ListWhole ==
    /\ Backward = Reverse(Forward)
    /\ ToSet(Forward) = Live
    /\ Len(Forward) = Cardinality(Live)

\* Each node is on the chain of its own bucket, once, and on no other; no chain
\* leads to a node that was freed.
ChainsWhole ==
    \A b \in Bucket :
        /\ ToSet(Chain(b)) = {p \in Live : Hash(p) = b}
        /\ Len(Chain(b)) = Cardinality({p \in Live : Hash(p) = b})

\* l->count, which nothing reads, counts the nodes, so l->count-- never wraps.
CountIsLive == count = Cardinality(Live)

\* The map that the table stores, and the order that the list stores.
Recency == INSTANCE RecencyIndex WITH
              map     <- [p \in Page |-> IF hfind(p) THEN node[p].frame_id ELSE NotFound],
              recency <- Forward

\* Table and list together are a map whose victim is the page used least
\* recently.
RecencySpec == Recency!RecencySpec
=============================================================================
