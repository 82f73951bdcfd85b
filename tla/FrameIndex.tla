----------------------------- MODULE FrameIndex -----------------------------
(***************************************************************************)
(* What splay.h and lru.h both promise to page_cache.c: a map from pages   *)
(* to frames.  A lookup answers what the last insert of the page said, and *)
(* a depth below the number of pages; evict takes one page out, whichever  *)
(* the implementation prefers, and answers page 0 and frame -1 when there  *)
(* is none.                                                                *)
(***************************************************************************)
EXTENDS Integers, FiniteSets

CONSTANTS
    Page,        \* the page numbers
    FrameId,     \* the frame numbers
    OutOfMemory  \* whether calloc can fail

VARIABLES
    map,     \* map[p]: the frame of page p, or NotFound
    answer   \* what the last call answered

vars == <<map, answer>>

NotFound == -1

Answers(op, p, f, depth) ==
    answer' = [op |-> op, page |-> p, frame |-> f, depth |-> depth]

Mapped == {p \in Page : map[p] # NotFound}

\* What *out_depth can be; page_cache.c looks at it on a hit only.
Depths(p) == IF map[p] # NotFound THEN 0 .. Cardinality(Mapped) - 1 ELSE {0, -1}

Init ==
    /\ map = [p \in Page |-> NotFound]
    /\ answer = [op |-> "create", page |-> 0, frame |-> NotFound, depth |-> 0]

lookup(p) ==
    /\ \E depth \in Depths(p) : Answers("lookup", p, map[p], depth)
    /\ UNCHANGED map

\* Silent when there is no memory for a new page.
insert(p, f) ==
    /\ Answers("insert", p, f, 0)
    /\ \/ map' = [map EXCEPT ![p] = f]
       \/ OutOfMemory /\ map[p] = NotFound /\ UNCHANGED map

evict_victim(p) ==
    /\ map[p] # NotFound
    /\ Answers("evict", p, map[p], 0)
    /\ map' = [map EXCEPT ![p] = NotFound]

evict_empty ==
    /\ Answers("evict", 0, NotFound, 0)
    /\ \A p \in Page : map[p] = NotFound
    /\ UNCHANGED map

Next ==
    \/ \E p \in Page : lookup(p) \/ evict_victim(p)
    \/ \E p \in Page, f \in FrameId : insert(p, f)
    \/ evict_empty

Spec == Init /\ [][Next]_vars
=============================================================================
