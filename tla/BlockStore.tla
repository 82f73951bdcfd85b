---------------------------- MODULE BlockStore ----------------------------
(***************************************************************************)
(* What pc_read and pc_write promise their callers (include/page_cache.h), *)
(* whatever is cached where: one block per page, read and written          *)
(* atomically at some instant between a call and its return.  There is no  *)
(* cache here, no shard, no dirty bit and no difference between memory and *)
(* file.  PageCache is shown to implement it.                              *)
(***************************************************************************)
EXTENDS Integers

CONSTANTS
    Thread,   \* the callers
    Page,     \* the pages of the file
    Value,    \* what a buffer can hold
    Junk      \* what a caller's buffer holds before a read

NoPage == -1

VARIABLES
    store,    \* store[p]: the block of page p
    request   \* request[t]: the call thread t is in

vars == <<store, request>>

NoRequest == [op |-> "none", page |-> NoPage, buf |-> Junk, done |-> FALSE]

Init ==
    /\ store \in [Page -> Value]
    /\ request = [t \in Thread |-> NoRequest]

Invoke(t, op, p, b) ==
    /\ request[t] = NoRequest
    /\ request' = [request EXCEPT ![t] =
                     [op |-> op, page |-> p, buf |-> b, done |-> FALSE]]
    /\ UNCHANGED store

\* The request r once it has been served, with b in its buffer.
Served(r, b) == [op |-> r.op, page |-> r.page, buf |-> b, done |-> TRUE]

Pending(t, op) == request[t].op = op /\ ~request[t].done

Read(t) ==
    /\ Pending(t, "read")
    /\ request' = [request EXCEPT ![t] = Served(@, store[@.page])]
    /\ UNCHANGED store

Write(t) ==
    /\ Pending(t, "write")
    /\ store' = [store EXCEPT ![request[t].page] = request[t].buf]
    /\ request' = [request EXCEPT ![t] = Served(@, @.buf)]

Respond(t) ==
    /\ request[t].done
    /\ request' = [request EXCEPT ![t] = NoRequest]
    /\ UNCHANGED store

Serve(t) == Read(t) \/ Write(t) \/ Respond(t)

Next ==
    \E t \in Thread :
        \/ \E op \in {"read", "write"}, p \in Page, b \in Value : Invoke(t, op, p, b)
        \/ Serve(t)

Spec == Init /\ [][Next]_vars
===========================================================================
