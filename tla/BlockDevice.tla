---------------------------- MODULE BlockDevice ----------------------------
(***************************************************************************)
(* What disk.h promises to page_cache.c, and what PageCache takes a file   *)
(* to be: blocks that are read and written whole, in one step, by callers  *)
(* that do not use the same page at the same time.  A transfer that fails  *)
(* answers -1 and may have moved some of the block; the two counters count *)
(* the transfers that succeeded.                                           *)
(***************************************************************************)
EXTENDS Integers

CONSTANTS
    Thread,       \* the callers
    Page,         \* the page numbers they use
    Addressable,  \* the pages that the file can hold
    Data,         \* the blocks that are written
    Unit,         \* the units that a block is made of
    BlockSize,    \* how many
    Zero, Stale,  \* the unit of a hole, and of a caller's buffer before a read
    Faults        \* which of "read" and "write" can fail

VARIABLES
    blocks,   \* blocks[p]: the block of page p
    reads,    \* the counters
    writes,
    request   \* request[t]: the transfer thread t is in

vars == <<blocks, reads, writes, request>>

Block == [0 .. BlockSize - 1 -> Unit]

NoRequest == [op |-> "none", page |-> 0, buf |-> [i \in 0 .. BlockSize - 1 |-> Stale],
              rc |-> 0, done |-> FALSE]

Init ==
    /\ blocks \in [Page -> Block]
    /\ reads = 0
    /\ writes = 0
    /\ request = [t \in Thread |-> NoRequest]

\* The counters belong to the disk_t, the blocks to the file.
Open ==
    /\ request = [t \in Thread |-> NoRequest]
    /\ reads' = 0
    /\ writes' = 0
    /\ UNCHANGED <<blocks, request>>

Invoke(t, op, p, b) ==
    /\ request[t] = NoRequest
    /\ \A u \in Thread : request[u] # NoRequest => request[u].page # p
    /\ request' = [request EXCEPT ![t] =
                      [op |-> op, page |-> p, buf |-> b, rc |-> 0, done |-> FALSE]]
    /\ UNCHANGED <<blocks, reads, writes>>

Pending(t, op) == request[t].op = op /\ ~request[t].done

Answer(t, b, rc) ==
    request' = [request EXCEPT ![t] =
                  [op |-> @.op, page |-> @.page, buf |-> b, rc |-> rc, done |-> TRUE]]

CanFail(t) == request[t].op \in Faults \/ request[t].page \notin Addressable

ReadBlock(t) ==
    /\ Pending(t, "read")
    /\ request[t].page \in Addressable
    /\ Answer(t, blocks[request[t].page], 0)
    /\ reads' = reads + 1
    /\ UNCHANGED <<blocks, writes>>

WriteBlock(t) ==
    /\ Pending(t, "write")
    /\ request[t].page \in Addressable
    /\ blocks' = [blocks EXCEPT ![request[t].page] = request[t].buf]
    /\ Answer(t, request[t].buf, 0)
    /\ writes' = writes + 1
    /\ UNCHANGED reads

ReadFails(t) ==
    /\ Pending(t, "read")
    /\ CanFail(t)
    /\ \E b \in Block : Answer(t, b, -1)
    /\ UNCHANGED <<blocks, reads, writes>>

\* Each unit of the block is still the old one, or the new one already.
WriteFails(t) ==
    LET p == request[t].page
        new == request[t].buf
    IN  /\ Pending(t, "write")
        /\ CanFail(t)
        /\ \E moved \in SUBSET (0 .. BlockSize - 1) :
              blocks' = [blocks EXCEPT ![p] =
                           [i \in 0 .. BlockSize - 1 |-> IF i \in moved THEN new[i] ELSE @[i]]]
        /\ Answer(t, new, -1)
        /\ UNCHANGED <<reads, writes>>

Return(t) ==
    /\ request[t].done
    /\ request' = [request EXCEPT ![t] = NoRequest]
    /\ UNCHANGED <<blocks, reads, writes>>

Next ==
    \/ Open
    \/ \E t \in Thread :
         \/ \E p \in Page : Invoke(t, "read", p, NoRequest.buf)
         \/ \E p \in Page, b \in Data : Invoke(t, "write", p, b)
         \/ ReadBlock(t)
         \/ WriteBlock(t)
         \/ ReadFails(t)
         \/ WriteFails(t)
         \/ Return(t)

Spec == Init /\ [][Next]_vars
============================================================================
