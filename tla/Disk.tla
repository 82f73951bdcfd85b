-------------------------------- MODULE Disk --------------------------------
(***************************************************************************)
(* The layer of blocks (src/src/disk.c): loops of pread and pwrite that    *)
(* move a block in parts, with no lock, over one file that other threads   *)
(* read, write and extend meanwhile.  Its callers never use the same page  *)
(* at the same time; IoExclusive says so of PageCache.                     *)
(*                                                                         *)
(* A step is one pread or pwrite.  A file is a row of cells, of which the  *)
(* first size exist; pwrite past the end leaves a hole of zeroes.  off_t   *)
(* has 2 * OffLimit values and overflow wraps around, as it does in the    *)
(* build; the kernel refuses a negative offset.                            *)
(***************************************************************************)
EXTENDS Integers, FiniteSets

CONSTANTS
    Thread,       \* the threads that share the disk_t
    Page,         \* the page numbers they use
    BlockSize,    \* d->block_size
    OffLimit,     \* the non-negative values of off_t: 2^63 in the build
    Unit,         \* the bytes
    Zero,         \* the byte of a hole
    Stale,        \* the bytes of a caller's buffer before a read
    Data,         \* bound: the blocks that are written
    MaxCalls,     \* bound: the transfers of a thread between open and close
    Faults        \* which of "read" and "write" can fail

Index == 0 .. BlockSize - 1
Block == [Index -> Unit]
Cell  == 0 .. OffLimit - 1

ASSUME SizeAssumption == /\ BlockSize \in Nat \ {0}
                         /\ OffLimit \in Nat \ {0}
                         /\ MaxCalls \in Nat
ASSUME UnitAssumption == Zero \in Unit /\ Stale \in Unit /\ Data \subseteq Block

\* From page 2^64 / block_size on, offsets come back to those of the first
\* pages, and two pages share a place in the file.  No block lies across the
\* end of off_t, as none does when block_size is a power of two.
ASSUME PageAssumption ==
    /\ Page \subseteq Nat
    /\ \A p \in Page : /\ p * BlockSize < 2 * OffLimit
                       /\ p * BlockSize < OffLimit => p * BlockSize + BlockSize <= OffLimit

VARIABLES
    open,     \* whether there is a disk_t
    file,     \* file[o]: the byte at offset o
    size,     \* of the file
    reads,    \* d->reads and d->writes
    writes,
    pc,       \* pc[t]: where thread t is
    call,     \* call[t]: its arguments and locals
    budget    \* budget[t]: the transfers t may still begin

vars == <<open, file, size, reads, writes, pc, call, budget>>

Call == [op: {"none", "read", "write"}, page: Page \cup {0}, buf: Block,
         total: 0 .. BlockSize, rc: {0, -1},
         before: Block]   \* history: the block of the page when the call began

StaleBuffer == [i \in Index |-> Stale]

NoCall == [op |-> "none", page |-> 0, buf |-> StaleBuffer, total |-> 0, rc |-> 0,
           before |-> StaleBuffer]

\* Signed overflow as the build compiles it.
Wrap(x) == LET y == x % (2 * OffLimit) IN IF y < OffLimit THEN y ELSE y - 2 * OffLimit

\* off + total
Position(t) == Wrap(Wrap(call[t].page * BlockSize) + call[t].total)

\* The pages whose offset is not negative.
Addressable == {p \in Page : p * BlockSize < OffLimit}

\* The block of an addressable page, with the zeroes that a hole reads as.
Content(p) == [i \in Index |-> file[p * BlockSize + i]]

-----------------------------------------------------------------------------
Init ==
    /\ open = FALSE
    /\ file = [o \in Cell |-> Zero]
    /\ size = 0
    /\ reads = 0
    /\ writes = 0
    /\ pc = [t \in Thread |-> "idle"]
    /\ call = [t \in Thread |-> NoCall]
    /\ budget = [t \in Thread |-> 0]

Goto(t, label) == pc' = [pc EXCEPT ![t] = label]

\* O_CREAT without O_TRUNC: the file keeps what it has.
disk_open ==
    /\ ~open
    /\ open' = TRUE
    /\ reads' = 0
    /\ writes' = 0
    /\ budget' = [t \in Thread |-> MaxCalls]
    /\ UNCHANGED <<file, size, pc, call>>

disk_close ==
    /\ open
    /\ \A t \in Thread : pc[t] = "idle"
    /\ open' = FALSE
    /\ UNCHANGED <<file, size, reads, writes, pc, call, budget>>

\* Thread t calls for page p, which nobody else is using.
Enter(t, op, p, b) ==
    /\ open
    /\ pc[t] = "idle"
    /\ budget[t] > 0
    /\ \A u \in Thread : pc[u] # "idle" => call[u].page # p
    /\ call' = [call EXCEPT ![t] =
                  [op |-> op, page |-> p, buf |-> b, total |-> 0, rc |-> 0,
                   before |-> IF p \in Addressable THEN Content(p) ELSE StaleBuffer]]
    /\ budget' = [budget EXCEPT ![t] = @ - 1]
    /\ Goto(t, "loop")
    /\ UNCHANGED <<open, file, size, reads, writes>>

disk_read_block(t, p) == Enter(t, "read", p, StaleBuffer)

disk_write_block(t, p, b) == Enter(t, "write", p, b)

InLoop(t, op) == pc[t] = "loop" /\ call[t].op = op /\ call[t].total < BlockSize

\* The buffer, total and what is to be answered, after a step of t.
Locals(t, b, total, rc) ==
    call' = [call EXCEPT ![t] =
               [op |-> @.op, page |-> @.page, buf |-> b, total |-> total, rc |-> rc,
                before |-> @.before]]

\* The loop goes on until the whole block has been moved.
Moved(t, b, n) ==
    /\ Locals(t, b, call[t].total + n, 0)
    /\ Goto(t, IF call[t].total + n < BlockSize THEN "loop" ELSE "count")

\* Mutant: every pread asks for a whole block.
ReadSomeTooMuch(t) ==
    LET pos == Position(t)
        from == call[t].total
    IN  /\ InLoop(t, "read")
        /\ pos \in 0 .. size - 1
        /\ \E n \in 1 .. BlockSize :
              /\ pos + n <= size
              /\ Moved(t, [i \in Index |-> IF i \in from .. from + n - 1
                                           THEN file[pos + (i - from)]
                                           ELSE call[t].buf[i]], n)
        /\ UNCHANGED <<open, file, size, reads, writes, budget>>

\* pread gives some of the bytes asked for, up to the end of the file.
ReadSome(t) ==
    LET pos == Position(t)
        from == call[t].total
    IN  /\ InLoop(t, "read")
        /\ pos \in 0 .. size - 1
        /\ \E n \in 1 .. BlockSize - from :
              /\ pos + n <= size
              /\ Moved(t, [i \in Index |-> IF i \in from .. from + n - 1
                                           THEN file[pos + (i - from)]
                                           ELSE call[t].buf[i]], n)
        /\ UNCHANGED <<open, file, size, reads, writes, budget>>

\* Mutant: a pread that answers 0 is tried again.
ReadEndOfFileRetries(t) ==
    /\ InLoop(t, "read")
    /\ Position(t) >= size
    /\ Locals(t, [i \in Index |-> IF i < call[t].total THEN call[t].buf[i] ELSE Zero],
              call[t].total, 0)
    /\ UNCHANGED <<open, file, size, reads, writes, pc, budget>>

\* pread answers 0: the rest of the block is a hole.
ReadEndOfFile(t) ==
    /\ InLoop(t, "read")
    /\ Position(t) >= size
    /\ Locals(t, [i \in Index |-> IF i < call[t].total THEN call[t].buf[i] ELSE Zero],
              call[t].total, 0)
    /\ Goto(t, "count")
    /\ UNCHANGED <<open, file, size, reads, writes, budget>>

\* Mutant: every pwrite starts at the beginning of the buffer.
WriteSomeFromStart(t) ==
    LET pos == Position(t)
        from == call[t].total
    IN  /\ InLoop(t, "write")
        /\ pos >= 0
        /\ \E n \in 1 .. BlockSize - from :
              /\ pos + n <= OffLimit
              /\ file' = [o \in Cell |-> IF o \in pos .. pos + n - 1
                                         THEN call[t].buf[o - pos] ELSE file[o]]
              /\ size' = IF pos + n > size THEN pos + n ELSE size
              /\ Moved(t, call[t].buf, n)
        /\ UNCHANGED <<open, reads, writes, budget>>

\* pwrite takes some of the bytes, and the file grows to hold them.
WriteSome(t) ==
    LET pos == Position(t)
        from == call[t].total
    IN  /\ InLoop(t, "write")
        /\ pos >= 0
        /\ \E n \in 1 .. BlockSize - from :
              /\ pos + n <= OffLimit
              /\ file' = [o \in Cell |-> IF o \in pos .. pos + n - 1
                                         THEN call[t].buf[from + (o - pos)] ELSE file[o]]
              /\ size' = IF pos + n > size THEN pos + n ELSE size
              /\ Moved(t, call[t].buf, n)
        /\ UNCHANGED <<open, reads, writes, budget>>

\* pread or pwrite answers -1.
Fail(t) ==
    /\ pc[t] = "loop"
    /\ Locals(t, call[t].buf, call[t].total, -1)
    /\ Goto(t, "done")
    /\ UNCHANGED <<open, file, size, reads, writes, budget>>

\* EINVAL
TransferRefused(t) == Position(t) < 0 /\ Fail(t)

\* EIO, ENOSPC, EINTR
TransferFails(t) == call[t].op \in Faults /\ Fail(t)

\* atomic_fetch_add
CountTransfer(t) ==
    /\ pc[t] = "count"
    /\ reads' = IF call[t].op = "read" THEN reads + 1 ELSE reads
    /\ writes' = IF call[t].op = "write" THEN writes + 1 ELSE writes
    /\ Goto(t, "done")
    /\ UNCHANGED <<open, file, size, call, budget>>

Return(t) ==
    /\ pc[t] = "done"
    /\ call' = [call EXCEPT ![t] = NoCall]
    /\ Goto(t, "idle")
    /\ UNCHANGED <<open, file, size, reads, writes, budget>>

\* What a thread does by itself until its call returns, faults apart.
Step(t) ==
    \/ ReadSome(t)
    \/ ReadEndOfFile(t)
    \/ WriteSome(t)
    \/ TransferRefused(t)
    \/ CountTransfer(t)
    \/ Return(t)

Next ==
    \/ disk_open
    \/ disk_close
    \/ \E t \in Thread :
         \/ \E p \in Page : disk_read_block(t, p)
         \/ \E p \in Page, b \in Data : disk_write_block(t, p, b)
         \/ Step(t)
         \/ TransferFails(t)

Spec == Init /\ [][Next]_vars

\* Every thread runs, and a pread or pwrite that is given something to do and
\* does not fail moves at least one byte; POSIX lets pwrite answer 0 to none
\* but an empty request.  No fault is bound to come and end a loop.
FairSpec == Spec /\ \A t \in Thread : WF_vars(Step(t))

-----------------------------------------------------------------------------
(* Properties.                                                             *)

\* Every variable has the shape the C declarations give it: no transfer moves
\* more than a block, and nothing lies past the end of the file.
TypeOK ==
    /\ open \in BOOLEAN
    /\ file \in [Cell -> Unit]
    /\ size \in 0 .. OffLimit
    /\ \A o \in Cell : o >= size => file[o] = Zero
    /\ reads \in Nat
    /\ writes \in Nat
    /\ pc \in [Thread -> {"idle", "loop", "count", "done"}]
    /\ call \in [Thread -> Call]
    /\ budget \in [Thread -> 0 .. MaxCalls]

\* A transfer takes effect when it is counted, or when it fails.
Busy(t) == pc[t] \in {"loop", "count"}

\* The block of a page: as it was before the write in progress, if there is one.
BlockOf(p) ==
    LET writers == {t \in Thread : Busy(t) /\ call[t].op = "write" /\ call[t].page = p} IN
    IF p \notin Addressable THEN StaleBuffer
    ELSE IF writers = {} THEN Content(p)
    ELSE call[CHOOSE t \in writers : TRUE].before

Request(t) ==
    [op |-> call[t].op, page |-> call[t].page,
     buf |-> IF call[t].op = "read" /\ Busy(t) THEN StaleBuffer ELSE call[t].buf,
     rc |-> call[t].rc, done |-> pc[t] = "done"]

Device == INSTANCE BlockDevice WITH
             blocks  <- [p \in Page |-> BlockOf(p)],
             request <- [t \in Thread |-> Request(t)]

\* For callers that keep off each other's pages, the loops are transfers of whole
\* blocks: a read delivers the block that was last written, zeroes if none was; no
\* write touches another page, although all of them share the file and its size; a
\* block is torn only by a write that answers -1; and the counters count what
\* succeeded.
DeviceSpec == Device!Spec

\* A transfer ends: every round of the loops moves something or leaves.
TransferEnds == \A t \in Thread : pc[t] = "loop" ~> pc[t] = "done"
=============================================================================
