----------------------------- MODULE DiskProofs -----------------------------
(***************************************************************************)
(* Proofs about Disk, for any threads, pages, block size, width of off_t   *)
(* and faults: the invariant that ties a transfer in progress to the bytes *)
(* of the file, type correctness, and the refinement of BlockDevice.       *)
(***************************************************************************)
EXTENDS Disk, TLAPS

-----------------------------------------------------------------------------
(* The inductive invariant.                                                *)

\* A thread between calls has none, and without a disk_t nobody is in a call.
CallsMatch ==
    /\ ~open => \A t \in Thread : pc[t] = "idle"
    /\ \A t \in Thread :
         /\ pc[t] = "idle" => call[t] = NoCall
         /\ pc[t] # "idle" => call[t].op \in {"read", "write"} /\ call[t].page \in Page

\* Nobody uses a page that another thread uses.
PagesApart ==
    \A t, u \in Thread :
        t # u /\ pc[t] # "idle" /\ pc[u] # "idle" => call[t].page # call[u].page

\* A transfer has not failed, and goes on only where it can.
InProgress(t) ==
    Busy(t) =>
        /\ call[t].rc = 0
        /\ pc[t] = "loop" => call[t].total < BlockSize
        /\ call[t].page \notin Addressable => pc[t] = "loop" /\ call[t].total = 0

\* What has been read is what the file holds; at the end that is the whole block.
ReadSoFar(t) ==
    Busy(t) /\ call[t].op = "read" /\ call[t].page \in Addressable =>
        \A i \in Index :
            i < call[t].total \/ pc[t] = "count"
                => call[t].buf[i] = Content(call[t].page)[i]

\* What has been written is in the file, the rest is as it was before.
WrittenSoFar(t) ==
    Busy(t) /\ call[t].op = "write" /\ call[t].page \in Addressable =>
        /\ pc[t] = "count" => call[t].total = BlockSize
        /\ \A i \in Index :
             Content(call[t].page)[i] = IF i < call[t].total THEN call[t].buf[i]
                                                             ELSE call[t].before[i]

TransfersAgree == \A t \in Thread : InProgress(t) /\ ReadSoFar(t) /\ WrittenSoFar(t)

IInv == TypeOK /\ CallsMatch /\ PagesApart /\ TransfersAgree

-----------------------------------------------------------------------------
(* Places in the file.                                                     *)

LEMMA SmallMod ==
    ASSUME NEW M \in Nat \ {0}, NEW x \in 0 .. M - 1
    PROVE  x % M = x
  OBVIOUS

LEMMA NegativeMod ==
    ASSUME NEW M \in Nat \ {0}, NEW x \in Int, 0 - M <= x, x < 0
    PROVE  x % M = x + M
  OBVIOUS

LEMMA NextBlock ==
    ASSUME NEW p \in Nat, NEW q \in Nat, NEW B \in Nat \ {0}, p < q
    PROVE  p * B + B <= q * B
  OBVIOUS

\* What the assumptions say of an addressable page: its block lies in the file.
LEMMA InFile ==
    ASSUME NEW p \in Addressable
    PROVE  /\ p \in Page /\ p \in Nat
           /\ p * BlockSize \in Nat
           /\ p * BlockSize + BlockSize <= OffLimit
  BY SizeAssumption, PageAssumption DEF Addressable

LEMMA CellOf ==
    ASSUME NEW p \in Addressable, NEW i \in Index
    PROVE  p * BlockSize + i \in Cell
<1>1. p * BlockSize \in Nat /\ p * BlockSize + BlockSize <= OffLimit
  BY InFile
<1> DEFINE off == p * BlockSize
<1>2. off \in Nat /\ off + BlockSize <= OffLimit /\ i \in 0 .. BlockSize - 1
  BY <1>1 DEF Index
<1> HIDE DEF off
<1>3. off + i \in 0 .. OffLimit - 1
  BY <1>2, SizeAssumption
<1> QED
  BY <1>3 DEF off, Cell

\* The blocks of two pages have no byte in common.
LEMMA BlocksApart ==
    ASSUME NEW p \in Addressable, NEW q \in Addressable, p # q,
           NEW i \in Index, NEW j \in Index
    PROVE  p * BlockSize + i # q * BlockSize + j
<1>1. p \in Nat /\ q \in Nat /\ p * BlockSize \in Nat /\ q * BlockSize \in Nat
  BY InFile
<1>2. p * BlockSize + BlockSize <= q * BlockSize \/ q * BlockSize + BlockSize <= p * BlockSize
  <2>1. CASE p < q
    BY <2>1, <1>1, NextBlock, SizeAssumption
  <2>2. CASE q < p
    BY <2>2, <1>1, NextBlock, SizeAssumption
  <2> QED
    BY <2>1, <2>2, <1>1
<1> DEFINE a == p * BlockSize
           b == q * BlockSize
<1>3. /\ a \in Nat /\ b \in Nat /\ (a + BlockSize <= b \/ b + BlockSize <= a)
      /\ i \in 0 .. BlockSize - 1 /\ j \in 0 .. BlockSize - 1
  BY <1>1, <1>2 DEF Index
<1> HIDE DEF a, b
<1>4. a + i # b + j
  BY <1>3, SizeAssumption
<1> QED
  BY <1>4 DEF a, b

LEMMA WrapSmall ==
    ASSUME NEW x \in 0 .. OffLimit - 1
    PROVE  Wrap(x) = x
<1>1. x \in 0 .. 2 * OffLimit - 1 /\ 2 * OffLimit \in Nat \ {0}
  BY SizeAssumption
<1>2. x % (2 * OffLimit) = x
  BY <1>1, SmallMod
<1> QED
  BY <1>2, SizeAssumption DEF Wrap

\* The upper half of off_t comes out negative, and stays.
LEMMA WrapLarge ==
    ASSUME NEW x \in OffLimit .. 2 * OffLimit - 1
    PROVE  Wrap(Wrap(x)) = x - 2 * OffLimit /\ x - 2 * OffLimit < 0
<1>1. x \in 0 .. 2 * OffLimit - 1 /\ 2 * OffLimit \in Nat \ {0}
  BY SizeAssumption
<1>2. x % (2 * OffLimit) = x
  BY <1>1, SmallMod
<1>3. Wrap(x) = x - 2 * OffLimit
  BY <1>2, SizeAssumption DEF Wrap
<1> DEFINE y == x - 2 * OffLimit
<1>4. y \in Int /\ 0 - 2 * OffLimit <= y /\ y < 0 /\ y + 2 * OffLimit = x
  BY SizeAssumption
<1> HIDE DEF y
<1>5. y % (2 * OffLimit) = x
  BY <1>1, <1>4, NegativeMod
<1>6. Wrap(y) = x - 2 * OffLimit
  BY <1>5, SizeAssumption DEF Wrap
<1> QED
  BY <1>3, <1>4, <1>6 DEF y

\* Where a transfer of an addressable page goes on.
LEMMA PositionInBlock ==
    ASSUME NEW t \in Thread, call[t].page \in Addressable, call[t].total \in Index
    PROVE  Position(t) = call[t].page * BlockSize + call[t].total
<1> DEFINE off == call[t].page * BlockSize
           k == call[t].total
<1>1. off \in Nat /\ off + BlockSize <= OffLimit /\ k \in 0 .. BlockSize - 1
  BY InFile DEF Index
<1>2. Position(t) = Wrap(Wrap(off) + k)
  BY DEF Position
<1> HIDE DEF off, k
<1>3. off \in 0 .. OffLimit - 1 /\ off + k \in 0 .. OffLimit - 1
  BY <1>1, SizeAssumption
<1>4. Wrap(off) = off /\ Wrap(off + k) = off + k
  BY <1>3, WrapSmall
<1> QED
  BY <1>2, <1>4 DEF off, k

\* Where a transfer of any other page would begin.
LEMMA PositionNegative ==
    ASSUME NEW t \in Thread, call[t].page \in Page \ Addressable, call[t].total = 0
    PROVE  Position(t) \in Int /\ Position(t) < 0
<1> DEFINE off == call[t].page * BlockSize
<1>1. off \in OffLimit .. 2 * OffLimit - 1
  <2>1. PICK p \in Page \ Addressable : p = call[t].page
    OBVIOUS
  <2>2. ~(p * BlockSize < OffLimit)
    BY DEF Addressable
  <2>3. p * BlockSize < 2 * OffLimit /\ p * BlockSize \in Nat
    BY PageAssumption, SizeAssumption
  <2>4. off = p * BlockSize
    BY <2>1
  <2> DEFINE o == p * BlockSize
  <2> HIDE DEF off, o
  <2>5. o >= OffLimit /\ o < 2 * OffLimit /\ o \in Nat
    BY <2>2, <2>3, SizeAssumption DEF o
  <2> QED
    BY <2>4, <2>5, SizeAssumption DEF o
<1>2. Position(t) = Wrap(Wrap(off) + 0)
  BY DEF Position
<1> HIDE DEF off
<1>3. Wrap(off) \in Int
  BY <1>1, SizeAssumption DEF Wrap
<1>4. Wrap(off) + 0 = Wrap(off)
  BY <1>3
<1>5. Position(t) = off - 2 * OffLimit /\ off - 2 * OffLimit < 0
  BY <1>1, <1>2, <1>4, WrapLarge
<1> QED
  BY <1>1, <1>5, SizeAssumption

-----------------------------------------------------------------------------
(* Facts about one thread's part of a step.                                *)

Labels == {"idle", "loop", "count", "done"}

\* What a step of thread t leaves alone.
OthersStay(t) == \A u \in Thread : u # t => pc'[u] = pc[u] /\ call'[u] = call[u]

\* Thread t is in the same transfer before and after a step.
GoesOn(t) ==
    /\ Busy(t) /\ Busy(t)'
    /\ call'[t].op = call[t].op
    /\ call'[t].page = call[t].page
    /\ call'[t].before = call[t].before
    /\ call[t].op = "write" => call'[t].buf = call[t].buf

LEMMA MovedCall ==
    ASSUME TypeOK, NEW t \in Thread, NEW b \in Block,
           NEW n \in 1 .. BlockSize - call[t].total, Moved(t, b, n)
    PROVE  /\ call' \in [Thread -> Call]
           /\ pc' \in [Thread -> Labels]
           /\ OthersStay(t)
           /\ call'[t] = [op |-> call[t].op, page |-> call[t].page, buf |-> b,
                          total |-> call[t].total + n, rc |-> 0,
                          before |-> call[t].before]
           /\ pc'[t] \in {"loop", "count"}
           /\ pc'[t] = "loop" <=> call[t].total + n < BlockSize
<1> DEFINE c == [op |-> call[t].op, page |-> call[t].page, buf |-> b,
                 total |-> call[t].total + n, rc |-> 0,
                 before |-> call[t].before]
<1>1. call \in [Thread -> Call] /\ call[t] \in Call /\ pc \in [Thread -> Labels]
  BY DEF TypeOK, Labels
<1>2. call[t].total + n \in 0 .. BlockSize
  BY <1>1, SizeAssumption DEF Call
<1>3. c \in Call
  BY <1>1, <1>2 DEF Call
<1>4. call' = [call EXCEPT ![t] = c]
  BY DEF Moved, Locals
<1>5. pc' = [pc EXCEPT ![t] = IF call[t].total + n < BlockSize THEN "loop" ELSE "count"]
  BY DEF Moved, Goto
<1> HIDE DEF c
<1>6. /\ call' \in [Thread -> Call] /\ call'[t] = c
      /\ \A u \in Thread : u # t => call'[u] = call[u]
  BY <1>1, <1>3, <1>4
<1>7. /\ pc' \in [Thread -> Labels]
      /\ pc'[t] = IF call[t].total + n < BlockSize THEN "loop" ELSE "count"
      /\ \A u \in Thread : u # t => pc'[u] = pc[u]
  BY <1>1, <1>5 DEF Labels
<1> QED
  BY <1>6, <1>7 DEF c, OthersStay

\* A loop at a place in the file is at its page's block.
LEMMA WhereInLoop ==
    ASSUME TypeOK, CallsMatch, NEW t \in Thread, InProgress(t), pc[t] = "loop"
    PROVE  /\ call[t].total \in Index /\ call[t].total < BlockSize
           /\ call[t].page \in Page
           /\ call[t].page \in Addressable =>
                Position(t) = call[t].page * BlockSize + call[t].total /\ Position(t) \in Nat
           /\ call[t].page \notin Addressable =>
                Position(t) < 0 /\ Position(t) \in Int /\ call[t].total = 0
<1>1. call[t] \in Call /\ call[t].page \in Page
  BY DEF TypeOK, CallsMatch
<1>2. call[t].total \in Index /\ call[t].total < BlockSize
  BY <1>1, SizeAssumption DEF InProgress, Busy, Call, Index
<1>3. ASSUME call[t].page \in Addressable
      PROVE  Position(t) = call[t].page * BlockSize + call[t].total /\ Position(t) \in Nat
  <2>1. Position(t) = call[t].page * BlockSize + call[t].total
    BY <1>2, <1>3, PositionInBlock
  <2>2. call[t].page * BlockSize + call[t].total \in Cell
    BY <1>2, <1>3, CellOf
  <2> QED
    BY <2>1, <2>2, SizeAssumption DEF Cell
<1>4. ASSUME call[t].page \notin Addressable
      PROVE  Position(t) < 0 /\ Position(t) \in Int /\ call[t].total = 0
  BY <1>1, <1>4, PositionNegative DEF InProgress, Busy
<1> QED
  BY <1>1, <1>2, <1>3, <1>4

\* The calls of the other threads, and who uses which page, after a step of t
\* that keeps its page.
LEMMA StillApart ==
    ASSUME CallsMatch, PagesApart, NEW t \in Thread, OthersStay(t), open' = open,
           pc[t] # "idle", pc'[t] # "idle",
           call'[t].op = call[t].op, call'[t].page = call[t].page
    PROVE  CallsMatch' /\ PagesApart'
<1>1. CallsMatch'
  <2>1. ~open' => \A u \in Thread : pc'[u] = "idle"
    BY DEF CallsMatch
  <2>2. ASSUME NEW u \in Thread
        PROVE  /\ pc'[u] = "idle" => call'[u] = NoCall
               /\ pc'[u] # "idle" => call'[u].op \in {"read", "write"} /\ call'[u].page \in Page
    BY DEF CallsMatch, OthersStay
  <2> QED
    BY <2>1, <2>2 DEF CallsMatch
<1>2. PagesApart'
  BY DEF PagesApart, OthersStay
<1> QED
  BY <1>1, <1>2

\* The transfers of the other threads agree with the file after a step of t
\* that changes no block but its own page's.
Spares(t) == \A p \in Addressable :
                 (pc[t] # "idle" /\ p = call[t].page) \/ Content(p)' = Content(p)

LEMMA OthersAgree ==
    ASSUME PagesApart, TransfersAgree, NEW t \in Thread, OthersStay(t), Spares(t),
           NEW u \in Thread, u # t
    PROVE  InProgress(u)' /\ ReadSoFar(u)' /\ WrittenSoFar(u)'
<1>1. pc'[u] = pc[u] /\ call'[u] = call[u]
  BY DEF OthersStay
<1>2. Busy(u)' = Busy(u)
  BY <1>1 DEF Busy
<1>3. InProgress(u)'
  BY <1>1, <1>2 DEF InProgress, TransfersAgree
<1>4. ASSUME Busy(u), NEW p \in Addressable, p = call[u].page
      PROVE  Content(p)' = Content(p)
  <2>1. pc[u] # "idle"
    BY <1>4 DEF Busy
  <2>2. ~(pc[t] # "idle" /\ p = call[t].page)
    BY <1>4, <2>1 DEF PagesApart
  <2> QED
    BY <1>4, <2>2 DEF Spares
<1>5. ReadSoFar(u)'
  <2> SUFFICES ASSUME Busy(u), call[u].op = "read",
                      NEW p \in Addressable, p = call[u].page,
                      NEW i \in Index, i < call[u].total \/ pc[u] = "count"
               PROVE  call[u].buf[i] = Content(p)'[i]
    BY <1>1, <1>2 DEF ReadSoFar
  <2> QED
    BY <1>4 DEF TransfersAgree, ReadSoFar
<1>6. WrittenSoFar(u)'
  <2> SUFFICES ASSUME Busy(u), call[u].op = "write",
                      NEW p \in Addressable, p = call[u].page
               PROVE  /\ pc[u] = "count" => call[u].total = BlockSize
                      /\ \A i \in Index :
                           Content(p)'[i] = IF i < call[u].total THEN call[u].buf[i]
                                                                 ELSE call[u].before[i]
    BY <1>1, <1>2 DEF WrittenSoFar
  <2> QED
    BY <1>4 DEF TransfersAgree, WrittenSoFar
<1> QED
  BY <1>3, <1>5, <1>6

LEMMA SameFile ==
    ASSUME file' = file, NEW p
    PROVE  Content(p)' = Content(p)
  BY DEF Content

LEMMA ContentIsBlock ==
    ASSUME TypeOK, NEW p \in Addressable
    PROVE  /\ Content(p) \in Block
           /\ \A i \in Index : Content(p)[i] = file[p * BlockSize + i]
  BY CellOf DEF TypeOK, Content, Block

LEMMA NoCallIsCall == NoCall \in Call /\ StaleBuffer \in Block
  BY UnitAssumption, SizeAssumption DEF NoCall, Call, StaleBuffer, Block

-----------------------------------------------------------------------------
(* The invariant is inductive.                                             *)

LEMMA InitInv == Init => IInv
<1> SUFFICES ASSUME Init PROVE IInv
  OBVIOUS
<1>1. TypeOK
  <2>1. call \in [Thread -> Call] /\ pc \in [Thread -> {"idle", "loop", "count", "done"}]
    BY NoCallIsCall DEF Init
  <2>2. budget \in [Thread -> 0 .. MaxCalls] /\ size \in 0 .. OffLimit
    BY SizeAssumption DEF Init
  <2>3. file \in [Cell -> Unit] /\ \A o \in Cell : o >= size => file[o] = Zero
    BY UnitAssumption DEF Init
  <2> QED
    BY <2>1, <2>2, <2>3 DEF Init, TypeOK
<1>2. CallsMatch /\ PagesApart /\ TransfersAgree
  BY DEF Init, CallsMatch, PagesApart, TransfersAgree, InProgress, ReadSoFar,
         WrittenSoFar, Busy
<1> QED
  BY <1>1, <1>2 DEF IInv

\* Opening and closing.
LEMMA OpenCloseInv ==
    ASSUME IInv, disk_open \/ disk_close
    PROVE  IInv'
<1>1. /\ file' = file /\ size' = size /\ pc' = pc /\ call' = call
      /\ \A u \in Thread : pc[u] = "idle" \/ open' = open
  BY DEF disk_open, disk_close, IInv, CallsMatch
<1>2. TypeOK'
  <2>1. budget' \in [Thread -> 0 .. MaxCalls]
    BY SizeAssumption DEF disk_open, disk_close, IInv, TypeOK
  <2>2. reads' \in Nat /\ writes' \in Nat
    BY DEF disk_open, disk_close, IInv, TypeOK
  <2>3. open' \in BOOLEAN
    BY Zenon DEF disk_open, disk_close
  <2> QED
    BY <1>1, <2>1, <2>2, <2>3 DEF IInv, TypeOK
<1>3. CallsMatch'
  BY <1>1 DEF disk_open, disk_close, IInv, CallsMatch
<1>4. PagesApart'
  BY <1>1 DEF IInv, PagesApart
<1>5. TransfersAgree'
  BY <1>1 DEF IInv, TransfersAgree, InProgress, ReadSoFar, WrittenSoFar, Busy, Content
<1> QED
  BY <1>2, <1>3, <1>4, <1>5 DEF IInv

\* A call begins.
LEMMA EnterInv ==
    ASSUME IInv, NEW t \in Thread, NEW op \in {"read", "write"}, NEW p \in Page,
           NEW b \in Block, Enter(t, op, p, b)
    PROVE  IInv'
<1> DEFINE c == [op |-> op, page |-> p, buf |-> b, total |-> 0, rc |-> 0,
                 before |-> IF p \in Addressable THEN Content(p) ELSE StaleBuffer]
<1> USE DEF IInv
<1>1. c \in Call
  BY NoCallIsCall, ContentIsBlock, SizeAssumption DEF Call
<1>2. /\ call' = [call EXCEPT ![t] = c] /\ pc' = [pc EXCEPT ![t] = "loop"]
      /\ open /\ open' = open /\ file' = file /\ size' = size
      /\ reads' = reads /\ writes' = writes
      /\ budget[t] > 0 /\ budget' = [budget EXCEPT ![t] = @ - 1]
      /\ pc[t] = "idle"
      /\ \A u \in Thread : pc[u] # "idle" => call[u].page # p
  BY DEF Enter, Goto
<1>3. c.op = op /\ c.page = p /\ c.buf = b /\ c.total = 0 /\ c.rc = 0
      /\ (p \in Addressable => c.before = Content(p))
  OBVIOUS
<1> HIDE DEF c
<1>4. call \in [Thread -> Call] /\ pc \in [Thread -> Labels] /\ budget \in [Thread -> 0 .. MaxCalls]
  BY DEF TypeOK, Labels
<1>5. /\ call' \in [Thread -> Call] /\ pc' \in [Thread -> Labels]
      /\ call'[t] = c /\ pc'[t] = "loop" /\ OthersStay(t)
  BY <1>1, <1>2, <1>4 DEF OthersStay, Labels
<1>6. budget' \in [Thread -> 0 .. MaxCalls]
  BY <1>2, <1>4, SizeAssumption
<1>7. TypeOK'
  BY <1>2, <1>5, <1>6 DEF TypeOK, Labels
<1>8. CallsMatch'
  BY <1>2, <1>3, <1>5 DEF CallsMatch, OthersStay
<1>9. PagesApart'
  BY <1>2, <1>3, <1>5 DEF PagesApart, OthersStay
<1>10. InProgress(t)' /\ ReadSoFar(t)' /\ WrittenSoFar(t)'
  <2>1. InProgress(t)'
    BY <1>3, <1>5, SizeAssumption DEF InProgress
  <2>2. ReadSoFar(t)'
    BY <1>3, <1>5 DEF ReadSoFar, Index
  <2>3. WrittenSoFar(t)'
    <3> SUFFICES ASSUME p \in Addressable, NEW i \in Index
                 PROVE  Content(p)'[i] = c.before[i] /\ ~(i < 0)
      BY <1>3, <1>5 DEF WrittenSoFar
    <3> QED
      BY <1>2, <1>3, SameFile DEF Index
  <2> QED
    BY <2>1, <2>2, <2>3
<1>11. TransfersAgree'
  <2>1. Spares(t)
    BY <1>2, SameFile DEF Spares
  <2> QED
    BY <1>5, <1>10, <2>1, OthersAgree DEF TransfersAgree
<1> QED
  BY <1>7, <1>8, <1>9, <1>11

\* pread gives n bytes.
LEMMA ReadSomeInv ==
    ASSUME IInv, NEW t \in Thread, ReadSome(t)
    PROVE  IInv' /\ OthersStay(t) /\ GoesOn(t) /\ file' = file
<1> USE DEF IInv
<1> DEFINE pos  == Position(t)
           from == call[t].total
           b(n) == [i \in Index |-> IF i \in from .. from + n - 1
                                    THEN file[pos + (i - from)] ELSE call[t].buf[i]]
<1>1. /\ pc[t] = "loop" /\ call[t].op = "read" /\ pos \in 0 .. size - 1
      /\ file' = file /\ size' = size /\ open' = open
      /\ reads' = reads /\ writes' = writes /\ budget' = budget
  BY DEF ReadSome, InLoop
<1>2. InProgress(t) /\ ReadSoFar(t)
  BY DEF TransfersAgree
<1>3. call[t] \in Call /\ size \in 0 .. OffLimit /\ file \in [Cell -> Unit]
  BY DEF TypeOK
<1>4. /\ from \in Index /\ call[t].page \in Addressable
      /\ pos = call[t].page * BlockSize + from /\ pos \in Nat
  BY <1>1, <1>2, <1>3, WhereInLoop
<1>5. PICK n \in 1 .. BlockSize - from : pos + n <= size /\ Moved(t, b(n), n)
  BY DEF ReadSome
<1>6. b(n) \in Block
  <2> SUFFICES ASSUME NEW i \in Index, i \in from .. from + n - 1
               PROVE  file[pos + (i - from)] \in Unit
    BY <1>3 DEF Block, Call
  <2> HIDE DEF pos, from
  <2>1. pos + (i - from) \in 0 .. OffLimit - 1
    BY <1>3, <1>4, <1>5, SizeAssumption DEF Index
  <2> QED
    BY <1>3, <2>1 DEF Cell
<1> DEFINE c == [op |-> call[t].op, page |-> call[t].page, buf |-> b(n),
                 total |-> from + n, rc |-> 0, before |-> call[t].before]
<1>7. /\ call' \in [Thread -> Call] /\ pc' \in [Thread -> Labels] /\ OthersStay(t)
      /\ call'[t] = c /\ pc'[t] \in {"loop", "count"}
      /\ pc'[t] = "loop" <=> from + n < BlockSize
  BY <1>5, <1>6, MovedCall
<1>8. TypeOK'
  BY <1>1, <1>7 DEF TypeOK, Labels
<1>9. CallsMatch' /\ PagesApart'
  BY <1>1, <1>7, StillApart
<1>10. InProgress(t)' /\ ReadSoFar(t)' /\ WrittenSoFar(t)'
  <2>1. InProgress(t)'
    BY <1>1, <1>2, <1>4, <1>7 DEF InProgress, Busy
  <2>2. ReadSoFar(t)'
    <3> SUFFICES ASSUME NEW p \in Addressable, p = call[t].page,
                        NEW i \in Index, i < from + n \/ pc'[t] = "count"
                 PROVE  b(n)[i] = Content(p)'[i]
      BY <1>7 DEF ReadSoFar
    <3>1. i < from + n
      BY <1>4, <1>5, <1>7, SizeAssumption DEF Index
    <3>2. Content(p)'[i] = Content(p)[i] /\ Content(p)[i] = file[p * BlockSize + i]
      BY <1>1, SameFile, ContentIsBlock
    <3>3. CASE i < from
      <4>1. b(n)[i] = call[t].buf[i]
        BY <3>3, <1>4 DEF Index
      <4>2. call[t].buf[i] = Content(p)[i]
        BY <1>1, <1>2, <3>3 DEF ReadSoFar, Busy
      <4> QED
        BY <4>1, <4>2, <3>2
    <3>4. CASE ~(i < from)
      <4>1. b(n)[i] = file[pos + (i - from)]
        BY <3>1, <3>4, <1>4, <1>5 DEF Index
      <4>2. p * BlockSize \in Nat /\ pos = p * BlockSize + from
        BY <1>4, InFile
      <4>3. pos + (i - from) = p * BlockSize + i
        <5> DEFINE off == p * BlockSize
        <5>1. off \in Nat /\ pos = off + from
          BY <4>2
        <5> HIDE DEF off, pos, from
        <5>2. pos + (i - from) = off + i
          BY <5>1, <1>4 DEF Index
        <5> QED
          BY <5>2 DEF off
      <4> QED
        BY <4>1, <4>3, <3>2
    <3> QED
      BY <3>3, <3>4
  <2>3. WrittenSoFar(t)'
    BY <1>1, <1>7 DEF WrittenSoFar
  <2> QED
    BY <2>1, <2>2, <2>3
<1>11. TransfersAgree'
  <2>1. Spares(t)
    BY <1>1, SameFile DEF Spares
  <2> QED
    BY <1>7, <1>10, <2>1, OthersAgree DEF TransfersAgree
<1>12. GoesOn(t)
  BY <1>1, <1>7 DEF GoesOn, Busy
<1> QED
  BY <1>1, <1>7, <1>8, <1>9, <1>11, <1>12

\* pread gives nothing.
LEMMA ReadEndOfFileInv ==
    ASSUME IInv, NEW t \in Thread, ReadEndOfFile(t)
    PROVE  IInv' /\ OthersStay(t) /\ GoesOn(t) /\ file' = file
<1> USE DEF IInv
<1> DEFINE pos  == Position(t)
           from == call[t].total
           b == [i \in Index |-> IF i < from THEN call[t].buf[i] ELSE Zero]
           c == [op |-> call[t].op, page |-> call[t].page, buf |-> b,
                 total |-> from, rc |-> 0, before |-> call[t].before]
<1>1. /\ pc[t] = "loop" /\ call[t].op = "read" /\ pos >= size
      /\ Locals(t, b, from, 0) /\ pc' = [pc EXCEPT ![t] = "count"]
      /\ file' = file /\ size' = size /\ open' = open
      /\ reads' = reads /\ writes' = writes /\ budget' = budget
  BY DEF ReadEndOfFile, InLoop, Goto
<1>2. InProgress(t) /\ ReadSoFar(t)
  BY DEF TransfersAgree
<1>3. /\ call \in [Thread -> Call] /\ call[t] \in Call /\ pc \in [Thread -> Labels]
      /\ size \in 0 .. OffLimit
  BY DEF TypeOK, Labels
<1>4. /\ from \in Index /\ call[t].page \in Addressable
      /\ pos = call[t].page * BlockSize + from /\ pos \in Nat
  BY <1>1, <1>2, <1>3, WhereInLoop
<1>5. b \in Block
  BY <1>3, UnitAssumption DEF Block, Call
<1>6. c \in Call /\ call' = [call EXCEPT ![t] = c]
  <2>1. c \in Call
    BY <1>3, <1>5 DEF Call
  <2>2. call' = [call EXCEPT ![t] = c]
    BY <1>1 DEF Locals
  <2> QED
    BY <2>1, <2>2
<1>7. /\ call' \in [Thread -> Call] /\ pc' \in [Thread -> Labels] /\ OthersStay(t)
      /\ call'[t] = c /\ pc'[t] = "count"
  <2> HIDE DEF c
  <2> QED
    BY <1>1, <1>3, <1>6 DEF OthersStay, Labels
<1>8. TypeOK'
  BY <1>1, <1>7 DEF TypeOK, Labels
<1>9. CallsMatch' /\ PagesApart'
  BY <1>1, <1>7, StillApart
<1>10. InProgress(t)' /\ ReadSoFar(t)' /\ WrittenSoFar(t)'
  <2>1. InProgress(t)'
    BY <1>1, <1>2, <1>4, <1>7 DEF InProgress, Busy
  <2>2. ReadSoFar(t)'
    <3> SUFFICES ASSUME NEW p \in Addressable, p = call[t].page, NEW i \in Index
                 PROVE  b[i] = Content(p)'[i]
      BY <1>7 DEF ReadSoFar
    <3>1. Content(p)'[i] = Content(p)[i] /\ Content(p)[i] = file[p * BlockSize + i]
      BY <1>1, SameFile, ContentIsBlock
    <3>2. CASE i < from
      BY <3>1, <3>2, <1>1, <1>2 DEF ReadSoFar, Busy
    <3>3. CASE ~(i < from)
      <4> DEFINE off == p * BlockSize
      <4>1. off \in Nat /\ pos = off + from /\ off + i \in Cell
        BY <1>4, InFile, CellOf
      <4> HIDE DEF off, pos, from
      <4>2. off + i >= size
        BY <4>1, <3>3, <1>1, <1>3, <1>4 DEF Index
      <4>3. file[off + i] = Zero
        BY <4>1, <4>2 DEF TypeOK
      <4> QED
        BY <4>3, <3>1, <3>3 DEF off
    <3> QED
      BY <3>2, <3>3
  <2>3. WrittenSoFar(t)'
    BY <1>1, <1>7 DEF WrittenSoFar
  <2> QED
    BY <2>1, <2>2, <2>3
<1>11. TransfersAgree'
  <2>1. Spares(t)
    BY <1>1, SameFile DEF Spares
  <2> QED
    BY <1>7, <1>10, <2>1, OthersAgree DEF TransfersAgree
<1>12. GoesOn(t)
  BY <1>1, <1>7 DEF GoesOn, Busy
<1> QED
  BY <1>1, <1>7, <1>8, <1>9, <1>11, <1>12

\* pwrite takes n bytes: what it does to the file.
LEMMA WriteSomeFile ==
    ASSUME IInv, NEW t \in Thread, WriteSome(t)
    PROVE  /\ pc[t] = "loop" /\ call[t].op = "write" /\ call[t].page \in Addressable
           /\ call[t].total \in Index
           /\ \E n \in 1 .. BlockSize - call[t].total :
                /\ Moved(t, call[t].buf, n)
                /\ file' \in [Cell -> Unit]
                /\ size' \in 0 .. OffLimit
                /\ \A o \in Cell : o >= size' => file'[o] = Zero
                /\ \A p \in Addressable, i \in Index :
                     file'[p * BlockSize + i] =
                        IF p = call[t].page /\ i \in call[t].total .. call[t].total + n - 1
                        THEN call[t].buf[i] ELSE file[p * BlockSize + i]
<1> USE DEF IInv
<1> DEFINE pos  == Position(t)
           from == call[t].total
           page == call[t].page
           buf  == call[t].buf
<1>1. pc[t] = "loop" /\ call[t].op = "write" /\ pos >= 0
  BY DEF WriteSome, InLoop
<1>2. InProgress(t)
  BY DEF TransfersAgree
<1>3. /\ call[t] \in Call /\ size \in 0 .. OffLimit /\ file \in [Cell -> Unit]
      /\ \A o \in Cell : o >= size => file[o] = Zero
  BY DEF TypeOK
<1>4. /\ from \in Index /\ page \in Addressable
      /\ pos = page * BlockSize + from /\ pos \in Nat
  BY <1>1, <1>2, <1>3, WhereInLoop
<1>5. PICK n \in 1 .. BlockSize - from :
         /\ pos + n <= OffLimit
         /\ file' = [o \in Cell |-> IF o \in pos .. pos + n - 1
                                    THEN buf[from + (o - pos)] ELSE file[o]]
         /\ size' = IF pos + n > size THEN pos + n ELSE size
         /\ Moved(t, buf, n)
  BY DEF WriteSome
<1>6. buf \in Block
  BY <1>3 DEF Call
<1> HIDE DEF pos
<1>7. file' \in [Cell -> Unit]
  <2> SUFFICES ASSUME NEW o \in Cell, o \in pos .. pos + n - 1
               PROVE  buf[from + (o - pos)] \in Unit
    BY <1>3, <1>5
  <2>1. from + (o - pos) \in Index
    <3>1. from \in Index /\ pos \in Nat /\ n \in 1 .. BlockSize - from
      BY <1>4, <1>5
    <3> HIDE DEF from
    <3> QED
      BY <3>1, SizeAssumption DEF Index
  <2> QED
    BY <1>6, <2>1 DEF Block
<1>8. size' \in 0 .. OffLimit /\ \A o \in Cell : o >= size' => file'[o] = Zero
  <2> HIDE DEF from
  <2>1. size' \in 0 .. OffLimit
    BY <1>3, <1>4, <1>5, SizeAssumption
  <2>2. ASSUME NEW o \in Cell, o >= size'
        PROVE  file'[o] = Zero
    <3>1. o >= size /\ ~(o \in pos .. pos + n - 1)
      BY <1>3, <1>4, <1>5, <2>2, SizeAssumption DEF Cell
    <3> QED
      BY <3>1, <1>3, <1>5
  <2> QED
    BY <2>1, <2>2
<1>9. ASSUME NEW p \in Addressable, NEW i \in Index
      PROVE  file'[p * BlockSize + i] =
                IF p = page /\ i \in from .. from + n - 1
                THEN buf[i] ELSE file[p * BlockSize + i]
  <2> DEFINE off == p * BlockSize
  <2>1. off + i \in Cell /\ off \in Nat
    BY CellOf, InFile
  <2>2. file'[off + i] = IF off + i \in pos .. pos + n - 1
                         THEN buf[from + ((off + i) - pos)] ELSE file[off + i]
    BY <1>5, <2>1
  <2>3. CASE p = page
    <3>1. pos = off + from
      BY <1>4, <2>3
    <3> HIDE DEF off, from
    <3>2. off + i \in pos .. pos + n - 1 <=> i \in from .. from + n - 1
      BY <3>1, <2>1, <1>4, <1>5 DEF Index
    <3>3. from + ((off + i) - pos) = i
      BY <3>1, <2>1, <1>4 DEF Index
    <3> QED
      BY <2>2, <2>3, <3>2, <3>3 DEF off
  <2>4. CASE p # page
    <3> SUFFICES ASSUME off + i \in pos .. pos + n - 1
                 PROVE  FALSE
      BY <2>2, <2>4
    <3> DEFINE there == page * BlockSize
               j == (off + i) - there
    <3>1. pos = there + from /\ there \in Nat
      BY <1>4, InFile
    <3>2. j \in Index /\ there + j = off + i
      <4> HIDE DEF there, off, from
      <4> QED
        BY <3>1, <2>1, <1>4, <1>5, SizeAssumption DEF Index
    <3> HIDE DEF j
    <3> QED
      BY <3>2, <2>4, <1>4, BlocksApart
  <2> QED
    BY <2>3, <2>4
<1> QED
  BY <1>1, <1>4, <1>5, <1>7, <1>8, <1>9

LEMMA WriteSomeInv ==
    ASSUME IInv, NEW t \in Thread, WriteSome(t)
    PROVE  IInv' /\ OthersStay(t) /\ GoesOn(t) /\ Spares(t)
<1> USE DEF IInv
<1> DEFINE from == call[t].total
           page == call[t].page
           buf  == call[t].buf
<1>1. PICK n \in 1 .. BlockSize - from :
         /\ Moved(t, buf, n)
         /\ file' \in [Cell -> Unit]
         /\ size' \in 0 .. OffLimit
         /\ \A o \in Cell : o >= size' => file'[o] = Zero
         /\ \A p \in Addressable, i \in Index :
              file'[p * BlockSize + i] =
                 IF p = page /\ i \in from .. from + n - 1
                 THEN buf[i] ELSE file[p * BlockSize + i]
  BY WriteSomeFile
<1>2. /\ pc[t] = "loop" /\ call[t].op = "write" /\ page \in Addressable /\ from \in Index
      /\ open' = open /\ reads' = reads /\ writes' = writes /\ budget' = budget
  BY WriteSomeFile DEF WriteSome
<1>3. InProgress(t) /\ WrittenSoFar(t)
  BY DEF TransfersAgree
<1>4. call[t] \in Call /\ buf \in Block
  BY DEF TypeOK, Call
<1> DEFINE c == [op |-> call[t].op, page |-> page, buf |-> buf,
                 total |-> from + n, rc |-> 0, before |-> call[t].before]
<1>5. /\ call' \in [Thread -> Call] /\ pc' \in [Thread -> Labels] /\ OthersStay(t)
      /\ call'[t] = c /\ pc'[t] \in {"loop", "count"}
      /\ pc'[t] = "loop" <=> from + n < BlockSize
  BY <1>1, <1>4, MovedCall
<1>6. TypeOK'
  BY <1>1, <1>2, <1>5 DEF TypeOK, Labels
<1>7. CallsMatch' /\ PagesApart'
  BY <1>2, <1>5, StillApart
<1>8. ASSUME NEW p \in Addressable, NEW i \in Index
      PROVE  Content(p)'[i] = IF p = page /\ i \in from .. from + n - 1
                              THEN buf[i] ELSE Content(p)[i]
  <2>1. Content(p)'[i] = file'[p * BlockSize + i] /\ Content(p)[i] = file[p * BlockSize + i]
    BY DEF Content
  <2> QED
    BY <2>1, <1>1
<1>9. InProgress(t)' /\ ReadSoFar(t)' /\ WrittenSoFar(t)'
  <2>1. InProgress(t)'
    BY <1>2, <1>3, <1>5 DEF InProgress, Busy
  <2>2. ReadSoFar(t)'
    BY <1>2, <1>5 DEF ReadSoFar
  <2>3. WrittenSoFar(t)'
    <3>1. pc'[t] = "count" => from + n = BlockSize
      <4> HIDE DEF from
      <4> QED
        BY <1>1, <1>2, <1>5, SizeAssumption DEF Index
    <3>2. ASSUME NEW p \in Addressable, p = page, NEW i \in Index
          PROVE  Content(p)'[i] = IF i < from + n THEN buf[i] ELSE call[t].before[i]
      <4>1. Content(p)[i] = IF i < from THEN buf[i] ELSE call[t].before[i]
        BY <1>2, <1>3, <3>2 DEF WrittenSoFar, Busy
      <4>2. Content(p)'[i] = IF i \in from .. from + n - 1 THEN buf[i] ELSE Content(p)[i]
        BY <1>8, <3>2
      <4> HIDE DEF from
      <4> QED
        BY <4>1, <4>2, <1>1, <1>2 DEF Index
    <3> QED
      BY <3>1, <3>2, <1>5 DEF WrittenSoFar
  <2> QED
    BY <2>1, <2>2, <2>3
<1>10. Spares(t)
  <2> SUFFICES ASSUME NEW p \in Addressable, p # page
               PROVE  Content(p)' = Content(p)
    BY <1>2 DEF Spares
  <2>1. \A i \in Index : Content(p)'[i] = Content(p)[i]
    BY <1>8
  <2> QED
    BY <2>1 DEF Content
<1>11. TransfersAgree'
  BY <1>5, <1>9, <1>10, OthersAgree DEF TransfersAgree
<1>12. GoesOn(t)
  BY <1>2, <1>5 DEF GoesOn, Busy
<1> QED
  BY <1>5, <1>6, <1>7, <1>10, <1>11, <1>12

\* A transfer fails, or is counted: it is done.
LEMMA DoneInv ==
    ASSUME IInv, NEW t \in Thread, Fail(t) \/ CountTransfer(t), open' = open,
           file' = file, size' = size, budget' = budget
    PROVE  /\ IInv' /\ OthersStay(t) /\ pc'[t] = "done"
           /\ call'[t] = [op |-> call[t].op, page |-> call[t].page, buf |-> call[t].buf,
                          total |-> call[t].total, rc |-> IF pc[t] = "count" THEN 0 ELSE -1,
                          before |-> call[t].before]
<1> USE DEF IInv
<1> DEFINE c == [op |-> call[t].op, page |-> call[t].page, buf |-> call[t].buf,
                 total |-> call[t].total, rc |-> IF pc[t] = "count" THEN 0 ELSE -1,
                 before |-> call[t].before]
<1>1. /\ call \in [Thread -> Call] /\ call[t] \in Call /\ pc \in [Thread -> Labels]
      /\ reads \in Nat /\ writes \in Nat
  BY DEF TypeOK, Labels
<1>2. c \in Call
  BY <1>1 DEF Call
<1>3. pc[t] \in {"loop", "count"} /\ pc' = [pc EXCEPT ![t] = "done"]
  BY DEF Fail, CountTransfer, Goto
<1>4. call' = [call EXCEPT ![t] = c]
  <2>1. CASE Fail(t)
    BY <2>1 DEF Fail, Locals
  <2>2. CASE CountTransfer(t)
    <3>1. call[t].rc = 0
      BY <2>2 DEF CountTransfer, TransfersAgree, InProgress, Busy
    <3>2. call[t] = c
      BY <1>1, <2>2, <3>1 DEF Call, CountTransfer
    <3> QED
      BY <1>1, <2>2, <3>2 DEF CountTransfer
  <2> QED
    BY <2>1, <2>2
<1>5. reads' \in Nat /\ writes' \in Nat
  BY <1>1 DEF Fail, CountTransfer
<1> HIDE DEF c
<1>6. /\ call' \in [Thread -> Call] /\ pc' \in [Thread -> Labels]
      /\ OthersStay(t) /\ call'[t] = c /\ pc'[t] = "done"
  BY <1>1, <1>2, <1>3, <1>4 DEF OthersStay, Labels
<1>7. TypeOK'
  BY <1>5, <1>6 DEF TypeOK, Labels
<1>8. c.op = call[t].op /\ c.page = call[t].page
  BY DEF c
<1>9. CallsMatch' /\ PagesApart'
  BY <1>3, <1>6, <1>8, StillApart
<1>10. TransfersAgree'
  <2>1. InProgress(t)' /\ ReadSoFar(t)' /\ WrittenSoFar(t)'
    BY <1>6 DEF InProgress, ReadSoFar, WrittenSoFar, Busy
  <2>2. Spares(t)
    BY SameFile DEF Spares
  <2> QED
    BY <1>6, <2>1, <2>2, OthersAgree DEF TransfersAgree
<1> QED
  BY <1>6, <1>7, <1>9, <1>10 DEF c

LEMMA ReturnInv ==
    ASSUME IInv, NEW t \in Thread, Return(t)
    PROVE  IInv'
<1> USE DEF IInv
<1>1. /\ call \in [Thread -> Call] /\ pc \in [Thread -> Labels]
      /\ pc[t] = "done" /\ open' = open /\ file' = file /\ size' = size
      /\ reads' = reads /\ writes' = writes /\ budget' = budget
      /\ call' = [call EXCEPT ![t] = NoCall] /\ pc' = [pc EXCEPT ![t] = "idle"]
  BY DEF TypeOK, Labels, Return, Goto
<1>2. /\ call' \in [Thread -> Call] /\ pc' \in [Thread -> Labels]
      /\ OthersStay(t) /\ call'[t] = NoCall /\ pc'[t] = "idle"
  BY <1>1, NoCallIsCall DEF OthersStay, Labels
<1>3. TypeOK'
  BY <1>1, <1>2 DEF TypeOK, Labels
<1>4. CallsMatch'
  <2>1. ~open' => \A u \in Thread : pc'[u] = "idle"
    BY <1>1, <1>2 DEF CallsMatch
  <2>2. ASSUME NEW u \in Thread
        PROVE  /\ pc'[u] = "idle" => call'[u] = NoCall
               /\ pc'[u] # "idle" => call'[u].op \in {"read", "write"} /\ call'[u].page \in Page
    BY <1>2 DEF CallsMatch, OthersStay
  <2> QED
    BY <2>1, <2>2 DEF CallsMatch
<1>5. PagesApart'
  BY <1>2 DEF PagesApart, OthersStay
<1>6. TransfersAgree'
  <2>1. InProgress(t)' /\ ReadSoFar(t)' /\ WrittenSoFar(t)'
    BY <1>2 DEF InProgress, ReadSoFar, WrittenSoFar, Busy
  <2>2. Spares(t)
    BY <1>1, SameFile DEF Spares
  <2> QED
    BY <1>2, <2>1, <2>2, OthersAgree DEF TransfersAgree
<1> QED
  BY <1>3, <1>4, <1>5, <1>6

LEMMA StutterInv == ASSUME IInv, UNCHANGED vars PROVE IInv'
<1> USE DEF IInv, vars
<1>1. TypeOK'
  BY DEF TypeOK
<1>2. CallsMatch' /\ PagesApart'
  BY DEF CallsMatch, PagesApart
<1>3. TransfersAgree'
  BY DEF TransfersAgree, InProgress, ReadSoFar, WrittenSoFar, Busy, Content
<1> QED
  BY <1>1, <1>2, <1>3

LEMMA StepInv == IInv /\ [Next]_vars => IInv'
<1> SUFFICES ASSUME IInv, [Next]_vars PROVE IInv'
  OBVIOUS
<1>1. CASE disk_open \/ disk_close
  BY <1>1, OpenCloseInv
<1>2. ASSUME NEW t \in Thread, NEW p \in Page, disk_read_block(t, p)
      PROVE  IInv'
  BY <1>2, EnterInv, NoCallIsCall DEF disk_read_block
<1>3. ASSUME NEW t \in Thread, NEW p \in Page, NEW b \in Data, disk_write_block(t, p, b)
      PROVE  IInv'
  BY <1>3, EnterInv, UnitAssumption DEF disk_write_block
<1>4. ASSUME NEW t \in Thread, Step(t) \/ TransferFails(t)
      PROVE  IInv'
  <2>1. CASE ReadSome(t)
    BY <2>1, ReadSomeInv
  <2>2. CASE ReadEndOfFile(t)
    BY <2>2, ReadEndOfFileInv
  <2>3. CASE WriteSome(t)
    BY <2>3, WriteSomeInv
  <2>4. CASE TransferRefused(t) \/ TransferFails(t)
    BY <2>4, DoneInv DEF TransferRefused, TransferFails, Fail
  <2>5. CASE CountTransfer(t)
    BY <2>5, DoneInv DEF CountTransfer
  <2>6. CASE Return(t)
    BY <2>6, ReturnInv
  <2> QED
    BY <1>4, <2>1, <2>2, <2>3, <2>4, <2>5, <2>6 DEF Step
<1>5. CASE UNCHANGED vars
  BY <1>5, StutterInv
<1> QED
  BY <1>1, <1>2, <1>3, <1>4, <1>5 DEF Next

\* Every transfer in progress is in step with the bytes of the file.
THEOREM Invariance == Spec => []IInv
  BY InitInv, StepInv, PTL DEF Spec

\* Every variable of Disk keeps its shape: no loop moves more than a block, and
\* nothing lies past the end of the file.
THEOREM TypeCorrect == Spec => []TypeOK
<1>1. IInv => TypeOK
  BY DEF IInv
<1> QED
  BY <1>1, Invariance, PTL

-----------------------------------------------------------------------------
(* The blocks and the requests that the refinement shows.                  *)

Writing(t) == Busy(t) /\ call[t].op = "write"

NobodyWrites(p) == \A t \in Thread : ~(Writing(t) /\ call[t].page = p)

SameBlocks == \A p \in Page : BlockOf(p)' = BlockOf(p)

OtherBlocks(p) == \A q \in Page : q # p => BlockOf(q)' = BlockOf(q)

SameRequests == \A t \in Thread : Request(t)' = Request(t)

OtherRequests(t) == \A u \in Thread : u # t => Request(u)' = Request(u)

\* The block of a page that nobody writes is in the file, before and after a step.
LEMMA BlockInFile ==
    ASSUME NEW p \in Addressable
    PROVE  /\ NobodyWrites(p) => BlockOf(p) = Content(p)
           /\ NobodyWrites(p)' => BlockOf(p)' = Content(p)'
  BY DEF NobodyWrites, Writing, BlockOf

\* The block of a page that is being written is the one that the write found.
LEMMA BlockWhileWritten ==
    ASSUME NEW p \in Addressable, NEW t \in Thread
    PROVE  /\ PagesApart /\ Writing(t) /\ call[t].page = p => BlockOf(p) = call[t].before
           /\ (PagesApart /\ Writing(t) /\ call[t].page = p)' => BlockOf(p)' = call'[t].before
<1>1. ASSUME PagesApart, Writing(t), call[t].page = p
      PROVE  BlockOf(p) = call[t].before
  <2> DEFINE writers == {u \in Thread : Busy(u) /\ call[u].op = "write" /\ call[u].page = p}
  <2>1. writers = {t}
    BY <1>1 DEF PagesApart, Writing, Busy
  <2>2. (CHOOSE u \in writers : TRUE) = t
    BY <2>1
  <2>3. BlockOf(p) = IF writers = {} THEN Content(p) ELSE call[CHOOSE u \in writers : TRUE].before
    BY DEF BlockOf
  <2> HIDE DEF writers
  <2> QED
    BY <2>1, <2>2, <2>3
<1>2. ASSUME (PagesApart /\ Writing(t) /\ call[t].page = p)'
      PROVE  BlockOf(p)' = call'[t].before
  <2> DEFINE writers == {u \in Thread : Busy(u)' /\ call'[u].op = "write" /\ call'[u].page = p}
  <2>1. writers = {t}
    BY <1>2 DEF PagesApart, Writing, Busy
  <2>2. (CHOOSE u \in writers : TRUE) = t
    BY <2>1
  <2>3. BlockOf(p)' = IF writers = {} THEN Content(p)' ELSE call'[CHOOSE u \in writers : TRUE].before
    BY DEF BlockOf
  <2> HIDE DEF writers
  <2> QED
    BY <2>1, <2>2, <2>3
<1> QED
  BY <1>1, <1>2

\* A step of t keeps the block of a page that t is not at.
LEMMA BlockElsewhere ==
    ASSUME NEW t \in Thread, OthersStay(t), NEW p \in Page,
           Writing(t) => call[t].page # p,
           Writing(t)' => call'[t].page # p,
           p \in Addressable => Content(p)' = Content(p)
    PROVE  BlockOf(p)' = BlockOf(p)
<1>1. CASE p \notin Addressable
  BY <1>1 DEF BlockOf
<1>2. CASE p \in Addressable
  <2> DEFINE writers == {u \in Thread : Busy(u) /\ call[u].op = "write" /\ call[u].page = p}
             after == {u \in Thread : Busy(u)' /\ call'[u].op = "write" /\ call'[u].page = p}
             w == CHOOSE u \in writers : TRUE
  <2>1. ASSUME NEW u \in Thread
        PROVE  u \in after <=> u \in writers
    <3>1. CASE u = t
      BY <3>1 DEF Writing
    <3>2. CASE u # t
      BY <3>2 DEF OthersStay, Busy
    <3> QED
      BY <3>1, <3>2
  <2>2. after = writers
    BY <2>1
  <2>3. BlockOf(p) = IF writers = {} THEN Content(p) ELSE call[w].before
    BY <1>2 DEF BlockOf
  <2>4. BlockOf(p)' = IF after = {} THEN Content(p)'
                      ELSE call'[CHOOSE u \in after : TRUE].before
    BY <1>2 DEF BlockOf
  <2>5. writers # {} => w \in Thread /\ w # t
    BY DEF Writing
  <2> HIDE DEF writers, after, w
  <2>6. writers # {} => call'[w].before = call[w].before
    BY <2>5 DEF OthersStay
  <2>7. (CHOOSE u \in after : TRUE) = w
    BY <2>2 DEF w
  <2>8. CASE writers = {}
    BY <1>2, <2>2, <2>3, <2>4, <2>8
  <2>9. CASE writers # {}
    <3>1. BlockOf(p) = call[w].before
      BY <2>3, <2>9
    <3>2. BlockOf(p)' = call'[w].before
      BY <2>2, <2>4, <2>7, <2>9
    <3> QED
      BY <2>6, <2>9, <3>1, <3>2
  <2> QED
    BY <2>8, <2>9
<1> QED
  BY <1>1, <1>2

\* The requests of the other threads stay.
LEMMA OthersWait ==
    ASSUME NEW t \in Thread, OthersStay(t)
    PROVE  OtherRequests(t)
  BY DEF OtherRequests, OthersStay, Request, Busy

-----------------------------------------------------------------------------
(* What each action shows of the blocks.                                   *)

\* A step that neither begins nor ends a write, and changes only the block that is
\* being written, keeps the blocks.
LEMMA BlocksKept ==
    ASSUME IInv, IInv', NEW t \in Thread, OthersStay(t), Spares(t),
           Writing(t)' <=> Writing(t),
           Writing(t) => /\ call'[t].page = call[t].page
                         /\ call'[t].before = call[t].before,
           ~Writing(t) => file' = file
    PROVE  SameBlocks
<1> SUFFICES ASSUME NEW p \in Page
             PROVE  BlockOf(p)' = BlockOf(p)
  BY DEF SameBlocks
<1>1. CASE p \notin Addressable
  BY <1>1 DEF BlockOf
<1>2. CASE p \in Addressable /\ Writing(t) /\ call[t].page = p
  <2>1. BlockOf(p) = call[t].before
    BY <1>2, BlockWhileWritten DEF IInv
  <2>2. (PagesApart /\ Writing(t) /\ call[t].page = p)'
    BY <1>2 DEF IInv
  <2>3. BlockOf(p)' = call'[t].before
    BY <1>2, <2>2, BlockWhileWritten
  <2> QED
    BY <1>2, <2>1, <2>3
<1>3. CASE p \in Addressable /\ ~(Writing(t) /\ call[t].page = p)
  <2>1. Content(p)' = Content(p)
    BY <1>3, SameFile DEF Spares
  <2> QED
    BY <1>3, <2>1, BlockElsewhere
<1> QED
  BY <1>1, <1>2, <1>3

\* Moving a part of a block shows nothing.
LEMMA GoesOnHidden ==
    ASSUME IInv, IInv', NEW t \in Thread, GoesOn(t), OthersStay(t), Spares(t),
           call[t].op = "write" \/ file' = file
    PROVE  SameBlocks /\ SameRequests
<1>1. SameBlocks
  BY BlocksKept DEF GoesOn, Writing
<1>2. Request(t)' = Request(t)
  <2>1. call[t].rc = 0 /\ call'[t].rc = 0
    BY DEF IInv, TransfersAgree, InProgress, GoesOn
  <2>2. call[t].op \in {"read", "write"}
    BY DEF IInv, CallsMatch, GoesOn, Busy
  <2>3. pc[t] # "done" /\ pc'[t] # "done"
    BY DEF GoesOn, Busy
  <2> QED
    BY <2>1, <2>2, <2>3 DEF Request, GoesOn
<1>3. SameRequests
  BY <1>2, OthersWait DEF SameRequests, OtherRequests
<1> QED
  BY <1>1, <1>3

LEMMA MovesHidden ==
    ASSUME IInv, NEW t \in Thread, ReadSome(t) \/ ReadEndOfFile(t) \/ WriteSome(t)
    PROVE  SameBlocks /\ SameRequests
           /\ UNCHANGED <<reads, writes>>
<1>1. CASE ReadSome(t) \/ ReadEndOfFile(t)
  <2>1. IInv' /\ OthersStay(t) /\ GoesOn(t) /\ file' = file
    BY <1>1, ReadSomeInv, ReadEndOfFileInv
  <2>2. Spares(t)
    BY <2>1, SameFile DEF Spares
  <2> QED
    BY <1>1, <2>1, <2>2, GoesOnHidden DEF ReadSome, ReadEndOfFile
<1>2. CASE WriteSome(t)
  <2>1. IInv' /\ OthersStay(t) /\ GoesOn(t) /\ Spares(t)
    BY <1>2, WriteSomeInv
  <2>2. call[t].op = "write"
    BY <1>2 DEF WriteSome, InLoop
  <2> QED
    BY <1>2, <2>1, <2>2, GoesOnHidden DEF WriteSome
<1> QED
  BY <1>1, <1>2

LEMMA IdleRequest ==
    ASSUME IInv, NEW t \in Thread, pc[t] = "idle"
    PROVE  Request(t) = Device!NoRequest
<1>1. call[t] = NoCall
  BY DEF IInv, CallsMatch
<1>2. Device!NoRequest = [op |-> "none", page |-> 0, buf |-> StaleBuffer, rc |-> 0, done |-> FALSE]
  BY DEF Device!NoRequest, StaleBuffer, Index
<1>3. NoCall.op = "none" /\ NoCall.page = 0 /\ NoCall.buf = StaleBuffer /\ NoCall.rc = 0
  BY DEF NoCall
<1>4. (pc[t] = "done") = FALSE
  OBVIOUS
<1> QED
  BY <1>1, <1>2, <1>3, <1>4 DEF Request

\* Opening and closing keep the file, and nobody is in a call.
LEMMA OpenCloseShown ==
    ASSUME IInv, disk_open \/ disk_close
    PROVE  Device!Open \/ UNCHANGED Device!vars
<1>1. UNCHANGED <<file, pc, call>>
  BY DEF disk_open, disk_close
<1>2. SameBlocks /\ SameRequests
  BY <1>1 DEF SameBlocks, SameRequests, BlockOf, Content, Busy, Request
<1>3. CASE disk_open
  <2>1. \A t \in Thread : Request(t) = Device!NoRequest
    BY <1>3, IdleRequest DEF IInv, CallsMatch, disk_open
  <2> QED
    BY <1>2, <1>3, <2>1 DEF Device!Open, disk_open, SameBlocks, SameRequests
<1>4. CASE disk_close
  BY <1>2, <1>4 DEF disk_close, Device!vars, SameBlocks, SameRequests
<1> QED
  BY <1>3, <1>4

\* A call is a request.
LEMMA EnterInvokes ==
    ASSUME IInv, NEW t \in Thread, NEW op \in {"read", "write"}, NEW p \in Page,
           NEW b \in Block, Enter(t, op, p, b), op = "read" => b = StaleBuffer
    PROVE  Device!Invoke(t, op, p, b)
<1> DEFINE c == [op |-> op, page |-> p, buf |-> b, total |-> 0, rc |-> 0,
                 before |-> IF p \in Addressable THEN Content(p) ELSE StaleBuffer]
<1>1. /\ call' = [call EXCEPT ![t] = c] /\ pc' = [pc EXCEPT ![t] = "loop"]
      /\ file' = file /\ reads' = reads /\ writes' = writes /\ pc[t] = "idle"
      /\ \A u \in Thread : pc[u] # "idle" => call[u].page # p
  BY DEF Enter, Goto
<1>2. c.op = op /\ c.page = p /\ c.buf = b /\ c.rc = 0
      /\ (p \in Addressable => c.before = Content(p))
  OBVIOUS
<1> HIDE DEF c
<1>3. call'[t] = c /\ pc'[t] = "loop" /\ OthersStay(t)
  BY <1>1 DEF IInv, TypeOK, OthersStay
<1>4. IInv'
  BY EnterInv
<1>5. SameBlocks
  <2> SUFFICES ASSUME NEW q \in Page
               PROVE  BlockOf(q)' = BlockOf(q)
    BY DEF SameBlocks
  <2>1. Content(q)' = Content(q)
    BY <1>1, SameFile
  <2>2. CASE q # p
    BY <1>1, <1>2, <1>3, <2>1, <2>2, BlockElsewhere DEF Writing, Busy
  <2>3. CASE q = p /\ p \in Addressable
    <3>1. BlockOf(p) = Content(p)
      BY <1>1, <2>3, BlockInFile DEF NobodyWrites, Writing, Busy
    <3>2. CASE op = "write"
      <4>1. (PagesApart /\ Writing(t) /\ call[t].page = p)'
        BY <1>2, <1>3, <1>4, <3>2 DEF IInv, Writing, Busy
      <4>2. BlockOf(p)' = call'[t].before
        BY <2>3, <4>1, BlockWhileWritten
      <4> QED
        BY <1>2, <1>3, <2>3, <3>1, <4>2
    <3>3. CASE op = "read"
      <4>1. ASSUME NEW u \in Thread
            PROVE  ~(Writing(u)' /\ call'[u].page = p)
        BY <1>1, <1>2, <1>3, <3>3 DEF OthersStay, Writing, Busy
      <4>2. NobodyWrites(p)'
        BY <4>1 DEF NobodyWrites
      <4> QED
        BY <2>1, <2>3, <3>1, <4>2, BlockInFile
    <3> QED
      BY <3>2, <3>3
  <2>4. CASE p \notin Addressable
    BY <2>4, <2>2 DEF BlockOf
  <2> QED
    BY <2>2, <2>3, <2>4
<1>6. Request(t) = Device!NoRequest
  BY <1>1, IdleRequest
<1>7. Request(t)' = [op |-> op, page |-> p, buf |-> b, rc |-> 0, done |-> FALSE]
  <2>1. Request(t)' = [op |-> call'[t].op, page |-> call'[t].page,
                       buf |-> IF call'[t].op = "read" /\ Busy(t)' THEN StaleBuffer
                               ELSE call'[t].buf,
                       rc |-> call'[t].rc, done |-> pc'[t] = "done"]
    BY DEF Request
  <2>2. (pc'[t] = "done") = FALSE
    BY <1>3
  <2> QED
    BY <1>2, <1>3, <2>1, <2>2
<1>8. ASSUME NEW u \in Thread, Request(u) # Device!NoRequest
      PROVE  Request(u).page # p
  <2>1. pc[u] # "idle"
    BY <1>8, IdleRequest
  <2> QED
    BY <1>1, <2>1 DEF Request
<1>9. OtherRequests(t)
  BY <1>3, OthersWait
<1> QED
  BY <1>1, <1>5, <1>6, <1>7, <1>8, <1>9 DEF Device!Invoke, SameBlocks, OtherRequests

\* The end of a transfer, and a return.
LEMMA Ends ==
    ASSUME IInv, IInv', NEW t \in Thread, OthersStay(t), file' = file, pc'[t] \in {"done", "idle"},
           NEW p \in Page, p # call[t].page \/ ~Writing(t)
    PROVE  BlockOf(p)' = BlockOf(p)
<1>1. Content(p)' = Content(p)
  BY SameFile
<1>2. ~Writing(t)'
  BY DEF Writing, Busy
<1> QED
  BY <1>1, <1>2, BlockElsewhere

\* When its transfer ends, the block of the page that t was at is the one in the file.
LEMMA EndsInFile ==
    ASSUME IInv, NEW t \in Thread, OthersStay(t), file' = file, pc'[t] = "done",
           Busy(t), NEW p \in Addressable, p = call[t].page
    PROVE  BlockOf(p)' = Content(p)
<1>1. ASSUME NEW u \in Thread
      PROVE  ~(Writing(u)' /\ call'[u].page = p)
  <2>1. CASE u = t
    BY <2>1 DEF Writing, Busy
  <2>2. CASE u # t
    BY <2>2 DEF IInv, PagesApart, OthersStay, Writing, Busy
  <2> QED
    BY <2>1, <2>2
<1>2. NobodyWrites(p)'
  BY <1>1 DEF NobodyWrites
<1> QED
  BY <1>2, BlockInFile, SameFile

\* How the end of a transfer looks: the same request, answered.
LEMMA EndsRequest ==
    ASSUME NEW t \in Thread, Busy(t), pc'[t] = "done", call[t].rc = 0, OthersStay(t),
           NEW rc, call'[t].op = call[t].op, call'[t].page = call[t].page,
           call'[t].buf = call[t].buf, call'[t].rc = rc
    PROVE  /\ Request(t).op = call[t].op /\ Request(t).page = call[t].page
           /\ Request(t).done = FALSE
           /\ call[t].op = "write" => Request(t).buf = call[t].buf
           /\ [u \in Thread |-> Request(u)']
                = [[u \in Thread |-> Request(u)] EXCEPT ![t] =
                     [op |-> @.op, page |-> @.page, buf |-> call[t].buf, rc |-> rc, done |-> TRUE]]
<1>1. (pc[t] = "done") = FALSE /\ (pc'[t] = "done") = TRUE /\ ~Busy(t)'
  BY DEF Busy
<1>2. /\ Request(t).op = call[t].op /\ Request(t).page = call[t].page
      /\ Request(t).done = FALSE
      /\ call[t].op = "write" => Request(t).buf = call[t].buf
  BY <1>1 DEF Request
<1>3. Request(t)' = [op |-> call[t].op, page |-> call[t].page, buf |-> call[t].buf,
                     rc |-> rc, done |-> TRUE]
  BY <1>1 DEF Request
<1>4. OtherRequests(t)
  BY OthersWait
<1>5. [op |-> Request(t).op, page |-> Request(t).page, buf |-> call[t].buf,
       rc |-> rc, done |-> TRUE] = Request(t)'
  BY <1>2, <1>3
<1> QED
  BY <1>2, <1>4, <1>5 DEF OtherRequests

-----------------------------------------------------------------------------
(* Each step of the loops is a step of BlockDevice, or a stutter.          *)

\* A read that is counted delivers the block; a write that is counted is in place.
LEMMA CountShown ==
    ASSUME IInv, NEW t \in Thread, CountTransfer(t)
    PROVE  Device!ReadBlock(t) \/ Device!WriteBlock(t)
<1>1. /\ pc[t] = "count" /\ Busy(t) /\ file' = file /\ call' = call
      /\ InProgress(t) /\ ReadSoFar(t) /\ WrittenSoFar(t)
      /\ reads' = IF call[t].op = "read" THEN reads + 1 ELSE reads
      /\ writes' = IF call[t].op = "write" THEN writes + 1 ELSE writes
  BY DEF CountTransfer, IInv, TransfersAgree, Busy
<1>2. IInv' /\ OthersStay(t) /\ pc'[t] = "done"
  BY DoneInv DEF CountTransfer
<1>3. call[t].rc = 0 /\ call[t].op \in {"read", "write"} /\ call[t] \in Call
  BY <1>1 DEF InProgress, IInv, CallsMatch, TypeOK
<1>4. PICK p \in Addressable : p = call[t].page
  BY <1>1, <1>2 DEF InProgress
<1>5. p \in Page /\ Content(p) \in Block /\ call[t].buf \in Block
  BY <1>3, InFile, ContentIsBlock DEF IInv, Call
<1>6. /\ Request(t).op = call[t].op /\ Request(t).page = p /\ Request(t).done = FALSE
      /\ call[t].op = "write" => Request(t).buf = call[t].buf
      /\ [u \in Thread |-> Request(u)']
           = [[u \in Thread |-> Request(u)] EXCEPT ![t] =
                [op |-> @.op, page |-> @.page, buf |-> call[t].buf, rc |-> 0, done |-> TRUE]]
  BY <1>1, <1>2, <1>3, <1>4, EndsRequest
<1>7. CASE call[t].op = "read"
  <2>1. ~Writing(t) /\ ~Writing(t)'
    BY <1>1, <1>2, <1>7 DEF Writing, Busy
  <2>2. SameBlocks
    <3>1. Spares(t)
      BY <1>1, SameFile DEF Spares
    <3> QED
      BY <1>1, <1>2, <2>1, <3>1, BlocksKept
  <2>3. NobodyWrites(p)
    BY <1>1, <1>4, <2>1 DEF IInv, PagesApart, NobodyWrites, Writing, Busy
  <2>4. BlockOf(p) = call[t].buf
    <3>1. \A i \in Index : call[t].buf[i] = Content(p)[i]
      BY <1>1, <1>4, <1>7 DEF ReadSoFar
    <3>2. call[t].buf = Content(p)
      BY <1>5, <3>1 DEF Block
    <3> QED
      BY <2>3, <3>2, BlockInFile
  <2>5. [q \in Page |-> BlockOf(q)][Request(t).page] = call[t].buf
    BY <1>5, <1>6, <2>4
  <2>6. Device!Pending(t, "read")
    BY <1>6, <1>7 DEF Device!Pending
  <2>7. Device!Answer(t, [q \in Page |-> BlockOf(q)][Request(t).page], 0)
    BY <1>6, <2>5 DEF Device!Answer
  <2> QED
    BY <1>1, <1>4, <1>6, <1>7, <2>2, <2>6, <2>7 DEF Device!ReadBlock, SameBlocks
<1>8. CASE call[t].op = "write"
  <2>1. Content(p) = call[t].buf
    <3>1. call[t].total = BlockSize
      BY <1>1, <1>4, <1>8 DEF WrittenSoFar
    <3>2. \A i \in Index : i < call[t].total
      BY <3>1, SizeAssumption DEF Index
    <3>3. \A i \in Index : Content(p)[i] = call[t].buf[i]
      BY <1>1, <1>4, <1>8, <3>2 DEF WrittenSoFar
    <3> QED
      BY <1>5, <3>3 DEF Block
  <2>2. BlockOf(p)' = call[t].buf
    BY <1>1, <1>2, <1>4, <2>1, EndsInFile
  <2>3. \A q \in Page : q # p => BlockOf(q)' = BlockOf(q)
    BY <1>1, <1>2, <1>4, Ends
  <2>4. [q \in Page |-> BlockOf(q)']
          = [[q \in Page |-> BlockOf(q)] EXCEPT ![Request(t).page] = Request(t).buf]
    BY <1>5, <1>6, <1>8, <2>2, <2>3
  <2>5. Device!Pending(t, "write")
    BY <1>6, <1>8 DEF Device!Pending
  <2>6. Device!Answer(t, Request(t).buf, 0)
    BY <1>6, <1>8 DEF Device!Answer
  <2> QED
    BY <1>1, <1>4, <1>6, <1>8, <2>4, <2>5, <2>6 DEF Device!WriteBlock
<1> QED
  BY <1>3, <1>7, <1>8

\* A failed read delivers something or other, a failed write leaves what it moved.
LEMMA FailShown ==
    ASSUME IInv, NEW t \in Thread, TransferRefused(t) \/ TransferFails(t)
    PROVE  Device!ReadFails(t) \/ Device!WriteFails(t)
<1>1. /\ pc[t] = "loop" /\ Busy(t) /\ file' = file /\ Fail(t)
      /\ reads' = reads /\ writes' = writes
      /\ InProgress(t) /\ WrittenSoFar(t)
  BY DEF TransferRefused, TransferFails, Fail, IInv, TransfersAgree, Busy
<1>2. /\ IInv' /\ OthersStay(t) /\ pc'[t] = "done"
      /\ call'[t] = [op |-> call[t].op, page |-> call[t].page, buf |-> call[t].buf,
                     total |-> call[t].total, rc |-> IF pc[t] = "count" THEN 0 ELSE -1,
                     before |-> call[t].before]
  BY <1>1, DoneInv DEF Fail
<1>3. /\ call'[t].op = call[t].op /\ call'[t].page = call[t].page
      /\ call'[t].buf = call[t].buf /\ call'[t].rc = -1
  BY <1>1, <1>2
<1>4. call[t].rc = 0 /\ call[t].op \in {"read", "write"} /\ call[t] \in Call
  BY <1>1 DEF InProgress, IInv, CallsMatch, TypeOK
<1>5. PICK p \in Page : p = call[t].page
  BY <1>1 DEF IInv, CallsMatch
<1>6. call[t].buf \in Block
  BY <1>4 DEF Call
<1>7. /\ Request(t).op = call[t].op /\ Request(t).page = p /\ Request(t).done = FALSE
      /\ call[t].op = "write" => Request(t).buf = call[t].buf
      /\ [u \in Thread |-> Request(u)']
           = [[u \in Thread |-> Request(u)] EXCEPT ![t] =
                [op |-> @.op, page |-> @.page, buf |-> call[t].buf, rc |-> -1, done |-> TRUE]]
  BY <1>1, <1>2, <1>3, <1>4, <1>5, EndsRequest
<1>8. Device!CanFail(t)
  <2>1. Position(t) < 0 => p \notin Addressable
    <3>1. p \in Addressable => Position(t) \in Nat
      BY <1>1, <1>5, WhereInLoop DEF IInv
    <3> QED
      BY <3>1
  <2>2. call[t].op \in Faults \/ p \notin Addressable
    BY <2>1 DEF TransferRefused, TransferFails
  <2> QED
    BY <1>7, <2>2 DEF Device!CanFail
<1>9. Device!Answer(t, call[t].buf, -1)
  BY <1>7 DEF Device!Answer
<1>10. CASE call[t].op = "read"
  <2>1. ~Writing(t) /\ ~Writing(t)'
    BY <1>1, <1>2, <1>10 DEF Writing, Busy
  <2>2. SameBlocks
    <3>1. Spares(t)
      BY <1>1, SameFile DEF Spares
    <3> QED
      BY <1>1, <1>2, <2>1, <3>1, BlocksKept
  <2>3. Device!Pending(t, "read")
    BY <1>7, <1>10 DEF Device!Pending
  <2>4. call[t].buf \in Device!Block
    BY <1>6 DEF Block, Index, Device!Block
  <2> QED
    BY <1>1, <1>8, <1>9, <2>2, <2>3, <2>4 DEF Device!ReadFails, SameBlocks
<1>11. CASE call[t].op = "write"
  <2> DEFINE new == call[t].buf
             torn(moved) == [i \in 0 .. BlockSize - 1 |-> IF i \in moved THEN new[i]
                                                          ELSE BlockOf(p)[i]]
  <2>1. PICK moved \in SUBSET (0 .. BlockSize - 1) : BlockOf(p)' = torn(moved)
    <3>1. CASE p \notin Addressable
      <4>1. BlockOf(p)' = StaleBuffer /\ BlockOf(p) = StaleBuffer
        BY <3>1 DEF BlockOf
      <4>2. torn({}) = StaleBuffer
        BY <4>1 DEF StaleBuffer, Index
      <4> HIDE DEF torn
      <4> QED
        BY <4>1, <4>2
    <3>2. CASE p \in Addressable
      <4> DEFINE moved == {i \in Index : i < call[t].total}
      <4>1. BlockOf(p) = call[t].before
        BY <1>1, <1>5, <1>11, <3>2, BlockWhileWritten DEF IInv, Writing
      <4>2. BlockOf(p)' = Content(p)
        BY <1>1, <1>2, <1>5, <3>2, EndsInFile
      <4>3. \A i \in Index : Content(p)[i] = IF i \in moved THEN new[i] ELSE BlockOf(p)[i]
        BY <1>1, <1>5, <1>11, <3>2, <4>1 DEF WrittenSoFar
      <4>4. Content(p) = torn(moved)
        <5>1. Content(p) = [i \in Index |-> Content(p)[i]]
          BY DEF Content
        <5> HIDE DEF moved
        <5> QED
          BY <4>3, <5>1 DEF Index
      <4>5. moved \in SUBSET (0 .. BlockSize - 1)
        BY DEF Index
      <4> HIDE DEF moved, torn
      <4> QED
        BY <4>2, <4>4, <4>5
    <3> QED
      BY <3>1, <3>2
  <2>2. \A q \in Page : q # p => BlockOf(q)' = BlockOf(q)
    BY <1>1, <1>2, <1>5, Ends
  <2>3. [q \in Page |-> BlockOf(q)']
          = [[q \in Page |-> BlockOf(q)] EXCEPT ![Request(t).page] =
               [i \in 0 .. BlockSize - 1 |-> IF i \in moved THEN Request(t).buf[i] ELSE @[i]]]
    <3>1. [i \in 0 .. BlockSize - 1 |-> IF i \in moved THEN Request(t).buf[i]
             ELSE [q \in Page |-> BlockOf(q)][Request(t).page][i]] = torn(moved)
      BY <1>7, <1>11
    <3> HIDE DEF torn
    <3> QED
      BY <1>7, <2>1, <2>2, <3>1
  <2>4. Device!Pending(t, "write")
    BY <1>7, <1>11 DEF Device!Pending
  <2>5. Device!Answer(t, Request(t).buf, -1)
    BY <1>7, <1>9, <1>11
  <2> QED
    BY <1>1, <1>8, <2>3, <2>4, <2>5 DEF Device!WriteFails
<1> QED
  BY <1>4, <1>10, <1>11

LEMMA ReturnShown ==
    ASSUME IInv, NEW t \in Thread, Return(t)
    PROVE  Device!Return(t)
<1>1. /\ pc[t] = "done" /\ file' = file /\ reads' = reads /\ writes' = writes
      /\ call' = [call EXCEPT ![t] = NoCall] /\ pc' = [pc EXCEPT ![t] = "idle"]
  BY DEF Return, Goto
<1>2. OthersStay(t) /\ pc'[t] = "idle" /\ call'[t] = NoCall
  BY <1>1 DEF OthersStay, IInv, TypeOK
<1>3. SameBlocks
  <2>1. ~Writing(t)
    BY <1>1 DEF Writing, Busy
  <2>2. IInv'
    BY ReturnInv
  <2> QED
    BY <1>1, <1>2, <2>1, <2>2, Ends DEF SameBlocks
<1>4. Request(t).done
  BY <1>1 DEF Request
<1>5. Request(t)' = Device!NoRequest
  <2>1. Device!NoRequest = [op |-> "none", page |-> 0, buf |-> StaleBuffer, rc |-> 0, done |-> FALSE]
    BY DEF Device!NoRequest, StaleBuffer, Index
  <2>2. NoCall.op = "none" /\ NoCall.page = 0 /\ NoCall.buf = StaleBuffer /\ NoCall.rc = 0
    BY DEF NoCall
  <2>3. (pc'[t] = "done") = FALSE
    BY <1>2
  <2> QED
    BY <1>2, <2>1, <2>2, <2>3 DEF Request
<1>6. OtherRequests(t)
  BY <1>2, OthersWait
<1> QED
  BY <1>1, <1>3, <1>4, <1>5, <1>6 DEF Device!Return, SameBlocks, OtherRequests

LEMMA DeviceStep ==
    ASSUME IInv, [Next]_vars
    PROVE  [Device!Next]_(Device!vars)
<1>1. SameBlocks /\ SameRequests /\ UNCHANGED <<reads, writes>> => UNCHANGED Device!vars
  BY DEF SameBlocks, SameRequests, Device!vars
<1>2. CASE UNCHANGED vars
  <2>1. UNCHANGED <<file, pc, call, reads, writes>>
    BY <1>2 DEF vars
  <2>2. SameBlocks /\ SameRequests
    BY <2>1 DEF SameBlocks, SameRequests, BlockOf, Content, Busy, Request
  <2> QED
    BY <1>1, <2>1, <2>2
<1>3. CASE disk_open \/ disk_close
  BY <1>3, OpenCloseShown DEF Device!Next
<1>4. ASSUME NEW t \in Thread, NEW p \in Page, disk_read_block(t, p)
      PROVE  Device!Next
  <2>1. Device!Invoke(t, "read", p, StaleBuffer)
    BY <1>4, EnterInvokes, NoCallIsCall DEF disk_read_block
  <2>2. StaleBuffer = Device!NoRequest.buf
    BY DEF StaleBuffer, Index, Device!NoRequest
  <2> QED
    BY <2>1, <2>2 DEF Device!Next
<1>5. ASSUME NEW t \in Thread, NEW p \in Page, NEW b \in Data, disk_write_block(t, p, b)
      PROVE  Device!Next
  <2>1. Device!Invoke(t, "write", p, b)
    BY <1>5, EnterInvokes, UnitAssumption DEF disk_write_block
  <2> QED
    BY <2>1 DEF Device!Next
<1>6. ASSUME NEW t \in Thread, ReadSome(t) \/ ReadEndOfFile(t) \/ WriteSome(t)
      PROVE  UNCHANGED Device!vars
  BY <1>1, <1>6, MovesHidden
<1>7. ASSUME NEW t \in Thread, TransferRefused(t) \/ TransferFails(t)
      PROVE  Device!Next
  BY <1>7, FailShown DEF Device!Next
<1>8. ASSUME NEW t \in Thread, CountTransfer(t)
      PROVE  Device!Next
  BY <1>8, CountShown DEF Device!Next
<1>9. ASSUME NEW t \in Thread, Return(t)
      PROVE  Device!Next
  BY <1>9, ReturnShown DEF Device!Next
<1> QED
  BY <1>2, <1>3, <1>4, <1>5, <1>6, <1>7, <1>8, <1>9 DEF Next, Step

\* For callers that keep off each other's pages, disk_read_block and
\* disk_write_block move whole blocks, whatever the block size and however pread
\* and pwrite cut it up: each loop implements one step of BlockDevice, and the
\* torn block of a failed write is all that shows of the rest.
THEOREM ImplementsDevice == Spec => DeviceSpec
<1>1. Init => Device!Init
  <2> SUFFICES ASSUME Init PROVE Device!Init
    OBVIOUS
  <2>1. IInv
    BY InitInv
  <2>2. \A t \in Thread : Request(t) = Device!NoRequest
    BY <2>1, IdleRequest DEF Init
  <2>3. ASSUME NEW p \in Page
        PROVE  BlockOf(p) \in Device!Block
    <3>1. NobodyWrites(p)
      BY DEF Init, NobodyWrites, Writing, Busy
    <3>2. p \in Addressable => BlockOf(p) \in Block
      BY <2>1, <3>1, BlockInFile, ContentIsBlock DEF IInv
    <3>3. p \notin Addressable => BlockOf(p) \in Block
      BY NoCallIsCall DEF BlockOf
    <3> QED
      BY <3>2, <3>3 DEF Block, Index, Device!Block
  <2> QED
    BY <2>2, <2>3 DEF Init, Device!Init
<1>2. IInv /\ [Next]_vars => [Device!Next]_(Device!vars)
  BY DeviceStep
<1> QED
  BY Invariance, <1>1, <1>2, PTL DEF Spec, DeviceSpec, Device!Spec
=============================================================================
