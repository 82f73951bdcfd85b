----------------------------- MODULE PageCache -----------------------------
(***************************************************************************)
(* The page cache facade (src/src/page_cache.c): the page space is split   *)
(* over NShards shards, each with its own index, pool of frames, counters  *)
(* and mutex, all over one shared file.  Threads call pc_read, pc_write,   *)
(* pc_flush, pc_hit_ratio and pc_avg_depth; one of them calls pc_close     *)
(* when no other call is running, as tests/test_concurrency.c and          *)
(* bench_main.c do.                                                        *)
(*                                                                         *)
(* A thread's step is the code between two points where another thread can *)
(* see it or the file: taking a shard's mutex, a disk_read_block, a        *)
(* disk_write_block, releasing the mutex.  A call that has left its        *)
(* critical section waits at "done" until it returns to its caller.        *)
(*                                                                         *)
(* The index is what splay.c and lru.c both promise of it (FrameIndex): a  *)
(* map from pages to frames from which evict takes some page.  Which page  *)
(* it takes, and how deep a lookup had to go, is left open here.           *)
(*                                                                         *)
(* A definition under a line that says "Mutant:" is a plausible bug in the *)
(* definition that follows it; only the mutation tests of PROJECT.json     *)
(* use it.                                                                 *)
(***************************************************************************)
EXTENDS Integers, FiniteSets, FiniteSetsExt

CONSTANTS
    Thread,    \* the threads that share the cache
    Page,      \* the page numbers the threads use
    Block,     \* the contents a whole block can have
    Junk,      \* bytes that are no whole block: malloc'd memory, a torn block
    Free,      \* the owner of a mutex nobody holds
    NShards,   \* pc_open's nshards
    Capacity,  \* pc_open's capacity
    MaxCalls,  \* bound: the calls a thread makes while the cache is open
    Faults     \* which of "read", "write" and "alloc" can fail

ASSUME PageAssumption == Page \subseteq Nat
ASSUME BlockAssumption == Junk \notin Block
ASSUME ThreadAssumption == Free \notin Thread
ASSUME SizeAssumption == /\ NShards \in Nat \ {0}
                         /\ Capacity \in Nat \ {0}
                         /\ MaxCalls \in Nat
ASSUME FaultAssumption == Faults \subseteq {"read", "write", "alloc"}

VARIABLES
    phase,     \* of the page_cache_t: "closed", "open" or "closing"
    disk,      \* disk[p]: the block of page p in the file
    mu,        \* mu[s]: the thread that holds shard s's mutex, or Free
    index,     \* index[s][p]: what pol_lookup answers in shard s
    frames,    \* frames[s][f]: the frame_t in slot f of shard s
    used,      \* used[s], hits[s], misses[s], depth_sum[s]: its counters
    hits,
    misses,
    depth_sum,
    pc,        \* pc[t]: where thread t is
    call,      \* call[t]: the arguments and locals of t's call
    budget     \* budget[t]: the calls t may still make

metrics == <<hits, misses, depth_sum>>
shardVars == <<mu, index, frames, used, metrics>>
vars == <<phase, disk, shardVars, pc, call, budget>>

-----------------------------------------------------------------------------
(* Sizes and values.                                                       *)

NotFound == -1
NoPage   == -1

\* A page lives in shard pageno % nshards.
ShardOf(p) == p % NShards
Shard      == 0 .. NShards - 1

\* capacity / nshards frames in each shard, and at least one.
PerShard == IF Capacity \div NShards = 0 THEN 1 ELSE Capacity \div NShards
Slot     == 0 .. PerShard - 1

Bytes == Block \cup {Junk}
Frame == [pageno: Nat, valid: BOOLEAN, dirty: BOOLEAN, bytes: Bytes]

Ops == {"none", "read", "write", "flush", "close", "ratio", "depth"}

Call == [op: Ops, page: Page \cup {NoPage}, buf: Bytes,
         shard: 0 .. NShards,               \* of the page, or the loop's i
         slot: Slot \cup {NotFound},        \* slot and vfid
         victim: Page \cup {NoPage},        \* vpage
         rc: {0, -1},
         h: Nat,                            \* the metrics' running sums
         sum: Nat]                          \* m, or ds

NoCall == [op |-> "none", page |-> NoPage, buf |-> Junk, shard |-> 0,
           slot |-> NotFound, victim |-> NoPage, rc |-> 0,
           h |-> 0, sum |-> 0]

Label == {"idle", "lock", "lookup", "evict", "writeback", "fill", "flush",
          "count", "free", "done", "undefined"}

\* What calloc and malloc give a shard in pc_open: no page, no counts, and
\* frames whose bytes are not set.
NoMutexHeld == [s \in Shard |-> Free]
EmptyIndex  == [s \in Shard |-> [p \in Page |-> NotFound]]
EmptyFrames == [s \in Shard |-> [f \in Slot |->
                  [pageno |-> 0, valid |-> FALSE, dirty |-> FALSE, bytes |-> Junk]]]
Zeroes      == [s \in Shard |-> 0]

\* find_free: the first slot that holds no page.
FreeSlots(s) == {f \in Slot : ~frames[s][f].valid}

\* Mutant: the next slot by the counter used, compared with <= nframes.
find_freeByCount(s) == IF used[s] <= PerShard THEN used[s] ELSE NotFound

find_free(s) == IF FreeSlots(s) = {} THEN NotFound ELSE Min(FreeSlots(s))

\* Mutant: the flush loop starts at slot 1.
DirtySlotsFrom1(s) == {f \in Slot \ {0} : frames[s][f].valid /\ frames[s][f].dirty}

\* The frames that pc_flush must write.
DirtySlots(s) == {f \in Slot : frames[s][f].valid /\ frames[s][f].dirty}

-----------------------------------------------------------------------------
(* Opening the cache and calling it.                                       *)

Goto(t, label) == pc' = [pc EXCEPT ![t] = label]

AllocShards ==
    /\ mu' = NoMutexHeld
    /\ index' = EmptyIndex
    /\ frames' = EmptyFrames
    /\ used' = Zeroes
    /\ hits' = Zeroes
    /\ misses' = Zeroes
    /\ depth_sum' = Zeroes

pc_open ==
    /\ phase = "closed"
    /\ phase' = "open"
    /\ AllocShards
    /\ budget' = [t \in Thread |-> MaxCalls]
    /\ UNCHANGED <<disk, pc, call>>

\* Thread t enters a pc_ function with the given arguments.
Enter(t, c) ==
    /\ phase = "open"
    /\ pc[t] = "idle"
    /\ budget[t] > 0
    /\ budget' = [budget EXCEPT ![t] = @ - 1]
    /\ call' = [call EXCEPT ![t] = c]
    /\ Goto(t, "lock")
    /\ UNCHANGED <<phase, disk, shardVars>>

pc_read(t, p) ==
    Enter(t, [NoCall EXCEPT !.op = "read", !.page = p, !.shard = ShardOf(p)])

pc_write(t, p, b) ==
    Enter(t, [NoCall EXCEPT !.op = "write", !.page = p, !.buf = b,
                            !.shard = ShardOf(p)])

pc_flush(t) == Enter(t, [NoCall EXCEPT !.op = "flush"])

pc_hit_ratio(t) == Enter(t, [NoCall EXCEPT !.op = "ratio"])

pc_avg_depth(t) == Enter(t, [NoCall EXCEPT !.op = "depth"])

\* The caller has joined its threads; pc_close starts with a pc_flush.
pc_close(t) ==
    /\ phase = "open"
    /\ \A u \in Thread : pc[u] = "idle"
    /\ phase' = "closing"
    /\ call' = [call EXCEPT ![t] = [NoCall EXCEPT !.op = "close"]]
    /\ Goto(t, "lock")
    /\ UNCHANGED <<disk, shardVars, budget>>

-----------------------------------------------------------------------------
(* The mutex of a shard.                                                   *)

\* What a call does once it has the mutex.
Section(op) ==
    CASE op \in {"read", "write"}  -> "lookup"
      [] op \in {"flush", "close"} -> "flush"
      [] OTHER                     -> "count"

\* Mutant: the mutex is taken without waiting for it.
LockWithoutWaiting(t) ==
    /\ pc[t] = "lock"
    /\ mu' = [mu EXCEPT ![call[t].shard] = t]
    /\ Goto(t, Section(call[t].op))
    /\ UNCHANGED <<phase, disk, index, frames, used, metrics, call, budget>>

\* pthread_mutex_lock
Lock(t) ==
    LET s == call[t].shard IN
    /\ pc[t] = "lock"
    /\ mu[s] = Free
    /\ mu' = [mu EXCEPT ![s] = t]
    /\ Goto(t, Section(call[t].op))
    /\ UNCHANGED <<phase, disk, index, frames, used, metrics, call, budget>>

\* Mutant: a return path that forgets to unlock.
UnlockForgotten(s) == UNCHANGED mu

\* pthread_mutex_unlock
Unlock(s) == mu' = [mu EXCEPT ![s] = Free]

-----------------------------------------------------------------------------
(* The file.  A failed transfer may have moved some of its bytes.          *)

disk_write_block(p, b, ok) ==
    /\ ok \/ "write" \in Faults
    /\ \E v \in (IF ok THEN {b} ELSE {disk[p], Junk}) :
          disk' = [disk EXCEPT ![p] = v]

\* The bytes a buffer that held old can hold after the read.
disk_read_block(p, old, ok) == IF ok THEN {disk[p]} ELSE {old, Junk}

\* rc after an I/O that went ok, or not.
RcAfter(t, ok) == IF ok THEN call[t].rc ELSE -1

-----------------------------------------------------------------------------
(* access_page                                                             *)

\* The depths at which pol_lookup can find a page: the root of a tree, or any
\* place of an LRU list, counts 0.
Depths(s) ==
    {d \in 0 .. PerShard - 1 : d < Cardinality({p \in Page : index[s][p] # NotFound})}

\* A hit copies between the frame and the caller's buffer, and unlocks.
HitStep(t) ==
    LET s == call[t].shard IN
    /\ pc[t] = "lookup"
    /\ index[s][call[t].page] # NotFound
    /\ hits' = [hits EXCEPT ![s] = @ + 1]
    /\ \E depth \in Depths(s) : depth_sum' = [depth_sum EXCEPT ![s] = @ + depth]
    /\ Unlock(s)
    /\ Goto(t, "done")
    /\ UNCHANGED <<phase, disk, index, used, misses, budget>>

HitRead(t) ==
    LET s == call[t].shard
        f == index[s][call[t].page]
    IN  /\ HitStep(t)
        /\ call[t].op = "read"
        /\ call' = [call EXCEPT ![t].buf = frames[s][f].bytes]
        /\ UNCHANGED frames

\* Mutant: a write that hits does not mark the frame dirty.
HitWriteLeftClean(t) ==
    LET s == call[t].shard
        f == index[s][call[t].page]
    IN  /\ HitStep(t)
        /\ call[t].op = "write"
        /\ frames' = [frames EXCEPT ![s][f].bytes = call[t].buf]
        /\ UNCHANGED call

HitWrite(t) ==
    LET s == call[t].shard
        f == index[s][call[t].page]
    IN  /\ HitStep(t)
        /\ call[t].op = "write"
        /\ frames' = [frames EXCEPT
                         ![s][f] = [@ EXCEPT !.bytes = call[t].buf, !.dirty = TRUE]]
        /\ UNCHANGED call

\* A miss takes the first free slot; in a full pool it must evict.
Miss(t) ==
    LET s == call[t].shard IN
    /\ pc[t] = "lookup"
    /\ index[s][call[t].page] = NotFound
    /\ misses' = [misses EXCEPT ![s] = @ + 1]
    /\ call' = [call EXCEPT ![t].slot = find_free(s)]
    /\ Goto(t, IF find_free(s) = NotFound THEN "evict" ELSE "fill")
    /\ UNCHANGED <<phase, disk, mu, index, frames, used, hits, depth_sum, budget>>

\* Mutant: the counter is not decremented.
DiscardUncounted(s, f) ==
    /\ frames' = [frames EXCEPT ![s][f].valid = FALSE]
    /\ UNCHANGED used

\* vf->valid = 0; s->used--;  (the dirty bit is left as it is)
Discard(s, f) ==
    /\ frames' = [frames EXCEPT ![s][f].valid = FALSE]
    /\ used' = [used EXCEPT ![s] = @ - 1]

\* Mutant: the victim stays in the index.
EvictKeepsEntry(t, p) ==
    LET s == call[t].shard
        f == index[s][p]
    IN  /\ pc[t] = "evict"
        /\ f # NotFound
        /\ call' = [call EXCEPT ![t].victim = p, ![t].slot = f]
        /\ IF frames[s][f].dirty
             THEN Goto(t, "writeback") /\ UNCHANGED <<frames, used>>
             ELSE Goto(t, "fill") /\ Discard(s, f)
        /\ UNCHANGED <<phase, disk, mu, index, metrics, budget>>

\* pol_evict takes some page p out of the index; a dirty frame is written
\* back before its slot is reused.
Evict(t, p) ==
    LET s == call[t].shard
        f == index[s][p]
    IN  /\ pc[t] = "evict"
        /\ f # NotFound
        /\ index' = [index EXCEPT ![s][p] = NotFound]
        /\ call' = [call EXCEPT ![t].victim = p, ![t].slot = f]
        /\ IF frames[s][f].dirty
             THEN Goto(t, "writeback") /\ UNCHANGED <<frames, used>>
             ELSE Goto(t, "fill") /\ Discard(s, f)
        /\ UNCHANGED <<phase, disk, mu, metrics, budget>>

\* pol_evict on an empty index answers slot -1, and access_page then reads
\* frames[-1]: undefined behaviour, the model follows the thread no further.
EvictNothing(t) ==
    /\ pc[t] = "evict"
    /\ \A p \in Page : index[call[t].shard][p] = NotFound
    /\ Goto(t, "undefined")
    /\ UNCHANGED <<phase, disk, shardVars, call, budget>>

\* Mutant: the victim's bytes are written to the place of the new page.
WriteBackToNewPage(t) ==
    LET s == call[t].shard
        f == call[t].slot
    IN  /\ pc[t] = "writeback"
        /\ \E ok \in BOOLEAN :
              /\ disk_write_block(call[t].page, frames[s][f].bytes, ok)
              /\ call' = [call EXCEPT ![t].rc = RcAfter(t, ok)]
        /\ Discard(s, f)
        /\ Goto(t, "fill")
        /\ UNCHANGED <<phase, mu, index, metrics, budget>>

WriteBack(t) ==
    LET s == call[t].shard
        f == call[t].slot
    IN  /\ pc[t] = "writeback"
        /\ \E ok \in BOOLEAN :
              /\ disk_write_block(call[t].victim, frames[s][f].bytes, ok)
              /\ call' = [call EXCEPT ![t].rc = RcAfter(t, ok)]
        /\ Discard(s, f)
        /\ Goto(t, "fill")
        /\ UNCHANGED <<phase, mu, index, metrics, budget>>

\* Mutant: the branch for an empty index links nothing.
pol_insertNotFirst(s, p, f) ==
    IF \A q \in Page : index[s][q] = NotFound
    THEN UNCHANGED index
    ELSE index' = [index EXCEPT ![s][p] = f]

\* splay_insert and lru_insert return silently when calloc fails.
pol_insert(s, p, f) ==
    \/ index' = [index EXCEPT ![s][p] = f]
    \/ "alloc" \in Faults /\ UNCHANGED index

\* The slot receives the page, whatever the I/O answered; unlock and return.
Install(t, b, dirty) ==
    LET s == call[t].shard
        f == call[t].slot
        p == call[t].page
    IN  /\ frames' = [frames EXCEPT ![s][f] =
                        [pageno |-> p, valid |-> TRUE, dirty |-> dirty,
                         bytes |-> b]]
        /\ pol_insert(s, p, f)
        /\ used' = [used EXCEPT ![s] = @ + 1]
        /\ Unlock(s)
        /\ Goto(t, "done")
        /\ UNCHANGED <<phase, metrics, budget>>

\* A write covers the whole block: nothing is read.
FillWrite(t) ==
    /\ pc[t] = "fill"
    /\ call[t].op = "write"
    /\ Install(t, call[t].buf, TRUE)
    /\ UNCHANGED <<disk, call>>

FillRead(t) ==
    LET c == call[t] IN
    /\ pc[t] = "fill"
    /\ c.op = "read"
    /\ \E ok \in BOOLEAN :
         /\ ok \/ "read" \in Faults
         /\ \E b \in disk_read_block(c.page, frames[c.shard][c.slot].bytes, ok) :
              /\ Install(t, b, FALSE)
              /\ call' = [call EXCEPT ![t].buf = b, ![t].rc = RcAfter(t, ok)]
    /\ UNCHANGED disk

-----------------------------------------------------------------------------
(* The loops over the shards: pc_flush, pc_close and the metrics.          *)

\* Unlock shard s and go to the next one, or on to where the loop ends.
NextShard(t, end) ==
    LET s == call[t].shard IN
    /\ Unlock(s)
    /\ Goto(t, IF s + 1 < NShards THEN "lock" ELSE end)

\* The flush loop writes the next dirty frame, and marks it clean whatever
\* disk_write_block answered.
FlushFrame(t) ==
    LET s == call[t].shard
        f == Min(DirtySlots(s))
    IN  /\ pc[t] = "flush"
        /\ DirtySlots(s) # {}
        /\ \E ok \in BOOLEAN :
              /\ disk_write_block(frames[s][f].pageno, frames[s][f].bytes, ok)
              /\ call' = [call EXCEPT ![t].rc = RcAfter(t, ok)]
        /\ frames' = [frames EXCEPT ![s][f].dirty = FALSE]
        /\ UNCHANGED <<phase, mu, index, used, metrics, pc, budget>>

\* Mutant: pc_flush goes on to the next shard without unlocking this one.
FlushShardStillLocked(t) ==
    /\ pc[t] = "flush"
    /\ DirtySlots(call[t].shard) = {}
    /\ Goto(t, IF call[t].shard + 1 < NShards THEN "lock"
               ELSE IF call[t].op = "close" THEN "free" ELSE "done")
    /\ call' = [call EXCEPT ![t].shard = @ + 1]
    /\ UNCHANGED <<phase, disk, mu, index, frames, used, metrics, budget>>

\* A shard without dirty frames, or no longer with any, is unlocked.
FlushShard(t) ==
    /\ pc[t] = "flush"
    /\ DirtySlots(call[t].shard) = {}
    /\ NextShard(t, IF call[t].op = "close" THEN "free" ELSE "done")
    /\ call' = [call EXCEPT ![t].shard = @ + 1]
    /\ UNCHANGED <<phase, disk, index, frames, used, metrics, budget>>

\* Mutant: the loop adds up shards[0] in every round.
CountFirstShard(t) ==
    /\ pc[t] = "count"
    /\ NextShard(t, "done")
    /\ call' = [call EXCEPT
                  ![t].shard = @ + 1,
                  ![t].h = @ + hits[0],
                  ![t].sum = @ + (IF call[t].op = "ratio" THEN misses[0]
                                                          ELSE depth_sum[0])]
    /\ UNCHANGED <<phase, disk, index, frames, used, metrics, budget>>

\* pc_hit_ratio and pc_avg_depth add up one shard's counters at a time.
CountShard(t) ==
    LET s == call[t].shard IN
    /\ pc[t] = "count"
    /\ NextShard(t, "done")
    /\ call' = [call EXCEPT
                  ![t].shard = @ + 1,
                  ![t].h = @ + hits[s],
                  ![t].sum = @ + (IF call[t].op = "ratio" THEN misses[s]
                                                          ELSE depth_sum[s])]
    /\ UNCHANGED <<phase, disk, index, frames, used, metrics, budget>>

\* The rest of pc_close frees every shard; what its pc_flush answered is lost.
FreeAll(t) ==
    /\ pc[t] = "free"
    /\ phase' = "closed"
    /\ AllocShards
    /\ call' = [call EXCEPT ![t] = NoCall]
    /\ Goto(t, "idle")
    /\ UNCHANGED <<disk, budget>>

\* The call returns to its caller.
Return(t) ==
    /\ pc[t] = "done"
    /\ call' = [call EXCEPT ![t] = NoCall]
    /\ Goto(t, "idle")
    /\ UNCHANGED <<phase, disk, shardVars, budget>>

-----------------------------------------------------------------------------
Init ==
    /\ phase = "closed"
    /\ disk \in [Page -> Block]
    /\ mu = NoMutexHeld
    /\ index = EmptyIndex
    /\ frames = EmptyFrames
    /\ used = Zeroes
    /\ hits = Zeroes
    /\ misses = Zeroes
    /\ depth_sum = Zeroes
    /\ pc = [t \in Thread |-> "idle"]
    /\ call = [t \in Thread |-> NoCall]
    /\ budget = [t \in Thread |-> 0]

\* What a thread's caller decides to do.
Begin(t) ==
    \/ \E p \in Page : pc_read(t, p)
    \/ \E p \in Page, b \in Block : pc_write(t, p, b)
    \/ pc_flush(t)
    \/ pc_hit_ratio(t)
    \/ pc_avg_depth(t)
    \/ pc_close(t)

\* What a thread does by itself until its call returns.
Step(t) ==
    \/ Lock(t)
    \/ HitRead(t)
    \/ HitWrite(t)
    \/ Miss(t)
    \/ \E p \in Page : Evict(t, p)
    \/ EvictNothing(t)
    \/ WriteBack(t)
    \/ FillWrite(t)
    \/ FillRead(t)
    \/ FlushFrame(t)
    \/ FlushShard(t)
    \/ CountShard(t)
    \/ FreeAll(t)
    \/ Return(t)

Next == pc_open \/ \E t \in Thread : Begin(t) \/ Step(t)

Spec == Init /\ [][Next]_vars

\* The scheduler runs every thread that can run, and I/O calls return; a
\* mutex is not fair: it may be given to any of the threads that wait for it.
FairSpec == Spec /\ \A t \in Thread : WF_vars(Step(t))

-----------------------------------------------------------------------------
(* Properties.                                                             *)

\* Every variable has the shape the C declarations give it.
TypeOK ==
    /\ phase \in {"closed", "open", "closing"}
    /\ disk \in [Page -> Bytes]
    /\ mu \in [Shard -> Thread \cup {Free}]
    /\ index \in [Shard -> [Page -> Slot \cup {NotFound}]]
    /\ frames \in [Shard -> [Slot -> Frame]]
    /\ used \in [Shard -> Int]
    /\ hits \in [Shard -> Nat]
    /\ misses \in [Shard -> Nat]
    /\ depth_sum \in [Shard -> Nat]
    /\ pc \in [Thread -> Label]
    /\ call \in [Thread -> Call]
    /\ budget \in [Thread -> 0 .. MaxCalls]

\* The critical sections, and the mutex discipline of page_cache.c: a thread
\* is in a critical section exactly when it holds the mutex of the shard it
\* works on, and it holds no other ("cada operacao tranca um unico mutex").
InSection == {"lookup", "evict", "writeback", "fill", "flush", "count", "undefined"}

OneMutexEach ==
    \A t \in Thread, s \in Shard :
        mu[s] = t <=> pc[t] \in InSection /\ call[t].shard = s

\* The pages whose block thread t is moving to or from the file.
IoPages(t) ==
    LET s == call[t].shard IN
    CASE pc[t] = "writeback" -> {call[t].victim}
      [] pc[t] = "fill" /\ call[t].op = "read" -> {call[t].page}
      [] pc[t] = "flush" /\ DirtySlots(s) # {} ->
             {frames[s][Min(DirtySlots(s))].pageno}
      [] OTHER -> {}

\* Two threads never transfer the same block at the same time: disk.c loops
\* over partial preads and pwrites without a lock, and relies on the shard's
\* mutex for a block to be whole.
IoExclusive ==
    \A t, u \in Thread : t # u => IoPages(t) \cap IoPages(u) = {}

\* What the index answers is true: the frame holds that page, and the page
\* belongs to this shard.  Holds even when I/O and allocation fail.
IndexSound ==
    \A s \in Shard, p \in Page :
        LET f == index[s][p] IN
        f # NotFound => /\ frames[s][f].valid
                        /\ frames[s][f].pageno = p
                        /\ ShardOf(p) = s

\* Every frame in use can be found through the index, except the one its
\* shard is writing back; so no page is ever in two frames and no frame leaks.
PoolIndexed ==
    \A s \in Shard, f \in Slot :
        frames[s][f].valid =>
            \/ \E p \in Page : p = frames[s][f].pageno /\ index[s][p] = f
            \/ \E t \in Thread : /\ pc[t] = "writeback"
                                  /\ call[t].shard = s /\ call[t].slot = f

\* The counter used, which nothing reads, agrees with the valid bits, so the
\* unsigned s->used-- never wraps.
UsedCountsValid ==
    \A s \in Shard : used[s] = Cardinality({f \in Slot : frames[s][f].valid})

\* access_page always finds a victim when it evicts: it never reads frames[-1].
NeverUndefined == \A t \in Thread : pc[t] # "undefined"

\* A page that is not marked dirty is on disk: throwing its frame away, as the
\* eviction of a clean page and the end of pc_close do, loses nothing.
CleanMatchesDisk ==
    \A s \in Shard, f \in Slot :
        LET fr == frames[s][f] IN
        fr.valid /\ ~fr.dirty => fr.pageno \in Page /\ fr.bytes = disk[fr.pageno]

-----------------------------------------------------------------------------
(* What the cache stores.                                                  *)

\* The threads that are writing page p back after having evicted it.
WritingBack(p) == {t \in Thread : pc[t] = "writeback" /\ call[t].victim = p}

\* The contents of page p: its frame's, or else the file's.
Content(p) ==
    LET s == ShardOf(p) IN
    IF index[s][p] # NotFound THEN frames[s][index[s][p]].bytes
    ELSE IF WritingBack(p) # {}
         THEN LET t == CHOOSE t \in WritingBack(p) : TRUE
              IN  frames[s][call[t].slot].bytes
    ELSE disk[p]

\* The refinement mapping: a call to pc_read or pc_write takes effect when it
\* leaves its critical section; the other calls are invisible.
Request(t) ==
    IF call[t].op \in {"read", "write"}
    THEN [op |-> call[t].op, page |-> call[t].page, buf |-> call[t].buf,
          done |-> pc[t] = "done"]
    ELSE [op |-> "none", page |-> NoPage, buf |-> Junk, done |-> FALSE]

Store == INSTANCE BlockStore WITH
            Value   <- Bytes,
            store   <- [p \in Page |-> Content(p)],
            request <- [t \in Thread |-> Request(t)]

\* Without faults, the cache with its shards, evictions, write-backs, flushes
\* and reopenings is one atomic block per page: every pc_read returns the last
\* value written, at some instant between its call and its return.
StoreSpec == Store!Spec

\* A page changes only when a thread that called pc_write on it writes it.
ContentOnlyByWrite ==
    [][\A p \in Page : Content(p)' # Content(p) =>
          \E t \in Thread : /\ call[t].op = "write" /\ call[t].page = p
                            /\ pc[t] \in {"lookup", "fill"} /\ pc'[t] = "done"]_vars

\* A pc_read that answers 0 delivers a block someone wrote, never stale
\* buffer memory or half a block.
ReadOkDeliversBlock ==
    \A t \in Thread :
        pc[t] = "done" /\ call[t].op = "read" /\ call[t].rc = 0
            => call[t].buf \in Block

-----------------------------------------------------------------------------
(* Metrics and progress.                                                   *)

\* The shards whose counters a pc_hit_ratio has already added up.
Counted(t) == {s \in Shard : s < call[t].shard}

\* The metrics take the mutexes one after the other, while other threads go
\* on counting.  What they have added up was never more than what was counted,
\* and the average depth they report stays below the number of frames of a
\* shard, although hits and depth_sum belong to different instants.
MetricsConsistent ==
    \A t \in Thread :
        LET c == call[t] IN
        /\ c.op \in {"ratio", "depth"} => c.h <= SumFunctionOnSet(hits, Counted(t))
        /\ c.op = "ratio" => c.sum <= SumFunctionOnSet(misses, Counted(t))
        /\ c.op = "depth" => c.sum <= (PerShard - 1) * c.h

\* A thread has read frames[-1]: what becomes of the process is not known.
Crashed == \E t \in Thread : pc[t] = "undefined"

\* A mutex that is held is released: no critical section waits for another, and
\* none leaves by a path without an unlock, whatever I/O and calloc answer.
MutexReleased ==
    \A s \in Shard, t \in Thread : mu[s] = t ~> mu[s] # t \/ Crashed

\* Every call returns: threads that wait for a mutex get it once the finite
\* workload of the others (budget) has run out, even if it is never fair.
EveryCallReturns == \A t \in Thread : pc[t] # "idle" ~> pc[t] = "idle" \/ Crashed
=============================================================================
