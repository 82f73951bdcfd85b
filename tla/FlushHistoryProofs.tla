-------------------------- MODULE FlushHistoryProofs --------------------------
(***************************************************************************)
(* What a pc_flush owes its caller, for any number of threads, pages,      *)
(* shards and frames: when nothing fails, every page that was not on disk  *)
(* when the flush was called has been there at some instant before the     *)
(* flush returns, although other threads write, evict and flush meanwhile. *)
(***************************************************************************)
EXTENDS FlushHistory, PageCacheProofs

\* A flush owes nothing any more in the shards that it has passed, and when it
\* is done it has passed them all.
FlushProgress ==
    \A t \in Thread :
        call[t].op = "flush" =>
            /\ pc[t] = "done" => call[t].shard = NShards
            /\ \A p \in owed[t] : p \in Page /\ call[t].shard <= ShardOf(p)

HistoryInv == StoreInv /\ FlushProgress

\* The steps after which a thread is in a pc_flush: it has just called it, it
\* goes to the next shard, or it stays where it is.
LEMMA FlushMoves ==
    ASSUME Inv, [Next]_vars, NEW t \in Thread, call'[t].op = "flush"
    PROVE  \/ FlushCalled(t) /\ call'[t].shard = 0 /\ pc'[t] # "done"
           \/ call[t].op = "flush" /\ FlushShard(t)
           \/ /\ call[t].op = "flush" /\ call'[t].shard = call[t].shard
              /\ pc'[t] = "done" => pc[t] = "done"
<1>0. TypeOK /\ CallOK
  BY DEF Inv
<1>1. CASE call'[t] = call[t] /\ pc'[t] = pc[t]
  BY <1>1
<1>2. ASSUME NEW c, Enter(t, c)
      PROVE  call'[t] = c /\ pc'[t] = "lock" /\ call[t].op # "flush"
  BY <1>0, <1>2 DEF TypeOK, CallOK, Enter, Goto
<1>3. CASE Begin(t)
  <2>1. CASE pc_flush(t)
    BY <1>2, <2>1 DEF pc_flush, NoCall, FlushCalled
  <2>2. CASE pc_close(t)
    <3>1. PICK c : c.op = "close" /\ call' = [call EXCEPT ![t] = c]
      BY <2>2 DEF pc_close, NoCall
    <3> QED BY <1>0, <3>1 DEF TypeOK
  <2>3. ASSUME NEW p \in Page, pc_read(t, p) PROVE FALSE
    <3>1. PICK c : c.op = "read" /\ Enter(t, c)
      BY <2>3 DEF pc_read, NoCall
    <3> QED BY <1>2, <3>1
  <2>4. ASSUME NEW p \in Page, NEW b \in Block, pc_write(t, p, b) PROVE FALSE
    <3>1. PICK c : c.op = "write" /\ Enter(t, c)
      BY <2>4 DEF pc_write, NoCall
    <3> QED BY <1>2, <3>1
  <2>5. CASE pc_hit_ratio(t) \/ pc_avg_depth(t)
    BY <1>2, <2>5 DEF pc_hit_ratio, pc_avg_depth, NoCall
  <2> QED BY <1>3, <2>1, <2>2, <2>3, <2>4, <2>5 DEF Begin
<1>4. CASE Lock(t)
  BY <1>0, <1>4 DEF TypeOK, Lock, Goto, Section
<1>5. CASE Return(t) \/ FreeAll(t)
  BY <1>0, <1>5 DEF TypeOK, Return, FreeAll, NoCall
<1>6. CASE FlushFrame(t)
  <2>1. PICK r : call' = [call EXCEPT ![t].rc = r]
    BY <1>6 DEF FlushFrame
  <2>2. call'[t].shard = call[t].shard /\ call'[t].op = call[t].op
    BY <1>0, <2>1, RcKeepsCall
  <2> QED BY <1>0, <1>6, <2>2 DEF TypeOK, FlushFrame
<1>7. CASE FlushShard(t)
  BY <1>0, <1>7 DEF TypeOK, Call, FlushShard
<1>8. CASE CountShard(t)
  <2>1. call[t].op # "flush"
    BY <1>0, <1>8 DEF CallOK, CountShard
  <2> QED BY <1>0, <1>8, <2>1 DEF TypeOK, Call, CountShard
<1>9. CASE \/ \E p \in Page : Evict(t, p)
           \/ HitRead(t) \/ HitWrite(t) \/ Miss(t) \/ EvictNothing(t)
           \/ WriteBack(t) \/ FillWrite(t) \/ FillRead(t)
  <2>1. call[t].op \in {"read", "write"}
    BY <1>0, <1>9 DEF CallOK, Evict, HitRead, HitWrite, HitStep, Miss, EvictNothing,
         WriteBack, FillWrite, FillRead
  <2>2. call'[t].op = call[t].op
    BY <1>0, <1>9, AccessKeepsOp
  <2> QED BY <2>1, <2>2
<1> QED
  BY <1>0, <1>1, <1>3, <1>4, <1>5, <1>6, <1>7, <1>8, <1>9, ThreadSteps DEF Step

\* What thread t's flush leaves behind in a shard is on disk.
LEMMA ShardFlushed ==
    ASSUME StoreInv, NEW t \in Thread, FlushShard(t), NEW p \in Page,
           ShardOf(p) = call[t].shard
    PROVE  Content(p)' = disk'[p]
<1>0. TypeOK /\ CallOK /\ MissOK /\ IndexSound /\ Inv
  BY DEF StoreInv, Inv
<1> DEFINE s == call[t].shard
           f == index[s][p]
<1>1. s \in Shard /\ pc[t] = "flush" /\ DirtySlots(s) = {} /\ UNCHANGED <<disk, index, frames>>
  BY <1>0 DEF FlushShard, CallOK, InSection
<1>2. WritingBack(p) = {}
  <2>1. ASSUME NEW u \in WritingBack(p) PROVE FALSE
    <3>1. u \in Thread /\ pc[u] = "writeback" /\ call[u].shard = s
      BY <1>0, WriterFacts
    <3>2. t = u
      BY <1>0, <1>1, <3>1, Alone DEF InSection
    <3> QED BY <1>1, <3>1, <3>2
  <2> QED BY <2>1
<1>3. Content(p) = disk[p]
  <2>1. CASE f = NotFound
    BY <1>0, <1>2, <2>1, ContentCases
  <2>2. CASE f # NotFound
    <3>1. f \in Slot /\ frames[s][f].valid /\ frames[s][f].pageno = p
      BY <1>0, <1>1, <2>2 DEF TypeOK, IndexSound
    <3>2. ~frames[s][f].dirty
      BY <1>1, <3>1 DEF DirtySlots
    <3>3. frames[s][f].bytes = disk[p]
      BY <1>1, <3>1, <3>2 DEF StoreInv, CleanMatchesDisk
    <3> QED BY <1>0, <2>2, <3>3, ContentCases
  <2> QED BY <2>1, <2>2
<1>4. Content(p)' = Content(p)
  <2>1. SameContent
    <3>1. \A u \in Thread : pc[u] = "writeback" \/ pc'[u] = "writeback" =>
                pc'[u] = pc[u] /\ call'[u] = call[u]
      BY <1>0, <1>1 DEF TypeOK, FlushShard, NextShard, Goto
    <3> QED BY <1>0, <1>1, <3>1, QuietContent
  <2> QED BY <2>1 DEF SameContent
<1> QED BY <1>1, <1>3, <1>4

\* Every step keeps the promise of the flushes that are running.
LEMMA ProgressStep ==
    ASSUME HistoryInv, [HistoryNext]_hvars
    PROVE  FlushProgress'
<1>0. StoreInv /\ Inv /\ TypeOK /\ CallOK
  BY DEF HistoryInv, StoreInv, Inv
<1>1. CASE UNCHANGED hvars
  <2>1. \A p : ShardOf(p)' = ShardOf(p)
    BY DEF ShardOf
  <2> QED BY <1>1, <2>1 DEF hvars, vars, HistoryInv, FlushProgress
<1>2. CASE HistoryNext
  <2> SUFFICES ASSUME NEW t \in Thread, call'[t].op = "flush"
               PROVE  /\ pc'[t] = "done" => call'[t].shard = NShards
                      /\ \A p \in owed'[t] : p \in Page /\ call'[t].shard <= ShardOf(p)
    BY DEF FlushProgress, ShardOf
  <2>1. [Next]_vars
    BY <1>2 DEF HistoryNext
  <2>2. /\ owed'[t] \subseteq Unsaved'
        /\ FlushCalled(t) => owed'[t] \subseteq Unsaved
        /\ ~FlushCalled(t) => owed'[t] \subseteq owed[t]
    BY <1>2 DEF HistoryNext, Owe
  <2>3. Unsaved \subseteq Page /\ \A p \in Page : ShardOf(p) \in 0 .. NShards - 1
    BY ShardOfType DEF Unsaved, Shard
  <2>4. CASE FlushCalled(t) /\ call'[t].shard = 0 /\ pc'[t] # "done"
    <3>1. \A p \in Page : 0 <= ShardOf(p)
      BY <2>3, SizeFacts
    <3> QED BY <2>2, <2>3, <2>4, <3>1
  <2>5. CASE call[t].op = "flush" /\ FlushShard(t)
    <3> DEFINE s == call[t].shard
    <3>1. /\ s \in Shard /\ call'[t].shard = s + 1
          /\ pc'[t] = "done" => ~(s + 1 < NShards)
      BY <1>0, <2>5 DEF TypeOK, Call, CallOK, FlushShard, NextShard, Goto, InSection
    <3>2. pc'[t] = "done" => s + 1 = NShards
      BY <3>1, SizeFacts
    <3>3. ASSUME NEW p \in owed'[t] PROVE p \in Page /\ s + 1 <= ShardOf(p)
      <4>1. p \in owed[t] /\ p \in Unsaved'
        BY <2>2, <2>5 DEF FlushCalled
      <4>2. p \in Page /\ s <= ShardOf(p)
        BY <2>5, <4>1 DEF HistoryInv, FlushProgress
      <4>3. ShardOf(p) # s
        <5>1. Content(p)' # disk'[p]
          BY <4>1 DEF Unsaved
        <5> QED BY <1>0, <2>5, <4>2, <5>1, ShardFlushed
      <4>4. ShardOf(p) \in Nat /\ s \in Nat
        BY <2>3, <3>1, <4>2, SizeFacts
      <4> HIDE DEF s
      <4> QED BY <4>2, <4>3, <4>4
    <3> HIDE DEF s
    <3>4. call'[t].shard = s + 1
      BY <3>1
    <3> QED BY <3>2, <3>3, <3>4
  <2>6. CASE /\ call[t].op = "flush" /\ call'[t].shard = call[t].shard
             /\ pc'[t] = "done" => pc[t] = "done"
    <3>1. owed'[t] \subseteq owed[t]
      BY <2>2, <2>6 DEF FlushCalled
    <3> QED BY <2>6, <3>1 DEF HistoryInv, FlushProgress
  <2> QED BY <1>0, <2>1, <2>4, <2>5, <2>6, FlushMoves
<1> QED BY <1>1, <1>2

\* A pc_flush that answers 0 has put every page that was dirty when it was
\* called on disk, if nothing fails.
THEOREM FlushIsDurable ==
    ASSUME Faults = {}
    PROVE  HistorySpec => []FlushDurable
<1>1. HistorySpec => []StoreInv
  <2>1. HistoryInit => Init
    BY DEF HistoryInit
  <2>2. [HistoryNext]_hvars => [Next]_vars
    BY DEF HistoryNext, hvars
  <2>3. Spec => []StoreInv
    BY StoreInvariance
  <2> QED BY <2>1, <2>2, <2>3, PTL DEF HistorySpec, Spec
<1>2. HistoryInit => FlushProgress
  BY DEF HistoryInit, Init, NoCall, FlushProgress
<1>3. StoreInv /\ FlushProgress /\ [HistoryNext]_hvars => FlushProgress'
  BY ProgressStep DEF HistoryInv
<1>4. StoreInv /\ FlushProgress => FlushDurable
  <2> SUFFICES ASSUME StoreInv, FlushProgress, NEW t \in Thread,
                      pc[t] = "done", call[t].op = "flush"
               PROVE  owed[t] = {}
    BY DEF FlushDurable
  <2>1. call[t].shard = NShards /\ \A p \in owed[t] : p \in Page /\ NShards <= ShardOf(p)
    BY DEF FlushProgress
  <2>2. \A p \in Page : ~(NShards <= ShardOf(p))
    BY ShardOfType, SizeFacts
  <2> QED BY <2>1, <2>2
<1> QED BY <1>1, <1>2, <1>3, <1>4, PTL DEF HistorySpec
=============================================================================
