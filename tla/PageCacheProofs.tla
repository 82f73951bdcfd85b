-------------------------- MODULE PageCacheProofs --------------------------
(***************************************************************************)
(* Theorems about PageCache, for every number of threads, pages, shards    *)
(* and frames: what holds whatever fails; the pool of frames, when calloc  *)
(* does not fail; the metrics; and, when nothing fails, that the cache     *)
(* behaves as BlockStore, one atomic block per page.                       *)
(***************************************************************************)
EXTENDS PageCache, TLAPS, WellFoundedInduction, FiniteSetTheorems

-----------------------------------------------------------------------------
(* Sizes.                                                                  *)

\* Every shard has a slot, and a page's shard exists.
LEMMA PerShardType == PerShard \in Nat \ {0}
BY SizeAssumption DEF PerShard

\* pageno % nshards is a shard.
LEMMA ShardOfType == ASSUME NEW p \in Page PROVE ShardOf(p) \in Shard
BY SizeAssumption, PageAssumption DEF ShardOf, Shard

\* The sizes, collected for citing.
LEMMA SizeFacts ==
    /\ NShards \in Nat \ {0} /\ MaxCalls \in Nat /\ Page \subseteq Nat
    /\ Shard = 0 .. NShards - 1
    /\ Slot \subseteq Nat
    /\ 0 \in 0 .. NShards
BY SizeAssumption, PageAssumption, PerShardType DEF Shard, Slot

\* Every shard has a slot 0, and -1 is none.
LEMMA SlotType == Slot \subseteq Nat /\ 0 \in Slot /\ NotFound \notin Slot
BY PerShardType DEF Slot, NotFound

\* find_free and the flush loop do find the slots they look for.
LEMMA MinSlot ==
    ASSUME NEW S \in SUBSET Slot, S # {}
    PROVE  Min(S) \in S
<1> DEFINE Less == OpToRel(<, Nat)
<1>1. S \subseteq Nat
  BY SlotType
<1>2. PICK m \in S : \A y \in S : ~(<<y, m>> \in Less)
  <2>1. IsWellFoundedOn(Less, Nat)
    BY NatLessThanWellFounded
  <2> HIDE DEF Less
  <2> QED BY <1>1, <2>1, WFMin
<1>3. ASSUME NEW y \in S PROVE m <= y
  <2>1. y \in Nat /\ m \in Nat
    BY <1>1
  <2>2. Less = {ss \in Nat \X Nat : ss[1] < ss[2]}
    BY DEF OpToRel
  <2> HIDE DEF Less
  <2>3. y < m => <<y, m>> \in Less
    BY <2>1, <2>2
  <2> QED BY <1>2, <2>1, <2>3
<1> QED BY <1>3 DEF Min

-----------------------------------------------------------------------------
(* The inductive invariant that survives every fault.                      *)

\* Where a call is agrees with what was called: its page's shard, the shard of
\* its loop, and whether the cache is open.
CallOK ==
    \A t \in Thread :
        LET c == call[t] IN
        /\ pc[t] = "idle" => c.op = "none"
        /\ pc[t] # "idle" => IF c.op = "close" THEN phase = "closing"
                                               ELSE phase = "open"
        /\ pc[t] \in InSection \cup {"lock"} => c.shard \in Shard /\ c.op # "none"
        /\ c.op \in {"read", "write"} => c.page \in Page /\ c.shard = ShardOf(c.page)
        /\ pc[t] \in {"lookup", "evict", "writeback", "fill", "undefined"} =>
               c.op \in {"read", "write"}
        /\ pc[t] = "flush" => c.op \in {"flush", "close"}
        /\ pc[t] = "count" => c.op \in {"ratio", "depth"}
        /\ pc[t] = "free" => c.op = "close"

\* pc_close runs alone.
ClosesAlone ==
    \A t, u \in Thread : call[t].op = "close" /\ u # t => pc[u] = "idle"

\* A frame in use holds a page of its own shard.
FramesInShard ==
    \A s \in Shard, f \in Slot :
        frames[s][f].valid => frames[s][f].pageno \in Page /\ ShardOf(frames[s][f].pageno) = s

\* While a miss is served, the page stays out of the index and the slot that
\* find_free or pol_evict gave stays its own.
MissOK ==
    \A t \in Thread :
        LET c == call[t]
            s == call[t].shard
        IN  /\ pc[t] \in {"evict", "writeback", "fill"} => index[s][c.page] = NotFound
            /\ pc[t] = "evict" => FreeSlots(s) = {}
            /\ pc[t] = "fill" => c.slot \in Slot /\ ~frames[s][c.slot].valid
            /\ pc[t] = "writeback" => /\ c.slot \in Slot /\ c.victim \in Page
                                      /\ frames[s][c.slot].valid
                                      /\ frames[s][c.slot].pageno = c.victim
                                      /\ index[s][c.victim] = NotFound

Inv ==
    /\ TypeOK
    /\ OneMutexEach
    /\ CallOK
    /\ ClosesAlone
    /\ FramesInShard
    /\ IndexSound
    /\ MissOK

\* The records that Begin enters a call with.
Arguments ==
    {c \in Call : /\ c.shard \in Shard
                  /\ c.op \in {"read", "write", "flush", "ratio", "depth"}
                  /\ c.op \in {"read", "write"} => c.page \in Page /\ c.shard = ShardOf(c.page)}

\* Every call but pc_close is an Enter with proper arguments.
LEMMA BeginEnters ==
    ASSUME NEW t \in Thread, Begin(t)
    PROVE  pc_close(t) \/ \E c \in Arguments : Enter(t, c)
<1> USE DEF Arguments, Call, NoCall, Ops, Bytes, NotFound, NoPage, Slot
<1>0. 0 \in Shard /\ 0 \in 0 .. NShards /\ Shard \subseteq 0 .. NShards
  BY SizeAssumption DEF Shard
<1>1. CASE \E p \in Page : pc_read(t, p)
  BY <1>0, <1>1, ShardOfType DEF pc_read
<1>2. CASE \E p \in Page, b \in Block : pc_write(t, p, b)
  BY <1>0, <1>2, ShardOfType DEF pc_write
<1>3. CASE pc_flush(t)
  BY <1>0, <1>3 DEF pc_flush
<1>4. CASE pc_hit_ratio(t)
  BY <1>0, <1>4 DEF pc_hit_ratio
<1>5. CASE pc_avg_depth(t)
  BY <1>0, <1>5 DEF pc_avg_depth
<1> QED BY <1>1, <1>2, <1>3, <1>4, <1>5, Begin(t) DEF Begin

\* The disjuncts of a step.
LEMMA NextCases ==
    ASSUME [Next]_vars
    PROVE  \/ UNCHANGED vars
           \/ pc_open
           \/ \E t \in Thread :
                \/ pc_close(t)
                \/ \E c \in Arguments : Enter(t, c)
                \/ \E p \in Page : Evict(t, p)
                \/ Lock(t) \/ HitRead(t) \/ HitWrite(t) \/ Miss(t)
                \/ EvictNothing(t) \/ WriteBack(t) \/ FillWrite(t) \/ FillRead(t)
                \/ FlushFrame(t) \/ FlushShard(t) \/ CountShard(t)
                \/ FreeAll(t) \/ Return(t)
BY BeginEnters DEF Next, Step


\* What the invariant says of a thread's call.
LEMMA CallFacts ==
    ASSUME TypeOK, CallOK, NEW t \in Thread
    PROVE  /\ call[t] \in Call
           /\ pc[t] \in InSection \cup {"lock"} => call[t].shard \in Shard
           /\ call[t].op \in {"read", "write"} => call[t].page \in Page
           /\ pc[t] \in {"lookup", "evict", "fill",
              "writeback"} => call[t].page \in Page
BY DEF TypeOK, CallOK

\* Updates of one frame, one index entry and one call keep their shapes.
LEMMA FramesTyped ==
    ASSUME NEW F \in [Shard -> [Slot -> Frame]], NEW s \in Shard, NEW f \in Slot,
           NEW b \in Bytes, NEW v \in BOOLEAN, NEW fr \in Frame
    PROVE  /\ [F EXCEPT ![s][f].valid = v] \in [Shard -> [Slot -> Frame]]
           /\ [F EXCEPT ![s][f].dirty = v] \in [Shard -> [Slot -> Frame]]
           /\ [F EXCEPT ![s][f] = [@ EXCEPT !.bytes = b,
              !.dirty = v]] \in [Shard -> [Slot -> Frame]]
           /\ [F EXCEPT ![s][f] = fr] \in [Shard -> [Slot -> Frame]]
<1> DEFINE T == [Slot -> Frame]
<1>1. F[s] \in T /\ F[s][f] \in Frame
  OBVIOUS
<1>2. /\ [F[s][f] EXCEPT !.valid = v] \in Frame
      /\ [F[s][f] EXCEPT !.dirty = v] \in Frame
      /\ [F[s][f] EXCEPT !.bytes = b, !.dirty = v] \in Frame
  BY <1>1 DEF Frame
<1>3. \A g \in Frame : [F[s] EXCEPT ![f] = g] \in T
  BY <1>1
<1>4. \A g \in Frame : [F EXCEPT ![s] = [F[s] EXCEPT ![f] = g]] \in [Shard -> T]
  BY <1>3
<1>5. \A g \in Frame : [F EXCEPT ![s][f] = g] \in [Shard -> T]
  BY <1>4
<1>6. [F EXCEPT ![s][f].valid = v] = [F EXCEPT ![s][f] = [F[s][f] EXCEPT !.valid = v]]
  OBVIOUS
<1>7. [F EXCEPT ![s][f].dirty = v] = [F EXCEPT ![s][f] = [F[s][f] EXCEPT !.dirty = v]]
  OBVIOUS
<1>8. [F EXCEPT ![s][f] = [@ EXCEPT !.bytes = b, !.dirty = v]]
        = [F EXCEPT ![s][f] = [F[s][f] EXCEPT !.bytes = b, !.dirty = v]]
  OBVIOUS
<1> QED BY <1>2, <1>5, <1>6, <1>7, <1>8

\* So does an update of the index.
LEMMA IndexTyped ==
    ASSUME NEW G \in [Shard -> [Page -> Slot \cup {NotFound}]], NEW s \in Shard,
           NEW p \in Page, NEW f \in Slot \cup {NotFound}
    PROVE  [G EXCEPT ![s][p] = f] \in [Shard -> [Page -> Slot \cup {NotFound}]]
OBVIOUS

\* An I/O result keeps the shape of a call.
LEMMA RcTyped ==
    ASSUME NEW t \in Thread, NEW ok \in BOOLEAN, call[t] \in Call,
           call \in [Thread -> Call]
    PROVE  /\ RcAfter(t, ok) \in {0, -1}
           /\ [call EXCEPT ![t].rc = RcAfter(t, ok)] \in [Thread -> Call]
           /\ \A b \in Bytes : [call EXCEPT ![t].buf = b, ![t].rc = RcAfter(t,
              ok)]
                                 \in [Thread -> Call]
BY DEF RcAfter, Call

\* The parts that actions share keep the shapes of what they change.
LEMMA HitStepTyped ==
    ASSUME TypeOK, NEW t \in Thread, HitStep(t),
           call[t].shard \in Shard, call[t].page \in Page
    PROVE  /\ index[call[t].shard][call[t].page] \in Slot
           /\ mu' \in [Shard -> Thread \cup {Free}]
           /\ hits' \in [Shard -> Nat]
           /\ depth_sum' \in [Shard -> Nat]
           /\ pc' \in [Thread -> Label]
<1>1. index[call[t].shard][call[t].page] \in Slot
  BY DEF HitStep, TypeOK
<1>2. mu' \in [Shard -> Thread \cup {Free}]
  BY DEF HitStep, Unlock, TypeOK
<1>3. hits' \in [Shard -> Nat]
  BY DEF HitStep, TypeOK
<1>4. depth_sum' \in [Shard -> Nat]
  <2>1. PICK depth \in Depths(call[t].shard) :
            depth_sum' = [depth_sum EXCEPT ![call[t].shard] = @ + depth]
    BY DEF HitStep
  <2>2. depth \in Nat
    BY SizeFacts DEF Depths
  <2> QED BY <2>1, <2>2 DEF TypeOK
<1>5. pc' \in [Thread -> Label]
  BY DEF HitStep, Goto, TypeOK, Label
<1> QED BY <1>1, <1>2, <1>3, <1>4, <1>5

\* Discarding a frame keeps the shapes.
LEMMA DiscardTyped ==
    ASSUME TypeOK, NEW s \in Shard, NEW f \in Slot, Discard(s, f)
    PROVE  /\ frames' \in [Shard -> [Slot -> Frame]]
           /\ used' \in [Shard -> Int]
<1>1. frames' \in [Shard -> [Slot -> Frame]]
  <2>1. FALSE \in BOOLEAN /\ frames \in [Shard -> [Slot -> Frame]]
    BY DEF TypeOK
  <2>2. [frames EXCEPT ![s][f].valid = FALSE] \in [Shard -> [Slot -> Frame]]
    <3>1. \E b \in Bytes : TRUE
      BY DEF Bytes
    <3>2. frames[s][f] \in Frame
      BY <2>1
    <3> QED BY <2>1, <3>1, <3>2, FramesTyped
  <2> QED BY <2>2 DEF Discard
<1>2. used' \in [Shard -> Int]
  BY DEF Discard, TypeOK
<1> QED BY <1>1, <1>2

\* Installing a page keeps the shapes.
LEMMA InstallTyped ==
    ASSUME TypeOK, NEW t \in Thread, NEW b \in Bytes, NEW dirty \in BOOLEAN,
           call[t].shard \in Shard, call[t].page \in Page, call[t].slot \in Slot,
           Install(t, b, dirty)
    PROVE  /\ frames' \in [Shard -> [Slot -> Frame]]
           /\ index' \in [Shard -> [Page -> Slot \cup {NotFound}]]
           /\ used' \in [Shard -> Int]
           /\ mu' \in [Shard -> Thread \cup {Free}]
           /\ pc' \in [Thread -> Label]
<1> DEFINE fr == [pageno |-> call[t].page, valid |-> TRUE, dirty |-> dirty,
   bytes |-> b]
<1>1. fr \in Frame
  BY SizeFacts DEF Frame
<1>2. frames' \in [Shard -> [Slot -> Frame]]
  <2> HIDE DEF fr
  <2>1. [frames EXCEPT ![call[t].shard][call[t].slot] = fr] \in [Shard -> [Slot -> Frame]]
    BY <1>1, FramesTyped DEF TypeOK
  <2> QED BY <2>1 DEF Install, fr
<1>3. index' \in [Shard -> [Page -> Slot \cup {NotFound}]]
  <2>1. [index EXCEPT ![call[t].shard][call[t].page] = call[t].slot]
          \in [Shard -> [Page -> Slot \cup {NotFound}]]
    BY IndexTyped DEF TypeOK
  <2> QED BY <2>1 DEF Install, pol_insert, TypeOK
<1>4. used' \in [Shard -> Int]
  BY DEF Install, TypeOK
<1>5. mu' \in [Shard -> Thread \cup {Free}]
  BY DEF Install, Unlock, TypeOK
<1>6. pc' \in [Thread -> Label]
  BY DEF Install, Goto, Label, TypeOK
<1> QED BY <1>2, <1>3, <1>4, <1>5, <1>6

\* Going on to the next shard keeps the shapes.
LEMMA NextShardTyped ==
    ASSUME TypeOK, NEW t \in Thread, NEW end \in Label, NextShard(t, end),
           call[t].shard \in Shard
    PROVE  /\ call[t].shard + 1 \in 0 .. NShards
           /\ mu' \in [Shard -> Thread \cup {Free}]
           /\ pc' \in [Thread -> Label]
<1>1. call[t].shard + 1 \in 0 .. NShards
  BY SizeFacts
<1>2. mu' \in [Shard -> Thread \cup {Free}]
  BY DEF NextShard, Unlock, TypeOK
<1>3. pc' \in [Thread -> Label]
  BY DEF NextShard, Goto, Label, TypeOK
<1> QED BY <1>1, <1>2, <1>3

\* What pc_open allocates has its shape.
LEMMA AllocTyped ==
    /\ NoMutexHeld \in [Shard -> Thread \cup {Free}]
    /\ EmptyIndex \in [Shard -> [Page -> Slot \cup {NotFound}]]
    /\ EmptyFrames \in [Shard -> [Slot -> Frame]]
    /\ Zeroes \in [Shard -> Nat]
    /\ Zeroes \in [Shard -> Int]
    /\ AllocShards =>
         /\ mu' = NoMutexHeld /\ index' = EmptyIndex /\ frames' = EmptyFrames
         /\ used' = Zeroes /\ hits' = Zeroes /\ misses' = Zeroes /\ depth_sum' = Zeroes
    /\ [t \in Thread |-> MaxCalls] \in [Thread -> 0 .. MaxCalls]
BY SizeFacts DEF NoMutexHeld, EmptyIndex, EmptyFrames, Zeroes, Frame, Bytes,
   AllocShards

\* The call of an idle thread is well-formed.
LEMMA NoCallType == NoCall \in Call
BY SizeFacts DEF NoCall, Call, Ops, Bytes

\* find_free answers a slot, or -1.
LEMMA FindFreeType == ASSUME NEW s PROVE find_free(s) \in Slot \cup {NotFound}
<1>1. FreeSlots(s) \in SUBSET Slot
  BY DEF FreeSlots
<1> HIDE DEF FreeSlots
<1> QED BY <1>1, MinSlot DEF find_free

\* The flush loop writes a dirty slot of its shard.
LEMMA FlushSlotType ==
    ASSUME NEW s, DirtySlots(s) # {}
    PROVE  Min(DirtySlots(s)) \in DirtySlots(s) /\ Min(DirtySlots(s)) \in Slot
<1>1. DirtySlots(s) \in SUBSET Slot
  BY DEF DirtySlots
<1> QED BY <1>1, MinSlot

\* A write to the file, whole or torn, leaves bytes in every block.
LEMMA WriteTyped ==
    ASSUME TypeOK, NEW p, NEW b \in Bytes, NEW ok \in BOOLEAN,
       disk_write_block(p, b, ok)
    PROVE  disk' \in [Page -> Bytes]
<1>1. PICK v : /\ v \in IF ok THEN {b} ELSE {disk[p], Junk}
               /\ disk' = [disk EXCEPT ![p] = v]
  BY DEF disk_write_block
<1>2. p \in Page => v \in Bytes
  BY <1>1 DEF TypeOK, Bytes
<1> QED BY <1>1, <1>2 DEF TypeOK

\* Every step keeps the shapes of the variables.
LEMMA TypeStep == ASSUME Inv, [Next]_vars PROVE TypeOK'
<1>0. TypeOK /\ CallOK /\ MissOK
  BY DEF Inv
<1>1. CASE UNCHANGED vars
  BY <1>0, <1>1 DEF TypeOK, vars, shardVars, metrics
<1>2. CASE pc_open
  BY <1>0, <1>2, AllocTyped DEF TypeOK, pc_open
<1>3. ASSUME NEW t \in Thread, pc_close(t) PROVE TypeOK'
  <2>1. call' \in [Thread -> Call]
    BY <1>0, <1>3, SizeFacts DEF TypeOK, pc_close, NoCall, Call, Ops, Bytes
  <2> QED BY <1>0, <1>3, <2>1 DEF TypeOK, pc_close, Goto, shardVars, metrics, Label
<1>4. ASSUME NEW t \in Thread, NEW c \in Arguments, Enter(t, c) PROVE TypeOK'
  <2>1. call' \in [Thread -> Call]
    BY <1>0, <1>4 DEF TypeOK, Enter, Arguments
  <2>2. pc' \in [Thread -> Label]
    BY <1>0, <1>4 DEF TypeOK, Enter, Goto, Label
  <2>3. budget' \in [Thread -> 0 .. MaxCalls]
    <3>1. budget[t] - 1 \in 0 .. MaxCalls
      BY <1>0, <1>4, SizeFacts DEF TypeOK, Enter
    <3> QED BY <1>0, <1>4, <3>1 DEF TypeOK, Enter
  <2> QED BY <1>0, <1>4, <2>1, <2>2, <2>3 DEF TypeOK, Enter, shardVars, metrics
<1>5. ASSUME NEW t \in Thread, Lock(t) PROVE TypeOK'
  <2>1. mu' \in [Shard -> Thread \cup {Free}]
    BY <1>0, <1>5 DEF TypeOK, Lock
  <2>2. pc' \in [Thread -> Label]
    BY <1>0, <1>5 DEF TypeOK, Lock, Goto, Section, Label
  <2> QED BY <1>0, <1>5, <2>1, <2>2 DEF TypeOK, Lock, metrics
<1>6. ASSUME NEW t \in Thread, HitRead(t) PROVE TypeOK'
  <2>1. HitStep(t) /\ call[t].shard \in Shard /\ call[t].page \in Page
    BY <1>0, <1>6, CallFacts DEF HitRead, HitStep, InSection
  <2>2. call' \in [Thread -> Call]
    <3>1. PICK b \in Bytes : b = frames[call[t].shard][index[call[t].shard][call[t].page]].bytes
      BY <1>0, <2>1, HitStepTyped DEF TypeOK, Frame
    <3>2. call' = [call EXCEPT ![t].buf = b]
      BY <1>6, <3>1 DEF HitRead
    <3>3. call \in [Thread -> Call]
      BY <1>0 DEF TypeOK
    <3> QED BY <3>2, <3>3 DEF Call
  <2>3. /\ mu' \in [Shard -> Thread \cup {Free}] /\ pc' \in [Thread -> Label]
        /\ hits' \in [Shard -> Nat] /\ depth_sum' \in [Shard -> Nat]
    BY <1>0, <2>1, HitStepTyped
  <2>4. UNCHANGED <<phase, disk, index, frames, used, misses, budget>>
    BY <1>6, <2>1 DEF HitRead, HitStep
  <2> QED BY <1>0, <2>2, <2>3, <2>4 DEF TypeOK
<1>7. ASSUME NEW t \in Thread, HitWrite(t) PROVE TypeOK'
  <2>1. /\ HitStep(t) /\ call[t].shard \in Shard /\ call[t].page \in Page
        /\ call[t].buf \in Bytes
    BY <1>0, <1>7, CallFacts DEF HitWrite, HitStep, InSection, Call
  <2>2. frames' \in [Shard -> [Slot -> Frame]]
    <3> DEFINE s == call[t].shard
               f == index[s][call[t].page]
    <3>1. f \in Slot /\ TRUE \in BOOLEAN /\ frames \in [Shard -> [Slot -> Frame]]
      BY <1>0, <2>1, HitStepTyped DEF TypeOK
    <3>2. frames[s][f] \in Frame
      BY <2>1, <3>1
    <3>3. [frames EXCEPT ![s][f] = [@ EXCEPT !.bytes = call[t].buf, !.dirty = TRUE]]
            \in [Shard -> [Slot -> Frame]]
      BY <2>1, <3>1, <3>2, FramesTyped
    <3> QED BY <1>7, <3>3 DEF HitWrite
  <2>3. /\ mu' \in [Shard -> Thread \cup {Free}] /\ pc' \in [Thread -> Label]
        /\ hits' \in [Shard -> Nat] /\ depth_sum' \in [Shard -> Nat]
    BY <1>0, <2>1, HitStepTyped
  <2>4. UNCHANGED <<phase, disk, index, used, misses, budget, call>>
    BY <1>7, <2>1 DEF HitWrite, HitStep
  <2> QED BY <1>0, <2>2, <2>3, <2>4 DEF TypeOK
<1>8. ASSUME NEW t \in Thread, Miss(t) PROVE TypeOK'
  <2>1. call[t].shard \in Shard /\ call[t] \in Call
    BY <1>0, <1>8, CallFacts DEF Miss, InSection
  <2>2. find_free(call[t].shard) \in Slot \cup {NotFound}
    BY FindFreeType
  <2>3. misses' \in [Shard -> Nat]
    BY <1>0, <1>8, <2>1 DEF TypeOK, Miss
  <2>4. call' \in [Thread -> Call]
    BY <1>0, <1>8, <2>1, <2>2 DEF TypeOK, Miss, Call
  <2>5. pc' \in [Thread -> Label]
    BY <1>0, <1>8 DEF TypeOK, Miss, Goto, Label
  <2> QED BY <1>0, <1>8, <2>3, <2>4, <2>5 DEF TypeOK, Miss
<1>9. ASSUME NEW t \in Thread, NEW p \in Page, Evict(t, p) PROVE TypeOK'
  <2> DEFINE s == call[t].shard
             f == index[s][p]
  <2>1. s \in Shard /\ call[t] \in Call
    BY <1>0, <1>9, CallFacts DEF Evict, InSection
  <2>2. f \in Slot
    BY <1>0, <1>9, <2>1 DEF TypeOK, Evict
  <2>3. index' \in [Shard -> [Page -> Slot \cup {NotFound}]]
    BY <1>0, <1>9, <2>1 DEF TypeOK, Evict
  <2>4. call' \in [Thread -> Call]
    BY <1>0, <1>9, <2>1, <2>2 DEF TypeOK, Evict, Call
  <2>5. pc' \in [Thread -> Label]
    BY <1>0, <1>9 DEF TypeOK, Evict, Goto, Label
  <2>6. frames' \in [Shard -> [Slot -> Frame]] /\ used' \in [Shard -> Int]
    <3>1. UNCHANGED <<frames, used>> \/ Discard(s, f)
      BY <1>9 DEF Evict
    <3>2. CASE Discard(s, f)
      BY <1>0, <2>1, <2>2, <3>2, DiscardTyped
    <3> QED BY <1>0, <3>1, <3>2 DEF TypeOK
  <2> QED BY <1>0, <1>9, <2>3, <2>4, <2>5, <2>6 DEF TypeOK, Evict, metrics
<1>10. ASSUME NEW t \in Thread, EvictNothing(t) PROVE TypeOK'
  BY <1>0, <1>10 DEF TypeOK, EvictNothing, Goto, shardVars, metrics, Label
<1>11. ASSUME NEW t \in Thread, WriteBack(t) PROVE TypeOK'
  <2> DEFINE s == call[t].shard
             f == call[t].slot
  <2>1. s \in Shard /\ call[t] \in Call /\ f \in Slot /\ Discard(s, f)
    BY <1>0, <1>11, CallFacts DEF WriteBack, InSection, MissOK
  <2>2. frames[s][f].bytes \in Bytes
    BY <1>0, <2>1 DEF TypeOK, Frame
  <2>3. PICK ok \in BOOLEAN :
          /\ disk_write_block(call[t].victim, frames[s][f].bytes, ok)
          /\ call' = [call EXCEPT ![t].rc = RcAfter(t, ok)]
    BY <1>11 DEF WriteBack
  <2>4. disk' \in [Page -> Bytes]
    BY <1>0, <2>2, <2>3, WriteTyped
  <2>5. call' \in [Thread -> Call]
    BY <1>0, <2>1, <2>3, RcTyped DEF TypeOK
  <2>6. frames' \in [Shard -> [Slot -> Frame]] /\ used' \in [Shard -> Int]
    BY <1>0, <2>1, DiscardTyped
  <2>7. pc' \in [Thread -> Label]
    BY <1>0, <1>11 DEF TypeOK, WriteBack, Goto, Label
  <2> QED BY <1>0, <1>11, <2>4, <2>5, <2>6, <2>7 DEF TypeOK, WriteBack, metrics
<1>12. ASSUME NEW t \in Thread, FillWrite(t) PROVE TypeOK'
  <2>1. /\ call[t].shard \in Shard /\ call[t].page \in Page /\ call[t].slot \in Slot
        /\ call[t].buf \in Bytes /\ TRUE \in BOOLEAN
    BY <1>0, <1>12, CallFacts DEF FillWrite, InSection, MissOK, Call
  <2>2. Install(t, call[t].buf, TRUE)
    BY <1>12 DEF FillWrite
  <2> QED BY <1>0, <1>12, <2>1, <2>2, InstallTyped DEF TypeOK, FillWrite, Install, metrics
<1>13. ASSUME NEW t \in Thread, FillRead(t) PROVE TypeOK'
  <2> DEFINE c == call[t]
             old == frames[c.shard][c.slot].bytes
  <2>1. c.shard \in Shard /\ c.page \in Page /\ c.slot \in Slot /\ c \in Call
    BY <1>0, <1>13, CallFacts DEF FillRead, InSection, MissOK
  <2>2. old \in Bytes
    BY <1>0, <2>1 DEF TypeOK, Frame
  <2>3. PICK ok \in BOOLEAN : \E b \in disk_read_block(c.page, old, ok) :
          /\ Install(t, b, FALSE)
          /\ call' = [call EXCEPT ![t].buf = b, ![t].rc = RcAfter(t, ok)]
    BY <1>13 DEF FillRead
  <2>4. PICK b \in disk_read_block(c.page, old, ok) :
          /\ Install(t, b, FALSE)
          /\ call' = [call EXCEPT ![t].buf = b, ![t].rc = RcAfter(t, ok)]
    BY <2>3
  <2>5. b \in Bytes /\ FALSE \in BOOLEAN
    BY <1>0, <2>1, <2>2, <2>4 DEF TypeOK, disk_read_block, Bytes
  <2>6. call' \in [Thread -> Call]
    BY <1>0, <2>1, <2>4, <2>5, RcTyped DEF TypeOK
  <2> HIDE DEF c
  <2> QED BY <1>0, <1>13, <2>1, <2>4, <2>5, <2>6, InstallTyped
          DEF TypeOK, FillRead, Install, metrics, c
<1>14. ASSUME NEW t \in Thread, FlushFrame(t) PROVE TypeOK'
  <2> DEFINE s == call[t].shard
             f == Min(DirtySlots(s))
  <2>1. s \in Shard /\ call[t] \in Call
    BY <1>0, <1>14, CallFacts DEF FlushFrame, InSection
  <2>2. f \in Slot
    BY <1>14, FlushSlotType DEF FlushFrame
  <2> HIDE DEF f
  <2>3. frames[s][f].bytes \in Bytes /\ frames[s][f] \in Frame
    BY <1>0, <2>1, <2>2 DEF TypeOK, Frame
  <2>4. PICK ok \in BOOLEAN :
          /\ disk_write_block(frames[s][f].pageno, frames[s][f].bytes, ok)
          /\ call' = [call EXCEPT ![t].rc = RcAfter(t, ok)]
    BY <1>14 DEF FlushFrame, f
  <2>5. disk' \in [Page -> Bytes]
    BY <1>0, <2>3, <2>4, WriteTyped
  <2>6. call' \in [Thread -> Call]
    BY <1>0, <2>1, <2>4, RcTyped DEF TypeOK
  <2>7. frames' \in [Shard -> [Slot -> Frame]]
    <3>1. FALSE \in BOOLEAN /\ frames \in [Shard -> [Slot -> Frame]]
      BY <1>0 DEF TypeOK
    <3>2. [frames EXCEPT ![s][f].dirty = FALSE] \in [Shard -> [Slot -> Frame]]
      BY <2>1, <2>2, <2>3, <3>1, FramesTyped
    <3> QED BY <1>14, <3>2 DEF FlushFrame, f
  <2> QED BY <1>0, <1>14, <2>5, <2>6, <2>7 DEF TypeOK, FlushFrame, metrics
<1>15. ASSUME NEW t \in Thread, FlushShard(t) PROVE TypeOK'
  <2> DEFINE end == IF call[t].op = "close" THEN "free" ELSE "done"
  <2>1. call[t].shard \in Shard /\ call[t] \in Call /\ end \in Label
    BY <1>0, <1>15, CallFacts DEF FlushShard, InSection, Label
  <2>2. NextShard(t, end)
    BY <1>15 DEF FlushShard
  <2> HIDE DEF end
  <2>3. call' \in [Thread -> Call]
    BY <1>0, <1>15, <2>1, <2>2, NextShardTyped DEF TypeOK, FlushShard, Call
  <2> QED BY <1>0, <1>15, <2>1, <2>2, <2>3, NextShardTyped DEF TypeOK, FlushShard, metrics
<1>16. ASSUME NEW t \in Thread, CountShard(t) PROVE TypeOK'
  <2> DEFINE s == call[t].shard
  <2>1. s \in Shard /\ call[t] \in Call /\ "done" \in Label /\ NextShard(t, "done")
    BY <1>0, <1>16, CallFacts DEF CountShard, InSection, Label
  <2>2. /\ call[t].h + hits[s] \in Nat
        /\ call[t].sum + misses[s] \in Nat /\ call[t].sum + depth_sum[s] \in Nat
    BY <1>0, <2>1 DEF TypeOK, Call
  <2>3. call' \in [Thread -> Call]
    <3>1. s + 1 \in 0 .. NShards
      BY <1>0, <2>1, NextShardTyped
    <3> QED BY <1>0, <1>16, <2>1, <2>2, <3>1 DEF TypeOK, CountShard, Call
  <2> QED BY <1>0, <1>16, <2>1, <2>3, NextShardTyped DEF TypeOK, CountShard, metrics
<1>17. ASSUME NEW t \in Thread, FreeAll(t) PROVE TypeOK'
  <2>1. call' \in [Thread -> Call]
    BY <1>0, <1>17, NoCallType DEF TypeOK, FreeAll
  <2> QED BY <1>0, <1>17, <2>1, AllocTyped DEF TypeOK, FreeAll, Goto, Label
<1>18. ASSUME NEW t \in Thread, Return(t) PROVE TypeOK'
  <2>1. call' \in [Thread -> Call]
    BY <1>0, <1>18, NoCallType DEF TypeOK, Return
  <2> QED BY <1>0, <1>18, <2>1 DEF TypeOK, Return, Goto, shardVars, metrics, Label
<1> QED
  BY NextCases, <1>1, <1>2, <1>3, <1>4, <1>5, <1>6, <1>7, <1>8, <1>9, <1>10, <1>11,
     <1>12, <1>13, <1>14, <1>15, <1>16, <1>17, <1>18

-----------------------------------------------------------------------------
(* A thread changes no call but its own.                                   *)

\* What one thread does leaves the calls of the others alone.
LEMMA OthersKept ==
    ASSUME TypeOK, NEW u \in Thread, Begin(u) \/ Step(u), NEW t \in Thread, t # u
    PROVE  call'[t] = call[t] /\ pc'[t] = pc[t]
<1> USE DEF Goto
<1> DEFINE Kept == call'[t] = call[t] /\ pc'[t] = pc[t]
<1>0. call \in [Thread -> Call] /\ pc \in [Thread -> Label]
  BY DEF TypeOK
<1>1. Lock(u) => Kept
  BY <1>0 DEF Lock
<1>2. HitRead(u) => Kept
  BY <1>0 DEF HitRead, HitStep
<1>3. HitWrite(u) => Kept
  BY <1>0 DEF HitWrite, HitStep
<1>4. Miss(u) => Kept
  BY <1>0 DEF Miss
<1>5. EvictNothing(u) => Kept
  BY <1>0 DEF EvictNothing
<1>6. WriteBack(u) => Kept
  BY <1>0 DEF WriteBack
<1>7. FillWrite(u) => Kept
  BY <1>0 DEF FillWrite, Install
<1>8. FillRead(u) => Kept
  BY <1>0 DEF FillRead, Install
<1>9. FlushFrame(u) => Kept
  BY <1>0 DEF FlushFrame
<1>10. FlushShard(u) => Kept
  BY <1>0 DEF FlushShard, NextShard
<1>11. CountShard(u) => Kept
  BY <1>0 DEF CountShard, NextShard
<1>12. FreeAll(u) => Kept
  BY <1>0 DEF FreeAll
<1>13. Return(u) => Kept
  BY <1>0 DEF Return
<1>14. ASSUME NEW p \in Page, Evict(u, p) PROVE Kept
  BY <1>0, <1>14 DEF Evict
<1>15. ASSUME NEW c, Enter(u, c) PROVE Kept
  BY <1>0, <1>15 DEF Enter
<1>16. pc_close(u) => Kept
  BY <1>0 DEF pc_close
<1>17. Begin(u) => Kept
  BY <1>16, <1>15 DEF Begin, pc_read, pc_write, pc_flush,
                       pc_hit_ratio, pc_avg_depth
<1> QED
  BY <1>1, <1>2, <1>3, <1>4, <1>5, <1>6, <1>7, <1>8, <1>9, <1>10, <1>11, <1>12, <1>13, <1>14, <1>17 DEF Step

\* For a thread, a step is its own or none.
LEMMA ThreadSteps ==
    ASSUME TypeOK, [Next]_vars, NEW t \in Thread
    PROVE  \/ call'[t] = call[t] /\ pc'[t] = pc[t]
           \/ Begin(t)
           \/ Step(t)
<1>1. pc_open \/ UNCHANGED vars => call'[t] = call[t] /\ pc'[t] = pc[t]
  BY DEF pc_open, vars
<1> QED BY <1>1, OthersKept DEF Next

\* access_page leaves the arguments of its call alone, and the metrics' sums.
LEMMA AccessKeepsOp ==
    ASSUME TypeOK, NEW t \in Thread,
           \/ \E p \in Page : Evict(t, p)
           \/ HitRead(t) \/ HitWrite(t) \/ Miss(t) \/ EvictNothing(t)
           \/ WriteBack(t) \/ FillWrite(t) \/ FillRead(t)
    PROVE  /\ call'[t].op = call[t].op /\ call'[t].page = call[t].page
           /\ call'[t].shard = call[t].shard
           /\ call'[t].h = call[t].h /\ call'[t].sum = call[t].sum
<1>0. call \in [Thread -> Call]
  BY DEF TypeOK
<1> DEFINE Kept == /\ call'[t].op = call[t].op /\ call'[t].page = call[t].page
                   /\ call'[t].shard = call[t].shard
                   /\ call'[t].h = call[t].h /\ call'[t].sum = call[t].sum
<1>1. ASSUME NEW p \in Page, Evict(t, p) PROVE Kept
  <2>1. PICK v, f : call' = [call EXCEPT ![t].victim = v, ![t].slot = f]
    BY <1>1 DEF Evict
  <2> QED BY <1>0, <2>1 DEF Call
<1>2. CASE Miss(t)
  <2>1. PICK f : call' = [call EXCEPT ![t].slot = f]
    BY <1>2 DEF Miss
  <2> QED BY <1>0, <2>1 DEF Call
<1>3. CASE HitRead(t)
  <2>1. PICK b : call' = [call EXCEPT ![t].buf = b]
    BY <1>3 DEF HitRead
  <2> QED BY <1>0, <2>1 DEF Call
<1>4. CASE WriteBack(t)
  <2>1. PICK r : call' = [call EXCEPT ![t].rc = r]
    BY <1>4 DEF WriteBack
  <2> QED BY <1>0, <2>1 DEF Call
<1>5. CASE FillRead(t)
  <2>1. PICK b, r : call' = [call EXCEPT ![t].buf = b, ![t].rc = r]
    BY <1>5 DEF FillRead
  <2> QED BY <1>0, <2>1 DEF Call
<1>6. CASE HitWrite(t) \/ EvictNothing(t) \/ FillWrite(t)
  BY <1>6 DEF HitWrite, EvictNothing, FillWrite
<1> QED BY <1>1, <1>2, <1>3, <1>4, <1>5, <1>6

-----------------------------------------------------------------------------
(* Control: where a step goes, and what it does to the mutexes.            *)

\* The labels of access_page's critical section.
Access == {"lookup", "evict", "writeback", "fill", "undefined"}

\* Nothing but the locals of t's call changes in the calls.
SameCall(t) ==
    /\ \A u \in Thread : u # t => call'[u] = call[u]
    /\ call'[t].op = call[t].op
    /\ call'[t].page = call[t].page
    /\ UNCHANGED phase

\* Thread t goes on in its critical section.
Working(t) ==
    /\ SameCall(t)
    /\ call'[t].shard = call[t].shard
    /\ UNCHANGED mu
    /\ \/ pc[t] \in Access /\ \E l \in Access : Goto(t, l)
       \/ pc[t] = "flush" /\ Goto(t, "flush")

\* Thread t unlocks, and returns or goes on to another shard or to freeing.
Leaving(t) ==
    /\ SameCall(t)
    /\ pc[t] \in InSection
    /\ Unlock(call[t].shard)
    /\ \E l \in {"done", "lock", "free"} :
         /\ Goto(t, l)
         /\ l = "lock" => call'[t].shard \in Shard
         /\ l = "free" => call[t].op = "close"
         /\ call[t].op \in {"read", "write"} => call'[t].shard = call[t].shard

\* A failed or successful I/O only sets rc.
LEMMA RcKeepsCall ==
    ASSUME TypeOK, NEW t \in Thread, NEW r,
           call' = [call EXCEPT ![t].rc = r]
    PROVE  /\ \A u \in Thread : u # t => call'[u] = call[u]
           /\ call'[t].op = call[t].op /\ call'[t].page = call[t].page
           /\ call'[t].shard = call[t].shard /\ call'[t].slot = call[t].slot
           /\ call'[t].victim = call[t].victim
BY DEF TypeOK, Call

\* Every step is one of these.
LEMMA Control ==
    ASSUME Inv, [Next]_vars
    PROVE  \/ UNCHANGED vars
           \/ pc_open
           \/ \E t \in Thread :
                \/ pc_close(t)
                \/ \E c \in Arguments : Enter(t, c)
                \/ Lock(t) \/ Working(t) \/ Leaving(t) \/ FreeAll(t) \/ Return(t)
<1>0. TypeOK /\ CallOK
  BY DEF Inv
<1>1. ASSUME NEW t \in Thread, Miss(t) PROVE Working(t)
  <2>1. SameCall(t) /\ call'[t].shard = call[t].shard /\ UNCHANGED mu
    BY <1>0, <1>1 DEF TypeOK, Miss, SameCall, Call
  <2>2. pc[t] = "lookup" /\ (Goto(t, "evict") \/ Goto(t, "fill"))
    BY <1>1 DEF Miss, Goto
  <2> QED BY <2>1, <2>2 DEF Working, Access
<1>2. ASSUME NEW t \in Thread, NEW p \in Page, Evict(t, p) PROVE Working(t)
  <2>1. SameCall(t) /\ call'[t].shard = call[t].shard /\ UNCHANGED mu
    BY <1>0, <1>2 DEF TypeOK, Evict, SameCall, Call
  <2>2. pc[t] = "evict" /\ (Goto(t, "writeback") \/ Goto(t, "fill"))
    BY <1>2 DEF Evict
  <2> QED BY <2>1, <2>2 DEF Working, Access
<1>3. ASSUME NEW t \in Thread, EvictNothing(t) PROVE Working(t)
  <2>1. SameCall(t) /\ call'[t].shard = call[t].shard /\ UNCHANGED mu
    BY <1>3 DEF EvictNothing, SameCall, shardVars
  <2>2. pc[t] = "evict" /\ Goto(t, "undefined")
    BY <1>3 DEF EvictNothing
  <2> QED BY <2>1, <2>2 DEF Working, Access
<1>4. ASSUME NEW t \in Thread, WriteBack(t) PROVE Working(t)
  <2>1. PICK r : call' = [call EXCEPT ![t].rc = r]
    BY <1>4 DEF WriteBack
  <2>2. SameCall(t) /\ call'[t].shard = call[t].shard /\ UNCHANGED mu
    BY <1>0, <1>4, <2>1, RcKeepsCall DEF WriteBack, SameCall
  <2>3. pc[t] = "writeback" /\ Goto(t, "fill")
    BY <1>4 DEF WriteBack
  <2> QED BY <2>2, <2>3 DEF Working, Access
<1>5. ASSUME NEW t \in Thread, FlushFrame(t) PROVE Working(t)
  <2>1. PICK r : call' = [call EXCEPT ![t].rc = r]
    BY <1>5 DEF FlushFrame
  <2>2. SameCall(t) /\ call'[t].shard = call[t].shard /\ UNCHANGED mu
    BY <1>0, <1>5, <2>1, RcKeepsCall DEF FlushFrame, SameCall
  <2>3. pc[t] = "flush" /\ Goto(t, "flush")
    BY <1>0, <1>5 DEF TypeOK, FlushFrame, Goto
  <2> QED BY <2>2, <2>3 DEF Working
<1>6. ASSUME NEW t \in Thread, HitRead(t) PROVE Leaving(t)
  BY <1>0, <1>6 DEF TypeOK, HitRead, HitStep, Leaving, SameCall, InSection, Call
<1>7. ASSUME NEW t \in Thread, HitWrite(t) PROVE Leaving(t)
  BY <1>7 DEF HitWrite, HitStep, Leaving, SameCall, InSection
<1>8. ASSUME NEW t \in Thread, FillWrite(t) PROVE Leaving(t)
  BY <1>8 DEF FillWrite, Install, Leaving, SameCall, InSection
<1>9. ASSUME NEW t \in Thread, FillRead(t) PROVE Leaving(t)
  <2>1. PICK b, r : call' = [call EXCEPT ![t].buf = b, ![t].rc = r]
    BY <1>9 DEF FillRead
  <2>2. /\ \A u \in Thread : u # t => call'[u] = call[u]
        /\ call'[t].op = call[t].op /\ call'[t].page = call[t].page
        /\ call'[t].shard = call[t].shard
    BY <1>0, <2>1 DEF TypeOK, Call
  <2>3. /\ UNCHANGED phase /\ Unlock(call[t].shard) /\ Goto(t, "done") /\ pc[t] = "fill"
    BY <1>9 DEF FillRead, Install
  <2> QED BY <2>2, <2>3 DEF Leaving, SameCall, InSection
<1>10. ASSUME NEW t \in Thread, NEW end \in {"done", "free"}, NextShard(t, end),
              SameCall(t), pc[t] \in {"flush", "count"},
              call'[t].shard = call[t].shard + 1,
              end = "free" => call[t].op = "close"
       PROVE  Leaving(t)
  <2>1. call[t].shard \in Shard /\ call[t].op \notin {"read", "write"}
    BY <1>0, <1>10 DEF CallOK, InSection
  <2>2. call[t].shard + 1 < NShards => call'[t].shard \in Shard
    BY <1>10, <2>1, SizeFacts
  <2> QED BY <1>10, <2>1, <2>2 DEF NextShard, Leaving, InSection
<1>11. ASSUME NEW t \in Thread, FlushShard(t) PROVE Leaving(t)
  <2>1. SameCall(t) /\ call'[t].shard = call[t].shard + 1 /\ pc[t] = "flush"
    BY <1>0, <1>11 DEF TypeOK, FlushShard, SameCall, Call
  <2>2. CASE call[t].op = "close"
    BY <1>10, <1>11, <2>1, <2>2 DEF FlushShard
  <2>3. CASE call[t].op # "close"
    BY <1>10, <1>11, <2>1, <2>3 DEF FlushShard
  <2> QED BY <2>2, <2>3
<1>12. ASSUME NEW t \in Thread, CountShard(t) PROVE Leaving(t)
  <2>1. SameCall(t) /\ call'[t].shard = call[t].shard + 1 /\ pc[t] = "count"
    BY <1>0, <1>12 DEF TypeOK, CountShard, SameCall, Call
  <2> QED BY <1>10, <1>12, <2>1 DEF CountShard
<1> QED
  BY NextCases, <1>1, <1>2, <1>3, <1>4, <1>5, <1>6, <1>7, <1>8, <1>9, <1>11, <1>12

\* What a call is, and where it is, stay in agreement.
LEMMA CallStep == ASSUME Inv, [Next]_vars PROVE CallOK'
<1>0. TypeOK /\ CallOK /\ ClosesAlone
  BY DEF Inv
<1>1. CASE UNCHANGED vars
  BY <1>0, <1>1 DEF CallOK, vars, shardVars, metrics
<1>2. CASE pc_open
  <2>1. \A t \in Thread : pc[t] = "idle"
    BY <1>0, <1>2 DEF CallOK, pc_open
  <2> QED BY <1>0, <1>2, <2>1 DEF CallOK, pc_open
<1>3. ASSUME NEW t \in Thread, pc_close(t) PROVE CallOK'
  <2>1. /\ call'[t].op = "close" /\ call'[t].shard = 0 /\ pc'[t] = "lock"
        /\ \A u \in Thread : u # t => call'[u] = call[u] /\ pc'[u] = "idle"
        /\ phase' = "closing"
    BY <1>0, <1>3 DEF TypeOK, pc_close, Goto, NoCall
  <2>2. 0 \in Shard
    BY SizeFacts
  <2> QED BY <1>0, <1>3, <2>1, <2>2 DEF CallOK, InSection, pc_close
<1>4. ASSUME NEW t \in Thread, NEW c \in Arguments, Enter(t, c) PROVE CallOK'
  <2>1. /\ call'[t] = c /\ pc'[t] = "lock" /\ phase = "open" /\ UNCHANGED phase
        /\ \A u \in Thread : u # t => call'[u] = call[u] /\ pc'[u] = pc[u]
    BY <1>0, <1>4 DEF TypeOK, Enter, Goto
  <2> QED BY <1>0, <2>1 DEF CallOK, Arguments, InSection
<1>5. ASSUME NEW t \in Thread, Lock(t) PROVE CallOK'
  <2>1. /\ pc[t] = "lock" /\ pc'[t] = Section(call[t].op) /\ UNCHANGED <<phase, call>>
        /\ \A u \in Thread : u # t => pc'[u] = pc[u]
    BY <1>0, <1>5 DEF TypeOK, Lock, Goto
  <2>2. call[t].op \in Ops
    BY <1>0 DEF TypeOK, Call
  <2> QED BY <1>0, <2>1, <2>2 DEF CallOK, InSection, Section, Ops
<1>6. ASSUME NEW t \in Thread, Working(t) PROVE CallOK'
  <2>1. CASE pc[t] \in Access
    <3>1. PICK l \in Access : Goto(t, l)
      BY <1>6, <2>1 DEF Working, Access
    <3>2. pc'[t] \in Access /\ \A u \in Thread : u # t => pc'[u] = pc[u]
      BY <1>0, <3>1 DEF TypeOK, Goto
    <3> QED BY <1>0, <1>6, <2>1, <3>2 DEF CallOK, InSection, Working, SameCall, Access
  <2>2. CASE pc[t] = "flush"
    <3>1. pc'[t] = "flush" /\ \A u \in Thread : u # t => pc'[u] = pc[u]
      BY <1>0, <1>6, <2>2 DEF TypeOK, Goto, Working, Access
    <3> QED BY <1>0, <1>6, <2>2, <3>1 DEF CallOK, InSection, Working, SameCall
  <2> QED BY <1>6, <2>1, <2>2 DEF Working
<1>7. ASSUME NEW t \in Thread, Leaving(t) PROVE CallOK'
  <2>1. PICK l \in {"done", "lock", "free"} :
          /\ Goto(t, l)
          /\ l = "lock" => call'[t].shard \in Shard
          /\ l = "free" => call[t].op = "close"
          /\ call[t].op \in {"read", "write"} => call'[t].shard = call[t].shard
    BY <1>7 DEF Leaving
  <2>2. pc'[t] = l /\ \A u \in Thread : u # t => pc'[u] = pc[u]
    BY <1>0, <2>1 DEF TypeOK, Goto
  <2> QED BY <1>0, <1>7, <2>1, <2>2 DEF CallOK, InSection, Leaving, SameCall
<1>8. ASSUME NEW t \in Thread, FreeAll(t) PROVE CallOK'
  <2>1. /\ call'[t].op = "none" /\ pc'[t] = "idle"
        /\ \A u \in Thread : u # t => call'[u] = call[u] /\ pc'[u] = "idle" /\ pc[u] = "idle"
    <3>1. call[t].op = "close"
      BY <1>0, <1>8 DEF FreeAll, CallOK
    <3> QED BY <1>0, <1>8, <3>1 DEF TypeOK, FreeAll, Goto, NoCall, ClosesAlone
  <2> QED BY <1>0, <2>1 DEF CallOK, InSection
<1>9. ASSUME NEW t \in Thread, Return(t) PROVE CallOK'
  <2>1. /\ call'[t].op = "none" /\ pc'[t] = "idle" /\ UNCHANGED phase
        /\ \A u \in Thread : u # t => call'[u] = call[u] /\ pc'[u] = pc[u]
    BY <1>0, <1>9 DEF TypeOK, Return, Goto, NoCall
  <2> QED BY <1>0, <2>1 DEF CallOK, InSection
<1> QED BY Control, <1>1, <1>2, <1>3, <1>4, <1>5, <1>6, <1>7, <1>8, <1>9

\* pc_close goes on running alone.
LEMMA ClosingStep == ASSUME Inv, [Next]_vars PROVE ClosesAlone'
<1>0. TypeOK /\ CallOK /\ ClosesAlone
  BY DEF Inv
<1>1. CASE UNCHANGED vars
  BY <1>0, <1>1 DEF ClosesAlone, vars
<1>2. CASE pc_open
  BY <1>0, <1>2 DEF ClosesAlone, pc_open
<1>3. ASSUME NEW t \in Thread, pc_close(t) PROVE ClosesAlone'
  <2>1. \A u \in Thread : u # t => call'[u].op = "none" /\ pc'[u] = "idle"
    BY <1>0, <1>3 DEF TypeOK, CallOK, pc_close, Goto
  <2> QED BY <2>1 DEF ClosesAlone
<1>4. ASSUME NEW t \in Thread, NEW c \in Arguments, Enter(t, c) PROVE ClosesAlone'
  <2>1. \A u \in Thread : call[u].op # "close"
    BY <1>0, <1>4 DEF CallOK, Enter
  <2>2. \A u \in Thread : call'[u].op # "close"
    BY <1>0, <1>4, <2>1 DEF TypeOK, Enter, Arguments
  <2> QED BY <2>2 DEF ClosesAlone
<1>5. ASSUME NEW t \in Thread, pc[t] # "idle",
             \A u \in Thread : u # t => call'[u] = call[u] /\ pc'[u] = pc[u],
             call'[t].op \in {call[t].op, "none"}
      PROVE  ClosesAlone'
  BY <1>0, <1>5 DEF ClosesAlone
<1>6. ASSUME NEW t \in Thread, Lock(t) PROVE ClosesAlone'
  BY <1>0, <1>5, <1>6 DEF TypeOK, Lock, Goto
<1>7. ASSUME NEW t \in Thread, Working(t) \/ Leaving(t) PROVE ClosesAlone'
  <2>1. SameCall(t) /\ pc[t] # "idle" /\ \E l : Goto(t, l)
    BY <1>7 DEF Working, Leaving, Access, InSection
  <2> QED BY <1>0, <1>5, <2>1 DEF TypeOK, SameCall, Goto
<1>8. ASSUME NEW t \in Thread, FreeAll(t) \/ Return(t) PROVE ClosesAlone'
  BY <1>0, <1>5, <1>8 DEF TypeOK, FreeAll, Return, Goto, NoCall
<1> QED BY Control, <1>1, <1>2, <1>3, <1>4, <1>6, <1>7, <1>8

\* A thread that leaves its section gives its mutex back, and only then.
LEMMA MutexStep == ASSUME Inv, [Next]_vars PROVE OneMutexEach'
<1>0. TypeOK /\ CallOK /\ ClosesAlone /\ OneMutexEach /\ Free \notin Thread
  BY ThreadAssumption DEF Inv
<1>1. CASE UNCHANGED vars
  BY <1>0, <1>1 DEF OneMutexEach, vars, shardVars
<1>2. ASSUME AllocShards, \A u \in Thread : pc'[u] = "idle" PROVE OneMutexEach'
  BY <1>0, <1>2 DEF OneMutexEach, AllocShards, NoMutexHeld, InSection
<1>3. CASE pc_open
  <2>1. \A t \in Thread : pc[t] = "idle"
    BY <1>0, <1>3 DEF CallOK, pc_open
  <2> QED BY <1>2, <1>3, <2>1 DEF pc_open
<1>4. ASSUME NEW t \in Thread, FreeAll(t) PROVE OneMutexEach'
  <2>1. call[t].op = "close"
    BY <1>0, <1>4 DEF FreeAll, CallOK
  <2>2. \A u \in Thread : pc'[u] = "idle"
    BY <1>0, <1>4, <2>1 DEF TypeOK, FreeAll, Goto, ClosesAlone
  <2> QED BY <1>2, <1>4, <2>2 DEF FreeAll
<1>5. ASSUME NEW t \in Thread, pc[t] \notin InSection, pc'[t] \notin InSection,
             UNCHANGED mu,
             \A u \in Thread : u # t => call'[u] = call[u] /\ pc'[u] = pc[u]
      PROVE  OneMutexEach'
  BY <1>0, <1>5 DEF OneMutexEach
<1>6. ASSUME NEW t \in Thread, pc_close(t) PROVE OneMutexEach'
  BY <1>0, <1>5, <1>6 DEF TypeOK, pc_close, Goto, InSection, shardVars
<1>7. ASSUME NEW t \in Thread, NEW c \in Arguments, Enter(t, c) PROVE OneMutexEach'
  BY <1>0, <1>5, <1>7 DEF TypeOK, Enter, Goto, InSection, shardVars
<1>8. ASSUME NEW t \in Thread, Return(t) PROVE OneMutexEach'
  BY <1>0, <1>5, <1>8 DEF TypeOK, Return, Goto, InSection, shardVars
<1>9. ASSUME NEW t \in Thread, Lock(t) PROVE OneMutexEach'
  <2> DEFINE s == call[t].shard
  <2>1. s \in Shard /\ pc[t] = "lock" /\ mu[s] = Free /\ UNCHANGED call
    BY <1>0, <1>9 DEF Lock, CallOK
  <2>2. /\ mu'[s] = t
        /\ \A r \in Shard : r # s => mu'[r] = mu[r]
    BY <1>0, <1>9, <2>1 DEF TypeOK, Lock
  <2>3. pc'[t] \in InSection /\ \A u \in Thread : u # t => pc'[u] = pc[u]
    BY <1>0, <1>9 DEF TypeOK, Lock, Goto, Section, InSection
  <2>4. pc[t] \notin InSection
    BY <2>1 DEF InSection
  <2> QED BY <1>0, <2>1, <2>2, <2>3, <2>4 DEF OneMutexEach
<1>10. ASSUME NEW t \in Thread, Working(t) PROVE OneMutexEach'
  <2>1. pc[t] \in InSection /\ \E l \in InSection : Goto(t, l)
    BY <1>10 DEF Working, Access, InSection
  <2>2. pc'[t] \in InSection /\ \A u \in Thread : u # t => pc'[u] = pc[u]
    BY <1>0, <2>1 DEF TypeOK, Goto
  <2> QED BY <1>0, <1>10, <2>1, <2>2 DEF OneMutexEach, Working, SameCall
<1>11. ASSUME NEW t \in Thread, Leaving(t) PROVE OneMutexEach'
  <2> DEFINE s == call[t].shard
  <2>1. pc[t] \in InSection /\ s \in Shard /\ mu[s] = t
    BY <1>0, <1>11 DEF Leaving, CallOK, OneMutexEach
  <2>2. /\ mu'[s] = Free
        /\ \A r \in Shard : r # s => mu'[r] = mu[r]
    BY <1>0, <1>11, <2>1 DEF TypeOK, Leaving, Unlock
  <2>3. pc'[t] \notin InSection /\ \A u \in Thread : u # t => pc'[u] = pc[u]
    BY <1>0, <1>11 DEF TypeOK, Leaving, Goto, InSection
  <2>4. \A u \in Thread : u # t => call'[u] = call[u]
    BY <1>11 DEF Leaving, SameCall
  <2> QED BY <1>0, <2>1, <2>2, <2>3, <2>4 DEF OneMutexEach
<1> QED BY Control, <1>1, <1>3, <1>4, <1>6, <1>7, <1>8, <1>9, <1>10, <1>11

-----------------------------------------------------------------------------
(* Data: what a step does to the frames and to the index.                  *)

\* No page enters or leaves memory, and no write-back ends.
SamePages ==
    /\ UNCHANGED <<index, used>>
    /\ \A t \in Thread : pc[t] = "writeback" => pc'[t] = pc[t] /\ call'[t] = call[t]
    /\ \A s \in Shard, f \in Slot : /\ frames'[s][f].valid = frames[s][f].valid
                                    /\ frames'[s][f].pageno = frames[s][f].pageno

\* Of the calls, frames and indexes, thread t changes its own call and, inside
\* its critical section, its own shard.
Local(t) ==
    /\ \A u \in Thread : u # t => call'[u] = call[u] /\ pc'[u] = pc[u]
    /\ \A s \in Shard : s # call[t].shard \/ pc[t] \notin InSection =>
           frames'[s] = frames[s] /\ index'[s] = index[s]

\* Two threads are never in the critical sections of one shard.
LEMMA Alone ==
    ASSUME Inv, NEW t \in Thread, NEW u \in Thread,
           pc[t] \in InSection, pc[u] \in InSection, call[t].shard = call[u].shard
    PROVE  t = u
BY DEF Inv, CallOK, OneMutexEach

\* Every step is one of these.
LEMMA Data ==
    ASSUME Inv, [Next]_vars
    PROVE  \/ SamePages
           \/ AllocShards
           \/ \E t \in Thread :
                \/ \E p \in Page : Evict(t, p)
                \/ WriteBack(t)
                \/ /\ pc[t] = "fill" /\ \E b, d : Install(t, b, d)
                   /\ \A u \in Thread : u # t => call'[u] = call[u]
<1>0. TypeOK
  BY DEF Inv
<1>1. ASSUME UNCHANGED <<frames, index, used>>,
             \A t \in Thread : pc[t] = "writeback" => pc'[t] = pc[t] /\ call'[t] = call[t]
      PROVE  SamePages
  BY <1>1 DEF SamePages
<1>2. ASSUME NEW t \in Thread, HitWrite(t) PROVE SamePages
  <2> DEFINE s == call[t].shard
             f == index[s][call[t].page]
             new == [frames[s][f] EXCEPT !.bytes = call[t].buf, !.dirty = TRUE]
  <2>1. s \in Shard /\ f \in Slot
    BY <1>0, <1>2, CallFacts, HitStepTyped DEF Inv, HitWrite, HitStep, InSection
  <2>2. new.valid = frames[s][f].valid /\ new.pageno = frames[s][f].pageno
    BY <1>0, <2>1 DEF TypeOK, Frame
  <2>3. frames' = [frames EXCEPT ![s][f] = new]
    BY <1>2 DEF HitWrite
  <2>4. UNCHANGED <<index, used>>
    BY <1>2 DEF HitWrite, HitStep
  <2>5. \A u \in Thread : pc[u] = "writeback" => pc'[u] = pc[u] /\ call'[u] = call[u]
    BY <1>0, <1>2 DEF TypeOK, HitWrite, HitStep, Goto
  <2> HIDE DEF new, s, f
  <2> QED BY <1>0, <2>1, <2>2, <2>3, <2>4, <2>5 DEF TypeOK, SamePages
<1>3. ASSUME NEW t \in Thread, FlushFrame(t) PROVE SamePages
  <2>1. PICK s, f : frames' = [frames EXCEPT ![s][f].dirty = FALSE]
    BY <1>3 DEF FlushFrame
  <2>2. \A u \in Thread : pc[u] = "writeback" => pc'[u] = pc[u] /\ call'[u] = call[u]
    BY <1>0, <1>3 DEF TypeOK, FlushFrame
  <2>3. UNCHANGED <<index, used>>
    BY <1>3 DEF FlushFrame
  <2> QED BY <1>0, <2>1, <2>2, <2>3 DEF TypeOK, Frame, SamePages
<1>4. ASSUME NEW t \in Thread, FillWrite(t) \/ FillRead(t)
      PROVE  /\ pc[t] = "fill" /\ \E b, d : Install(t, b, d)
             /\ \A u \in Thread : u # t => call'[u] = call[u]
  BY <1>0, <1>4 DEF TypeOK, FillWrite, FillRead
<1>5. UNCHANGED vars => SamePages
  BY DEF SamePages, vars, shardVars
<1>6. ASSUME NEW t \in Thread,
             \/ pc_close(t) \/ (\E c \in Arguments : Enter(t, c)) \/ Lock(t)
             \/ HitRead(t) \/ Miss(t) \/ EvictNothing(t) \/ FlushShard(t)
             \/ CountShard(t) \/ Return(t)
      PROVE  SamePages
  <2>1. UNCHANGED <<frames, index, used>>
    BY <1>6 DEF pc_close, Enter, Lock, HitRead, HitStep, Miss, EvictNothing,
                FlushShard, CountShard, Return, shardVars
  <2>2. /\ \A u \in Thread : u # t => pc'[u] = pc[u] /\ call'[u] = call[u]
        /\ pc[t] # "writeback"
    BY <1>0, <1>6 DEF TypeOK, pc_close, Enter, Lock, HitRead, HitStep, Miss,
              EvictNothing, FlushShard, CountShard, Return, NextShard, Goto
  <2> QED BY <1>1, <2>1, <2>2
<1>7. ASSUME NEW t \in Thread, FreeAll(t) PROVE AllocShards
  BY <1>7 DEF FreeAll
<1>8. pc_open => AllocShards
  BY DEF pc_open
<1> QED BY NextCases, <1>2, <1>3, <1>4, <1>5, <1>6, <1>7, <1>8

\* What evicting a page does: the page leaves the index, its frame the pool at
\* once or after the write-back.
LEMMA EvictEffect ==
    ASSUME Inv, NEW t \in Thread, NEW p \in Page, Evict(t, p)
    PROVE  LET s == call[t].shard
               f == index[s][p]
           IN  /\ s \in Shard /\ f \in Slot /\ f # NotFound
               /\ frames[s][f].valid /\ frames[s][f].pageno = p /\ ShardOf(p) = s
               /\ index' = [index EXCEPT ![s][p] = NotFound]
               /\ \/ frames' = frames /\ used' = used /\ Goto(t, "writeback")
                  \/ Discard(s, f) /\ Goto(t, "fill")
<1>0. TypeOK /\ CallOK /\ IndexSound
  BY DEF Inv
<1>1. call[t].shard \in Shard /\ index[call[t].shard][p] # NotFound
  BY <1>0 DEF Evict, CallOK, InSection
<1>2. index[call[t].shard][p] \in Slot
  BY <1>0, <1>1 DEF TypeOK
<1> QED BY <1>0, <1>1, <1>2 DEF Evict, IndexSound

\* Discarding a frame clears one valid bit and nothing else.
LEMMA DiscardEffect ==
    ASSUME TypeOK, NEW s \in Shard, NEW f \in Slot, Discard(s, f)
    PROVE  /\ ~frames'[s][f].valid
           /\ frames'[s][f].pageno = frames[s][f].pageno
           /\ frames'[s][f].bytes = frames[s][f].bytes
           /\ frames'[s][f].dirty = frames[s][f].dirty
           /\ \A r \in Shard, g \in Slot :
                  r # s \/ g # f => frames'[r][g] = frames[r][g]
           /\ \A r \in Shard : r # s => frames'[r] = frames[r]
BY DEF Discard, TypeOK, Frame

\* Installing a page fills a slot that was free.
LEMMA InstallEffect ==
    ASSUME Inv, NEW t \in Thread, pc[t] = "fill", NEW b, NEW d, Install(t, b, d)
    PROVE  LET s == call[t].shard
               f == call[t].slot
               p == call[t].page
           IN  /\ s \in Shard /\ f \in Slot /\ p \in Page /\ ShardOf(p) = s
               /\ ~frames[s][f].valid /\ index[s][p] = NotFound
               /\ frames'[s][f].pageno = p /\ frames'[s][f].valid
               /\ frames'[s][f].dirty = d /\ frames'[s][f].bytes = b
               /\ \A r \in Shard, g \in Slot :
                      r # s \/ g # f => frames'[r][g] = frames[r][g]
               /\ \A r \in Shard : r # s => frames'[r] = frames[r]
               /\ index' = [index EXCEPT ![s][p] = f] \/ UNCHANGED index
<1>0. TypeOK /\ CallOK /\ MissOK
  BY DEF Inv
<1>1. call[t].shard \in Shard /\ call[t].page \in Page /\ ShardOf(call[t].page) = call[t].shard
  BY <1>0 DEF CallOK, InSection
<1>2. /\ call[t].slot \in Slot /\ ~frames[call[t].shard][call[t].slot].valid
      /\ index[call[t].shard][call[t].page] = NotFound
  BY <1>0 DEF MissOK
<1> QED BY <1>0, <1>1, <1>2 DEF Install, pol_insert, TypeOK

\* Every frame in use goes on holding a page of its shard.
LEMMA FramesStep == ASSUME Inv, [Next]_vars PROVE FramesInShard'
<1>0. TypeOK /\ MissOK /\ FramesInShard
  BY DEF Inv
<1>1. CASE SamePages
  BY <1>0, <1>1 DEF SamePages, FramesInShard
<1>2. CASE AllocShards
  BY <1>2 DEF AllocShards, EmptyFrames, FramesInShard
<1>3. ASSUME NEW s \in Shard, NEW f \in Slot, Discard(s, f) PROVE FramesInShard'
  BY <1>0, <1>3, DiscardEffect DEF FramesInShard
<1>4. ASSUME NEW t \in Thread, NEW p \in Page, Evict(t, p) PROVE FramesInShard'
  <2> DEFINE s == call[t].shard
             f == index[s][p]
  <2>1. s \in Shard /\ f \in Slot /\ (frames' = frames \/ Discard(s, f))
    BY <1>4, EvictEffect
  <2>2. CASE frames' = frames
    BY <1>0, <2>2 DEF FramesInShard
  <2> QED BY <1>3, <2>1, <2>2
<1>5. ASSUME NEW t \in Thread, WriteBack(t) PROVE FramesInShard'
  <2>1. call[t].shard \in Shard /\ call[t].slot \in Slot
    BY <1>0, <1>5 DEF Inv, CallOK, InSection, MissOK, WriteBack
  <2> QED BY <1>3, <1>5, <2>1 DEF WriteBack
<1>6. ASSUME NEW t \in Thread, pc[t] = "fill", NEW b, NEW d, Install(t, b, d)
      PROVE  FramesInShard'
  <2> DEFINE s == call[t].shard
             f == call[t].slot
             p == call[t].page
  <2>1. /\ s \in Shard /\ f \in Slot /\ p \in Page /\ ShardOf(p) = s
        /\ frames'[s][f].pageno = p
        /\ \A r \in Shard, g \in Slot : r # s \/ g # f => frames'[r][g] = frames[r][g]
    BY <1>6, InstallEffect
  <2> HIDE DEF s, f, p
  <2> QED BY <1>0, <2>1 DEF FramesInShard
<1> QED BY Data, <1>1, <1>2, <1>4, <1>5, <1>6

\* What the index answers stays true.
LEMMA IndexStep == ASSUME Inv, [Next]_vars PROVE IndexSound'
<1>0. TypeOK /\ MissOK /\ IndexSound
  BY DEF Inv
<1>1. CASE SamePages
  <2>1. \A s \in Shard, p \in Page :
            index'[s][p] = index[s][p] /\ (index[s][p] # NotFound => index[s][p] \in Slot)
    BY <1>0, <1>1 DEF SamePages, TypeOK
  <2> QED BY <1>0, <1>1, <2>1 DEF SamePages, IndexSound
<1>2. CASE AllocShards
  BY <1>2 DEF AllocShards, EmptyIndex, IndexSound
<1>3. ASSUME NEW t \in Thread, NEW p \in Page, Evict(t, p) PROVE IndexSound'
  <2> DEFINE s == call[t].shard
             f == index[s][p]
  <2>1. /\ s \in Shard /\ f \in Slot /\ frames[s][f].pageno = p
        /\ index' = [index EXCEPT ![s][p] = NotFound]
        /\ frames' = frames \/ Discard(s, f)
    BY <1>3, EvictEffect
  <2>2. \A r \in Shard, q \in Page :
            index'[r][q] # NotFound => /\ index'[r][q] = index[r][q]
                                       /\ index[r][q] \in Slot
                                       /\ r # s \/ index[r][q] # f
    BY <1>0, <2>1 DEF TypeOK, IndexSound
  <2>3. \A r \in Shard, g \in Slot : r # s \/ g # f => frames'[r][g] = frames[r][g]
    BY <1>0, <2>1, DiscardEffect
  <2> HIDE DEF s, f
  <2> QED BY <1>0, <2>2, <2>3 DEF IndexSound
<1>4. ASSUME NEW t \in Thread, WriteBack(t) PROVE IndexSound'
  <2> DEFINE s == call[t].shard
             f == call[t].slot
  <2>1. /\ s \in Shard /\ f \in Slot /\ call[t].victim \in Page
        /\ frames[s][f].pageno = call[t].victim /\ index[s][call[t].victim] = NotFound
        /\ Discard(s, f) /\ UNCHANGED index
    BY <1>0, <1>4 DEF Inv, CallOK, InSection, MissOK, WriteBack
  <2>2. \A r \in Shard, q \in Page :
            index[r][q] # NotFound => index[r][q] \in Slot /\ (r # s \/ index[r][q] # f)
    BY <1>0, <2>1 DEF TypeOK, IndexSound
  <2>3. \A r \in Shard, g \in Slot : r # s \/ g # f => frames'[r][g] = frames[r][g]
    BY <1>0, <2>1, DiscardEffect
  <2> HIDE DEF s, f
  <2> QED BY <1>0, <2>1, <2>2, <2>3 DEF IndexSound
<1>5. ASSUME NEW t \in Thread, pc[t] = "fill", NEW b, NEW d, Install(t, b, d)
      PROVE  IndexSound'
  <2> DEFINE s == call[t].shard
             f == call[t].slot
             p == call[t].page
  <2>1. /\ s \in Shard /\ f \in Slot /\ p \in Page /\ ShardOf(p) = s
        /\ ~frames[s][f].valid
        /\ frames'[s][f].valid /\ frames'[s][f].pageno = p
        /\ \A r \in Shard, g \in Slot : r # s \/ g # f => frames'[r][g] = frames[r][g]
        /\ index' = [index EXCEPT ![s][p] = f] \/ UNCHANGED index
    BY <1>5, InstallEffect
  <2>2. \A r \in Shard, q \in Page :
            index[r][q] # NotFound => index[r][q] \in Slot /\ (r # s \/ index[r][q] # f)
    BY <1>0, <2>1 DEF TypeOK, IndexSound
  <2>3. \A r \in Shard, q \in Page :
            \/ index'[r][q] = index[r][q]
            \/ r = s /\ q = p /\ index'[r][q] = f
    BY <1>0, <2>1 DEF TypeOK
  <2> HIDE DEF s, f, p
  <2> QED BY <1>0, <2>1, <2>2, <2>3 DEF IndexSound
<1> QED BY Data, <1>1, <1>2, <1>3, <1>4, <1>5

\* A step changes only its own thread's call and its own shard, or it opens or
\* frees the whole cache, when nobody is in a call.
LEMMA Locality ==
    ASSUME Inv, [Next]_vars
    PROVE  \/ UNCHANGED vars
           \/ \A t \in Thread : pc'[t] = "idle"
           \/ \E t \in Thread :
                /\ Local(t)
                /\ \/ pc'[t] \notin {"evict", "writeback", "fill"}
                   \/ Miss(t) \/ WriteBack(t) \/ \E p \in Page : Evict(t, p)
<1>0. TypeOK /\ CallOK /\ ClosesAlone
  BY DEF Inv
<1>1. CASE pc_open
  BY <1>0, <1>1 DEF pc_open, CallOK
<1>2. ASSUME NEW t \in Thread, FreeAll(t) PROVE \A u \in Thread : pc'[u] = "idle"
  <2>1. call[t].op = "close"
    BY <1>0, <1>2 DEF FreeAll, CallOK
  <2> QED BY <1>0, <1>2, <2>1 DEF TypeOK, FreeAll, Goto, ClosesAlone
<1>3. ASSUME NEW t \in Thread, UNCHANGED <<frames, index>>,
             \A u \in Thread : u # t => call'[u] = call[u] /\ pc'[u] = pc[u]
      PROVE  Local(t)
  BY <1>3 DEF Local
<1>4. ASSUME NEW t \in Thread, pc_close(t) \/ (\E c \in Arguments : Enter(t, c))
                               \/ Lock(t) \/ Return(t)
      PROVE  Local(t) /\ pc'[t] \notin {"evict", "writeback", "fill"}
  BY <1>0, <1>3, <1>4 DEF TypeOK, pc_close, Enter, Lock, Return, Goto, Section, shardVars
<1>5. ASSUME NEW t \in Thread, Miss(t) PROVE Local(t)
  BY <1>0, <1>3, <1>5 DEF TypeOK, Miss, Goto
<1>6. ASSUME NEW t \in Thread, EvictNothing(t)
      PROVE  Local(t) /\ pc'[t] \notin {"evict", "writeback", "fill"}
  BY <1>0, <1>3, <1>6 DEF TypeOK, EvictNothing, Goto, shardVars
<1>7. ASSUME NEW t \in Thread, NEW p \in Page, Evict(t, p) PROVE Local(t)
  <2> DEFINE s == call[t].shard
             f == index[s][p]
  <2>1. /\ s \in Shard /\ f \in Slot /\ index' = [index EXCEPT ![s][p] = NotFound]
        /\ frames' = frames \/ Discard(s, f)
    BY <1>7, EvictEffect
  <2>2. /\ \A u \in Thread : u # t => call'[u] = call[u] /\ pc'[u] = pc[u]
        /\ pc[t] \in InSection
    BY <1>0, <1>7 DEF TypeOK, Evict, Goto, InSection
  <2>3. \A r \in Shard : r # s => frames'[r] = frames[r] /\ index'[r] = index[r]
    BY <1>0, <2>1, DiscardEffect DEF TypeOK
  <2> QED BY <2>2, <2>3 DEF Local
<1>8. ASSUME NEW t \in Thread, WriteBack(t) PROVE Local(t)
  <2> DEFINE s == call[t].shard
             f == call[t].slot
  <2>1. s \in Shard /\ f \in Slot /\ UNCHANGED index /\ Discard(s, f)
    BY <1>0, <1>8 DEF Inv, CallOK, MissOK, InSection, WriteBack
  <2>2. /\ \A u \in Thread : u # t => call'[u] = call[u] /\ pc'[u] = pc[u]
        /\ pc[t] \in InSection
    BY <1>0, <1>8 DEF TypeOK, WriteBack, Goto, InSection
  <2>3. \A r \in Shard : r # s => frames'[r] = frames[r] /\ index'[r] = index[r]
    BY <1>0, <2>1, DiscardEffect
  <2> QED BY <2>2, <2>3 DEF Local
<1>9. ASSUME NEW t \in Thread, NEW b, NEW d, pc[t] = "fill", Install(t, b, d),
             \A u \in Thread : u # t => call'[u] = call[u]
      PROVE  Local(t) /\ pc'[t] = "done"
  <2>1. /\ \A u \in Thread : u # t => pc'[u] = pc[u]
        /\ pc[t] \in InSection /\ pc'[t] = "done"
    BY <1>0, <1>9 DEF TypeOK, Install, Goto, InSection
  <2>2. call[t].shard \in Shard
    BY <1>0, <2>1 DEF CallOK
  <2>3. \A r \in Shard : r # call[t].shard => frames'[r] = frames[r] /\ index'[r] = index[r]
    BY <1>0, <1>9, <2>2 DEF TypeOK, Install, pol_insert
  <2> QED BY <1>9, <2>1, <2>3 DEF Local
<1>10. ASSUME NEW t \in Thread, FillWrite(t) \/ FillRead(t)
       PROVE  Local(t) /\ pc'[t] = "done"
  <2>1. /\ pc[t] = "fill" /\ \E b, d : Install(t, b, d)
        /\ \A u \in Thread : u # t => call'[u] = call[u]
    BY <1>0, <1>10 DEF TypeOK, FillWrite, FillRead
  <2> QED BY <1>9, <2>1
<1>11. ASSUME NEW t \in Thread, HitRead(t)
       PROVE  Local(t) /\ pc'[t] \notin {"evict", "writeback", "fill"}
  BY <1>0, <1>3, <1>11 DEF TypeOK, HitRead, HitStep, Goto
<1>12. ASSUME NEW t \in Thread, HitWrite(t)
       PROVE  Local(t) /\ pc'[t] \notin {"evict", "writeback", "fill"}
  <2>1. /\ pc[t] \in InSection /\ UNCHANGED <<index, call>>
        /\ \A u \in Thread : u # t => pc'[u] = pc[u]
        /\ pc'[t] = "done"
    BY <1>0, <1>12 DEF TypeOK, HitWrite, HitStep, Goto, InSection
  <2>2. \A r \in Shard : r # call[t].shard => frames'[r] = frames[r]
    BY <1>0, <1>12 DEF TypeOK, HitWrite
  <2> QED BY <2>1, <2>2 DEF Local
<1>13. ASSUME NEW t \in Thread, FlushFrame(t)
       PROVE  Local(t) /\ pc'[t] \notin {"evict", "writeback", "fill"}
  <2>1. /\ pc[t] \in InSection /\ UNCHANGED <<index, pc>> /\ pc[t] = "flush"
        /\ \A u \in Thread : u # t => call'[u] = call[u]
    BY <1>0, <1>13 DEF TypeOK, FlushFrame, InSection
  <2>2. \A r \in Shard : r # call[t].shard => frames'[r] = frames[r]
    BY <1>0, <1>13 DEF TypeOK, FlushFrame
  <2> QED BY <2>1, <2>2 DEF Local
<1>14. ASSUME NEW t \in Thread, FlushShard(t) \/ CountShard(t)
       PROVE  Local(t) /\ pc'[t] \notin {"evict", "writeback", "fill"}
  BY <1>0, <1>3, <1>14 DEF TypeOK, FlushShard, CountShard, NextShard, Goto
<1> QED BY NextCases, <1>1, <1>2, <1>4, <1>5, <1>6, <1>7, <1>8, <1>10, <1>11, <1>12,
           <1>13, <1>14

\* While a miss is served, nobody touches its shard.
LEMMA MissStep == ASSUME Inv, [Next]_vars PROVE MissOK'
<1>0. TypeOK /\ CallOK /\ IndexSound /\ MissOK
  BY DEF Inv
<1>1. CASE UNCHANGED vars
  BY <1>0, <1>1 DEF MissOK, FreeSlots, vars, shardVars
<1>2. CASE \A t \in Thread : pc'[t] = "idle"
  BY <1>2 DEF MissOK
<1>3. ASSUME NEW t \in Thread, Local(t),
             pc'[t] \notin {"evict", "writeback", "fill"}
             \/ Miss(t) \/ WriteBack(t) \/ \E p \in Page : Evict(t, p)
      PROVE  MissOK'
  <2> DEFINE OK(u) ==
        LET c == call[u]
            s == call[u].shard
        IN  /\ pc[u] \in {"evict", "writeback", "fill"} => index[s][c.page] = NotFound
            /\ pc[u] = "evict" => FreeSlots(s) = {}
            /\ pc[u] = "fill" => c.slot \in Slot /\ ~frames[s][c.slot].valid
            /\ pc[u] = "writeback" => /\ c.slot \in Slot /\ c.victim \in Page
                                      /\ frames[s][c.slot].valid
                                      /\ frames[s][c.slot].pageno = c.victim
                                      /\ index[s][c.victim] = NotFound
  <2>1. ASSUME NEW u \in Thread, u # t PROVE OK(u)'
    <3>1. call'[u] = call[u] /\ pc'[u] = pc[u]
      BY <1>3, <2>1 DEF Local
    <3>2. CASE pc[u] \in InSection
      <4>1. call[u].shard \in Shard /\ (call[u].shard # call[t].shard \/ pc[t] \notin InSection)
        BY <1>0, <2>1, <3>2, Alone DEF CallOK
      <4>2. /\ frames'[call[u].shard] = frames[call[u].shard]
            /\ index'[call[u].shard] = index[call[u].shard]
        BY <1>3, <4>1 DEF Local
      <4> QED BY <1>0, <3>1, <4>2 DEF MissOK, FreeSlots
    <3>3. CASE pc[u] \notin InSection
      BY <3>1, <3>3 DEF InSection
    <3> QED BY <3>2, <3>3
  <2>2. CASE pc'[t] \notin {"evict", "writeback", "fill"}
    BY <2>1, <2>2 DEF MissOK
  <2>3. CASE Miss(t)
    <3> DEFINE s == call[t].shard
    <3>1. /\ pc[t] = "lookup" /\ UNCHANGED <<frames, index>>
          /\ index[s][call[t].page] = NotFound
          /\ call'[t].shard = s /\ call'[t].page = call[t].page
          /\ call'[t].slot = find_free(s)
          /\ pc'[t] = IF find_free(s) = NotFound THEN "evict" ELSE "fill"
      BY <1>0, <2>3 DEF TypeOK, Miss, Goto, Call
    <3>2. /\ find_free(s) # NotFound => find_free(s) \in FreeSlots(s)
          /\ find_free(s) = NotFound => FreeSlots(s) = {}
      <4>1. FreeSlots(s) \in SUBSET Slot
        BY DEF FreeSlots
      <4> QED BY <4>1, MinSlot, SlotType DEF find_free
    <3>3. OK(t)'
      <4> HIDE DEF s
      <4> QED BY <3>1, <3>2 DEF FreeSlots, s
    <3> QED BY <2>1, <3>3 DEF MissOK
  <2>4. CASE WriteBack(t)
    <3> DEFINE s == call[t].shard
               f == call[t].slot
    <3>1. /\ s \in Shard /\ f \in Slot /\ UNCHANGED index /\ Discard(s, f)
          /\ index[s][call[t].page] = NotFound
      BY <1>0, <2>4 DEF CallOK, MissOK, InSection, WriteBack
    <3>2. /\ call'[t].shard = s /\ call'[t].page = call[t].page /\ call'[t].slot = f
          /\ pc'[t] = "fill"
      BY <1>0, <2>4, RcKeepsCall DEF TypeOK, WriteBack, Goto
    <3>3. ~frames'[s][f].valid
      BY <1>0, <3>1, DiscardEffect
    <3>4. OK(t)'
      BY <3>1, <3>2, <3>3
    <3> QED BY <2>1, <3>4 DEF MissOK
  <2>5. ASSUME NEW p \in Page, Evict(t, p) PROVE MissOK'
    <3> DEFINE s == call[t].shard
               f == index[s][p]
    <3>1. /\ s \in Shard /\ f \in Slot
          /\ frames[s][f].valid /\ frames[s][f].pageno = p
          /\ index' = [index EXCEPT ![s][p] = NotFound]
          /\ \/ frames' = frames /\ Goto(t, "writeback")
             \/ Discard(s, f) /\ Goto(t, "fill")
      BY <2>5, EvictEffect
    <3>2. /\ call'[t].shard = s /\ call'[t].page = call[t].page
          /\ call'[t].slot = f /\ call'[t].victim = p /\ pc[t] = "evict"
      BY <1>0, <2>5 DEF TypeOK, Evict, Call
    <3>3. index'[s][p] = NotFound /\ index'[s][call[t].page] = NotFound
      BY <1>0, <3>1, <3>2 DEF TypeOK, MissOK
    <3>4. \/ frames' = frames /\ pc'[t] = "writeback"
          \/ ~frames'[s][f].valid /\ pc'[t] = "fill"
      BY <1>0, <3>1, DiscardEffect DEF TypeOK, Goto
    <3>5. OK(t)'
      <4> HIDE DEF s, f
      <4> QED BY <3>1, <3>2, <3>3, <3>4
    <3> QED BY <2>1, <3>5 DEF MissOK
  <2> QED BY <1>3, <2>2, <2>3, <2>4, <2>5
<1> QED BY Locality, <1>1, <1>2, <1>3

-----------------------------------------------------------------------------
(* Theorems that hold whatever fails.                                      *)

\* The invariant holds at the start.
LEMMA InvInit == Init => Inv
<1> SUFFICES ASSUME Init PROVE Inv
  OBVIOUS
<1>1. TypeOK
  BY AllocTyped, NoCallType, SizeFacts DEF Init, TypeOK, Bytes, Label
<1>2. \A t \in Thread : pc[t] = "idle" /\ call[t] = NoCall
  BY DEF Init
<1>3. CallOK /\ ClosesAlone /\ MissOK
  BY <1>2 DEF CallOK, ClosesAlone, MissOK, NoCall, InSection
<1>4. OneMutexEach
  BY <1>2, ThreadAssumption DEF OneMutexEach, Init, NoMutexHeld, InSection
<1>5. FramesInShard
  BY DEF FramesInShard, Init, EmptyFrames
<1>6. IndexSound
  BY DEF IndexSound, Init, EmptyIndex
<1> QED BY <1>1, <1>3, <1>4, <1>5, <1>6 DEF Inv

\* The inductive invariant holds in every reachable state.
THEOREM Invariance == Spec => []Inv
<1>1. Inv /\ [Next]_vars => Inv'
  BY TypeStep, CallStep, ClosingStep, MutexStep, FramesStep, IndexStep, MissStep DEF Inv
<1> QED BY InvInit, <1>1, PTL DEF Spec

\* The variables keep their types, whatever I/O and allocation answer.
THEOREM TypeCorrect == Spec => []TypeOK
<1>1. Inv => TypeOK
  BY DEF Inv
<1> QED BY Invariance, <1>1, PTL

\* A thread in a critical section holds that shard's mutex and no other.
THEOREM MutualExclusion == Spec => []OneMutexEach
<1>1. Inv => OneMutexEach
  BY DEF Inv
<1> QED BY Invariance, <1>1, PTL

\* The index never answers a frame that does not hold the page.
THEOREM IndexSoundness == Spec => []IndexSound
<1>1. Inv => IndexSound
  BY DEF Inv
<1> QED BY Invariance, <1>1, PTL

\* No two threads transfer the same block at the same time.
THEOREM IoExclusion == Spec => []IoExclusive
<1>1. ASSUME Inv, NEW t \in Thread, NEW p \in IoPages(t)
      PROVE  pc[t] \in InSection /\ call[t].shard = ShardOf(p)
  <2>0. CallOK /\ MissOK /\ FramesInShard
    BY <1>1 DEF Inv
  <2>1. CASE pc[t] = "writeback"
    <3>1. p = call[t].victim /\ call[t].shard \in Shard /\ call[t].slot \in Slot
      BY <1>1, <2>0, <2>1 DEF IoPages, CallOK, MissOK, InSection
    <3> QED BY <2>0, <2>1, <3>1 DEF MissOK, FramesInShard, InSection
  <2>2. CASE pc[t] = "fill"
    BY <1>1, <2>0, <2>2 DEF IoPages, CallOK, InSection
  <2>3. CASE pc[t] = "flush"
    <3> DEFINE f == Min(DirtySlots(call[t].shard))
    <3>1. DirtySlots(call[t].shard) # {} /\ p = frames[call[t].shard][f].pageno
      BY <1>1, <2>3 DEF IoPages
    <3>2. f \in Slot /\ frames[call[t].shard][f].valid /\ call[t].shard \in Shard
      BY <2>0, <2>3, <3>1, FlushSlotType DEF DirtySlots, CallOK, InSection
    <3> HIDE DEF f
    <3> QED BY <2>0, <2>3, <3>1, <3>2 DEF FramesInShard, InSection
  <2> QED BY <1>1, <2>1, <2>2, <2>3 DEF IoPages
<1>2. Inv => IoExclusive
  BY <1>1, Alone DEF IoExclusive
<1> QED BY Invariance, <1>2, PTL

-----------------------------------------------------------------------------
(* The pool of frames, on top of the inductive invariant: the counter used *)
(* counts the valid frames, whatever fails; when no calloc fails every     *)
(* valid frame can be found, so that a full shard always has a victim; and *)
(* when nothing fails a page that is not marked dirty is on disk.          *)

-----------------------------------------------------------------------------
(* The counter.                                                            *)

ValidSlots(s) == {f \in Slot : frames[s][f].valid}

\* A shard has finitely many frames in use.
LEMMA ValidSlotsFinite ==
    ASSUME NEW s
    PROVE  IsFiniteSet(ValidSlots(s)) /\ Cardinality(ValidSlots(s)) \in Nat
<1>1. IsFiniteSet(Slot)
  BY FS_Interval, PerShardType DEF Slot
<1>2. ValidSlots(s) \subseteq Slot
  BY DEF ValidSlots
<1> QED BY <1>1, <1>2, FS_Subset, FS_CardinalityType

\* Discarding a frame in use takes it off the counter.
LEMMA DiscardCounts ==
    ASSUME TypeOK, UsedCountsValid, NEW s \in Shard, NEW f \in Slot,
           frames[s][f].valid, Discard(s, f)
    PROVE  UsedCountsValid'
<1>1. /\ ~frames'[s][f].valid
      /\ \A r \in Shard, g \in Slot : r # s \/ g # f => frames'[r][g] = frames[r][g]
  BY DiscardEffect
<1>2. ValidSlots(s)' = ValidSlots(s) \ {f}
  BY <1>1 DEF ValidSlots
<1>3. \A r \in Shard : r # s => ValidSlots(r)' = ValidSlots(r)
  BY <1>1 DEF ValidSlots
<1>4. Cardinality(ValidSlots(s)') = Cardinality(ValidSlots(s)) - 1
  <2>1. f \in ValidSlots(s)
    BY DEF ValidSlots
  <2> QED BY <1>2, <2>1, ValidSlotsFinite, FS_RemoveElement
<1>5. \A r \in Shard : used[r] = Cardinality(ValidSlots(r))
  BY DEF UsedCountsValid, ValidSlots
<1>6. used' = [used EXCEPT ![s] = used[s] - 1]
  BY DEF Discard
<1>7. \A r \in Shard : used'[r] = Cardinality(ValidSlots(r)')
  BY <1>3, <1>4, <1>5, <1>6 DEF TypeOK
<1> QED BY <1>7 DEF UsedCountsValid, ValidSlots

\* Every step keeps the counter exact.
LEMMA CounterStep ==
    ASSUME Inv, UsedCountsValid, [Next]_vars
    PROVE  UsedCountsValid'
<1>0. TypeOK /\ CallOK /\ MissOK
  BY DEF Inv
<1>1. CASE SamePages
  <2>1. \A r \in Shard : ValidSlots(r)' = ValidSlots(r)
    BY <1>1 DEF SamePages, ValidSlots
  <2>2. \A r \in Shard : used'[r] = Cardinality(ValidSlots(r)')
    BY <1>1, <2>1 DEF SamePages, UsedCountsValid, ValidSlots
  <2> QED BY <2>2 DEF UsedCountsValid, ValidSlots
<1>2. CASE AllocShards
  <2>1. \A r \in Shard : ValidSlots(r)' = {} /\ used'[r] = 0
    BY <1>2 DEF AllocShards, ValidSlots, EmptyFrames, Zeroes
  <2>2. \A r \in Shard : used'[r] = Cardinality(ValidSlots(r)')
    BY <2>1, FS_EmptySet
  <2> QED BY <2>2 DEF UsedCountsValid, ValidSlots
<1>3. ASSUME NEW t \in Thread, NEW p \in Page, Evict(t, p) PROVE UsedCountsValid'
  <2> DEFINE s == call[t].shard
             f == index[s][p]
  <2>1. /\ s \in Shard /\ f \in Slot /\ frames[s][f].valid
        /\ (frames' = frames /\ used' = used) \/ Discard(s, f)
    BY <1>3, EvictEffect
  <2>2. CASE frames' = frames /\ used' = used
    BY <2>2 DEF UsedCountsValid
  <2> QED BY <1>0, <2>1, <2>2, DiscardCounts
<1>4. ASSUME NEW t \in Thread, WriteBack(t) PROVE UsedCountsValid'
  <2>1. /\ call[t].shard \in Shard /\ call[t].slot \in Slot
        /\ frames[call[t].shard][call[t].slot].valid
        /\ Discard(call[t].shard, call[t].slot)
    BY <1>0, <1>4 DEF CallOK, InSection, MissOK, WriteBack
  <2> QED BY <1>0, <2>1, DiscardCounts
<1>5. ASSUME NEW t \in Thread, pc[t] = "fill", NEW b, NEW d, Install(t, b, d)
      PROVE  UsedCountsValid'
  <2>1. PICK s \in Shard, f \in Slot :
          /\ s = call[t].shard
          /\ ~frames[s][f].valid /\ frames'[s][f].valid
          /\ \A r \in Shard, g \in Slot : r # s \/ g # f => frames'[r][g] = frames[r][g]
    <3> DEFINE s0 == call[t].shard
               f0 == call[t].slot
    <3>1. /\ s0 \in Shard /\ f0 \in Slot
          /\ ~frames[s0][f0].valid /\ frames'[s0][f0].valid
          /\ \A r \in Shard, g \in Slot : r # s0 \/ g # f0 => frames'[r][g] = frames[r][g]
      BY <1>5, InstallEffect
    <3> HIDE DEF f0
    <3> QED BY <3>1
  <2>2. used' = [used EXCEPT ![s] = used[s] + 1]
    BY <1>5, <2>1 DEF Install
  <2>3. ValidSlots(s)' = ValidSlots(s) \cup {f}
    BY <2>1 DEF ValidSlots
  <2>4. \A r \in Shard : r # s => ValidSlots(r)' = ValidSlots(r)
    BY <2>1 DEF ValidSlots
  <2>5. Cardinality(ValidSlots(s)') = Cardinality(ValidSlots(s)) + 1
    <3>1. f \notin ValidSlots(s)
      BY <2>1 DEF ValidSlots
    <3> QED BY <2>3, <3>1, ValidSlotsFinite, FS_AddElement
  <2>6. \A r \in Shard : used[r] = Cardinality(ValidSlots(r))
    BY DEF UsedCountsValid, ValidSlots
  <2>7. \A r \in Shard : used'[r] = Cardinality(ValidSlots(r)')
    BY <1>0, <2>1, <2>2, <2>4, <2>5, <2>6 DEF TypeOK
  <2> QED BY <2>7 DEF UsedCountsValid, ValidSlots
<1> QED BY Data, <1>1, <1>2, <1>3, <1>4, <1>5

\* s->used counts the frames in use and never wraps below zero, whatever I/O
\* and allocation answer.
THEOREM UsedIsExact == Spec => []UsedCountsValid
<1>1. Init => UsedCountsValid
  <2> SUFFICES ASSUME Init PROVE UsedCountsValid
    OBVIOUS
  <2>1. \A s \in Shard : {f \in Slot : frames[s][f].valid} = {} /\ used[s] = 0
    BY DEF Init, EmptyFrames, Zeroes
  <2> QED BY <2>1, FS_EmptySet DEF UsedCountsValid
<1>2. Inv /\ UsedCountsValid /\ [Next]_vars => UsedCountsValid'
  BY CounterStep
<1> QED BY Invariance, <1>1, <1>2, PTL DEF Spec

-----------------------------------------------------------------------------
(* The pool, when calloc does not fail.                                    *)

\* Every step leaves each frame in use indexed, or in the hands of its writer.
LEMMA PoolStep ==
    ASSUME "alloc" \notin Faults, Inv, PoolIndexed, [Next]_vars
    PROVE  PoolIndexed'
<1> DEFINE Indexed(r, g) ==
             \E q \in Page : q = frames[r][g].pageno /\ index[r][q] = g
           Evicted(r, g) ==
             \E u \in Thread : /\ pc[u] = "writeback"
                               /\ call[u].shard = r /\ call[u].slot = g
<1>0. TypeOK /\ CallOK /\ MissOK /\ IndexSound
  BY DEF Inv
<1>1. \A r \in Shard, g \in Slot : frames[r][g].valid => Indexed(r, g) \/ Evicted(r, g)
  BY DEF PoolIndexed
<1>2. SUFFICES ASSUME NEW r \in Shard, NEW g \in Slot, frames'[r][g].valid
               PROVE  Indexed(r, g)' \/ Evicted(r, g)'
  BY DEF PoolIndexed
<1>3. CASE SamePages
  BY <1>1, <1>2, <1>3 DEF SamePages
<1>4. CASE AllocShards
  BY <1>2, <1>4 DEF AllocShards, EmptyFrames
<1>5. ASSUME NEW t \in Thread, NEW p \in Page, Evict(t, p)
      PROVE  Indexed(r, g)' \/ Evicted(r, g)'
  <2> DEFINE s == call[t].shard
             f == index[s][p]
  <2>1. /\ s \in Shard /\ f \in Slot
        /\ index' = [index EXCEPT ![s][p] = NotFound]
        /\ (frames' = frames /\ Goto(t, "writeback")) \/ Discard(s, f)
    BY <1>5, EvictEffect
  <2>2. /\ \A u \in Thread : u # t => pc'[u] = pc[u] /\ call'[u] = call[u]
        /\ call'[t].shard = s /\ call'[t].slot = f /\ pc[t] = "evict"
    BY <1>0, <1>5 DEF TypeOK, Evict, Goto, Call
  <2>3. /\ frames[r][g].valid /\ frames'[r][g].pageno = frames[r][g].pageno
        /\ (frames' = frames /\ Goto(t, "writeback")) \/ r # s \/ g # f
    BY <1>0, <1>2, <2>1, DiscardEffect
  <2>4. CASE Evicted(r, g)
    BY <2>2, <2>4
  <2>5. CASE Indexed(r, g)
    <3>1. PICK q \in Page : q = frames[r][g].pageno /\ index[r][q] = g
      BY <2>5
    <3>2. CASE r = s /\ q = p
      <4>1. frames' = frames /\ Goto(t, "writeback") /\ g = f
        BY <2>3, <3>1, <3>2
      <4> QED BY <1>0, <2>2, <3>2, <4>1 DEF Goto, TypeOK
    <3>3. CASE r # s \/ q # p
      <4>1. index'[r][q] = g
        BY <1>0, <2>1, <3>1, <3>3 DEF TypeOK
      <4> QED BY <2>3, <3>1, <4>1
    <3> QED BY <3>2, <3>3
  <2> QED BY <1>1, <2>3, <2>4, <2>5
<1>6. ASSUME NEW t \in Thread, WriteBack(t)
      PROVE  Indexed(r, g)' \/ Evicted(r, g)'
  <2> DEFINE s == call[t].shard
             f == call[t].slot
  <2>1. s \in Shard /\ f \in Slot /\ UNCHANGED index /\ Discard(s, f)
    BY <1>0, <1>6 DEF CallOK, MissOK, InSection, WriteBack
  <2>2. \A u \in Thread : u # t => pc'[u] = pc[u] /\ call'[u] = call[u]
    BY <1>0, <1>6 DEF TypeOK, WriteBack, Goto
  <2>3. /\ frames[r][g].valid /\ frames'[r][g].pageno = frames[r][g].pageno
        /\ r # s \/ g # f
    BY <1>0, <1>2, <2>1, DiscardEffect
  <2> QED BY <1>1, <2>1, <2>2, <2>3
<1>7. ASSUME NEW t \in Thread, pc[t] = "fill", NEW b, NEW d, Install(t, b, d),
             \A u \in Thread : u # t => call'[u] = call[u]
      PROVE  Indexed(r, g)' \/ Evicted(r, g)'
  <2> DEFINE s == call[t].shard
             f == call[t].slot
             p == call[t].page
  <2>1. Install(t, b, d)
    BY <1>7
  <2>2. pc[t] = "fill" /\ \A u \in Thread : u # t => pc'[u] = pc[u] /\ call'[u] = call[u]
    BY <1>0, <1>7 DEF TypeOK, Install, Goto
  <2>3. /\ s \in Shard /\ f \in Slot /\ p \in Page /\ index[s][p] = NotFound
        /\ frames'[s][f].pageno = p
        /\ \A q \in Shard, h \in Slot : q # s \/ h # f => frames'[q][h] = frames[q][h]
    BY <2>1, <2>2, InstallEffect
  <2>4. index' = [index EXCEPT ![s][p] = f]
    BY <2>1 DEF Install, pol_insert
  <2> HIDE DEF s, f, p
  <2>5. CASE r = s /\ g = f
    BY <1>0, <2>3, <2>4, <2>5 DEF TypeOK
  <2>6. CASE r # s \/ g # f
    <3>1. frames'[r][g] = frames[r][g] /\ frames[r][g].valid
      BY <1>2, <2>3, <2>6
    <3>2. CASE Evicted(r, g)
      BY <2>2, <3>2
    <3>3. CASE Indexed(r, g)
      <4>1. PICK q \in Page : q = frames[r][g].pageno /\ index[r][q] = g
        BY <3>3
      <4>2. r # s \/ q # p
        BY <2>3, <4>1, SlotType
      <4>3. index'[r][q] = g
        BY <1>0, <2>3, <2>4, <4>1, <4>2 DEF TypeOK
      <4> QED BY <3>1, <4>1, <4>3
    <3> QED BY <1>1, <3>1, <3>2, <3>3
  <2> QED BY <2>5, <2>6
<1> QED BY Data, <1>3, <1>4, <1>5, <1>6, <1>7

\* A shard that must evict has a page to evict.
LEMMA VictimExists ==
    ASSUME Inv, PoolIndexed, NEW t \in Thread, pc[t] = "evict"
    PROVE  \E p \in Page : index[call[t].shard][p] # NotFound
<1> DEFINE s == call[t].shard
<1>1. s \in Shard /\ FreeSlots(s) = {}
  BY DEF Inv, CallOK, MissOK, InSection
<1>2. 0 \in Slot /\ frames[s][0].valid
  BY <1>1, SlotType DEF FreeSlots
<1>3. \A u \in Thread : pc[u] = "writeback" => call[u].shard # s
  BY Alone DEF InSection
<1>4. PICK p \in Page : index[s][p] = 0
  BY <1>1, <1>2, <1>3 DEF PoolIndexed
<1> QED BY <1>4, SlotType

\* No step finds an empty index when it evicts.
LEMMA DefinedStep ==
    ASSUME Inv, PoolIndexed, NeverUndefined, [Next]_vars
    PROVE  NeverUndefined'
<1>0. TypeOK /\ \A t \in Thread : pc[t] # "undefined"
  BY DEF Inv, NeverUndefined
<1>1. \A t \in Thread : ~EvictNothing(t)
  BY VictimExists DEF EvictNothing
<1>2. CASE UNCHANGED vars \/ pc_open
  BY <1>0, <1>2 DEF vars, pc_open, NeverUndefined
<1>3. ASSUME NEW t \in Thread, NEW label, label # "undefined", Goto(t, label)
      PROVE  NeverUndefined'
  BY <1>0, <1>3 DEF Goto, TypeOK, NeverUndefined
<1>4. ASSUME NEW t \in Thread,
             \/ pc_close(t)
             \/ \E c \in Arguments : Enter(t, c)
             \/ \E p \in Page : Evict(t, p)
             \/ Lock(t) \/ HitRead(t) \/ HitWrite(t) \/ Miss(t)
             \/ WriteBack(t) \/ FillWrite(t) \/ FillRead(t)
             \/ FlushShard(t) \/ CountShard(t) \/ FreeAll(t) \/ Return(t)
      PROVE  \E label : label # "undefined" /\ Goto(t, label)
  BY <1>4 DEF pc_close, Enter, Evict, Lock, Section, HitRead, HitWrite, HitStep, Miss,
       WriteBack, FillWrite, FillRead, Install, FlushShard, CountShard, NextShard,
       FreeAll, Return
<1>5. ASSUME NEW t \in Thread, FlushFrame(t) PROVE NeverUndefined'
  BY <1>0, <1>5 DEF FlushFrame, NeverUndefined
<1> QED BY NextCases, <1>1, <1>2, <1>3, <1>4, <1>5

\* When calloc does not fail, every frame in use can be found through the index
\* or is being written back: no frame leaks, no page is in two frames.
THEOREM PoolIsIndexed ==
    ASSUME "alloc" \notin Faults
    PROVE  Spec => []PoolIndexed
<1>1. Init => PoolIndexed
  BY DEF Init, EmptyFrames, PoolIndexed
<1>2. Inv /\ PoolIndexed /\ [Next]_vars => PoolIndexed'
  BY PoolStep
<1> QED BY Invariance, <1>1, <1>2, PTL DEF Spec

\* When calloc does not fail, access_page never reads frames[-1].
THEOREM VictimAlwaysFound ==
    ASSUME "alloc" \notin Faults
    PROVE  Spec => []NeverUndefined
<1>1. Init => NeverUndefined
  BY DEF Init, NeverUndefined
<1>2. Inv /\ PoolIndexed /\ NeverUndefined /\ [Next]_vars => NeverUndefined'
  BY DefinedStep
<1> QED BY Invariance, PoolIsIndexed, <1>1, <1>2, PTL DEF Spec

-----------------------------------------------------------------------------
(* The pool and the file, when nothing fails.                              *)

\* A page is in one frame.
LEMMA OneFramePerPage ==
    ASSUME Inv, PoolIndexed, NEW s \in Shard, NEW r \in Shard, NEW f \in Slot, NEW g \in Slot,
           frames[s][f].valid, frames[r][g].valid,
           frames[s][f].pageno = frames[r][g].pageno
    PROVE  s = r /\ f = g
<1>0. MissOK /\ FramesInShard
  BY DEF Inv
<1>1. s = r
  BY <1>0 DEF FramesInShard
<1> DEFINE p == frames[s][f].pageno
           Evicted(h) == \E t \in Thread : pc[t] = "writeback" /\ call[t].shard = s
                                                              /\ call[t].slot = h
<1>2. \A h \in {f, g} : index[s][p] = h \/ Evicted(h)
  BY <1>1 DEF PoolIndexed
<1>3. \A h \in {f, g} : Evicted(h) => index[s][p] = NotFound
  BY <1>0, <1>1 DEF MissOK
<1>4. Evicted(f) /\ Evicted(g) => f = g
  BY Alone DEF InSection
<1> HIDE DEF p, Evicted
<1> QED BY <1>1, <1>2, <1>3, <1>4, SlotType

Clean(s, f) == frames[s][f].valid /\ ~frames[s][f].dirty

OnDisk(s, f) ==
    frames[s][f].pageno \in Page /\ frames[s][f].bytes = disk[frames[s][f].pageno]

\* A step that does not touch the file, and makes no frame clean, keeps the
\* clean frames equal to it.
LEMMA SameFile ==
    ASSUME CleanMatchesDisk, UNCHANGED disk,
           \A s \in Shard, f \in Slot :
              Clean(s, f)' => /\ Clean(s, f)
                              /\ frames'[s][f].pageno = frames[s][f].pageno
                              /\ frames'[s][f].bytes = frames[s][f].bytes
    PROVE  CleanMatchesDisk'
BY DEF CleanMatchesDisk, Clean

\* A frame's block is written to its page's place; no other frame holds it.
LEMMA FrameWritten ==
    ASSUME Inv, PoolIndexed, CleanMatchesDisk, NEW s \in Shard, NEW f \in Slot,
           frames[s][f].valid,
           disk' = [disk EXCEPT ![frames[s][f].pageno] = frames[s][f].bytes],
           frames'[s][f].pageno = frames[s][f].pageno,
           frames'[s][f].bytes = frames[s][f].bytes,
           \A r \in Shard, g \in Slot : r # s \/ g # f => frames'[r][g] = frames[r][g]
    PROVE  CleanMatchesDisk'
<1>0. TypeOK /\ FramesInShard
  BY DEF Inv
<1> SUFFICES ASSUME NEW r \in Shard, NEW g \in Slot, Clean(r, g)'
             PROVE  OnDisk(r, g)'
  BY DEF CleanMatchesDisk, Clean, OnDisk
<1>1. frames[s][f].pageno \in Page
  BY <1>0 DEF FramesInShard
<1>2. CASE r = s /\ g = f
  BY <1>0, <1>1, <1>2 DEF TypeOK, OnDisk
<1>3. CASE r # s \/ g # f
  <2>1. Clean(r, g) /\ frames'[r][g] = frames[r][g]
    BY <1>3 DEF Clean
  <2>2. OnDisk(r, g)
    BY <2>1 DEF CleanMatchesDisk, Clean, OnDisk
  <2>3. frames[r][g].pageno # frames[s][f].pageno
    BY <1>3, <2>1, OneFramePerPage DEF Clean
  <2>4. disk'[frames[r][g].pageno] = disk[frames[r][g].pageno]
    BY <1>0, <2>2, <2>3 DEF TypeOK, OnDisk
  <2> QED BY <2>1, <2>2, <2>4 DEF OnDisk
<1> QED BY <1>2, <1>3

\* Every step keeps the clean frames equal to the file.
LEMMA CleanStep ==
    ASSUME Faults = {}, Inv, PoolIndexed, CleanMatchesDisk, [Next]_vars
    PROVE  CleanMatchesDisk'
<1>0. TypeOK /\ CallOK /\ MissOK
  BY DEF Inv
<1>1. UNCHANGED <<disk, frames>> => CleanMatchesDisk'
  BY DEF CleanMatchesDisk
<1>2. ASSUME NEW t \in Thread,
             \/ pc_close(t) \/ (\E c \in Arguments : Enter(t, c)) \/ Lock(t)
             \/ HitRead(t) \/ Miss(t) \/ EvictNothing(t) \/ FlushShard(t)
             \/ CountShard(t) \/ Return(t)
      PROVE  UNCHANGED <<disk, frames>>
  BY <1>2 DEF pc_close, Enter, Lock, HitRead, HitStep, Miss, EvictNothing,
              FlushShard, CountShard, Return, shardVars
<1>3. UNCHANGED vars => UNCHANGED <<disk, frames>>
  BY DEF vars, shardVars
<1>4. AllocShards => CleanMatchesDisk'
  BY DEF AllocShards, EmptyFrames, CleanMatchesDisk
<1>5. pc_open \/ (\E t \in Thread : FreeAll(t)) => AllocShards
  BY DEF pc_open, FreeAll
<1>6. ASSUME NEW s \in Shard, NEW f \in Slot, Discard(s, f), UNCHANGED disk
      PROVE  CleanMatchesDisk'
  BY <1>0, <1>6, DiscardEffect, SameFile DEF Clean
<1>7. ASSUME NEW t \in Thread, NEW p \in Page, Evict(t, p) PROVE CleanMatchesDisk'
  <2>1. /\ call[t].shard \in Shard /\ index[call[t].shard][p] \in Slot
        /\ frames' = frames \/ Discard(call[t].shard, index[call[t].shard][p])
    BY <1>7, EvictEffect
  <2>2. UNCHANGED disk
    BY <1>7 DEF Evict
  <2> QED BY <1>1, <1>6, <2>1, <2>2
<1>8. ASSUME NEW t \in Thread, HitWrite(t) PROVE CleanMatchesDisk'
  <2> DEFINE s == call[t].shard
             f == index[s][call[t].page]
             new == [frames[s][f] EXCEPT !.bytes = call[t].buf, !.dirty = TRUE]
  <2>1. s \in Shard /\ f \in Slot
    BY <1>0, <1>8, CallFacts, HitStepTyped DEF HitWrite, HitStep, InSection
  <2>2. new.dirty = TRUE
    BY <1>0, <2>1 DEF TypeOK, Frame
  <2>3. frames' = [frames EXCEPT ![s][f] = new] /\ UNCHANGED disk
    BY <1>8 DEF HitWrite, HitStep
  <2>4. /\ frames'[s][f].dirty = TRUE
        /\ \A r \in Shard, g \in Slot : r # s \/ g # f => frames'[r][g] = frames[r][g]
    <3> HIDE DEF new, s, f
    <3> QED BY <1>0, <2>1, <2>2, <2>3 DEF TypeOK
  <2> HIDE DEF new, s, f
  <2> QED BY <2>3, <2>4, SameFile DEF Clean
<1>9. ASSUME NEW p, NEW b, NEW ok \in BOOLEAN, disk_write_block(p, b, ok)
      PROVE  disk' = [disk EXCEPT ![p] = b]
  BY <1>9 DEF disk_write_block
<1>10. ASSUME NEW t \in Thread, WriteBack(t) PROVE CleanMatchesDisk'
  <2> DEFINE s == call[t].shard
             f == call[t].slot
  <2>1. /\ s \in Shard /\ f \in Slot /\ frames[s][f].valid
        /\ frames[s][f].pageno = call[t].victim /\ Discard(s, f)
    BY <1>0, <1>10 DEF CallOK, MissOK, InSection, WriteBack
  <2>2. disk' = [disk EXCEPT ![frames[s][f].pageno] = frames[s][f].bytes]
    BY <1>9, <1>10, <2>1 DEF WriteBack
  <2> QED BY <1>0, <2>1, <2>2, DiscardEffect, FrameWritten
<1>11. ASSUME NEW t \in Thread, FlushFrame(t) PROVE CleanMatchesDisk'
  <2> DEFINE s == call[t].shard
             f == Min(DirtySlots(s))
  <2>1. s \in Shard /\ f \in Slot /\ frames[s][f].valid
    BY <1>0, <1>11, FlushSlotType DEF FlushFrame, DirtySlots, CallOK, InSection
  <2>2. /\ frames' = [frames EXCEPT ![s][f].dirty = FALSE]
        /\ disk' = [disk EXCEPT ![frames[s][f].pageno] = frames[s][f].bytes]
    <3>1. frames' = [frames EXCEPT ![s][f].dirty = FALSE]
      BY <1>11 DEF FlushFrame
    <3>2. PICK ok \in BOOLEAN : disk_write_block(frames[s][f].pageno, frames[s][f].bytes, ok)
      BY <1>11 DEF FlushFrame
    <3> QED BY <1>9, <3>1, <3>2
  <2> HIDE DEF s, f
  <2>3. /\ frames'[s][f].pageno = frames[s][f].pageno
        /\ frames'[s][f].bytes = frames[s][f].bytes
        /\ \A r \in Shard, g \in Slot : r # s \/ g # f => frames'[r][g] = frames[r][g]
    <3>1. frames[s][f] \in Frame
      BY <1>0, <2>1 DEF TypeOK
    <3>2. frames'[s][f] = [frames[s][f] EXCEPT !.dirty = FALSE]
      BY <1>0, <2>1, <2>2 DEF TypeOK
    <3>3. \A r \in Shard, g \in Slot : r # s \/ g # f => frames'[r][g] = frames[r][g]
      BY <1>0, <2>1, <2>2 DEF TypeOK
    <3> QED BY <3>1, <3>2, <3>3 DEF Frame
  <2> QED BY <2>1, <2>2, <2>3, FrameWritten
<1>12. ASSUME NEW t \in Thread, NEW b, NEW d, pc[t] = "fill", Install(t, b, d),
              UNCHANGED disk, ~d => b = disk[call[t].page]
       PROVE  CleanMatchesDisk'
  <2> DEFINE s == call[t].shard
             f == call[t].slot
  <2>1. /\ s \in Shard /\ f \in Slot /\ call[t].page \in Page
        /\ frames'[s][f].pageno = call[t].page
        /\ frames'[s][f].dirty = d /\ frames'[s][f].bytes = b
        /\ \A r \in Shard, g \in Slot : r # s \/ g # f => frames'[r][g] = frames[r][g]
    BY <1>12, InstallEffect
  <2> HIDE DEF s, f
  <2> QED BY <1>12, <2>1 DEF CleanMatchesDisk
<1>13. ASSUME NEW t \in Thread, FillWrite(t) PROVE CleanMatchesDisk'
  BY <1>12, <1>13 DEF FillWrite
<1>14. ASSUME NEW t \in Thread, FillRead(t) PROVE CleanMatchesDisk'
  <2>1. pc[t] = "fill" /\ UNCHANGED disk /\ Install(t, disk[call[t].page], FALSE)
    BY <1>14 DEF FillRead, disk_read_block
  <2> QED BY <1>12, <2>1
<1> QED BY NextCases, <1>1, <1>2, <1>3, <1>4, <1>5, <1>7, <1>8, <1>10, <1>11, <1>13, <1>14

\* When nothing fails, a page in memory that is not marked dirty is what the
\* file holds: throwing its frame away loses nothing.
THEOREM CleanIsOnDisk ==
    ASSUME Faults = {}
    PROVE  Spec => []CleanMatchesDisk
<1>1. Init => CleanMatchesDisk
  BY DEF Init, EmptyFrames, CleanMatchesDisk
<1>2. Inv /\ PoolIndexed /\ CleanMatchesDisk /\ [Next]_vars => CleanMatchesDisk'
  BY CleanStep
<1>3. Spec => []PoolIndexed
  BY PoolIsIndexed
<1> QED BY Invariance, <1>1, <1>2, <1>3, PTL DEF Spec

-----------------------------------------------------------------------------
(* The metrics: what pc_hit_ratio and pc_avg_depth add up, one shard after *)
(* the other while other threads go on counting, is never more than what   *)
(* has been counted, and the average depth stays below a shard's frames.   *)
(*                                                                         *)
(* The sums over the shards are folds of the community modules.  That such *)
(* a fold is what it should be is shown first, by taking a least subset    *)
(* for which it is not.                                                    *)

\* Induction over the subsets of a finite set: among some of them there is a
\* least one.
LEMMA LeastSubset ==
    ASSUME NEW S, IsFiniteSet(S), NEW T, T \subseteq SUBSET S, T # {}
    PROVE  \E A \in T : \A B \in T : ~(B \subseteq A /\ B # A)
<1>1. IsWellFoundedOn(StrictSubsetOrdering(S), FiniteSubsetsOf(S))
  BY FS_StrictSubsetOrderingWellFounded
<1>2. T \subseteq FiniteSubsetsOf(S)
  BY FS_FiniteSubsetsOfFinite
<1>3. \E A \in T : \A B \in T : ~ (<<B, A>> \in StrictSubsetOrdering(S))
  BY <1>1, <1>2, WFMin
<1>. QED BY <1>3 DEF StrictSubsetOrdering

\* The element that the fold takes out of a set first.
Pick(s) == CHOOSE x \in s : TRUE
\* The function by which the fold is defined.
IsSum(f, it, S) ==
    it = [s \in SUBSET S |-> IF s = {} THEN 0 ELSE f[Pick(s)] + it[s \ {Pick(s)}]]

\* SumFunctionOnSet of the community modules, expanded.
LEMMA SumIsIter ==
    ASSUME NEW f, NEW S
    PROVE  SumFunctionOnSet(f, S) = (CHOOSE it : IsSum(f, it, S))[S]
BY DEF SumFunctionOnSet, FoldFunctionOnSet, MapThenFoldSet, IsSum, Pick

\* There is at most one such function,
LEMMA SumUnique ==
    ASSUME NEW f, NEW S, IsFiniteSet(S), NEW T, S \subseteq T,
           NEW g, NEW h, IsSum(f, g, S), IsSum(f, h, T)
    PROVE  \A s \in SUBSET S : g[s] = h[s]
<1> DEFINE Differ == {s \in SUBSET S : g[s] # h[s]}
<1> SUFFICES ASSUME Differ # {} PROVE FALSE
  OBVIOUS
<1>1. PICK s \in Differ : \A r \in Differ : ~(r \subseteq s /\ r # s)
  <2> Differ \subseteq SUBSET S
    OBVIOUS
  <2> HIDE DEF Differ
  <2> QED BY LeastSubset
<1>2. s # {}
  BY <1>1 DEF IsSum
<1>3. Pick(s) \in s
  BY <1>2 DEF Pick
<1>4. s \ {Pick(s)} \notin Differ
  BY <1>1, <1>3
<1>5. g[s] = f[Pick(s)] + g[s \ {Pick(s)}]
  BY <1>2 DEF IsSum
<1>6. h[s] = f[Pick(s)] + h[s \ {Pick(s)}]
  BY <1>2 DEF IsSum
<1> QED BY <1>4, <1>5, <1>6

\* and at least one, so that the CHOOSE of the fold's definition finds it.
LEMMA SumExists ==
    ASSUME NEW f, NEW S, IsFiniteSet(S)
    PROVE  \E it : IsSum(f, it, S)
<1> DEFINE Without == {s \in SUBSET S : ~ \E it : IsSum(f, it, s)}
           It(s) == CHOOSE it : IsSum(f, it, s)
<1> SUFFICES ASSUME Without # {} PROVE FALSE
  OBVIOUS
<1>1. PICK T \in Without : \A r \in Without : ~(r \subseteq T /\ r # T)
  <2> Without \subseteq SUBSET S
    OBVIOUS
  <2> HIDE DEF Without
  <2> QED BY LeastSubset
<1>2. ASSUME NEW s, s \subseteq T, s # T PROVE IsSum(f, It(s), s)
  BY <1>1, <1>2
<1> DEFINE v(s) == IF s = {} THEN 0 ELSE f[Pick(s)] + It(s \ {Pick(s)})[s \ {Pick(s)}]
           it == [s \in SUBSET T |-> v(s)]
<1>3. ASSUME NEW s \in SUBSET T, s # {} 
      PROVE  it[s \ {Pick(s)}] = It(s \ {Pick(s)})[s \ {Pick(s)}]
  <2> DEFINE r == s \ {Pick(s)}
             q == r \ {Pick(r)}
  <2>1. Pick(s) \in s
    BY <1>3 DEF Pick
  <2>2. r \subseteq T /\ r # T /\ r \subseteq S
    BY <2>1, <1>1
  <2>3. It(r) = [x \in SUBSET r |-> IF x = {} THEN 0 ELSE f[Pick(x)] + It(r)[x \ {Pick(x)}]]
    <3>1. IsSum(f, It(r), r)
      BY <1>2, <2>2
    <3> HIDE DEF It, r
    <3> QED BY <3>1 DEF IsSum
  <2>4. r # {} => It(r)[q] = It(q)[q]
    <3> SUFFICES ASSUME r # {} PROVE It(r)[q] = It(q)[q]
      OBVIOUS
    <3>1. Pick(r) \in r
      BY DEF Pick
    <3>2. q \subseteq r /\ q \subseteq T /\ q # T
      BY <2>2, <3>1
    <3>3. IsSum(f, It(q), q) /\ IsSum(f, It(r), r)
      BY <1>2, <2>2, <3>2
    <3>4. IsFiniteSet(q)
      BY <2>2, <3>2, FS_Subset
    <3> HIDE DEF It, q, r
    <3> QED BY <3>2, <3>3, <3>4, SumUnique
  <2>5. it[r] = v(r)
    BY <2>2
  <2>6. It(r)[r] = IF r = {} THEN 0 ELSE f[Pick(r)] + It(r)[q]
    <3> HIDE DEF It, r
    <3> QED BY <2>3
  <2>7. v(r) = IF r = {} THEN 0 ELSE f[Pick(r)] + It(q)[q]
    OBVIOUS
  <2> HIDE DEF It, q, r, v, it
  <2> QED BY <2>4, <2>5, <2>6, <2>7 DEF r
<1>4. \A s \in SUBSET T : it[s] = IF s = {} THEN 0 ELSE f[Pick(s)] + it[s \ {Pick(s)}]
  <2> TAKE s \in SUBSET T
  <2>1. it[s] = v(s)
    OBVIOUS
  <2> HIDE DEF It, it
  <2> QED BY <2>1, <1>3
<1>5. it = [s \in SUBSET T |-> IF s = {} THEN 0 ELSE f[Pick(s)] + it[s \ {Pick(s)}]]
  <2>1. it = [s \in SUBSET T |-> it[s]]
    OBVIOUS
  <2> HIDE DEF it
  <2> QED BY <2>1, <1>4
<1>6. IsSum(f, it, T)
  <2> HIDE DEF it
  <2> QED BY <1>5 DEF IsSum
<1> QED BY <1>1, <1>6

\* The sum peels off one element, the one that CHOOSE picks.
LEMMA SumPicks ==
    ASSUME NEW f, NEW S, IsFiniteSet(S)
    PROVE  SumFunctionOnSet(f, S) =
             IF S = {} THEN 0
             ELSE f[Pick(S)] + SumFunctionOnSet(f, S \ {Pick(S)})
<1> DEFINE It(s) == CHOOSE it : IsSum(f, it, s)
           r == S \ {Pick(S)}
<1>1. IsFiniteSet(r)
  BY FS_Subset
<1>2. IsSum(f, It(S), S) /\ IsSum(f, It(r), r)
  BY <1>1, SumExists
<1>3. SumFunctionOnSet(f, S) = It(S)[S] /\ SumFunctionOnSet(f, r) = It(r)[r]
  BY SumIsIter
<1>4. It(S)[S] = IF S = {} THEN 0 ELSE f[Pick(S)] + It(S)[r]
  <2> HIDE DEF It
  <2> QED BY <1>2 DEF IsSum
<1>5. It(r)[r] = It(S)[r]
  <2> r \subseteq S
    OBVIOUS
  <2> HIDE DEF It, r
  <2> QED BY <1>1, <1>2, SumUnique
<1> QED BY <1>3, <1>4, <1>5

\* Nothing adds up to 0.
LEMMA SumEmpty == ASSUME NEW f PROVE SumFunctionOnSet(f, {}) = 0
BY SumPicks, FS_EmptySet

\* Zeroes add up to 0.
LEMMA SumZero ==
    ASSUME NEW f, NEW S, IsFiniteSet(S), \A x \in S : f[x] = 0
    PROVE  SumFunctionOnSet(f, S) = 0
<1> DEFINE Wrong == {s \in SUBSET S : SumFunctionOnSet(f, s) # 0}
<1> SUFFICES ASSUME Wrong # {} PROVE FALSE
  OBVIOUS
<1>1. PICK s \in Wrong : \A r \in Wrong : ~(r \subseteq s /\ r # s)
  <2> Wrong \subseteq SUBSET S
    OBVIOUS
  <2> HIDE DEF Wrong
  <2> QED BY LeastSubset
<1>2. IsFiniteSet(s)
  BY FS_Subset
<1>3. s # {} /\ Pick(s) \in s
  BY <1>2, SumEmpty DEF Pick
<1>4. SumFunctionOnSet(f, s \ {Pick(s)}) = 0
  BY <1>1, <1>3
<1>5. SumFunctionOnSet(f, s) = f[Pick(s)] + SumFunctionOnSet(f, s \ {Pick(s)})
  BY <1>2, <1>3, SumPicks
<1> QED BY <1>3, <1>4, <1>5

\* A sum of naturals is a natural.
LEMMA SumType ==
    ASSUME NEW f, NEW S, IsFiniteSet(S), \A x \in S : f[x] \in Nat
    PROVE  SumFunctionOnSet(f, S) \in Nat
<1> DEFINE Wrong == {s \in SUBSET S : SumFunctionOnSet(f, s) \notin Nat}
<1> SUFFICES ASSUME Wrong # {} PROVE FALSE
  OBVIOUS
<1>1. PICK s \in Wrong : \A r \in Wrong : ~(r \subseteq s /\ r # s)
  <2> Wrong \subseteq SUBSET S
    OBVIOUS
  <2> HIDE DEF Wrong
  <2> QED BY LeastSubset
<1>2. IsFiniteSet(s)
  BY FS_Subset
<1>3. s # {} /\ Pick(s) \in s
  BY <1>2, SumEmpty DEF Pick
<1>4. SumFunctionOnSet(f, s \ {Pick(s)}) \in Nat
  BY <1>1, <1>3
<1>5. SumFunctionOnSet(f, s) = f[Pick(s)] + SumFunctionOnSet(f, s \ {Pick(s)})
  BY <1>2, <1>3, SumPicks
<1> QED BY <1>3, <1>4, <1>5

\* The sum peels off any element.
LEMMA SumRemove ==
    ASSUME NEW f, NEW S, IsFiniteSet(S), \A x \in S : f[x] \in Nat
    PROVE  \A x \in S :
               SumFunctionOnSet(f, S) = f[x] + SumFunctionOnSet(f, S \ {x})
<1> DEFINE Sum(s) == SumFunctionOnSet(f, s)
           Wrong == {s \in SUBSET S : \E x \in s : Sum(s) # f[x] + Sum(s \ {x})}
<1> SUFFICES ASSUME Wrong # {} PROVE FALSE
  OBVIOUS
<1>1. PICK s \in Wrong : \A r \in Wrong : ~(r \subseteq s /\ r # s)
  <2> Wrong \subseteq SUBSET S
    OBVIOUS
  <2> HIDE DEF Wrong
  <2> QED BY LeastSubset
<1>2. PICK x \in s : Sum(s) # f[x] + Sum(s \ {x})
  BY <1>1
<1> DEFINE y == Pick(s)
<1>3. \A r \in SUBSET S : IsFiniteSet(r) /\ Sum(r) \in Nat
  BY FS_Subset, SumType
<1>4. y \in s /\ Sum(s) = f[y] + Sum(s \ {y})
  BY <1>2, <1>3, SumPicks DEF Pick
<1>5. x # y
  BY <1>2, <1>4
<1>6. Sum(s \ {y}) = f[x] + Sum((s \ {y}) \ {x})
  BY <1>1, <1>4, <1>5
<1>7. Sum(s \ {x}) = f[y] + Sum((s \ {x}) \ {y})
  BY <1>1, <1>2, <1>4, <1>5
<1>8. (s \ {x}) \ {y} = (s \ {y}) \ {x}
  OBVIOUS
<1> DEFINE rest == Sum((s \ {y}) \ {x})
<1>9. f[x] \in Nat /\ f[y] \in Nat /\ rest \in Nat
  BY <1>3, <1>4
<1>10. Sum(s) = f[y] + (f[x] + rest)
  BY <1>4, <1>6
<1>11. f[x] + Sum(s \ {x}) = f[x] + (f[y] + rest)
  BY <1>7, <1>8
<1> HIDE DEF Sum, y, rest
<1> QED BY <1>2, <1>9, <1>10, <1>11

\* The sums of a larger function are larger.
LEMMA SumMonotone ==
    ASSUME NEW f, NEW g, NEW S, IsFiniteSet(S),
           \A x \in S : f[x] \in Nat /\ g[x] \in Nat /\ f[x] <= g[x]
    PROVE  SumFunctionOnSet(f, S) <= SumFunctionOnSet(g, S)
<1> DEFINE Sum(h, s) == SumFunctionOnSet(h, s)
           Wrong == {s \in SUBSET S : ~(Sum(f, s) <= Sum(g, s))}
<1> SUFFICES ASSUME Wrong # {} PROVE FALSE
  OBVIOUS
<1>1. PICK s \in Wrong : \A r \in Wrong : ~(r \subseteq s /\ r # s)
  <2> Wrong \subseteq SUBSET S
    OBVIOUS
  <2> HIDE DEF Wrong
  <2> QED BY LeastSubset
<1> DEFINE y == Pick(s)
           r == s \ {y}
<1>2. \A q \in SUBSET S : IsFiniteSet(q) /\ Sum(f, q) \in Nat /\ Sum(g, q) \in Nat
  BY FS_Subset, SumType
<1>3. s # {} /\ y \in s
  BY SumEmpty DEF Pick
<1>4. Sum(f, s) = f[y] + Sum(f, r) /\ Sum(g, s) = g[y] + Sum(g, r)
  BY <1>2, <1>3, SumPicks
<1>5. Sum(f, r) <= Sum(g, r) /\ r \in SUBSET S
  BY <1>1, <1>3
<1>6. ~(Sum(f, s) <= Sum(g, s)) /\ y \in S
  BY <1>3
<1> HIDE DEF Sum, y, r
<1> QED BY <1>2, <1>4, <1>5, <1>6

\* One element more adds its value.
LEMMA SumAdd ==
    ASSUME NEW f, NEW S, IsFiniteSet(S), NEW x, x \notin S,
           \A y \in S \cup {x} : f[y] \in Nat
    PROVE  SumFunctionOnSet(f, S \cup {x}) = SumFunctionOnSet(f, S) + f[x]
<1>1. (S \cup {x}) \ {x} = S /\ IsFiniteSet(S \cup {x})
  BY FS_AddElement
<1>2. SumFunctionOnSet(f, S) \in Nat
  BY SumType
<1> QED BY <1>1, <1>2, SumRemove

\* Where the functions are the same, so are the sums.
LEMMA SumSame ==
    ASSUME NEW f, NEW g, NEW S, IsFiniteSet(S), \A x \in S : f[x] \in Nat /\ f[x] = g[x]
    PROVE  SumFunctionOnSet(f, S) = SumFunctionOnSet(g, S)
<1>1. /\ SumFunctionOnSet(f, S) <= SumFunctionOnSet(g, S)
      /\ SumFunctionOnSet(g, S) <= SumFunctionOnSet(f, S)
  BY SumMonotone
<1>2. SumFunctionOnSet(f, S) \in Nat /\ SumFunctionOnSet(g, S) \in Nat
  BY SumType
<1> QED BY <1>1, <1>2

\* One element of the function changes.
LEMMA SumUpdate ==
    ASSUME NEW f, NEW g, NEW S, IsFiniteSet(S), \A x \in S : f[x] \in Nat,
           \A x \in S : g[x] \in Nat
    PROVE  \A a \in S :
             (\A x \in S : x # a => g[x] = f[x]) =>
               SumFunctionOnSet(g, S) = SumFunctionOnSet(f, S) - f[a] + g[a]
<1> SUFFICES ASSUME NEW a \in S, \A x \in S : x # a => g[x] = f[x]
             PROVE  SumFunctionOnSet(g, S) = SumFunctionOnSet(f, S) - f[a] + g[a]
  OBVIOUS
<1>1. IsFiniteSet(S \ {a})
  BY FS_Subset
<1>2. SumFunctionOnSet(g, S \ {a}) = SumFunctionOnSet(f, S \ {a})
  BY <1>1, SumSame
<1>3. /\ SumFunctionOnSet(g, S) = g[a] + SumFunctionOnSet(g, S \ {a})
      /\ SumFunctionOnSet(f, S) = f[a] + SumFunctionOnSet(f, S \ {a})
  BY SumRemove
<1>4. SumFunctionOnSet(f, S \ {a}) \in Nat
  BY <1>1, SumType
<1> QED BY <1>2, <1>3, <1>4

-----------------------------------------------------------------------------
(* The counters.                                                           *)

\* No hit was deeper than a shard has frames.
DepthBounded == \A s \in Shard : depth_sum[s] <= (PerShard - 1) * hits[s]

MetricsInv ==
    /\ Inv
    /\ DepthBounded
    /\ MetricsConsistent

\* What a step does to the counters of the shards.
LEMMA CounterCases ==
    ASSUME TypeOK, [Next]_vars
    PROVE  \/ UNCHANGED metrics
           \/ pc_open
           \/ \E t \in Thread : HitStep(t) \/ Miss(t) \/ FreeAll(t)
<1> SUFFICES ASSUME [Next]_vars, ~pc_open,
                    \A t \in Thread : ~HitStep(t) /\ ~Miss(t) /\ ~FreeAll(t)
             PROVE  UNCHANGED metrics
  OBVIOUS
<1>1. UNCHANGED vars => UNCHANGED metrics
  BY DEF vars, shardVars
<1>2. ASSUME NEW t \in Thread, NEW c, Enter(t, c) PROVE UNCHANGED metrics
  BY <1>2 DEF Enter, shardVars
<1>3. ASSUME NEW t \in Thread,
             \/ pc_close(t) \/ Lock(t) \/ \E p \in Page : Evict(t, p)
             \/ EvictNothing(t) \/ WriteBack(t) \/ Return(t)
             \/ FlushFrame(t) \/ FlushShard(t) \/ CountShard(t)
      PROVE  UNCHANGED metrics
  BY <1>3 DEF pc_close, Lock, Evict, EvictNothing, WriteBack, Return, FlushFrame,
              FlushShard, CountShard, shardVars
<1>4. ASSUME NEW t \in Thread, FillWrite(t) \/ FillRead(t) PROVE UNCHANGED metrics
  BY <1>4 DEF FillWrite, FillRead, Install
<1>5. \A t \in Thread : ~HitRead(t) /\ ~HitWrite(t)
  BY DEF HitRead, HitWrite
<1> QED BY NextCases, <1>1, <1>2, <1>3, <1>4, <1>5

\* The counters of a cache that is opened, or freed, are 0.
LEMMA CountersZero ==
    ASSUME NEW t, pc_open \/ FreeAll(t)
    PROVE  \A s \in Shard : hits'[s] = 0 /\ misses'[s] = 0 /\ depth_sum'[s] = 0
BY DEF pc_open, FreeAll, AllocShards, Zeroes

\* A hit counts one, and at most PerShard - 1 levels of depth.
LEMMA HitCounts ==
    ASSUME Inv, NEW t \in Thread, HitStep(t)
    PROVE  \E s \in Shard, d \in 0 .. PerShard - 1 :
              /\ hits' = [hits EXCEPT ![s] = @ + 1]
              /\ depth_sum' = [depth_sum EXCEPT ![s] = @ + d]
              /\ UNCHANGED misses
<1>1. call[t].shard \in Shard
  BY DEF Inv, CallOK, HitStep, InSection
<1> QED BY <1>1 DEF HitStep, Depths

\* A miss counts one.
LEMMA MissCounts ==
    ASSUME Inv, NEW t \in Thread, Miss(t)
    PROVE  \E s \in Shard : /\ misses' = [misses EXCEPT ![s] = @ + 1]
                             /\ UNCHANGED <<hits, depth_sum>>
<1>1. call[t].shard \in Shard
  BY DEF Inv, CallOK, Miss, InSection
<1> QED BY <1>1 DEF Miss

\* Depths stay bounded.
LEMMA DepthStep == ASSUME Inv, DepthBounded, [Next]_vars PROVE DepthBounded'
<1>0. TypeOK /\ PerShard \in Nat \ {0} /\ PerShard' = PerShard /\ Shard' = Shard
  BY PerShardType DEF Inv, PerShard, Shard
<1>1. CASE UNCHANGED metrics
  BY <1>0, <1>1 DEF DepthBounded, metrics
<1>2. ASSUME NEW t, pc_open \/ FreeAll(t) PROVE DepthBounded'
  <2>1. (PerShard - 1) * 0 = 0
    BY <1>0
  <2> QED BY <1>0, <1>2, <2>1, CountersZero DEF DepthBounded
<1>3. ASSUME NEW t \in Thread, HitStep(t) PROVE DepthBounded'
  <2>1. PICK s \in Shard, d \in 0 .. PerShard - 1 :
              /\ hits' = [hits EXCEPT ![s] = @ + 1]
              /\ depth_sum' = [depth_sum EXCEPT ![s] = @ + d]
    BY <1>3, HitCounts
  <2> DEFINE k == PerShard - 1
  <2>2. k \in Nat /\ d \in Nat /\ d <= k
    BY <1>0
  <2>3. \A r \in Shard : hits[r] \in Nat /\ depth_sum[r] \in Nat /\ depth_sum[r] <= k * hits[r]
    BY <1>0 DEF TypeOK, DepthBounded
  <2>4. \A r \in Shard : r # s => hits'[r] = hits[r] /\ depth_sum'[r] = depth_sum[r]
    BY <1>0, <2>1 DEF TypeOK
  <2>5. hits'[s] = hits[s] + 1 /\ depth_sum'[s] = depth_sum[s] + d
    BY <1>0, <2>1 DEF TypeOK
  <2>6. \A h \in Nat : k * (h + 1) = k * h + k /\ k * h \in Nat
    <3> HIDE DEF k
    <3> QED BY <2>2
  <2>7. depth_sum'[s] <= k * hits'[s]
    <3> HIDE DEF k
    <3> QED BY <2>2, <2>3, <2>5, <2>6
  <2> QED BY <1>0, <2>3, <2>4, <2>7 DEF DepthBounded
<1>4. ASSUME NEW t \in Thread, Miss(t) PROVE DepthBounded'
  BY <1>0, <1>4, MissCounts DEF DepthBounded
<1> QED BY <1>0, <1>1, <1>2, <1>3, <1>4, CounterCases
-----------------------------------------------------------------------------
(* The running sums of a metric.                                           *)

\* The steps after which a thread is in a metric: it has just called it, it
\* adds up a shard, or its sums stay what they are.
LEMMA MetricMoves ==
    ASSUME Inv, [Next]_vars, NEW t \in Thread, call'[t].op \in {"ratio", "depth"}
    PROVE  \/ call'[t].h = 0 /\ call'[t].sum = 0
           \/ CountShard(t) /\ call'[t].op = call[t].op
           \/ /\ call'[t].op = call[t].op /\ call'[t].shard = call[t].shard
              /\ call'[t].h = call[t].h /\ call'[t].sum = call[t].sum
<1>0. TypeOK /\ CallOK
  BY DEF Inv
<1>1. CASE call'[t] = call[t]
  BY <1>1
<1>2. ASSUME NEW c, Enter(t, c) PROVE call'[t] = c
  BY <1>0, <1>2 DEF TypeOK, Enter
<1>3. CASE Begin(t)
  <2>1. CASE pc_hit_ratio(t) \/ pc_avg_depth(t)
    <3>1. PICK c : c.h = 0 /\ c.sum = 0 /\ Enter(t, c)
      BY <2>1 DEF pc_hit_ratio, pc_avg_depth, NoCall
    <3> QED BY <1>2, <3>1
  <2>2. CASE pc_flush(t)
    <3>1. PICK c : c.op = "flush" /\ Enter(t, c)
      BY <2>2 DEF pc_flush, NoCall
    <3> QED BY <1>2, <3>1
  <2>3. CASE pc_close(t)
    <3>1. PICK c : c.op = "close" /\ call' = [call EXCEPT ![t] = c]
      BY <2>3 DEF pc_close, NoCall
    <3> QED BY <1>0, <3>1 DEF TypeOK
  <2>4. ASSUME NEW p \in Page, pc_read(t, p) PROVE FALSE
    <3>1. PICK c : c.op = "read" /\ Enter(t, c)
      BY <2>4 DEF pc_read, NoCall
    <3> QED BY <1>2, <3>1
  <2>5. ASSUME NEW p \in Page, NEW b \in Block, pc_write(t, p, b) PROVE FALSE
    <3>1. PICK c : c.op = "write" /\ Enter(t, c)
      BY <2>5 DEF pc_write, NoCall
    <3> QED BY <1>2, <3>1
  <2> QED BY <1>3, <2>1, <2>2, <2>3, <2>4, <2>5 DEF Begin
<1>4. CASE Lock(t)
  BY <1>1, <1>4 DEF Lock
<1>5. CASE Return(t) \/ FreeAll(t)
  BY <1>0, <1>5 DEF TypeOK, Return, FreeAll, NoCall
<1>6. CASE FlushFrame(t) \/ FlushShard(t)
  <2>1. call[t].op \in {"flush", "close"}
    BY <1>0, <1>6 DEF CallOK, FlushFrame, FlushShard
  <2>2. call'[t].op = call[t].op
    <3>1. CASE FlushFrame(t)
      <4>1. PICK r : call' = [call EXCEPT ![t].rc = r]
        BY <3>1 DEF FlushFrame
      <4> QED BY <1>0, <4>1, RcKeepsCall
    <3>2. CASE FlushShard(t)
      BY <1>0, <3>2 DEF TypeOK, Call, FlushShard
    <3> QED BY <1>6, <3>1, <3>2
  <2> QED BY <2>1, <2>2
<1>7. CASE CountShard(t)
  <2>1. call'[t].op = call[t].op
    <3>1. PICK s, h, m : call' = [call EXCEPT ![t].shard = s, ![t].h = h, ![t].sum = m]
      BY <1>7 DEF CountShard
    <3> QED BY <1>0, <3>1 DEF TypeOK, Call
  <2> QED BY <1>7, <2>1
<1>8. CASE \/ \E p \in Page : Evict(t, p)
           \/ HitRead(t) \/ HitWrite(t) \/ Miss(t) \/ EvictNothing(t)
           \/ WriteBack(t) \/ FillWrite(t) \/ FillRead(t)
  BY <1>0, <1>8, AccessKeepsOp
<1> QED
  BY <1>0, <1>1, <1>3, <1>4, <1>5, <1>6, <1>7, <1>8, ThreadSteps DEF Step

\* No metric runs while the cache is opened or freed.
LEMMA AllocAlone ==
    ASSUME Inv, pc_open \/ \E u \in Thread : FreeAll(u), NEW t \in Thread
    PROVE  call'[t].op \notin {"ratio", "depth"}
<1>0. TypeOK /\ CallOK /\ ClosesAlone
  BY DEF Inv
<1>1. CASE pc_open
  BY <1>0, <1>1 DEF CallOK, pc_open
<1>2. ASSUME NEW u \in Thread, FreeAll(u) PROVE call'[t].op \notin {"ratio", "depth"}
  <2>1. CASE t = u
    BY <1>0, <1>2, <2>1 DEF TypeOK, FreeAll, NoCall
  <2>2. CASE t # u
    <3>1. call[t].op = "none" /\ call'[t] = call[t]
      BY <1>0, <1>2, <2>2 DEF TypeOK, CallOK, ClosesAlone, FreeAll
    <3> QED BY <3>1
  <2> QED BY <2>1, <2>2
<1> QED BY <1>1, <1>2

\* The counters of an open cache only grow.
LEMMA CountersGrow ==
    ASSUME Inv, [Next]_vars, ~pc_open, \A t \in Thread : ~FreeAll(t)
    PROVE  \A s \in Shard : hits[s] <= hits'[s] /\ misses[s] <= misses'[s]
<1>0. TypeOK /\ \A s \in Shard : hits[s] \in Nat /\ misses[s] \in Nat
  BY DEF Inv, TypeOK
<1>1. UNCHANGED metrics => \A s \in Shard : hits[s] <= hits'[s] /\ misses[s] <= misses'[s]
  BY <1>0 DEF metrics
<1>2. ASSUME NEW t \in Thread, HitStep(t)
      PROVE  \A s \in Shard : hits[s] <= hits'[s] /\ misses[s] <= misses'[s]
  <2>1. PICK s \in Shard : hits' = [hits EXCEPT ![s] = @ + 1] /\ UNCHANGED misses
    BY <1>2, HitCounts
  <2> QED BY <1>0, <2>1 DEF TypeOK
<1>3. ASSUME NEW t \in Thread, Miss(t)
      PROVE  \A s \in Shard : hits[s] <= hits'[s] /\ misses[s] <= misses'[s]
  <2>1. PICK s \in Shard : misses' = [misses EXCEPT ![s] = @ + 1] /\ UNCHANGED hits
    BY <1>3, MissCounts
  <2> QED BY <1>0, <2>1 DEF TypeOK
<1> QED BY <1>0, <1>1, <1>2, <1>3, CounterCases

\* The shards that a metric has passed are finitely many.
LEMMA CountedFinite ==
    ASSUME NEW t
    PROVE  Counted(t) \subseteq Shard /\ IsFiniteSet(Counted(t))
<1>1. IsFiniteSet(Shard)
  BY FS_Interval, SizeFacts
<1> QED BY <1>1, FS_Subset DEF Counted

\* Every step keeps the metrics consistent.
LEMMA MetricsStep ==
    ASSUME MetricsInv, [Next]_vars
    PROVE  MetricsConsistent'
<1> DEFINE k == PerShard - 1
           Consistent(c, H, M, C) ==
             /\ c.op \in {"ratio", "depth"} => c.h <= SumFunctionOnSet(H, C)
             /\ c.op = "ratio" => c.sum <= SumFunctionOnSet(M, C)
             /\ c.op = "depth" => c.sum <= k * c.h
<1>0. Inv /\ TypeOK /\ CallOK /\ k \in Nat /\ PerShard' = PerShard
  BY PerShardType DEF MetricsInv, Inv, PerShard
<1>1. \A s \in Shard : hits[s] \in Nat /\ misses[s] \in Nat /\ depth_sum[s] \in Nat
  BY <1>0 DEF TypeOK
<1>2. \A s \in Shard : hits'[s] \in Nat /\ misses'[s] \in Nat
  BY <1>0, TypeStep DEF TypeOK, Shard
<1> SUFFICES ASSUME NEW t \in Thread, call'[t].op \in {"ratio", "depth"}
             PROVE  Consistent(call'[t], hits', misses', Counted(t)')
  BY <1>0 DEF MetricsConsistent
<1>3. ~pc_open /\ \A u \in Thread : ~FreeAll(u)
  BY <1>0, AllocAlone
<1>4. \A s \in Shard : hits[s] <= hits'[s] /\ misses[s] <= misses'[s]
  BY <1>0, <1>3, CountersGrow
<1>5. Counted(t)' \subseteq Shard /\ IsFiniteSet(Counted(t)')
  <2>1. IsFiniteSet(Shard)
    BY FS_Interval, SizeFacts
  <2>2. Counted(t)' \subseteq Shard
    BY DEF Counted, Shard
  <2> QED BY <2>1, <2>2, FS_Subset
<1>6. CASE call'[t].h = 0 /\ call'[t].sum = 0
  <2>1. SumFunctionOnSet(hits', Counted(t)') \in Nat /\ SumFunctionOnSet(misses', Counted(t)') \in Nat
    BY <1>2, <1>5, SumType
  <2>2. k * 0 = 0
    BY <1>0
  <2> HIDE DEF k
  <2> QED BY <1>6, <2>1, <2>2
<1>7. CASE /\ call'[t].op = call[t].op /\ call'[t].shard = call[t].shard
           /\ call'[t].h = call[t].h /\ call'[t].sum = call[t].sum
  <2>1. Counted(t)' = Counted(t) /\ Counted(t) \subseteq Shard /\ IsFiniteSet(Counted(t))
    BY <1>5, <1>7 DEF Counted, Shard
  <2>2. /\ SumFunctionOnSet(hits, Counted(t)) <= SumFunctionOnSet(hits', Counted(t))
        /\ SumFunctionOnSet(misses, Counted(t)) <= SumFunctionOnSet(misses', Counted(t))
    BY <1>1, <1>2, <1>4, <2>1, SumMonotone
  <2>3. /\ SumFunctionOnSet(hits, Counted(t)) \in Nat /\ SumFunctionOnSet(hits', Counted(t)) \in Nat
        /\ SumFunctionOnSet(misses, Counted(t)) \in Nat /\ SumFunctionOnSet(misses', Counted(t)) \in Nat
    BY <1>1, <1>2, <2>1, SumType
  <2>4. Consistent(call[t], hits, misses, Counted(t))
    BY <1>0 DEF MetricsInv, MetricsConsistent
  <2>5. call[t].h \in Nat /\ call[t].sum \in Nat
    BY <1>0 DEF TypeOK, Call
  <2> HIDE DEF k
  <2> QED BY <1>7, <2>1, <2>2, <2>3, <2>4, <2>5
<1>8. CASE CountShard(t) /\ call'[t].op = call[t].op
  <2> DEFINE s == call[t].shard
  <2>1. /\ s \in Shard /\ call[t].op \in {"ratio", "depth"}
        /\ call'[t].shard = s + 1 /\ call'[t].h = call[t].h + hits[s]
        /\ call[t].op = "ratio" => call'[t].sum = call[t].sum + misses[s]
        /\ call[t].op = "depth" => call'[t].sum = call[t].sum + depth_sum[s]
    BY <1>0, <1>8 DEF TypeOK, Call, CallOK, CountShard, InSection
  <2>2. UNCHANGED <<hits, misses>>
    BY <1>8 DEF CountShard, metrics
  <2>3. s \notin Counted(t) /\ Counted(t)' = Counted(t) \cup {s}
    BY <2>1, SizeFacts DEF Counted, Shard
  <2>4. Counted(t) \subseteq Shard /\ IsFiniteSet(Counted(t))
    BY CountedFinite
  <2>5. /\ SumFunctionOnSet(hits, Counted(t)') = SumFunctionOnSet(hits, Counted(t)) + hits[s]
        /\ SumFunctionOnSet(misses, Counted(t)') = SumFunctionOnSet(misses, Counted(t)) + misses[s]
    <3> HIDE DEF s
    <3> QED BY <1>1, <2>1, <2>3, <2>4, SumAdd
  <2>6. /\ SumFunctionOnSet(hits, Counted(t)) \in Nat
        /\ SumFunctionOnSet(misses, Counted(t)) \in Nat
    BY <1>1, <2>4, SumType
  <2>7. Consistent(call[t], hits, misses, Counted(t)) /\ depth_sum[s] <= k * hits[s]
    BY <1>0, <2>1 DEF MetricsInv, MetricsConsistent, DepthBounded
  <2>8. call[t].h \in Nat /\ call[t].sum \in Nat /\ hits[s] \in Nat /\ misses[s] \in Nat /\ depth_sum[s] \in Nat
    BY <1>0, <1>1, <2>1 DEF TypeOK, Call
  <2>9. k * (call[t].h + hits[s]) = k * call[t].h + k * hits[s] /\ k * call[t].h \in Nat /\ k * hits[s] \in Nat
    <3> DEFINE a == call[t].h
               b == hits[s]
    <3>1. a \in Nat /\ b \in Nat
      BY <2>8
    <3> HIDE DEF k, a, b, s
    <3>2. k * (a + b) = k * a + k * b /\ k * a \in Nat /\ k * b \in Nat
      BY <1>0, <3>1
    <3> QED BY <3>2 DEF a, b
  <2> HIDE DEF k, s
  <2> QED BY <1>8, <2>1, <2>2, <2>5, <2>6, <2>7, <2>8, <2>9
<1> QED BY <1>0, <1>6, <1>7, <1>8, MetricMoves

LEMMA MetricsInit == Init => DepthBounded /\ MetricsConsistent
<1> SUFFICES ASSUME Init PROVE DepthBounded /\ MetricsConsistent
  OBVIOUS
<1>1. \A t \in Thread : call[t].op = "none"
  BY DEF Init, NoCall
<1>2. \A s \in Shard : hits[s] = 0 /\ depth_sum[s] = 0
  BY DEF Init, Zeroes
<1>3. (PerShard - 1) * 0 = 0
  BY PerShardType
<1> QED BY <1>1, <1>2, <1>3 DEF DepthBounded, MetricsConsistent

\* What a metric has added up was never more than what was counted, and the
\* average depth it reports is below the number of frames of a shard.
THEOREM MetricsAreConsistent == Spec => []MetricsConsistent
<1>1. Init => DepthBounded /\ MetricsConsistent
  BY MetricsInit
<1>2. Inv /\ DepthBounded /\ MetricsConsistent /\ [Next]_vars => DepthBounded' /\ MetricsConsistent'
  BY DepthStep, MetricsStep DEF MetricsInv
<1> QED BY Invariance, <1>1, <1>2, PTL DEF Spec

-----------------------------------------------------------------------------
(* PageCache implements BlockStore when nothing fails.  Each step of the   *)
(* cache is a step of BlockStore, or changes neither the contents of a     *)
(* page nor a request.  First, what a running pc_close leaves behind.      *)

\* The pc_close that is running has left nothing dirty in the shards it has
\* passed.
CloseClean ==
    \A t \in Thread :
        call[t].op = "close" =>
            /\ \A s \in Shard : s < call[t].shard => DirtySlots(s) = {}
            /\ pc[t] = "free" => \A s \in Shard : s < call[t].shard

\* A closed cache holds no page.
ClosedEmpty == phase = "closed" => index = EmptyIndex

\* What the refinement rests on.
StoreInv ==
    /\ Inv
    /\ PoolIndexed
    /\ CleanMatchesDisk
    /\ CloseClean
    /\ ClosedEmpty

\* A running pc_close leaves clean shards behind it.
LEMMA CloseStep == ASSUME Inv, CloseClean, [Next]_vars PROVE CloseClean'
<1>0. TypeOK /\ CallOK /\ ClosesAlone
  BY DEF Inv
<1>1. ASSUME UNCHANGED <<pc, call, frames>> PROVE CloseClean'
  BY <1>1 DEF CloseClean, DirtySlots
<1>2. CASE pc_open
  <2>1. \A t \in Thread : call[t].op = "none" /\ call' = call
    BY <1>0, <1>2 DEF pc_open, CallOK
  <2> QED BY <2>1 DEF CloseClean
<1>3. ASSUME NEW t \in Thread, call'[t].op # "close",
             \A u \in Thread : u # t => call'[u] = call[u],
             call[t].op = "close" \/ \A u \in Thread : call[u].op # "close"
      PROVE  CloseClean'
  <2>1. \A u \in Thread : u # t => call[u].op # "close"
    <3>1. CASE call[t].op = "close"
      BY <1>0, <3>1 DEF ClosesAlone, CallOK
    <3> QED BY <1>3, <3>1
  <2> QED BY <1>3, <2>1 DEF CloseClean
<1>4. ASSUME NEW t \in Thread, pc[t] # "idle", call[t].op # "close"
      PROVE  \A u \in Thread : call[u].op # "close"
  BY <1>0, <1>4 DEF ClosesAlone
<1>5. phase = "open" => \A u \in Thread : call[u].op # "close"
  BY <1>0 DEF CallOK
<1>6. ASSUME NEW t \in Thread, NEW c \in Arguments, Enter(t, c) PROVE CloseClean'
  <2>1. call'[t] = c /\ \A u \in Thread : u # t => call'[u] = call[u]
    BY <1>0, <1>6 DEF TypeOK, Enter
  <2> QED BY <1>3, <1>5, <1>6, <2>1 DEF Enter, Arguments
<1>7. ASSUME NEW t \in Thread, pc_close(t) PROVE CloseClean'
  <2>1. /\ call'[t].shard = 0 /\ pc'[t] = "lock"
        /\ \A u \in Thread : u # t => call'[u].op # "close"
    BY <1>0, <1>5, <1>7 DEF TypeOK, pc_close, NoCall, Goto
  <2>2. \A s \in Shard : ~(s < 0)
    BY SizeFacts
  <2> QED BY <2>1, <2>2 DEF CloseClean
<1>8. ASSUME NEW t \in Thread, Lock(t) PROVE CloseClean'
  <2>1. UNCHANGED <<call, frames>> /\ pc'[t] # "free" /\ \A u \in Thread : u # t => pc'[u] = pc[u]
    BY <1>0, <1>8 DEF TypeOK, Lock, Section, Goto
  <2> QED BY <2>1 DEF CloseClean, DirtySlots
<1>9. ASSUME NEW t \in Thread, FlushFrame(t) PROVE CloseClean'
  <2>1. /\ \A s \in Shard, f \in Slot :
              /\ frames'[s][f].valid = frames[s][f].valid
              /\ frames'[s][f].dirty => frames[s][f].dirty
    <3>1. PICK s, f : frames' = [frames EXCEPT ![s][f].dirty = FALSE]
      BY <1>9 DEF FlushFrame
    <3> QED BY <1>0, <3>1 DEF TypeOK, Frame
  <2>2. \A s \in Shard : DirtySlots(s) = {} => DirtySlots(s)' = {}
    BY <2>1 DEF DirtySlots
  <2>3. UNCHANGED pc /\ \A u \in Thread : call'[u].op = call[u].op /\ call'[u].shard = call[u].shard
    <3>1. PICK r : call' = [call EXCEPT ![t].rc = r]
      BY <1>9 DEF FlushFrame
    <3> QED BY <1>0, <1>9, <3>1, RcKeepsCall DEF FlushFrame
  <2> QED BY <2>2, <2>3 DEF CloseClean
<1>10. ASSUME NEW t \in Thread, FlushShard(t) PROVE CloseClean'
  <2> DEFINE s == call[t].shard
  <2>1. /\ s \in Shard /\ DirtySlots(s) = {} /\ UNCHANGED frames
        /\ \A u \in Thread : u # t => call'[u] = call[u] /\ pc'[u] = pc[u]
        /\ call'[t].shard = s + 1 /\ call'[t].op = call[t].op
        /\ pc'[t] = "free" => ~(s + 1 < NShards)
    BY <1>0, <1>10 DEF TypeOK, FlushShard, NextShard, Goto, Call, CallOK, InSection
  <2>2. \A r \in Shard : r < s + 1 => r < s \/ r = s
    BY <2>1, SizeFacts
  <2>3. pc'[t] = "free" => \A r \in Shard : r < s + 1
    BY <2>1, SizeFacts
  <2>4. \A r \in Shard : DirtySlots(r)' = DirtySlots(r)
    BY <2>1 DEF DirtySlots
  <2> HIDE DEF s
  <2> QED BY <2>1, <2>2, <2>3, <2>4 DEF CloseClean, s
<1>11. ASSUME NEW t \in Thread, FreeAll(t) PROVE CloseClean'
  <2>1. call'[t].op # "close" /\ call[t].op = "close"
        /\ \A u \in Thread : u # t => call'[u] = call[u]
    BY <1>0, <1>11 DEF TypeOK, CallOK, FreeAll, NoCall
  <2> QED BY <1>3, <2>1
<1>12. ASSUME NEW t \in Thread,
              \/ \E p \in Page : Evict(t, p)
              \/ HitRead(t) \/ HitWrite(t) \/ Miss(t) \/ EvictNothing(t)
              \/ WriteBack(t) \/ FillWrite(t) \/ FillRead(t) \/ CountShard(t)
       PROVE  CloseClean'
  <2>1. pc[t] # "idle" /\ call[t].op # "close"
    BY <1>0, <1>12 DEF CallOK, Evict, HitRead, HitWrite, HitStep, Miss, EvictNothing,
         WriteBack, FillWrite, FillRead, CountShard
  <2>2. /\ \A u \in Thread : u # t => call'[u] = call[u]
        /\ call'[t].op = call[t].op
    <3>1. CASE WriteBack(t)
      <4>1. PICK r : call' = [call EXCEPT ![t].rc = r]
        BY <3>1 DEF WriteBack
      <4> QED BY <1>0, <4>1, RcKeepsCall
    <3>2. CASE FillRead(t)
      <4>1. PICK b, r : call' = [call EXCEPT ![t].buf = b, ![t].rc = r]
        BY <3>2 DEF FillRead
      <4> QED BY <1>0, <4>1 DEF TypeOK, Call
    <3>3. CASE CountShard(t)
      <4>1. PICK s, h, m : call' = [call EXCEPT ![t].shard = s, ![t].h = h, ![t].sum = m]
        BY <3>3 DEF CountShard
      <4> QED BY <1>0, <4>1 DEF TypeOK, Call
    <3>4. ASSUME NEW p \in Page, Evict(t, p)
          PROVE  /\ \A u \in Thread : u # t => call'[u] = call[u]
                 /\ call'[t].op = call[t].op
      <4>1. PICK v, f : call' = [call EXCEPT ![t].victim = v, ![t].slot = f]
        BY <3>4 DEF Evict
      <4> QED BY <1>0, <4>1 DEF TypeOK, Call
    <3>5. CASE HitRead(t) \/ HitWrite(t) \/ EvictNothing(t) \/ FillWrite(t)
      BY <1>0, <3>5 DEF TypeOK, Call, HitRead, HitWrite, EvictNothing, FillWrite
    <3>6. CASE Miss(t)
      BY <1>0, <3>6 DEF TypeOK, Call, Miss
    <3> QED BY <1>12, <3>1, <3>2, <3>3, <3>4, <3>5, <3>6
  <2> QED BY <1>3, <1>4, <2>1, <2>2
<1>13. ASSUME NEW t \in Thread, Return(t) PROVE CloseClean'
  <2>1. pc[t] = "done" /\ UNCHANGED frames /\ call'[t].op # "close"
        /\ \A u \in Thread : u # t => call'[u] = call[u] /\ pc'[u] = pc[u]
    BY <1>0, <1>13 DEF TypeOK, Return, NoCall, Goto, shardVars
  <2> QED BY <2>1 DEF CloseClean, DirtySlots
<1>14. UNCHANGED vars => CloseClean'
  BY <1>1 DEF vars, shardVars
<1> QED BY NextCases, <1>2, <1>6, <1>7, <1>8, <1>9, <1>10, <1>11, <1>12, <1>13, <1>14

\* Nothing enters a closed cache.
LEMMA ClosedStep == ASSUME Inv, ClosedEmpty, [Next]_vars PROVE ClosedEmpty'
<1>0. CallOK
  BY DEF Inv
<1>1. ASSUME NEW t \in Thread, FreeAll(t) PROVE ClosedEmpty'
  BY <1>1 DEF FreeAll, AllocShards, ClosedEmpty
<1>2. ASSUME NEW t \in Thread, pc_close(t) \/ (\E c \in Arguments : Enter(t, c))
                               \/ Lock(t) \/ Working(t) \/ Leaving(t) \/ Return(t)
      PROVE  phase' # "closed"
  BY <1>0, <1>2 DEF CallOK, pc_close, Enter, Lock, Working, Leaving, SameCall, Return,
                    Access, InSection, shardVars
<1>3. pc_open \/ UNCHANGED vars => ClosedEmpty'
  BY DEF pc_open, ClosedEmpty, vars, shardVars
<1> QED BY Control, <1>1, <1>2, <1>3 DEF ClosedEmpty

\* All of this holds in every reachable state when nothing fails.
LEMMA StoreInvariance == ASSUME Faults = {} PROVE Spec => []StoreInv
<1>1. Init => CloseClean /\ ClosedEmpty
  BY DEF Init, CloseClean, ClosedEmpty, NoCall
<1>2. Inv /\ CloseClean /\ ClosedEmpty /\ [Next]_vars => CloseClean' /\ ClosedEmpty'
  BY CloseStep, ClosedStep
<1>3. Spec => [](PoolIndexed /\ CleanMatchesDisk)
  <2>1. Spec => []PoolIndexed
    BY PoolIsIndexed
  <2> QED BY <2>1, CleanIsOnDisk, PTL
<1>4. Inv /\ (PoolIndexed /\ CleanMatchesDisk) /\ CloseClean /\ ClosedEmpty => StoreInv
  BY DEF StoreInv
<1> QED BY Invariance, <1>1, <1>2, <1>3, <1>4, PTL DEF Spec

-----------------------------------------------------------------------------
(* The contents of a page.                                                 *)

\* The one thread that writes a page back does so in the page's shard, from a
\* frame that still holds the page.
LEMMA WriterFacts ==
    ASSUME Inv, NEW p \in Page, NEW t \in WritingBack(p)
    PROVE  /\ t \in Thread /\ pc[t] = "writeback" /\ call[t].victim = p
           /\ call[t].shard = ShardOf(p) /\ ShardOf(p) \in Shard
           /\ call[t].slot \in Slot
           /\ frames[ShardOf(p)][call[t].slot].valid
           /\ frames[ShardOf(p)][call[t].slot].pageno = p
           /\ index[ShardOf(p)][p] = NotFound
           /\ \A u \in WritingBack(p) : u = t
<1>0. CallOK /\ MissOK /\ FramesInShard
  BY DEF Inv
<1>1. ASSUME NEW u \in WritingBack(p)
      PROVE  /\ u \in Thread /\ pc[u] = "writeback" /\ call[u].victim = p
             /\ call[u].shard = ShardOf(p) /\ ShardOf(p) \in Shard
             /\ call[u].slot \in Slot
             /\ frames[ShardOf(p)][call[u].slot].valid
             /\ frames[ShardOf(p)][call[u].slot].pageno = p
             /\ index[ShardOf(p)][p] = NotFound
  <2>1. u \in Thread /\ pc[u] = "writeback" /\ call[u].victim = p
    BY DEF WritingBack
  <2>2. call[u].shard \in Shard
    BY <1>0, <2>1 DEF CallOK, InSection
  <2>3. /\ call[u].slot \in Slot
        /\ frames[call[u].shard][call[u].slot].valid
        /\ frames[call[u].shard][call[u].slot].pageno = p
        /\ index[call[u].shard][p] = NotFound
    BY <1>0, <2>1 DEF MissOK
  <2>4. call[u].shard = ShardOf(p)
    BY <1>0, <2>2, <2>3 DEF FramesInShard
  <2> QED BY <2>1, <2>2, <2>3, <2>4
<1>2. \A u \in WritingBack(p) : u = t
  BY <1>1, Alone DEF InSection
<1> QED BY <1>1, <1>2

\* Where the contents of a page are.
LEMMA ContentCases ==
    ASSUME Inv, NEW p \in Page
    PROVE  LET s == ShardOf(p) IN
           /\ index[s][p] # NotFound =>
                 Content(p) = frames[s][index[s][p]].bytes /\ WritingBack(p) = {}
           /\ \A t \in WritingBack(p) : Content(p) = frames[s][call[t].slot].bytes
           /\ index[s][p] = NotFound /\ WritingBack(p) = {} => Content(p) = disk[p]
<1>1. \A t \in WritingBack(p) : index[ShardOf(p)][p] = NotFound
  BY WriterFacts
<1>2. ASSUME NEW t \in WritingBack(p)
      PROVE  Content(p) = frames[ShardOf(p)][call[t].slot].bytes
  <2>1. \A u \in WritingBack(p) : u = t
    BY WriterFacts
  <2>2. (CHOOSE u \in WritingBack(p) : TRUE) = t
    BY <2>1
  <2> QED BY <1>1, <2>2 DEF Content
<1> QED BY <1>1, <1>2 DEF Content

\* A step keeps the contents of a page when it keeps what they are read from.
LEMMA ContentKept ==
    ASSUME NEW p \in Page,
           index'[ShardOf(p)][p] = index[ShardOf(p)][p],
           WritingBack(p)' = WritingBack(p),
           \A t \in WritingBack(p) :
               /\ call'[t].slot = call[t].slot
               /\ frames'[ShardOf(p)][call[t].slot].bytes
                    = frames[ShardOf(p)][call[t].slot].bytes,
           index[ShardOf(p)][p] # NotFound =>
               frames'[ShardOf(p)][index[ShardOf(p)][p]].bytes
                 = frames[ShardOf(p)][index[ShardOf(p)][p]].bytes,
           index[ShardOf(p)][p] = NotFound /\ WritingBack(p) = {} => disk'[p] = disk[p]
    PROVE  Content(p)' = Content(p)
<1> DEFINE w == CHOOSE u \in WritingBack(p) : TRUE
<1>1. w' = w
  OBVIOUS
<1>2. WritingBack(p) # {} => w \in WritingBack(p)
  OBVIOUS
<1>3. Content(p) = IF index[ShardOf(p)][p] # NotFound
                   THEN frames[ShardOf(p)][index[ShardOf(p)][p]].bytes
                   ELSE IF WritingBack(p) # {} THEN frames[ShardOf(p)][call[w].slot].bytes
                   ELSE disk[p]
  BY DEF Content
<1>4. Content(p)' = IF index'[ShardOf(p)][p] # NotFound
                    THEN frames'[ShardOf(p)][index'[ShardOf(p)][p]].bytes
                    ELSE IF WritingBack(p)' # {} THEN frames'[ShardOf(p)][call'[w'].slot].bytes
                    ELSE disk'[p]
  BY DEF Content, ShardOf
<1> HIDE DEF w
<1> QED BY <1>1, <1>2, <1>3, <1>4

SameContent == \A p \in Page : Content(p)' = Content(p)

\* The pages other than p.
OtherContent(p) == \A q \in Page : q # p => Content(q)' = Content(q)

\* Most steps touch neither the file nor the pool.
LEMMA QuietContent ==
    ASSUME Inv, UNCHANGED <<disk, index, frames>>,
           \A t \in Thread : pc[t] = "writeback" \/ pc'[t] = "writeback" =>
                pc'[t] = pc[t] /\ call'[t] = call[t]
    PROVE  SameContent
<1> SUFFICES ASSUME NEW p \in Page PROVE Content(p)' = Content(p)
  BY DEF SameContent
<1>1. WritingBack(p)' = WritingBack(p)
  BY DEF WritingBack
<1>2. \A t \in WritingBack(p) : call'[t].slot = call[t].slot
  BY DEF WritingBack
<1> QED BY <1>1, <1>2, ContentKept

\* When t's step touches one frame of its shard, a page q that is in another
\* frame, or in none, keeps its contents.
LEMMA OtherPage ==
    ASSUME Inv, NEW t \in Thread, NEW f \in Slot, NEW q \in Page,
           pc[t] \in InSection, q \notin {call[t].victim} \/ pc[t] # "writeback",
           \A u \in Thread : u # t => pc'[u] = pc[u] /\ call'[u] = call[u],
           pc'[t] = "writeback" => call'[t].victim # q,
           pc[t] = "writeback" => call[t].slot = f,
           index'[ShardOf(q)][q] = index[ShardOf(q)][q],
           \A s \in Shard, g \in Slot :
               s # call[t].shard \/ g # f => frames'[s][g].bytes = frames[s][g].bytes,
           ShardOf(q) # call[t].shard \/ index[ShardOf(q)][q] # f,
           index[ShardOf(q)][q] = NotFound /\ WritingBack(q) = {} => disk'[q] = disk[q]
    PROVE  Content(q)' = Content(q)
<1>0. TypeOK /\ ShardOf(q) \in Shard
  BY ShardOfType DEF Inv
<1>1. WritingBack(q)' = WritingBack(q)
  <2>1. t \notin WritingBack(q) /\ t \notin WritingBack(q)'
    BY DEF WritingBack
  <2> QED BY <2>1 DEF WritingBack
<1>2. ASSUME NEW u \in WritingBack(q)
      PROVE  /\ call'[u].slot = call[u].slot
             /\ frames'[ShardOf(q)][call[u].slot].bytes = frames[ShardOf(q)][call[u].slot].bytes
  <2>1. u \in Thread /\ pc[u] = "writeback" /\ call[u].shard = ShardOf(q) /\ call[u].slot \in Slot
    BY WriterFacts
  <2>2. u # t
    BY <1>2 DEF WritingBack
  <2>3. call[u].shard # call[t].shard
    BY <2>1, <2>2, Alone DEF InSection
  <2> QED BY <1>0, <2>1, <2>2, <2>3
<1>3. index[ShardOf(q)][q] # NotFound => index[ShardOf(q)][q] \in Slot
  BY <1>0 DEF TypeOK
<1> QED BY <1>0, <1>1, <1>2, <1>3, ContentKept

-----------------------------------------------------------------------------
(* What each action does to the contents of the pages.                     *)

\* Opening and freeing the cache keep what is on disk, and that is all there is.
LEMMA AllocContent ==
    ASSUME StoreInv, pc_open \/ \E t \in Thread : FreeAll(t)
    PROVE  SameContent
<1>0. TypeOK /\ CallOK /\ ClosesAlone /\ IndexSound
  BY DEF StoreInv, Inv
<1>1. \A t \in Thread : pc[t] # "writeback" /\ pc'[t] # "writeback"
  <2>1. CASE pc_open
    BY <1>0, <2>1 DEF pc_open, CallOK
  <2>2. ASSUME NEW t \in Thread, FreeAll(t)
        PROVE  \A u \in Thread : pc[u] # "writeback" /\ pc'[u] # "writeback"
    <3>1. pc[t] = "free" /\ call[t].op = "close"
      BY <1>0, <2>2 DEF FreeAll, CallOK
    <3> QED BY <1>0, <2>2, <3>1 DEF TypeOK, FreeAll, Goto, ClosesAlone
  <2> QED BY <2>1, <2>2
<1> SUFFICES ASSUME NEW p \in Page PROVE Content(p)' = Content(p)
  BY DEF SameContent
<1>2. WritingBack(p) = {} /\ WritingBack(p)' = {}
  BY <1>1 DEF WritingBack
<1>3. UNCHANGED disk /\ index' = EmptyIndex
  BY DEF pc_open, FreeAll, AllocShards
<1>4. ShardOf(p) \in Shard
  BY ShardOfType
<1>5. Content(p)' = disk[p]
  BY <1>2, <1>3, <1>4 DEF Content, EmptyIndex, ShardOf
<1>6. CASE pc_open
  BY <1>2, <1>4, <1>5, <1>6 DEF Content, EmptyIndex, ShardOf, pc_open, StoreInv, ClosedEmpty
<1>7. ASSUME NEW t \in Thread, FreeAll(t) PROVE Content(p) = disk[p]
  <2>1. pc[t] = "free" /\ call[t].op = "close"
    BY <1>0, <1>7 DEF FreeAll, CallOK
  <2>2. DirtySlots(ShardOf(p)) = {}
    BY <1>4, <2>1 DEF StoreInv, CloseClean
  <2> DEFINE f == index[ShardOf(p)][p]
  <2>3. CASE f # NotFound
    <3>1. /\ f \in Slot /\ frames[ShardOf(p)][f].valid /\ frames[ShardOf(p)][f].pageno = p
      BY <1>0, <1>4, <2>3 DEF TypeOK, IndexSound
    <3>2. ~frames[ShardOf(p)][f].dirty
      BY <2>2, <3>1 DEF DirtySlots
    <3>3. frames[ShardOf(p)][f].bytes = disk[p]
      BY <1>4, <3>1, <3>2 DEF StoreInv, CleanMatchesDisk
    <3> QED BY <2>3, <3>3 DEF Content
  <2>4. CASE f = NotFound
    BY <1>2, <2>4 DEF Content
  <2> QED BY <2>3, <2>4
<1> QED BY <1>5, <1>6, <1>7

\* The victim of an eviction is on disk, or about to be written there from the
\* frame it is still in.
LEMMA EvictContent ==
    ASSUME StoreInv, NEW t \in Thread, NEW p \in Page, Evict(t, p)
    PROVE  SameContent
<1> DEFINE s == call[t].shard
           f == index[s][p]
<1>0. Inv /\ TypeOK /\ IndexSound
  BY DEF StoreInv, Inv
<1>1. /\ s \in Shard /\ f \in Slot /\ f # NotFound /\ frames[s][f].valid
      /\ frames[s][f].pageno = p /\ ShardOf(p) = s
      /\ index' = [index EXCEPT ![s][p] = NotFound]
  BY <1>0, EvictEffect
<1>2. \/ frames[s][f].dirty /\ UNCHANGED frames /\ pc'[t] = "writeback"
      \/ ~frames[s][f].dirty /\ Discard(s, f) /\ pc'[t] = "fill"
  BY <1>0 DEF Evict, Goto, TypeOK
<1>3. /\ pc[t] = "evict" /\ UNCHANGED disk
      /\ call'[t].victim = p /\ call'[t].slot = f
      /\ \A u \in Thread : u # t => pc'[u] = pc[u] /\ call'[u] = call[u]
  BY <1>0 DEF Evict, Goto, TypeOK, Call
<1> HIDE DEF s, f
<1>4. \A r \in Shard, g \in Slot : frames'[r][g].bytes = frames[r][g].bytes
  <2>1. CASE UNCHANGED frames
    BY <2>1
  <2>2. CASE Discard(s, f)
    BY <1>0, <1>1, <2>2, DiscardEffect
  <2> QED BY <1>2, <2>1, <2>2
<1>5. ASSUME NEW q \in Page, q # p PROVE Content(q)' = Content(q)
  <2>1. ShardOf(q) \in Shard
    BY ShardOfType
  <2>2. index'[ShardOf(q)][q] = index[ShardOf(q)][q]
    BY <1>0, <1>1, <1>5, <2>1 DEF TypeOK
  <2>3. ShardOf(q) # s \/ index[ShardOf(q)][q] # f
    BY <1>0, <1>1, <1>5 DEF IndexSound
  <2> QED BY <1>0, <1>1, <1>3, <1>4, <1>5, <2>1, <2>2, <2>3, OtherPage DEF InSection, s
<1>6. index[s][p] # NotFound /\ index'[s][p] = NotFound
  BY <1>0, <1>1 DEF f, TypeOK
<1>7. Content(p) = frames[s][f].bytes /\ WritingBack(p) = {}
  BY <1>0, <1>1, <1>6, ContentCases DEF f
<1>8. ASSUME pc'[t] = "writeback" PROVE Content(p)' = Content(p)
  <2>1. WritingBack(p)' = {t}
    BY <1>3, <1>7, <1>8 DEF WritingBack
  <2>2. (CHOOSE u \in WritingBack(p)' : TRUE) = t
    BY <2>1
  <2>3. Content(p)' = frames'[s][call'[t].slot].bytes
    BY <1>1, <1>6, <2>1, <2>2 DEF Content, ShardOf
  <2> QED BY <1>1, <1>3, <1>4, <1>7, <2>3
<1>9. ASSUME pc'[t] = "fill" PROVE Content(p)' = Content(p)
  <2>1. WritingBack(p)' = {}
    BY <1>3, <1>7, <1>9 DEF WritingBack
  <2>2. Content(p)' = disk[p]
    BY <1>1, <1>3, <1>6, <2>1 DEF Content, ShardOf
  <2>3. frames[s][f].bytes = disk[p]
    BY <1>1, <1>2, <1>9 DEF StoreInv, CleanMatchesDisk
  <2> QED BY <1>7, <2>2, <2>3
<1> QED BY <1>2, <1>5, <1>8, <1>9 DEF SameContent

\* Without faults a write puts its block where it belongs.
LEMMA DiskWritten ==
    ASSUME Faults = {}, NEW p, NEW b, NEW ok \in BOOLEAN, disk_write_block(p, b, ok)
    PROVE  disk' = [disk EXCEPT ![p] = b]
BY DEF disk_write_block

\* The write-back moves a block from its frame to the file.
LEMMA WriteBackContent ==
    ASSUME Faults = {}, StoreInv, NEW t \in Thread, WriteBack(t)
    PROVE  SameContent
<1> DEFINE s == call[t].shard
           f == call[t].slot
<1>0. Inv /\ TypeOK /\ IndexSound /\ CallOK /\ MissOK /\ FramesInShard
  BY DEF StoreInv, Inv
<1>p. PICK p \in Page : p = call[t].victim
  BY <1>0 DEF MissOK, WriteBack
<1>1. /\ s \in Shard /\ f \in Slot /\ frames[s][f].valid
      /\ frames[s][f].pageno = p /\ ShardOf(p) = s /\ index[s][p] = NotFound
  <2>0. pc[t] = "writeback"
    BY DEF WriteBack
  <2>1. s \in Shard
    BY <1>0, <2>0 DEF CallOK, InSection
  <2>2. f \in Slot /\ frames[s][f].valid /\ frames[s][f].pageno = p /\ index[s][p] = NotFound
    BY <1>0, <1>p, <2>0 DEF MissOK
  <2>3. ShardOf(p) = s
    BY <1>0, <2>1, <2>2 DEF FramesInShard
  <2> QED BY <2>1, <2>2, <2>3
<1>2. /\ pc[t] = "writeback" /\ pc'[t] = "fill" /\ UNCHANGED index /\ Discard(s, f)
      /\ \A u \in Thread : u # t => pc'[u] = pc[u]
  BY <1>0 DEF WriteBack, Goto, TypeOK
<1>3. \A u \in Thread : u # t => call'[u] = call[u]
  BY <1>0, RcKeepsCall DEF WriteBack
<1>4. disk' = [disk EXCEPT ![p] = frames[s][f].bytes]
  BY <1>p, DiskWritten DEF WriteBack
<1>5. \A r \in Shard, g \in Slot : frames'[r][g].bytes = frames[r][g].bytes
  BY <1>0, <1>1, <1>2, DiscardEffect
<1>6. t \in WritingBack(p)
  BY <1>2, <1>p DEF WritingBack
<1>7. Content(p) = frames[s][f].bytes /\ \A u \in WritingBack(p) : u = t
  BY <1>0, <1>1, <1>6, ContentCases, WriterFacts
<1>8. ASSUME NEW q \in Page, q # p PROVE Content(q)' = Content(q)
  <2>1. disk'[q] = disk[q]
    BY <1>0, <1>4, <1>8 DEF TypeOK
  <2>2. ShardOf(q) # s \/ index[ShardOf(q)][q] # f
    BY <1>0, <1>1, <1>8, SlotType DEF IndexSound
  <2> HIDE DEF s, f
  <2> QED BY <1>0, <1>1, <1>2, <1>3, <1>5, <1>8, <2>1, <2>2, <1>p, OtherPage DEF InSection, s, f
<1> HIDE DEF s, f
<1>9. WritingBack(p)' = {}
  BY <1>2, <1>3, <1>7 DEF WritingBack
<1>10. Content(p)' = frames[s][f].bytes
  <2>1. Content(p)' = disk'[p]
    BY <1>1, <1>2, <1>9 DEF Content, ShardOf
  <2> QED BY <1>0, <1>1, <1>4, <2>1 DEF TypeOK
<1> QED BY <1>7, <1>8, <1>10 DEF SameContent

\* pc_flush writes a page that is found in memory before and after.
LEMMA FlushContent ==
    ASSUME Faults = {}, StoreInv, NEW t \in Thread, FlushFrame(t)
    PROVE  SameContent
<1> DEFINE s == call[t].shard
           f == Min(DirtySlots(s))
<1>0. Inv /\ TypeOK /\ CallOK /\ FramesInShard /\ PoolIndexed
  BY DEF StoreInv, Inv
<1>1. s \in Shard /\ f \in Slot /\ frames[s][f].valid /\ pc[t] = "flush"
  BY <1>0, FlushSlotType DEF FlushFrame, DirtySlots, CallOK, InSection
<1>2. /\ frames' = [frames EXCEPT ![s][f].dirty = FALSE] /\ UNCHANGED <<index, pc>>
      /\ disk' = [disk EXCEPT ![frames[s][f].pageno] = frames[s][f].bytes]
  <2>1. frames' = [frames EXCEPT ![s][f].dirty = FALSE] /\ UNCHANGED <<index, pc>>
    BY DEF FlushFrame
  <2>2. PICK ok \in BOOLEAN : disk_write_block(frames[s][f].pageno, frames[s][f].bytes, ok)
    BY DEF FlushFrame
  <2> QED BY <2>1, <2>2, DiskWritten
<1> HIDE DEF s, f
<1>3. \A u \in Thread : call'[u].victim = call[u].victim /\ call'[u].slot = call[u].slot
  <2>1. PICK r : call' = [call EXCEPT ![t].rc = r]
    BY DEF FlushFrame
  <2> QED BY <1>0, <2>1, RcKeepsCall
<1>4. \A r \in Shard, g \in Slot : frames'[r][g].bytes = frames[r][g].bytes
  BY <1>0, <1>1, <1>2 DEF TypeOK, Frame
<1>5. index[s][frames[s][f].pageno] = f
  <2>1. ASSUME NEW u \in Thread, pc[u] = "writeback", call[u].shard = s PROVE FALSE
    BY <1>0, <1>1, <2>1, Alone DEF InSection, s
  <2> QED BY <1>0, <1>1, <2>1 DEF PoolIndexed
<1> SUFFICES ASSUME NEW q \in Page PROVE Content(q)' = Content(q)
  BY DEF SameContent
<1>6. ShardOf(q) \in Shard
  BY ShardOfType
<1>7. WritingBack(q)' = WritingBack(q)
  BY <1>2, <1>3 DEF WritingBack
<1>8. \A u \in WritingBack(q) : u \in Thread /\ call[u].slot \in Slot
  BY <1>0, WriterFacts
<1>9. index[ShardOf(q)][q] # NotFound => index[ShardOf(q)][q] \in Slot
  BY <1>0, <1>6 DEF TypeOK
<1>10. index[ShardOf(q)][q] = NotFound => disk'[q] = disk[q]
  <2>1. index[ShardOf(q)][q] = NotFound => q # frames[s][f].pageno
    BY <1>0, <1>1, <1>5, SlotType DEF FramesInShard
  <2> QED BY <1>0, <1>1, <1>2, <2>1 DEF TypeOK, FramesInShard
<1> QED BY <1>2, <1>3, <1>4, <1>6, <1>7, <1>8, <1>9, <1>10, ContentKept

\* A write that hits stores its block.
LEMMA HitWriteContent ==
    ASSUME StoreInv, NEW t \in Thread, HitWrite(t), NEW p \in Page, p = call[t].page
    PROVE  Content(p)' = call[t].buf /\ OtherContent(p)
<1> DEFINE s == call[t].shard
           f == index[s][p]
           new == [frames[s][f] EXCEPT !.bytes = call[t].buf, !.dirty = TRUE]
<1>0. Inv /\ TypeOK /\ IndexSound /\ CallOK
  BY DEF StoreInv, Inv
<1>1. /\ s \in Shard /\ f \in Slot /\ f # NotFound /\ s = ShardOf(p)
      /\ frames[s][f].pageno = p
  <2>1. s \in Shard /\ f # NotFound /\ s = ShardOf(p)
    BY <1>0 DEF HitWrite, HitStep, InSection, CallOK
  <2> QED BY <1>0, <2>1 DEF TypeOK, IndexSound
<1>2. /\ pc[t] = "lookup" /\ pc'[t] = "done" /\ UNCHANGED <<index, disk, call>>
      /\ \A u \in Thread : u # t => pc'[u] = pc[u]
  BY <1>0 DEF HitWrite, HitStep, Goto, TypeOK
<1>3. new.bytes = call[t].buf
  BY <1>0, <1>1 DEF TypeOK, Frame
<1>4. frames' = [frames EXCEPT ![s][f] = new]
  BY DEF HitWrite
<1> HIDE DEF new
<1>5. /\ frames'[s][f].bytes = call[t].buf
      /\ \A r \in Shard, g \in Slot : r # s \/ g # f => frames'[r][g] = frames[r][g]
  BY <1>0, <1>1, <1>3, <1>4 DEF TypeOK
<1>6. ASSUME NEW q \in Page, q # p PROVE Content(q)' = Content(q)
  <2>1. ShardOf(q) # s \/ index[ShardOf(q)][q] # f
    BY <1>0, <1>1, <1>6 DEF IndexSound
  <2> HIDE DEF f
  <2> QED BY <1>0, <1>1, <1>2, <1>5, <1>6, <2>1, OtherPage DEF InSection
<1>7. Content(p)' = frames'[s][f].bytes
  BY <1>1, <1>2 DEF Content, ShardOf
<1> QED BY <1>5, <1>6, <1>7 DEF OtherContent

\* A miss ends with the page in its frame; until then it was on disk.
LEMMA InstallContent ==
    ASSUME Faults = {}, StoreInv, NEW t \in Thread, pc[t] = "fill",
           NEW p \in Page, p = call[t].page, NEW b, NEW d, Install(t, b, d), UNCHANGED disk,
           \A u \in Thread : u # t => call'[u] = call[u]
    PROVE  Content(p) = disk[p] /\ Content(p)' = b /\ OtherContent(p)
<1> DEFINE s == call[t].shard
           f == call[t].slot
<1>0. Inv /\ TypeOK /\ IndexSound
  BY DEF StoreInv, Inv
<1>1. /\ s \in Shard /\ f \in Slot /\ ShardOf(p) = s
      /\ ~frames[s][f].valid /\ index[s][p] = NotFound /\ frames'[s][f].bytes = b
      /\ \A r \in Shard, g \in Slot : r # s \/ g # f => frames'[r][g] = frames[r][g]
  BY <1>0, InstallEffect
<1>2. index' = [index EXCEPT ![s][p] = f]
  BY DEF Install, pol_insert
<1>3. pc'[t] = "done" /\ \A u \in Thread : u # t => pc'[u] = pc[u]
  BY <1>0 DEF Install, Goto, TypeOK
<1> HIDE DEF f
<1>4. Content(p) = disk[p]
  <2>1. ASSUME NEW u \in WritingBack(p) PROVE FALSE
    <3>1. u \in Thread /\ pc[u] = "writeback" /\ call[u].shard = s
      BY <1>0, <1>1, WriterFacts
    <3> QED BY <1>0, <3>1, Alone DEF InSection
  <2> QED BY <1>0, <1>1, <2>1, ContentCases
<1> HIDE DEF s
<1>5. Content(p)' = b
  <2>1. index'[s][p] = f
    BY <1>0, <1>1, <1>2 DEF TypeOK
  <2> QED BY <1>1, <2>1, SlotType DEF Content, ShardOf
<1>6. ASSUME NEW q \in Page, q # p PROVE Content(q)' = Content(q)
  <2>1. ShardOf(q) \in Shard
    BY ShardOfType
  <2>2. ShardOf(q) # s \/ index[ShardOf(q)][q] # f
    BY <1>0, <1>1, SlotType DEF IndexSound
  <2>3. index'[ShardOf(q)][q] = index[ShardOf(q)][q]
    BY <1>0, <1>2, <1>6, <2>1 DEF TypeOK
  <2> QED BY <1>0, <1>1, <1>3, <1>6, <2>2, <2>3, OtherPage DEF InSection, s
<1> QED BY <1>4, <1>5, <1>6 DEF OtherContent

\* Calling, locking, reading in memory, counting and returning change no page.
LEMMA OutsideContent ==
    ASSUME StoreInv, NEW t \in Thread,
           \/ pc_close(t) \/ (\E c \in Arguments : Enter(t, c)) \/ Lock(t)
           \/ HitRead(t) \/ Miss(t) \/ EvictNothing(t) \/ FlushShard(t)
           \/ CountShard(t) \/ Return(t)
    PROVE  SameContent
<1>0. Inv /\ TypeOK
  BY DEF StoreInv, Inv
<1>1. UNCHANGED <<disk, index, frames>>
  BY DEF pc_close, Enter, Lock, HitRead, HitStep, Miss, EvictNothing, FlushShard,
         CountShard, Return, shardVars
<1>2. /\ \A u \in Thread : u # t => pc'[u] = pc[u] /\ call'[u] = call[u]
      /\ pc[t] # "writeback" /\ pc'[t] # "writeback"
  BY <1>0 DEF TypeOK, pc_close, Enter, Lock, Section, HitRead, HitStep, Miss,
              EvictNothing, FlushShard, CountShard, Return, NextShard, Goto
<1> QED BY <1>0, <1>1, <1>2, QuietContent

-----------------------------------------------------------------------------
(* What each action does to the requests of the callers.                   *)

SameRequests == \A t \in Thread : Request(t)' = Request(t)

OtherRequests(t) == \A u \in Thread : u # t => Request(u)' = Request(u)

\* A thread's step leaves the requests of the others alone.
LEMMA OthersWait ==
    ASSUME NEW t \in Thread, \A u \in Thread : u # t => pc'[u] = pc[u] /\ call'[u] = call[u]
    PROVE  OtherRequests(t)
BY DEF OtherRequests, Request

\* Inside a call a request stays as it was.
LEMMA InsideCall ==
    ASSUME Inv, NEW t \in Thread,
           \/ pc_close(t) \/ Lock(t) \/ Miss(t) \/ (\E p \in Page : Evict(t, p))
           \/ EvictNothing(t) \/ WriteBack(t) \/ FlushFrame(t) \/ FlushShard(t)
           \/ CountShard(t) \/ FreeAll(t)
    PROVE  SameRequests
<1>0. TypeOK /\ CallOK
  BY DEF Inv
<1>1. ASSUME pc[t] # "done", call'[t].op = call[t].op, call'[t].page = call[t].page,
             call'[t].buf = call[t].buf,
             pc'[t] # "done" \/ call[t].op \notin {"read", "write"},
             \A u \in Thread : u # t => pc'[u] = pc[u] /\ call'[u] = call[u]
      PROVE  SameRequests
  BY <1>1 DEF SameRequests, Request
<1>2. CASE Lock(t) \/ EvictNothing(t)
  BY <1>0, <1>1, <1>2 DEF TypeOK, Lock, EvictNothing, Goto, Section, shardVars
<1>3. CASE Miss(t)
  BY <1>0, <1>1, <1>3 DEF TypeOK, Call, Miss, Goto
<1>4. ASSUME NEW p \in Page, Evict(t, p) PROVE SameRequests
  <2>1. PICK v, f : call' = [call EXCEPT ![t].victim = v, ![t].slot = f]
    BY <1>4 DEF Evict
  <2>2. /\ call'[t].op = call[t].op /\ call'[t].page = call[t].page
        /\ call'[t].buf = call[t].buf /\ \A u \in Thread : u # t => call'[u] = call[u]
    BY <1>0, <2>1 DEF TypeOK, Call
  <2>3. pc[t] # "done" /\ pc'[t] # "done" /\ \A u \in Thread : u # t => pc'[u] = pc[u]
    BY <1>0, <1>4 DEF TypeOK, Evict, Goto
  <2> QED BY <1>1, <2>2, <2>3
<1>5. CASE WriteBack(t) \/ FlushFrame(t)
  <2>1. PICK r : call' = [call EXCEPT ![t].rc = r]
    BY <1>5 DEF WriteBack, FlushFrame
  <2>2. /\ call'[t].op = call[t].op /\ call'[t].page = call[t].page
        /\ call'[t].buf = call[t].buf /\ \A u \in Thread : u # t => call'[u] = call[u]
    BY <1>0, <2>1 DEF TypeOK, Call
  <2>3. pc[t] # "done" /\ pc'[t] # "done" /\ \A u \in Thread : u # t => pc'[u] = pc[u]
    BY <1>0, <1>5 DEF TypeOK, WriteBack, FlushFrame, Goto
  <2> QED BY <1>1, <2>2, <2>3
<1>6. CASE FlushShard(t) \/ CountShard(t)
  <2>1. PICK s, h, m : call' = [call EXCEPT ![t].shard = s, ![t].h = h, ![t].sum = m]
    <3>1. CASE CountShard(t)
      BY <3>1 DEF CountShard
    <3>2. CASE FlushShard(t)
      <4>1. PICK s : call' = [call EXCEPT ![t].shard = s]
        BY <3>2 DEF FlushShard
      <4>2. call' = [call EXCEPT ![t].shard = s, ![t].h = call[t].h, ![t].sum = call[t].sum]
        BY <1>0, <4>1 DEF TypeOK, Call
      <4> QED BY <4>2
    <3> QED BY <1>6, <3>1, <3>2
  <2>2. /\ call'[t].op = call[t].op /\ call'[t].page = call[t].page
        /\ call'[t].buf = call[t].buf /\ \A u \in Thread : u # t => call'[u] = call[u]
    BY <1>0, <2>1 DEF TypeOK, Call
  <2>3. /\ pc[t] # "done" /\ call[t].op \notin {"read", "write"}
        /\ \A u \in Thread : u # t => pc'[u] = pc[u]
    BY <1>0, <1>6 DEF TypeOK, CallOK, FlushShard, CountShard, NextShard, Goto
  <2> QED BY <1>1, <2>2, <2>3
<1>7. CASE pc_close(t) \/ FreeAll(t)
  <2>1. /\ call[t].op \notin {"read", "write"} /\ call'[t].op \notin {"read", "write"}
        /\ \A u \in Thread : u # t => pc'[u] = pc[u] /\ call'[u] = call[u]
    BY <1>0, <1>7 DEF TypeOK, CallOK, pc_close, FreeAll, NoCall, Goto
  <2> QED BY <2>1 DEF SameRequests, Request
<1> QED BY <1>2, <1>3, <1>4, <1>5, <1>6, <1>7

-----------------------------------------------------------------------------
(* Each step of the cache is a step of BlockStore, or a stutter.           *)

\* A new call to pc_read or pc_write is a request; the other calls are not.
LEMMA EnterInvokes ==
    ASSUME StoreInv, NEW t \in Thread, NEW c \in Arguments, Enter(t, c)
    PROVE  SameRequests
           \/ \E op \in {"read", "write"}, p \in Page, b \in Bytes : Store!Invoke(t, op, p, b)
<1>0. Inv /\ TypeOK /\ CallOK
  BY DEF StoreInv, Inv
<1>1. /\ pc[t] = "idle" /\ pc'[t] = "lock" /\ call'[t] = c /\ call[t].op = "none"
      /\ \A u \in Thread : u # t => pc'[u] = pc[u] /\ call'[u] = call[u]
  BY <1>0 DEF TypeOK, CallOK, Enter, Goto
<1>2. OtherRequests(t)
  BY <1>1, OthersWait
<1>3. Request(t) = Store!NoRequest
  BY <1>1 DEF Request, Store!NoRequest, Store!NoPage, NoPage
<1>4. CASE c.op \in {"read", "write"}
  <2>1. c.page \in Page /\ c.buf \in Bytes
    BY <1>4 DEF Arguments, Call
  <2>2. Request(t)' = [op |-> c.op, page |-> c.page, buf |-> c.buf, done |-> FALSE]
    BY <1>1, <1>4 DEF Request
  <2>3. SameContent
    BY OutsideContent
  <2>4. Store!Invoke(t, c.op, c.page, c.buf)
    BY <1>2, <1>3, <2>2, <2>3 DEF Store!Invoke, OtherRequests, SameContent
  <2> QED BY <1>4, <2>1, <2>4
<1>5. CASE c.op \notin {"read", "write"}
  <2>1. Request(t)' = Request(t)
    BY <1>1, <1>5 DEF Request
  <2> QED BY <1>2, <2>1 DEF SameRequests, OtherRequests
<1> QED BY <1>4, <1>5

\* A pc_read takes effect when it has found its page in memory, or fetched it.
LEMMA ReadServes ==
    ASSUME Faults = {}, StoreInv, NEW t \in Thread, HitRead(t) \/ FillRead(t)
    PROVE  Store!Read(t)
<1>0. Inv /\ TypeOK /\ CallOK
  BY DEF StoreInv, Inv
<1>1. /\ call[t].op = "read" /\ pc[t] # "done" /\ pc'[t] = "done"
      /\ \A u \in Thread : u # t => pc'[u] = pc[u] /\ call'[u] = call[u]
  BY <1>0 DEF TypeOK, HitRead, HitStep, FillRead, Install, Goto
<1>2. PICK p \in Page : p = call[t].page
  BY <1>0, <1>1 DEF CallOK
<1>3. SameContent /\ call'[t].buf = Content(p)
  <2>1. CASE HitRead(t)
    <3>1. /\ call' = [call EXCEPT ![t].buf = frames[call[t].shard][index[call[t].shard][p]].bytes]
          /\ index[call[t].shard][p] # NotFound /\ call[t].shard = ShardOf(p)
      BY <1>0, <1>1, <1>2, <2>1 DEF HitRead, HitStep, CallOK
    <3>2. call'[t].buf = frames[ShardOf(p)][index[ShardOf(p)][p]].bytes
      BY <1>0, <3>1 DEF TypeOK, Call
    <3> QED BY <2>1, <3>1, <3>2, OutsideContent DEF Content
  <2>2. CASE FillRead(t)
    <3>1. /\ pc[t] = "fill" /\ UNCHANGED disk /\ Install(t, disk[p], FALSE)
          /\ \E r : call' = [call EXCEPT ![t].buf = disk[p], ![t].rc = r]
      BY <1>2, <2>2 DEF FillRead, disk_read_block
    <3>2. call'[t].buf = disk[p]
      BY <1>0, <3>1 DEF TypeOK, Call
    <3>3. Content(p) = disk[p] /\ Content(p)' = disk[p] /\ OtherContent(p)
      BY <1>1, <1>2, <3>1, InstallContent
    <3> QED BY <3>2, <3>3 DEF SameContent, OtherContent
  <2> QED BY <2>1, <2>2
<1>4. call'[t].op = call[t].op /\ call'[t].page = call[t].page
  <2>1. \E b, r : call' = [call EXCEPT ![t].buf = b]
                  \/ call' = [call EXCEPT ![t].buf = b, ![t].rc = r]
    BY DEF HitRead, FillRead
  <2> QED BY <1>0, <2>1 DEF TypeOK, Call
<1>5. /\ Request(t) = [op |-> "read", page |-> p, buf |-> call[t].buf, done |-> FALSE]
      /\ Request(t)' = [op |-> "read", page |-> p, buf |-> Content(p), done |-> TRUE]
  BY <1>1, <1>2, <1>3, <1>4 DEF Request
<1>6. OtherRequests(t)
  BY <1>1, OthersWait
<1>7. Store!Pending(t, "read")
  BY <1>5 DEF Store!Pending
<1>8. [u \in Thread |-> Request(u)']
        = [[u \in Thread |-> Request(u)] EXCEPT ![t] = Store!Served(@, Content(p))]
  <2>1. Request(t)' = Store!Served(Request(t), Content(p))
    BY <1>5 DEF Store!Served
  <2> QED BY <1>6, <2>1 DEF OtherRequests
<1>9. [q \in Page |-> Content(q)'] = [q \in Page |-> Content(q)]
  BY <1>3 DEF SameContent
<1>10. [q \in Page |-> Content(q)][Request(t).page] = Content(p)
  BY <1>5
<1> QED BY <1>7, <1>8, <1>9, <1>10 DEF Store!Read

\* A pc_write takes effect when its block is in the page's frame.
LEMMA WriteServes ==
    ASSUME Faults = {}, StoreInv, NEW t \in Thread, HitWrite(t) \/ FillWrite(t)
    PROVE  Store!Write(t)
<1>0. Inv /\ TypeOK /\ CallOK
  BY DEF StoreInv, Inv
<1>1. /\ call[t].op = "write" /\ pc[t] # "done" /\ pc'[t] = "done" /\ UNCHANGED call
      /\ \A u \in Thread : u # t => pc'[u] = pc[u]
  BY <1>0 DEF TypeOK, HitWrite, HitStep, FillWrite, Install, Goto
<1>2. PICK p \in Page : p = call[t].page
  BY <1>0, <1>1 DEF CallOK
<1>3. Content(p)' = call[t].buf /\ OtherContent(p)
  <2>1. CASE HitWrite(t)
    BY <1>2, <2>1, HitWriteContent
  <2>2. CASE FillWrite(t)
    <3>1. pc[t] = "fill" /\ Install(t, call[t].buf, TRUE) /\ UNCHANGED <<disk, call>>
      BY <2>2 DEF FillWrite
    <3> QED BY <1>2, <3>1, InstallContent
  <2> QED BY <2>1, <2>2
<1>4. /\ Request(t) = [op |-> "write", page |-> p, buf |-> call[t].buf, done |-> FALSE]
      /\ Request(t)' = [op |-> "write", page |-> p, buf |-> call[t].buf, done |-> TRUE]
  BY <1>1, <1>2 DEF Request
<1>5. OtherRequests(t)
  BY <1>1, OthersWait
<1>6. Store!Pending(t, "write")
  BY <1>4 DEF Store!Pending
<1>7. [u \in Thread |-> Request(u)']
        = [[u \in Thread |-> Request(u)] EXCEPT ![t] = Store!Served(@, @.buf)]
  <2>1. Request(t)' = Store!Served(Request(t), Request(t).buf)
    BY <1>4 DEF Store!Served
  <2> QED BY <1>5, <2>1 DEF OtherRequests
<1>8. [q \in Page |-> Content(q)']
        = [[q \in Page |-> Content(q)] EXCEPT ![Request(t).page] = Request(t).buf]
  <2>1. Request(t).page = p /\ Request(t).buf = call[t].buf
    BY <1>4
  <2>2. [[q \in Page |-> Content(q)] EXCEPT ![p] = call[t].buf]
          = [q \in Page |-> IF q = p THEN call[t].buf ELSE Content(q)]
    OBVIOUS
  <2> QED BY <1>3, <2>1, <2>2 DEF OtherContent
<1> QED BY <1>6, <1>7, <1>8 DEF Store!Write

\* The return of a pc_read or pc_write ends its request.
LEMMA ReturnResponds ==
    ASSUME StoreInv, NEW t \in Thread, Return(t)
    PROVE  SameRequests \/ Store!Respond(t)
<1>0. TypeOK
  BY DEF StoreInv, Inv
<1>1. /\ pc[t] = "done" /\ call'[t] = NoCall
      /\ \A u \in Thread : u # t => pc'[u] = pc[u] /\ call'[u] = call[u]
  BY <1>0 DEF TypeOK, Return, Goto
<1>2. OtherRequests(t)
  BY <1>1, OthersWait
<1>3. Request(t)' = Store!NoRequest
  BY <1>1 DEF Request, NoCall, Store!NoRequest, Store!NoPage, NoPage
<1>4. CASE call[t].op \in {"read", "write"}
  <2>1. Request(t).done
    BY <1>1, <1>4 DEF Request
  <2>2. SameContent
    BY OutsideContent
  <2> QED BY <1>2, <1>3, <2>1, <2>2 DEF Store!Respond, OtherRequests, SameContent
<1>5. CASE call[t].op \notin {"read", "write"}
  <2>1. Request(t)' = Request(t)
    BY <1>3, <1>5 DEF Request, Store!NoRequest, Store!NoPage, NoPage
  <2> QED BY <1>2, <2>1 DEF SameRequests, OtherRequests
<1> QED BY <1>4, <1>5

\* Every step of the cache is a step of the store, or changes nothing it shows.
LEMMA StoreStep ==
    ASSUME Faults = {}, StoreInv, [Next]_vars
    PROVE  [Store!Next]_(Store!vars)
<1>0. Inv
  BY DEF StoreInv
<1>1. SameContent /\ SameRequests => UNCHANGED Store!vars
  BY DEF SameContent, SameRequests, Store!vars
<1>2. CASE UNCHANGED vars
  <2>1. UNCHANGED <<disk, index, frames, pc, call>>
    BY <1>2 DEF vars, shardVars
  <2>2. SameContent
    BY <1>0, <2>1, QuietContent
  <2>3. SameRequests
    BY <2>1 DEF SameRequests, Request
  <2> QED BY <1>1, <2>2, <2>3
<1>3. CASE pc_open
  <2>1. SameRequests
    BY <1>3 DEF pc_open, SameRequests, Request
  <2> QED BY <1>1, <1>3, <2>1, AllocContent
<1>4. ASSUME NEW t \in Thread,
             \/ pc_close(t) \/ Lock(t) \/ Miss(t) \/ EvictNothing(t) \/ FlushShard(t)
             \/ CountShard(t)
      PROVE  UNCHANGED Store!vars
  BY <1>0, <1>1, <1>4, InsideCall, OutsideContent
<1>5. ASSUME NEW t \in Thread, FreeAll(t) PROVE UNCHANGED Store!vars
  BY <1>0, <1>1, <1>5, InsideCall, AllocContent
<1>6. ASSUME NEW t \in Thread, NEW p \in Page, Evict(t, p) PROVE UNCHANGED Store!vars
  BY <1>0, <1>1, <1>6, InsideCall, EvictContent
<1>7. ASSUME NEW t \in Thread, WriteBack(t) PROVE UNCHANGED Store!vars
  BY <1>0, <1>1, <1>7, InsideCall, WriteBackContent
<1>8. ASSUME NEW t \in Thread, FlushFrame(t) PROVE UNCHANGED Store!vars
  BY <1>0, <1>1, <1>8, InsideCall, FlushContent
<1>9. ASSUME NEW t \in Thread, NEW c \in Arguments, Enter(t, c)
      PROVE  [Store!Next]_(Store!vars)
  BY <1>1, <1>9, EnterInvokes, OutsideContent DEF Store!Next
<1>10. ASSUME NEW t \in Thread, HitRead(t) \/ FillRead(t) PROVE Store!Next
  BY <1>10, ReadServes DEF Store!Next, Store!Serve
<1>11. ASSUME NEW t \in Thread, HitWrite(t) \/ FillWrite(t) PROVE Store!Next
  BY <1>11, WriteServes DEF Store!Next, Store!Serve
<1>12. ASSUME NEW t \in Thread, Return(t) PROVE [Store!Next]_(Store!vars)
  BY <1>1, <1>12, ReturnResponds, OutsideContent DEF Store!Next, Store!Serve
<1> QED BY NextCases, <1>2, <1>3, <1>4, <1>5, <1>6, <1>7, <1>8, <1>9, <1>10, <1>11, <1>12

\* When nothing fails, the cache implements one atomic block per page, for any
\* number of threads, pages, shards and frames: what pc_read delivers is the
\* last block that pc_write stored, across evictions, write-backs, flushes,
\* closings and reopenings.
THEOREM ImplementsStore ==
    ASSUME Faults = {}
    PROVE  Spec => StoreSpec
<1>1. Init => Store!Init
  <2> SUFFICES ASSUME Init PROVE Store!Init
    OBVIOUS
  <2>1. \A p \in Page : Content(p) = disk[p] /\ disk[p] \in Bytes
    <3>1. \A p \in Page : ShardOf(p) \in Shard /\ WritingBack(p) = {}
      BY ShardOfType DEF Init, WritingBack
    <3> QED BY <3>1 DEF Init, Content, EmptyIndex, Bytes
  <2>2. \A t \in Thread : Request(t) = Store!NoRequest
    BY DEF Init, NoCall, Request, Store!NoRequest, Store!NoPage, NoPage
  <2> QED BY <2>1, <2>2 DEF Store!Init
<1>2. StoreInv /\ [Next]_vars => [Store!Next]_(Store!vars)
  BY StoreStep
<1> QED BY StoreInvariance, <1>1, <1>2, PTL DEF Spec, StoreSpec, Store!Spec

=============================================================================
