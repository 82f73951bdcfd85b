---------------------------- MODULE BenchProofs ----------------------------
(***************************************************************************)
(* Theorems about Bench, for any number of threads and operations: run_one *)
(* replays every operation of its workload at most once, and once if every *)
(* thread can start; it closes the cache only when no thread is left in    *)
(* it; and the metrics it takes are those of its workload, although they   *)
(* are added up one shard at a time.                                       *)
(***************************************************************************)
EXTENDS Bench, PageCacheProofs

-----------------------------------------------------------------------------
(* The inductive invariant.                                                *)

AfterJoin == {"ratio", "ratio answer", "depth", "depth answer", "close", "closing"}

BenchTypeOK ==
    /\ step \in {"open", "create", "join", "end", "undefined"} \cup AfterJoin
    /\ work \in Workload
    /\ nthreads \in 1 .. MaxThreads
    /\ th \in 0 .. nthreads - 1
    /\ slice \in [Worker -> {"new", "running", "ended", "never"}]
    /\ done \in [Worker -> Nat]
    /\ result \in [hits: Nat, misses: Nat, depth_hits: Nat, depth_sum: Nat]
    /\ replays \in [Op -> Nat]

\* Where main is tells whether the cache is open.
PhaseOfStep ==
    /\ step \in {"open", "end"} => phase = "closed"
    /\ step = "closing" => phase # "open"
    /\ step \notin {"open", "end", "closing"} => phase = "open"

NothingRun == /\ \A k \in Worker : slice[k] = "new"
              /\ \A i \in Op : replays[i] = 0
              /\ result = NoResult

\* How far the slices are, by where main is.
SlicesOK ==
    /\ \A k \in Worker : slice[k] = "new" => done[k] = 0
    /\ \A k \in Worker : k \notin Slices => slice[k] = "new"
    /\ \A k \in Slices : done[k] <= Count(k)
    /\ \A k \in Slices : slice[k] = "never" => nthreads > 1
    /\ step = "open" => NothingRun
    /\ step = "create" => \A k \in Slices : slice[k] = "new" <=> k >= th
    /\ step = "join" => \A k \in Slices : /\ slice[k] # "new"
                                          /\ k < th => slice[k] \in {"ended", "never"}
    /\ step \in AfterJoin => \A k \in Slices : slice[k] \in {"ended", "never"}
    /\ step = "end" => NothingRun \/ \A k \in Slices : slice[k] \in {"ended", "never"}
    /\ step \notin {"create", "join", "undefined"} => th = 0
    /\ step = "undefined" => nthreads > 1

\* The operations replayed are those that the slices have got past.
Replayed(i) == \E k \in Slices : Start(k) <= i /\ i < Start(k) + done[k]

ReplaysExact == \A i \in Op : replays[i] = IF Replayed(i) THEN 1 ELSE 0

\* Who is in a call, and which.
CallersOK ==
    /\ \A k \in Worker : pc[k] # "idle" =>
          nthreads > 1 /\ slice[k] = "running" /\ call[k].op \in {"read", "write"}
    /\ pc[Main] # "idle" =>
          \/ /\ step = "join" /\ nthreads = 1 /\ slice[0] = "running"
             /\ call[Main].op \in {"read", "write"}
          \/ step = "ratio answer" /\ call[Main].op = "ratio"
          \/ step = "depth answer" /\ call[Main].op = "depth"
          \/ step = "closing" /\ call[Main].op = "close"
    /\ step \in {"ratio answer", "depth answer"} => pc[Main] # "idle"

\* The accesses that have begun and are not counted yet.
Pending ==
    {t \in Thread : call[t].op \in {"read", "write"} /\ pc[t] \in {"lock", "lookup"}}

Total(f) == SumFunctionOnSet(f, Shard)

\* Every operation that has been replayed is a hit, a miss or under way.
CountsReplays ==
    phase # "closed" =>
        Total(hits) + Total(misses) + Cardinality(Pending) = SumFunctionOnSet(replays, Op)

\* With nobody left to count, a metric is exact as far as it has come.
MetricExact ==
    LET c == call[Main] IN
    step \in {"ratio answer", "depth answer"} =>
        /\ c.h = SumFunctionOnSet(hits, Counted(Main))
        /\ step = "ratio answer" => c.sum = SumFunctionOnSet(misses, Counted(Main))
        /\ pc[Main] = "done" => c.shard = NShards

RatioTaken ==
    step \in {"depth", "depth answer"} =>
        result.hits = Total(hits) /\ result.misses = Total(misses)

\* What concerns the threads and their slices, and what concerns the counts.
RunInv == BenchTypeOK /\ PhaseOfStep /\ SlicesOK /\ ReplaysExact /\ CallersOK
CountInv == CountsReplays /\ MetricExact /\ RatioTaken /\ MetricsOfWorkload

-----------------------------------------------------------------------------
(* The slices share out the operations.                                    *)

LEMMA Times ==
    ASSUME NEW a \in Nat, NEW b \in Nat, NEW c \in Nat
    PROVE  /\ a * c \in Nat /\ (a + 1) * c = a * c + c
           /\ a <= b => a * c <= b * c
<1>1. a * c \in Nat /\ b * c \in Nat /\ (a + 1) * c = a * c + c
  OBVIOUS
<1>2. ASSUME a <= b PROVE a * c <= b * c
  <2> DEFINE d == b - a
  <2>1. d \in Nat /\ b = a + d
    BY <1>2
  <2> HIDE DEF d
  <2>2. (a + d) * c = a * c + d * c /\ d * c \in Nat
    BY <2>1
  <2> QED BY <1>1, <2>1, <2>2
<1> QED BY <1>1, <1>2

\* per is the quotient of the division.
LEMMA PerFacts ==
    ASSUME nthreads \in Nat \ {0}
    PROVE  /\ per \in Nat
           /\ nthreads * per <= NOps
<1>1. NOps \in Nat
  BY WorkloadAssumption
<1>2. \A n \in Nat \ {0} : NOps \div n \in Nat /\ n * (NOps \div n) <= NOps
  BY <1>1, Z3
<1> QED BY <1>2 DEF per

\* The slices are in Op, follow each other and reach the end.
LEMMA SliceFacts ==
    ASSUME nthreads \in Nat \ {0}
    PROVE  /\ \A k \in Slices : /\ Start(k) \in Nat /\ Count(k) \in Nat
                                /\ Start(k) + Count(k) <= NOps
           /\ \A k, j \in Slices : k < j => Start(k) + Count(k) <= Start(j)
           /\ Start(0) = 0
           /\ Start(nthreads - 1) + Count(nthreads - 1) = NOps
           /\ \A k \in Slices : k + 1 < nthreads => Start(k) + Count(k) = Start(k + 1)
<1>0. NOps \in Nat /\ per \in Nat /\ nthreads * per <= NOps
  BY PerFacts, WorkloadAssumption
<1>1. ASSUME NEW k \in Slices
      PROVE  /\ k \in Nat /\ k * per \in Nat /\ (k + 1) * per = k * per + per
             /\ k * per + per <= NOps
  <2>1. k \in Nat /\ k + 1 \in Nat /\ k + 1 <= nthreads
    BY DEF Slices
  <2>2. (k + 1) * per <= nthreads * per /\ (k + 1) * per = k * per + per /\ k * per \in Nat
    BY <1>0, <2>1, Times
  <2>3. nthreads * per \in Nat
    BY <1>0
  <2> HIDE DEF per
  <2> QED BY <1>0, <2>1, <2>2, <2>3
<1>2. ASSUME NEW k \in Slices
      PROVE  /\ Start(k) \in Nat /\ Count(k) \in Nat
             /\ Start(k) + Count(k) <= NOps
  <2>1. k * per \in Nat /\ k * per + per <= NOps
    BY <1>1
  <2> HIDE DEF per
  <2> QED BY <1>0, <2>1 DEF Start, Count
<1>3. ASSUME NEW k \in Slices, NEW j \in Slices, k < j
      PROVE  Start(k) + Count(k) <= Start(j)
  <2>1. k \in Nat /\ j \in Nat /\ k + 1 <= j /\ k # nthreads - 1
    BY <1>3 DEF Slices
  <2>2. (k + 1) * per <= j * per
    BY <1>0, <2>1, Times
  <2>3. k * per + per <= j * per
    BY <1>1, <2>2
  <2> QED BY <2>1, <2>3 DEF Start, Count
<1>4. Start(0) = 0
  BY <1>0 DEF Start
<1>5. Start(nthreads - 1) + Count(nthreads - 1) = NOps
  <2>1. nthreads - 1 \in Slices
    BY DEF Slices
  <2>2. (nthreads - 1) * per \in Nat
    BY <1>1, <2>1
  <2> QED BY <1>0, <2>2 DEF Start, Count
<1>6. \A k \in Slices : k + 1 < nthreads => Start(k) + Count(k) = Start(k + 1)
  <2> TAKE k \in Slices
  <2> SUFFICES ASSUME k + 1 < nthreads PROVE Start(k) + Count(k) = Start(k + 1)
    OBVIOUS
  <2>1. (k + 1) * per = k * per + per /\ k # nthreads - 1
    BY <1>1 DEF Slices
  <2> QED BY <2>1 DEF Start, Count
<1> QED BY <1>2, <1>3, <1>4, <1>5, <1>6

\* Every operation is in some slice.
LEMMA SlicesCover ==
    ASSUME nthreads \in Nat \ {0}, NEW i \in Op
    PROVE  \E k \in Slices : Start(k) <= i /\ i < Start(k) + Count(k)
<1>0. per \in Nat /\ NOps \in Nat /\ i \in Nat /\ i < NOps
  BY PerFacts, WorkloadAssumption DEF Op
<1> DEFINE last == nthreads - 1
<1>1. last \in Slices /\ last \in Nat
  BY DEF Slices
<1>2. CASE Start(last) <= i
  BY <1>0, <1>1, <1>2, SliceFacts
<1>3. CASE ~(Start(last) <= i)
  <2>1. i < last * per /\ last * per \in Nat
    BY <1>0, <1>1, <1>3, Times DEF Start
  <2>2. per # 0
    BY <1>0, <1>1, <2>1, last * 0 = 0
  <2> DEFINE k == i \div per
  <2>3. k \in Nat /\ k * per <= i /\ i < k * per + per
    <3>1. \A d \in Nat \ {0} : i \div d \in Nat /\ (i \div d) * d <= i /\ i < (i \div d) * d + d
      BY <1>0, Z3
    <3> QED BY <1>0, <2>2, <3>1
  <2>4. k < last
    <3> SUFFICES ASSUME last <= k PROVE FALSE
      BY <1>1, <2>3
    <3>1. last * per <= k * per /\ k * per \in Nat
      BY <1>0, <1>1, <2>3, Times
    <3> HIDE DEF k, last, per
    <3> QED BY <1>0, <2>1, <2>3, <3>1
  <2>5. k \in Slices /\ k # nthreads - 1
    BY <2>3, <2>4 DEF Slices
  <2> HIDE DEF k
  <2> QED BY <2>3, <2>5 DEF Start, Count
<1> QED BY <1>2, <1>3

-----------------------------------------------------------------------------
(* What a step of Bench is to the cache.                                   *)

LEMMA BenchSizes ==
    /\ MaxThreads \in Nat \ {0} /\ NOps \in Nat \ {0}
    /\ Worker \subseteq Thread /\ 0 \in Worker /\ Main \in Thread /\ Main \notin Worker
    /\ \A t \in Thread : t = Main \/ t \in Worker
    /\ IsFiniteSet(Thread) /\ IsFiniteSet(Shard) /\ IsFiniteSet(Op)
<1>1. MaxThreads \in Nat \ {0} /\ NOps \in Nat \ {0} /\ Thread = Worker \cup {Main}
  BY ThreadsAssumption, WorkloadAssumption
<1>2. IsFiniteSet(Worker) /\ IsFiniteSet(Shard) /\ IsFiniteSet(Op)
  BY <1>1, SizeFacts, FS_Interval DEF Worker, Op
<1>3. IsFiniteSet(Thread)
  BY <1>1, <1>2, FS_AddElement
<1> QED BY <1>1, <1>2, <1>3 DEF Worker, Main

\* The slices are among those that run_one has room for.
LEMMA SliceRange ==
    ASSUME BenchTypeOK
    PROVE  /\ nthreads \in Nat \ {0} /\ Slices \subseteq Worker /\ 0 \in Slices
           /\ \A k \in Slices : Runner(k) \in Thread /\ done[k] \in Nat
           /\ th \in Slices
<1>1. nthreads \in Nat \ {0} /\ nthreads <= MaxThreads /\ th \in 0 .. nthreads - 1
  BY BenchSizes DEF BenchTypeOK
<1>2. Slices \subseteq Worker /\ 0 \in Slices /\ th \in Slices
  BY <1>1, BenchSizes DEF Slices, Worker
<1> QED BY <1>1, <1>2, BenchSizes DEF Runner, BenchTypeOK

\* The steps of the program.
LEMMA BenchCases ==
    ASSUME BenchTypeOK, [BenchNext]_allVars
    PROVE  \/ UNCHANGED allVars
           \/ OpenCache \/ OpenFails \/ CreateThread \/ JoinThread \/ JoinNobody
           \/ CallRatio \/ TakeRatio \/ CallDepth \/ TakeDepth \/ CloseCache
           \/ RemoveFile \/ NextRun
           \/ \E k \in Slices : ReplayOp(k) \/ SkipSlice(k) \/ EndSlice(k)
           \/ \E t \in Thread : CacheStep(t)
BY BenchSizes DEF BenchNext, MainStep, WorkerStep, Replay

\* A slice replays operations of the workload: the cache sees a legal call.
LEMMA ReplayBegins ==
    ASSUME BenchTypeOK, NEW k \in Slices, ReplayOp(k)
    PROVE  /\ Start(k) + done[k] \in Op
           /\ Begin(Runner(k))
           /\ \E c : /\ Enter(Runner(k), c)
                     /\ c.op \in {"read", "write"}
<1> DEFINE i == Start(k) + done[k]
<1>1. i \in Op
  <2>1. done[k] \in Nat /\ done[k] < Count(k) /\ nthreads \in Nat \ {0}
    BY SliceRange DEF ReplayOp
  <2>2. Start(k) \in Nat /\ Count(k) \in Nat /\ Start(k) + Count(k) <= NOps /\ NOps \in Nat
    BY <2>1, SliceFacts, BenchSizes
  <2> QED BY <2>1, <2>2 DEF Op
<1>2. work[i].page \in Page /\ Pattern \in Block
  BY <1>1, RequestedAssumption DEF BenchTypeOK, Workload
<1>3. pc_write(Runner(k), work[i].page, Pattern) \/ pc_read(Runner(k), work[i].page)
  BY DEF ReplayOp
<1>4. Begin(Runner(k))
  <2> HIDE DEF i
  <2> QED BY <1>2, <1>3 DEF Begin
<1>5. \E c : Enter(Runner(k), c) /\ c.op \in {"read", "write"}
  <2>1. ASSUME NEW t, NEW p, pc_read(t, p) PROVE \E c : c.op = "read" /\ Enter(t, c)
    BY <2>1 DEF pc_read, NoCall
  <2>2. ASSUME NEW t, NEW p, NEW b, pc_write(t, p, b) PROVE \E c : c.op = "write" /\ Enter(t, c)
    BY <2>2 DEF pc_write, NoCall
  <2> HIDE DEF i
  <2> QED BY <1>3, <2>1, <2>2
<1> QED BY <1>1, <1>4, <1>5

\* But for removing its file, a run uses the cache as PageCache's threads do.
LEMMA CacheSees ==
    ASSUME BenchTypeOK, [BenchNext]_allVars
    PROVE  [Next]_vars \/ RemoveFile
<1>1. ASSUME NEW t \in Thread, Begin(t) \/ Step(t) PROVE Next
  BY <1>1 DEF Next
<1>2. Main \in Thread
  BY BenchSizes
<1>3. CASE UNCHANGED allVars \/ OpenFails \/ CreateThread \/ JoinThread \/ JoinNobody \/ NextRun
  BY <1>3 DEF allVars, OpenFails, CreateThread, JoinThread, JoinNobody, NextRun
<1>4. CASE OpenCache
  BY <1>4 DEF OpenCache, Next
<1>5. CASE CallRatio \/ CallDepth \/ CloseCache
  BY <1>1, <1>2, <1>5 DEF CallRatio, CallDepth, CloseCache, Begin
<1>6. CASE TakeRatio \/ TakeDepth
  BY <1>1, <1>2, <1>6 DEF TakeRatio, TakeDepth, Step
<1>7. ASSUME NEW k \in Slices, ReplayOp(k) PROVE Next
  BY <1>1, <1>7, ReplayBegins, SliceRange
<1>8. ASSUME NEW k \in Slices, SkipSlice(k) \/ EndSlice(k) PROVE UNCHANGED vars
  BY <1>8 DEF SkipSlice, EndSlice
<1>9. ASSUME NEW t \in Thread, CacheStep(t) PROVE Next
  BY <1>1, <1>9 DEF CacheStep
<1> QED BY <1>3, <1>4, <1>5, <1>6, <1>7, <1>8, <1>9, BenchCases

\* The file of a cache that is closed may be removed.
LEMMA RemoveKeeps ==
    ASSUME MetricsInv, RemoveFile
    PROVE  MetricsInv'
<1>1. UNCHANGED <<phase, mu, index, frames, used, hits, misses, depth_sum, pc, call, budget>>
  BY DEF RemoveFile, shardVars, metrics
<1>2. disk' \in [Page -> Bytes]
  <2>1. \E b \in Block : b # Pattern
    BY RequestedAssumption
  <2> QED BY <2>1 DEF RemoveFile, EmptyFile, Bytes
<1>3. TypeOK'
  BY <1>1, <1>2 DEF MetricsInv, Inv, TypeOK
<1>4. /\ OneMutexEach' /\ CallOK' /\ ClosesAlone' /\ FramesInShard'
      /\ IndexSound' /\ MissOK'
  BY <1>1 DEF MetricsInv, Inv, OneMutexEach, CallOK, ClosesAlone, FramesInShard,
              IndexSound, MissOK, FreeSlots
<1>5. DepthBounded' /\ MetricsConsistent'
  BY <1>1 DEF MetricsInv, DepthBounded, MetricsConsistent, Counted
<1> QED BY <1>3, <1>4, <1>5 DEF MetricsInv, Inv

\* So the cache's own invariants hold in every run.
LEMMA CacheKept ==
    ASSUME MetricsInv, BenchTypeOK, [BenchNext]_allVars
    PROVE  MetricsInv'
<1>1. ASSUME [Next]_vars PROVE MetricsInv'
  BY <1>1, TypeStep, CallStep, ClosingStep, MutexStep, FramesStep, IndexStep, MissStep,
     DepthStep, MetricsStep DEF MetricsInv, Inv
<1> QED BY <1>1, RemoveKeeps, CacheSees

-----------------------------------------------------------------------------
(* What a step of the cache does to the call it works for.                 *)

\* A call stays the same call until it returns.
LEMMA StepKeepsCall ==
    ASSUME Inv, NEW t \in Thread, Step(t)
    PROVE  /\ pc[t] # "idle"
           /\ \/ Return(t)
              \/ FreeAll(t)
              \/ pc'[t] # "idle" /\ call'[t].op = call[t].op /\ phase' = phase
<1>0. TypeOK /\ CallOK
  BY DEF Inv
<1> DEFINE Same == pc'[t] # "idle" /\ call'[t].op = call[t].op /\ phase' = phase
<1>1. CASE Lock(t)
  BY <1>0, <1>1 DEF TypeOK, Lock, Goto, Section
<1>2. CASE \/ \E p \in Page : Evict(t, p)
           \/ HitRead(t) \/ HitWrite(t) \/ Miss(t) \/ EvictNothing(t)
           \/ WriteBack(t) \/ FillWrite(t) \/ FillRead(t)
  <2>1. call'[t].op = call[t].op
    BY <1>0, <1>2, AccessKeepsOp
  <2>2. pc[t] # "idle" /\ phase' = phase /\ pc'[t] # "idle"
    <3>1. CASE (\E p \in Page : Evict(t, p)) \/ EvictNothing(t) \/ WriteBack(t) \/ Miss(t)
      BY <1>0, <3>1 DEF TypeOK, Evict, EvictNothing, WriteBack, Miss, Goto
    <3>2. CASE HitRead(t) \/ HitWrite(t)
      BY <1>0, <3>2 DEF TypeOK, HitRead, HitWrite, HitStep, Goto
    <3>3. CASE FillWrite(t) \/ FillRead(t)
      BY <1>0, <3>3 DEF TypeOK, FillWrite, FillRead, Install, Goto
    <3> QED BY <1>2, <3>1, <3>2, <3>3
  <2> QED BY <2>1, <2>2
<1>3. CASE FlushFrame(t)
  <2>1. PICK r : call' = [call EXCEPT ![t].rc = r]
    BY <1>3 DEF FlushFrame
  <2> QED BY <1>0, <1>3, <2>1, RcKeepsCall DEF FlushFrame
<1>4. CASE FlushShard(t)
  <2>1. call'[t].op = call[t].op
    BY <1>0, <1>4 DEF TypeOK, Call, FlushShard
  <2> QED BY <1>0, <1>4, <2>1 DEF TypeOK, FlushShard, NextShard, Goto
<1>5. CASE CountShard(t)
  <2>1. PICK s, h, m : call' = [call EXCEPT ![t].shard = s, ![t].h = h, ![t].sum = m]
    BY <1>5 DEF CountShard
  <2>2. call'[t].op = call[t].op
    BY <1>0, <2>1 DEF TypeOK, Call
  <2> QED BY <1>0, <1>5, <2>2 DEF TypeOK, CountShard, NextShard, Goto
<1>6. CASE FreeAll(t) \/ Return(t)
  BY <1>6 DEF FreeAll, Return
<1> QED BY <1>1, <1>2, <1>3, <1>4, <1>5, <1>6 DEF Step

\* Where a call returns from, and who is left.
LEMMA Ends ==
    ASSUME Inv, NEW t \in Thread, Return(t) \/ FreeAll(t)
    PROVE  /\ pc'[t] = "idle" /\ call'[t].op = "none"
           /\ Return(t) => pc[t] = "done" /\ phase' = phase
           /\ FreeAll(t) => /\ call[t].op = "close" /\ phase' = "closed"
                            /\ pc[t] = "free"
BY DEF Inv, TypeOK, CallOK, Return, FreeAll, Goto, NoCall

\* An access is counted when it leaves pol_lookup, and at no other time.
LEMMA StepCounts ==
    ASSUME Inv, NEW t \in Thread, Step(t), ~FreeAll(t)
    PROVE  \/ /\ HitStep(t) \/ Miss(t)
              /\ call[t].op \in {"read", "write"}
              /\ pc[t] = "lookup" /\ pc'[t] \notin {"lock", "lookup"}
           \/ /\ UNCHANGED metrics
              /\ call[t].op \in {"read", "write"} =>
                    (pc[t] \in {"lock", "lookup"} <=> pc'[t] \in {"lock", "lookup"})
<1>0. TypeOK /\ CallOK
  BY DEF Inv
<1>1. CASE Lock(t)
  <2>1. UNCHANGED metrics /\ pc'[t] = Section(call[t].op) /\ pc[t] = "lock"
    BY <1>0, <1>1 DEF TypeOK, Lock, Goto
  <2> QED BY <2>1 DEF Section
<1>2. CASE HitRead(t) \/ HitWrite(t)
  BY <1>0, <1>2 DEF TypeOK, HitRead, HitWrite, HitStep, Goto
<1>3. CASE Miss(t)
  <2>1. pc[t] = "lookup" /\ call[t].op \in {"read", "write"}
    BY <1>0, <1>3 DEF CallOK, Miss
  <2> QED BY <1>0, <1>3, <2>1 DEF TypeOK, Miss, Goto
<1>4. CASE (\E p \in Page : Evict(t, p)) \/ EvictNothing(t)
  BY <1>0, <1>4 DEF TypeOK, Evict, EvictNothing, Goto, shardVars
<1>5. CASE WriteBack(t)
  BY <1>0, <1>5 DEF TypeOK, WriteBack, Goto
<1>6. CASE FillWrite(t) \/ FillRead(t)
  BY <1>0, <1>6 DEF TypeOK, FillWrite, FillRead, Install, Goto
<1>7. CASE FlushFrame(t) \/ FlushShard(t)
  <2>1. call[t].op \notin {"read", "write"}
    BY <1>0, <1>7 DEF CallOK, FlushFrame, FlushShard
  <2> QED BY <1>7, <2>1 DEF FlushFrame, FlushShard
<1>8. CASE CountShard(t)
  <2>1. call[t].op \notin {"read", "write"}
    BY <1>0, <1>8 DEF CallOK, CountShard
  <2> QED BY <1>8, <2>1 DEF CountShard
<1>9. CASE Return(t)
  BY <1>0, <1>9 DEF TypeOK, Return, Goto, shardVars
<1> QED BY <1>1, <1>2, <1>3, <1>4, <1>5, <1>6, <1>7, <1>8, <1>9 DEF Step

\* A call that begins is the caller's own business.
LEMMA EnterEffect ==
    ASSUME TypeOK, NEW t \in Thread, NEW c, Enter(t, c)
    PROVE  /\ phase = "open" /\ phase' = phase /\ pc[t] = "idle"
           /\ pc'[t] = "lock" /\ call'[t] = c
           /\ \A u \in Thread : u # t => pc'[u] = pc[u] /\ call'[u] = call[u]
           /\ UNCHANGED metrics
BY DEF TypeOK, Enter, Goto, shardVars

\* The calls that main makes.
LEMMA MainCalls ==
    ASSUME Inv
    PROVE  /\ CallRatio => \E c : /\ Enter(Main, c) /\ c.op = "ratio"
                                  /\ c.h = 0 /\ c.sum = 0 /\ c.shard = 0
           /\ CallDepth => \E c : /\ Enter(Main, c) /\ c.op = "depth"
                                  /\ c.h = 0 /\ c.sum = 0 /\ c.shard = 0
           /\ CloseCache => /\ phase = "open" /\ phase' = "closing"
                            /\ pc[Main] = "idle"
                            /\ pc'[Main] # "idle" /\ call'[Main].op = "close"
                            /\ \A u \in Worker : pc'[u] = pc[u] /\ call'[u] = call[u]
                            /\ UNCHANGED metrics
<1>1. CallRatio => \E c : /\ Enter(Main, c) /\ c.op = "ratio"
                          /\ c.h = 0 /\ c.sum = 0 /\ c.shard = 0
  <2> DEFINE c == [NoCall EXCEPT !.op = "ratio"]
  <2>1. c.op = "ratio" /\ c.h = 0 /\ c.sum = 0 /\ c.shard = 0
    BY DEF NoCall
  <2>2. CallRatio => Enter(Main, c)
    BY DEF CallRatio, pc_hit_ratio
  <2> HIDE DEF c
  <2> QED BY <2>1, <2>2
<1>2. CallDepth => \E c : /\ Enter(Main, c) /\ c.op = "depth"
                          /\ c.h = 0 /\ c.sum = 0 /\ c.shard = 0
  <2> DEFINE c == [NoCall EXCEPT !.op = "depth"]
  <2>1. c.op = "depth" /\ c.h = 0 /\ c.sum = 0 /\ c.shard = 0
    BY DEF NoCall
  <2>2. CallDepth => Enter(Main, c)
    BY DEF CallDepth, pc_avg_depth
  <2> HIDE DEF c
  <2> QED BY <2>1, <2>2
<1>3. ASSUME CloseCache
      PROVE  /\ phase = "open" /\ phase' = "closing" /\ pc[Main] = "idle"
             /\ pc'[Main] # "idle" /\ call'[Main].op = "close"
             /\ \A u \in Worker : pc'[u] = pc[u] /\ call'[u] = call[u]
             /\ UNCHANGED metrics
  <2>1. PICK c : c.op = "close" /\ call' = [call EXCEPT ![Main] = c]
    BY <1>3 DEF CloseCache, pc_close, NoCall
  <2>2. pc' = [pc EXCEPT ![Main] = "lock"] /\ phase = "open" /\ phase' = "closing"
        /\ pc[Main] = "idle" /\ UNCHANGED metrics
    BY <1>3, BenchSizes DEF CloseCache, pc_close, Goto, shardVars
  <2> QED BY <2>1, <2>2, BenchSizes DEF Inv, TypeOK
<1> QED BY <1>1, <1>2, <1>3

-----------------------------------------------------------------------------
(* The threads and their slices.                                           *)

\* The loops of run_one stay within nthreads.
LEMMA NextThFacts ==
    ASSUME BenchTypeOK, nthreads' = nthreads, NEW end, NextTh(th, end)
    PROVE  /\ th' \in 0 .. nthreads - 1
           /\ \/ th' = th + 1 /\ th + 1 < nthreads /\ step' = step
              \/ th' = 0 /\ th = nthreads - 1 /\ step' = end
BY BenchSizes DEF BenchTypeOK, NextTh

LEMMA BenchTypeStep ==
    ASSUME BenchTypeOK, SlicesOK, Inv, [BenchNext]_allVars
    PROVE  BenchTypeOK'
<1> USE DEF BenchTypeOK
<1>1. CASE UNCHANGED allVars
  BY <1>1 DEF allVars, benchVars
<1>2. CASE OpenCache
  <2>1. \A n \in Int : Bounded(n) \in 1 .. MaxThreads
    BY BenchSizes DEF Bounded
  <2>2. nthreads' \in 1 .. MaxThreads
    BY <1>2, <2>1, RequestedAssumption DEF OpenCache
  <2>3. 0 \in 0 .. nthreads' - 1
    <3>1. MaxThreads \in Nat /\ \A n \in 1 .. MaxThreads : 0 \in 0 .. n - 1
      BY BenchSizes
    <3> QED BY <2>2, <3>1
  <2>4. th = 0
    BY <1>2 DEF SlicesOK, OpenCache
  <2> QED BY <1>2, <2>2, <2>3, <2>4 DEF OpenCache
<1>3. CASE OpenFails
  BY <1>3 DEF OpenFails
<1>4. CASE CreateThread
  BY <1>4, NextThFacts DEF CreateThread, NextTh, AfterJoin
<1>5. CASE JoinThread \/ JoinNobody
  BY <1>5, NextThFacts DEF JoinThread, JoinNobody, NextTh, AfterJoin
<1>6. CASE CallRatio \/ CallDepth \/ CloseCache \/ RemoveFile
  BY <1>6 DEF CallRatio, CallDepth, CloseCache, RemoveFile, AfterJoin
<1>7. CASE TakeRatio \/ TakeDepth
  <2>1. call[Main].h \in Nat /\ call[Main].sum \in Nat
    BY BenchSizes DEF Inv, TypeOK, Call
  <2> QED BY <1>7, <2>1 DEF TakeRatio, TakeDepth, AfterJoin
<1>8. CASE NextRun
  BY <1>8 DEF NextRun, NoResult
<1>9. ASSUME NEW k \in Slices, ReplayOp(k) \/ SkipSlice(k) \/ EndSlice(k)
      PROVE  BenchTypeOK'
  <2>1. ReplayOp(k) => Start(k) + done[k] \in Op
    BY ReplayBegins
  <2>2. k \in Worker
    BY SliceRange
  <2> QED BY <1>9, <2>1, <2>2 DEF ReplayOp, SkipSlice, EndSlice
<1>10. ASSUME NEW t \in Thread, CacheStep(t) PROVE BenchTypeOK'
  BY <1>10 DEF CacheStep, benchVars
<1> QED BY <1>1, <1>2, <1>3, <1>4, <1>5, <1>6, <1>7, <1>8, <1>9, <1>10, BenchCases

\* Where main is keeps telling whether the cache is open.
LEMMA PhaseStep ==
    ASSUME Inv, BenchTypeOK, PhaseOfStep, CallersOK, [BenchNext]_allVars
    PROVE  PhaseOfStep'
<1> USE DEF PhaseOfStep
<1>0. TypeOK /\ CallOK
  BY DEF Inv
<1>1. CASE UNCHANGED allVars
  BY <1>1 DEF allVars, benchVars, vars
<1>2. CASE OpenCache \/ OpenFails \/ NextRun
  BY <1>2 DEF OpenCache, OpenFails, NextRun, pc_open, vars
<1>3. CASE CreateThread \/ JoinThread \/ JoinNobody
  BY <1>3 DEF CreateThread, JoinThread, JoinNobody, NextTh, vars
<1>4. CASE CallRatio \/ CallDepth \/ TakeRatio \/ TakeDepth
  BY <1>4 DEF CallRatio, CallDepth, TakeRatio, TakeDepth, pc_hit_ratio, pc_avg_depth,
              Enter, Return
<1>5. CASE CloseCache \/ RemoveFile
  BY <1>5 DEF CloseCache, RemoveFile, pc_close
<1>6. ASSUME NEW k \in Slices, ReplayOp(k) PROVE PhaseOfStep'
  <2>1. phase' = phase
    BY <1>0, <1>6, ReplayBegins, SliceRange, EnterEffect
  <2> QED BY <1>6, <2>1 DEF ReplayOp
<1>7. ASSUME NEW k \in Slices, SkipSlice(k) \/ EndSlice(k) PROVE PhaseOfStep'
  BY <1>7 DEF SkipSlice, EndSlice, vars
<1>8. ASSUME NEW t \in Thread, CacheStep(t) PROVE PhaseOfStep'
  <2>1. step' = step /\ Step(t)
    BY <1>8 DEF CacheStep, benchVars
  <2>2. CASE FreeAll(t)
    <3>1. call[t].op = "close" /\ pc[t] # "idle" /\ phase' = "closed"
      BY <1>0, <2>2, Ends DEF Inv
    <3>2. t = Main /\ step = "closing"
      BY <3>1, BenchSizes DEF CallersOK
    <3> QED BY <2>1, <3>1, <3>2
  <2>3. CASE ~FreeAll(t)
    BY <1>0, <2>1, <2>3, StepKeepsCall, Ends DEF Inv
  <2> QED BY <2>2, <2>3
<1> QED BY <1>1, <1>2, <1>3, <1>4, <1>5, <1>6, <1>7, <1>8, BenchCases

\* Every slice is one of run_one's, and its length is a number.
LEMMA SlicesTyped ==
    BenchTypeOK => Slices \subseteq Worker /\ \A k \in Slices : Count(k) \in Nat
BY SliceRange, SliceFacts

LEMMA StartsTyped ==
    BenchTypeOK => Slices \subseteq Worker /\ \A k \in Slices : Start(k) \in Nat
BY SliceRange, SliceFacts

\* The slices go from new to their end as main does.
LEMMA SlicesStep ==
    ASSUME Inv, BenchTypeOK, SlicesOK, [BenchNext]_allVars
    PROVE  SlicesOK'
<1>0. /\ nthreads \in Nat \ {0} /\ Slices \subseteq Worker
      /\ \A k \in Slices : done[k] \in Nat /\ k \in Nat /\ k < nthreads /\ Count(k) \in Nat
      /\ th \in Slices /\ Worker' = Worker
  BY SliceRange, SliceFacts DEF Slices, Worker
<1>a. nthreads' = nthreads => Slices' = Slices /\ \A k : Count(k)' = Count(k)
  BY DEF Slices, Count, per
<1>1. CASE UNCHANGED benchVars
  <2>1. UNCHANGED <<step, nthreads, th, slice, done, result, replays>>
    BY <1>1 DEF benchVars
  <2> QED BY <1>0, <1>a, <2>1 DEF SlicesOK, NothingRun
<1>2. CASE OpenCache
  <2>1. /\ step = "open" /\ step' = "create" /\ NothingRun /\ th' = 0
        /\ UNCHANGED <<slice, done>>
    BY <1>2 DEF SlicesOK, OpenCache
  <2>2. BenchTypeOK'
    BY BenchTypeStep
  <2>3. nthreads' \in Nat \ {0}
    BY <2>2, BenchSizes DEF BenchTypeOK
  <2>4. \A k \in Slices' : k \in Worker /\ k \in Nat /\ Count(k)' \in Nat
    <3>1. (Slices \subseteq Worker /\ \A k \in Slices : Count(k) \in Nat)'
      BY <2>2, SlicesTyped, PTL
    <3> QED BY <1>0, <3>1, BenchSizes DEF Worker
  <2>5. \A k \in Worker : slice[k] = "new" /\ done[k] = 0
    BY <2>1 DEF SlicesOK, NothingRun
  <2> QED BY <1>0, <2>1, <2>4, <2>5 DEF SlicesOK, AfterJoin
<1>3. CASE OpenFails
  BY <1>0, <1>a, <1>3 DEF SlicesOK, NothingRun, OpenFails, AfterJoin
<1>4. CASE CreateThread
  <2>1. /\ step = "create" /\ UNCHANGED <<nthreads, done, result, replays>>
        /\ \/ slice' = [slice EXCEPT ![th] = "running"]
           \/ slice' = [slice EXCEPT ![th] = "never"] /\ nthreads > 1
        /\ NextTh(th, "join")
    BY <1>4 DEF CreateThread
  <2>2. \/ th' = th + 1 /\ th + 1 < nthreads /\ step' = step
        \/ th' = 0 /\ th = nthreads - 1 /\ step' = "join"
    BY <2>1, NextThFacts
  <2>3. /\ \A k \in Worker : k # th => slice'[k] = slice[k]
        /\ slice'[th] \in {"running", "never"} /\ (slice'[th] = "never" => nthreads > 1)
    BY <1>0, <2>1 DEF BenchTypeOK
  <2>4. slice[th] = "new" /\ done[th] = 0
    BY <1>0, <2>1 DEF SlicesOK
  <2>5. /\ \A k \in Worker : slice'[k] = "new" => done'[k] = 0
        /\ \A k \in Worker : k \notin Slices' => slice'[k] = "new"
        /\ \A k \in Slices' : done'[k] <= Count(k)'
        /\ \A k \in Slices' : slice'[k] = "never" => nthreads' > 1
    BY <1>0, <1>a, <2>1, <2>3, <2>4 DEF SlicesOK
  <2>6. step' = "create" => \A k \in Slices' : slice'[k] = "new" <=> k >= th'
    BY <1>0, <1>a, <2>1, <2>2, <2>3 DEF SlicesOK
  <2>7. step' = "join" => \A k \in Slices' : slice'[k] # "new" /\ ~(k < th')
    <3> SUFFICES ASSUME step' = "join", NEW k \in Slices
                 PROVE  slice'[k] # "new" /\ ~(k < th')
      BY <1>a, <2>1
    <3>1. th' = 0 /\ th = nthreads - 1
      BY <2>1, <2>2
    <3> QED BY <1>0, <2>1, <2>3, <3>1 DEF SlicesOK
  <2> QED BY <2>1, <2>2, <2>5, <2>6, <2>7 DEF SlicesOK, AfterJoin
<1>5. CASE JoinThread \/ JoinNobody
  <2>1. /\ step = "join" /\ UNCHANGED <<nthreads, slice, done, result, replays>>
        /\ slice[th] \in {"ended", "never"}
        /\ \/ th' = th + 1 /\ th + 1 < nthreads /\ step' = step
           \/ th' = 0 /\ th = nthreads - 1 /\ step' = "ratio"
           \/ th' = th /\ step' = "undefined" /\ slice[th] = "never"
    BY <1>5, NextThFacts DEF JoinThread, JoinNobody
  <2>2. step' = "join" => \A k \in Slices : k < th' => slice[k] \in {"ended", "never"}
    <3> SUFFICES ASSUME step' = "join", NEW k \in Slices, k < th'
                 PROVE  slice[k] \in {"ended", "never"}
      OBVIOUS
    <3>1. k < th \/ k = th
      BY <1>0, <2>1
    <3> QED BY <2>1, <3>1 DEF SlicesOK
  <2>3. step' = "ratio" => \A k \in Slices : slice[k] \in {"ended", "never"}
    <3> SUFFICES ASSUME step' = "ratio", NEW k \in Slices
                 PROVE  slice[k] \in {"ended", "never"}
      OBVIOUS
    <3>1. k < th \/ k = th
      BY <1>0, <2>1
    <3> QED BY <2>1, <3>1 DEF SlicesOK
  <2> QED BY <1>0, <1>a, <2>1, <2>2, <2>3 DEF SlicesOK, AfterJoin
<1>6. CASE CallRatio \/ CallDepth \/ TakeRatio \/ TakeDepth \/ CloseCache \/ RemoveFile
  <2>1. /\ step \in AfterJoin /\ step' \in AfterJoin \cup {"end"}
        /\ UNCHANGED <<nthreads, th, slice, done, replays>>
    BY <1>6 DEF CallRatio, CallDepth, TakeRatio, TakeDepth, CloseCache, RemoveFile, AfterJoin
  <2> QED BY <1>0, <1>a, <2>1 DEF SlicesOK, AfterJoin
<1>7. CASE NextRun
  <2>1. /\ step = "end" /\ step' = "open" /\ UNCHANGED <<nthreads, th>> /\ NothingRun'
        /\ \A k \in Worker : slice'[k] = "new" /\ done'[k] = 0
    BY <1>7 DEF NextRun, NothingRun
  <2> QED BY <1>0, <1>a, <2>1 DEF SlicesOK, AfterJoin
<1>8. ASSUME NEW k \in Slices, ReplayOp(k) \/ SkipSlice(k) \/ EndSlice(k)
      PROVE  SlicesOK'
  <2>1. /\ slice[k] = "running" /\ UNCHANGED <<step, nthreads, th, result>>
        /\ \A j \in Worker : j # k => slice'[j] = slice[j] /\ done'[j] = done[j]
        /\ slice'[k] \in {"running", "ended"} /\ done'[k] <= Count(k)
        /\ k \in Worker
    BY <1>0, <1>8 DEF BenchTypeOK, SlicesOK, ReplayOp, SkipSlice, EndSlice
  <2>2. step # "open" /\ step \notin AfterJoin /\ (step = "create" => k < th)
        /\ (step = "join" => ~(k < th)) /\ step # "end"
    BY <1>0, <2>1 DEF SlicesOK, NothingRun
  <2> QED BY <1>0, <1>a, <2>1, <2>2 DEF SlicesOK
<1>9. ASSUME NEW t \in Thread, CacheStep(t) PROVE UNCHANGED benchVars
  BY <1>9 DEF CacheStep
<1>10. UNCHANGED allVars => UNCHANGED benchVars
  BY DEF allVars
<1> QED BY <1>1, <1>2, <1>3, <1>4, <1>5, <1>6, <1>7, <1>8, <1>9, <1>10, BenchCases

\* A slice replays its next operation, which no slice has replayed yet.
LEMMA ReplayFresh ==
    ASSUME BenchTypeOK, SlicesOK, NEW k \in Slices, ReplayOp(k)
    PROVE  ~Replayed(Start(k) + done[k])
<1> DEFINE i == Start(k) + done[k]
<1>0. /\ nthreads \in Nat \ {0}
      /\ \A j \in Slices : /\ j \in Nat /\ done[j] \in Nat /\ done[j] <= Count(j)
                           /\ Start(j) \in Nat /\ Count(j) \in Nat
      /\ done[k] < Count(k)
  BY SliceRange, SliceFacts DEF SlicesOK, Slices, ReplayOp
<1> SUFFICES ASSUME NEW j \in Slices, Start(j) <= i, i < Start(j) + done[j] PROVE FALSE
  BY DEF Replayed
<1>1. CASE j = k
  BY <1>0, <1>1
<1>2. CASE j < k
  <2>1. Start(j) + Count(j) <= Start(k)
    BY <1>0, <1>2, SliceFacts
  <2> QED BY <1>0, <2>1
<1>3. CASE k < j
  <2>1. Start(k) + Count(k) <= Start(j)
    BY <1>0, <1>3, SliceFacts
  <2> QED BY <1>0, <2>1
<1> QED BY <1>0, <1>1, <1>2, <1>3

\* Each operation is counted as often as it has been replayed: not twice.
LEMMA ReplaysStep ==
    ASSUME Inv, BenchTypeOK, SlicesOK, ReplaysExact, [BenchNext]_allVars
    PROVE  ReplaysExact'
<1>0. Slices \subseteq Worker /\ \A k \in Slices : Start(k) \in Nat /\ done[k] \in Nat
  BY SliceRange, SliceFacts
<1>1. CASE UNCHANGED <<nthreads, done, replays>>
  BY <1>1 DEF ReplaysExact, Replayed, Slices, Start, per
<1>2. CASE OpenCache \/ NextRun
  <2>1. \A i \in Op : replays'[i] = 0
    BY <1>2 DEF OpenCache, NextRun, SlicesOK, NothingRun
  <2>2. \A k \in Worker : done'[k] = 0
    BY <1>2 DEF OpenCache, NextRun, SlicesOK, NothingRun
  <2>3. ASSUME NEW i \in Op PROVE ~Replayed(i)'
    <3>1. (Slices \subseteq Worker /\ \A k \in Slices : Start(k) \in Nat)'
      BY BenchTypeStep, StartsTyped, PTL
    <3>2. i \in Int
      BY BenchSizes DEF Op
    <3>3. ASSUME NEW k \in Slices', Start(k)' <= i, i < Start(k)' + done'[k] PROVE FALSE
      BY <2>2, <3>1, <3>2, <3>3
    <3> QED BY <3>3 DEF Replayed
  <2> QED BY <2>1, <2>3 DEF ReplaysExact
<1>3. ASSUME NEW k \in Slices, ReplayOp(k) PROVE ReplaysExact'
  <2> DEFINE i == Start(k) + done[k]
  <2>1. /\ i \in Op /\ ~Replayed(i)
        /\ done' = [done EXCEPT ![k] = @ + 1]
        /\ replays' = [replays EXCEPT ![i] = @ + 1]
        /\ nthreads' = nthreads
    BY <1>3, ReplayBegins, ReplayFresh DEF ReplayOp
  <2>2. ASSUME NEW x \in Op
        PROVE  Replayed(x)' <=> Replayed(x) \/ x = i
    <3>1. Slices' = Slices /\ \A j : Start(j)' = Start(j)
      BY <2>1 DEF Slices, Start, per
    <3>2. \A j \in Slices : done'[j] = IF j = k THEN done[j] + 1 ELSE done[j]
      BY <1>0, <2>1 DEF BenchTypeOK
    <3>3. x \in Nat
      BY BenchSizes DEF Op
    <3>4. ASSUME NEW j \in Slices
          PROVE  Start(j) <= x /\ x < Start(j) + done'[j]
                   <=> \/ Start(j) <= x /\ x < Start(j) + done[j]
                       \/ j = k /\ x = i
      BY <1>0, <3>2, <3>3
    <3> HIDE DEF i
    <3> QED BY <3>1, <3>4 DEF Replayed
  <2>3. \A x \in Op : replays'[x] = IF x = i THEN replays[x] + 1 ELSE replays[x]
    BY <2>1 DEF BenchTypeOK
  <2> HIDE DEF i
  <2> QED BY <2>1, <2>2, <2>3 DEF ReplaysExact
<1>4. ASSUME \/ OpenFails \/ CreateThread \/ JoinThread \/ JoinNobody \/ CallRatio
             \/ TakeRatio \/ CallDepth \/ TakeDepth \/ CloseCache \/ RemoveFile
      PROVE  UNCHANGED <<nthreads, done, replays>>
  BY <1>4 DEF OpenFails, CreateThread, JoinThread, JoinNobody, CallRatio, TakeRatio,
              CallDepth, TakeDepth, CloseCache, RemoveFile
<1>5. ASSUME NEW k \in Slices, SkipSlice(k) \/ EndSlice(k)
      PROVE  UNCHANGED <<nthreads, done, replays>>
  BY <1>5 DEF SkipSlice, EndSlice
<1>6. ASSUME NEW t \in Thread, CacheStep(t) PROVE UNCHANGED <<nthreads, done, replays>>
  BY <1>6 DEF CacheStep, benchVars
<1>7. UNCHANGED allVars => UNCHANGED <<nthreads, done, replays>>
  BY DEF allVars, benchVars
<1> QED BY <1>1, <1>2, <1>3, <1>4, <1>5, <1>6, <1>7, BenchCases

\* The threads in a call are those that a slice or a metric has sent there.
LEMMA CallersStep ==
    ASSUME Inv, BenchTypeOK, PhaseOfStep, SlicesOK, CallersOK, [BenchNext]_allVars
    PROVE  CallersOK'
<1>0. TypeOK /\ CallOK /\ Main \in Thread /\ Main \notin Worker /\ Worker \subseteq Thread
      /\ \A t \in Thread : t = Main \/ t \in Worker
  BY BenchSizes DEF Inv
<1>s. Slices \subseteq Worker /\ 0 \in Slices /\ th \in Slices /\ nthreads \in Nat \ {0}
  BY SliceRange
<1>1. CASE UNCHANGED allVars
  BY <1>1 DEF allVars, benchVars, vars, CallersOK
<1>2. CASE OpenCache \/ OpenFails \/ NextRun
  <2>1. \A t \in Thread : pc[t] = "idle"
    BY <1>0, <1>2 DEF CallOK, PhaseOfStep, OpenCache, OpenFails, NextRun
  <2>2. pc' = pc /\ step' \notin {"ratio answer", "depth answer"}
    BY <1>2 DEF OpenCache, OpenFails, NextRun, pc_open, vars
  <2> QED BY <1>0, <2>1, <2>2 DEF CallersOK
<1>3. CASE CreateThread \/ JoinThread \/ JoinNobody
  <2>1. /\ pc' = pc /\ call' = call /\ nthreads' = nthreads
        /\ step \in {"create", "join"} /\ step' \notin {"ratio answer", "depth answer"}
    BY <1>3 DEF CreateThread, JoinThread, JoinNobody, NextTh, vars
  <2>2. pc[Main] = "idle"
    <3>1. CASE step = "create"
      BY <3>1 DEF CallersOK
    <3>2. CASE step = "join"
      <4>1. slice[th] # "running"
        BY <1>3, <3>2 DEF CreateThread, JoinThread, JoinNobody
      <4>2. nthreads = 1 => th = 0
        BY DEF BenchTypeOK
      <4> QED BY <3>2, <4>1, <4>2 DEF CallersOK
    <3> QED BY <2>1, <3>1, <3>2
  <2>3. \A k \in Worker : slice[k] = "running" => slice'[k] = "running"
    <3>1. CASE CreateThread
      <4>1. slice[th] = "new" /\ \A k \in Worker : k # th => slice'[k] = slice[k]
        BY <1>s, <3>1 DEF CreateThread, SlicesOK, BenchTypeOK, Slices
      <4> QED BY <4>1
    <3>2. CASE JoinThread \/ JoinNobody
      BY <3>2 DEF JoinThread, JoinNobody
    <3> QED BY <1>3, <3>1, <3>2
  <2> QED BY <1>0, <2>1, <2>2, <2>3 DEF CallersOK
<1>4. CASE CallRatio \/ CallDepth
  <2>1. PICK c : /\ Enter(Main, c)
                 /\ \/ step = "ratio" /\ step' = "ratio answer" /\ c.op = "ratio"
                    \/ step = "depth" /\ step' = "depth answer" /\ c.op = "depth"
    BY <1>4, MainCalls DEF CallRatio, CallDepth
  <2>2. /\ pc'[Main] # "idle" /\ call'[Main] = c
        /\ \A k \in Worker : pc'[k] = pc[k] /\ call'[k] = call[k]
    BY <1>0, <2>1, EnterEffect
  <2>3. UNCHANGED <<nthreads, slice>>
    BY <1>4 DEF CallRatio, CallDepth
  <2> QED BY <2>1, <2>2, <2>3 DEF CallersOK
<1>5. CASE TakeRatio \/ TakeDepth
  <2>1. Return(Main) /\ UNCHANGED <<nthreads, slice>> /\ step' \in {"depth", "close"}
    BY <1>5 DEF TakeRatio, TakeDepth
  <2>2. /\ pc'[Main] = "idle"
        /\ \A k \in Worker : pc'[k] = pc[k] /\ call'[k] = call[k]
    BY <1>0, <2>1 DEF Return, Goto, TypeOK
  <2> QED BY <2>1, <2>2 DEF CallersOK
<1>6. CASE CloseCache
  <2>1. UNCHANGED <<nthreads, slice>> /\ step' = "closing"
    BY <1>6 DEF CloseCache
  <2> QED BY <1>6, <2>1, MainCalls DEF CallersOK
<1>7. CASE RemoveFile
  <2>1. \A t \in Thread : pc[t] = "idle"
    BY <1>0, <1>7 DEF CallOK, RemoveFile
  <2>2. pc' = pc /\ step' = "end"
    BY <1>7 DEF RemoveFile
  <2> QED BY <1>0, <2>1, <2>2 DEF CallersOK
<1>8. ASSUME NEW k \in Slices, ReplayOp(k) PROVE CallersOK'
  <2>1. PICK c : Enter(Runner(k), c) /\ c.op \in {"read", "write"}
    BY <1>8, ReplayBegins
  <2>2. Runner(k) \in Thread /\ slice[k] = "running" /\ UNCHANGED <<step, nthreads, slice>>
    BY <1>8, SliceRange DEF ReplayOp
  <2>3. /\ pc[Runner(k)] = "idle" /\ phase = "open" /\ call'[Runner(k)] = c
        /\ \A u \in Thread : u # Runner(k) => pc'[u] = pc[u] /\ call'[u] = call[u]
    BY <1>0, <2>1, <2>2, EnterEffect
  <2>4. step \in {"create", "join", "undefined"}
    BY <1>s, <2>2, <2>3 DEF SlicesOK, PhaseOfStep, NothingRun, BenchTypeOK
  <2>5. CASE nthreads = 1
    <3>1. k = 0 /\ Runner(k) = Main
      BY <2>5 DEF Slices, Runner
    <3>2. step = "join"
      BY <1>s, <2>2, <2>4, <2>5, <3>1 DEF SlicesOK, BenchTypeOK
    <3> QED BY <1>0, <2>1, <2>2, <2>3, <2>5, <3>1, <3>2 DEF CallersOK
  <2>6. CASE nthreads # 1
    <3>1. Runner(k) = k /\ nthreads > 1
      BY <1>s, <2>6 DEF Runner
    <3> QED BY <1>0, <1>s, <2>1, <2>2, <2>3, <2>4, <3>1 DEF CallersOK
  <2> QED BY <2>5, <2>6
<1>9. ASSUME NEW k \in Slices, SkipSlice(k) \/ EndSlice(k) PROVE CallersOK'
  <2>1. /\ pc[Runner(k)] = "idle" /\ pc' = pc /\ call' = call
        /\ step' = step /\ nthreads' = nthreads
        /\ slice' = [slice EXCEPT ![k] = "ended"]
    BY <1>9 DEF SkipSlice, EndSlice, vars
  <2>2. \A j \in Worker : j # k => slice'[j] = slice[j]
    BY <1>s, <2>1 DEF BenchTypeOK
  <2>3. CASE nthreads = 1
    <3>1. k = 0 /\ Runner(k) = Main
      BY <2>3 DEF Slices, Runner
    <3>2. \A u \in Thread : pc[u] = "idle"
      <4>1. ~(nthreads > 1) /\ pc[Main] = "idle"
        BY <2>1, <2>3, <3>1
      <4> QED BY <1>0, <4>1 DEF CallersOK
    <3> QED BY <1>0, <2>1, <3>2 DEF CallersOK
  <2>4. CASE nthreads # 1
    <3>1. Runner(k) = k
      BY <2>4 DEF Runner
    <3> QED BY <1>0, <2>1, <2>2, <2>4, <3>1 DEF CallersOK
  <2> QED BY <2>3, <2>4
<1>10. ASSUME NEW t \in Thread, CacheStep(t) PROVE CallersOK'
  <2>1. /\ Step(t) /\ UNCHANGED <<step, nthreads, slice>>
        /\ ~(t = Main /\ pc[t] = "done" /\ step \in {"ratio answer", "depth answer"})
    BY <1>10 DEF CacheStep, benchVars
  <2>2. \A u \in Thread : u # t => call'[u] = call[u] /\ pc'[u] = pc[u]
    BY <1>0, <2>1, OthersKept
  <2>3. CASE Return(t) \/ FreeAll(t)
    <3>1. pc'[t] = "idle" /\ (pc[t] = "done" \/ (call[t].op = "close" /\ pc[t] = "free"))
      BY <2>3, Ends
    <3>2. t = Main => step \notin {"ratio answer", "depth answer"}
      BY <2>1, <3>1 DEF CallersOK
    <3> QED BY <1>0, <2>1, <2>2, <3>1, <3>2 DEF CallersOK
  <2>4. CASE ~Return(t) /\ ~FreeAll(t)
    <3>1. pc[t] # "idle" /\ call'[t].op = call[t].op /\ pc'[t] # "idle"
      BY <2>1, <2>4, StepKeepsCall
    <3> QED BY <1>0, <2>1, <2>2, <3>1 DEF CallersOK
  <2> QED BY <2>3, <2>4
<1> QED BY <1>1, <1>2, <1>3, <1>4, <1>5, <1>6, <1>7, <1>8, <1>9, <1>10, BenchCases

LEMMA RunInit == BenchInit => MetricsInv /\ RunInv
<1> SUFFICES ASSUME BenchInit PROVE MetricsInv /\ RunInv
  OBVIOUS
<1>1. Init
  BY DEF BenchInit
<1>2. Inv /\ DepthBounded /\ MetricsConsistent
  BY <1>1, InvInit, MetricsInit
<1>3. nthreads = 1 /\ 0 \in Worker /\ MaxThreads \in Nat \ {0} /\ Slices = {0}
  BY BenchSizes DEF BenchInit, Slices
<1>4. BenchTypeOK
  BY <1>3 DEF BenchInit, BenchTypeOK, NoResult
<1>5. \A t \in Thread : pc[t] = "idle"
  BY <1>1 DEF Init
<1>6. PhaseOfStep /\ CallersOK
  BY <1>1, <1>5, BenchSizes DEF BenchInit, Init, PhaseOfStep, CallersOK
<1>7. SlicesOK /\ ReplaysExact
  <2>1. /\ \A k \in Worker : slice[k] = "new" /\ done[k] = 0
        /\ \A i \in Op : replays[i] = 0
        /\ step = "open" /\ th = 0 /\ result = NoResult
    BY DEF BenchInit
  <2>2. /\ \A k \in Slices : Count(k) \in Nat /\ Start(k) \in Nat
        /\ Slices \subseteq Worker
    BY <1>4, SlicesTyped, StartsTyped
  <2>3. \A i \in Op : ~Replayed(i)
    <3>1. \A i \in Op : i \in Int
      BY BenchSizes DEF Op
    <3> QED BY <2>1, <2>2, <3>1 DEF Replayed
  <2> QED BY <2>1, <2>2, <2>3 DEF SlicesOK, NothingRun, ReplaysExact, AfterJoin
<1> QED BY <1>2, <1>4, <1>6, <1>7 DEF MetricsInv, RunInv

\* Every run of the benchmark keeps the cache's invariants and its own.
THEOREM RunInvariance == BenchSpec => [](MetricsInv /\ RunInv)
<1>1. BenchInit => MetricsInv /\ RunInv
  BY RunInit
<1>2. MetricsInv /\ RunInv /\ [BenchNext]_allVars => (MetricsInv /\ RunInv)'
  BY CacheKept, BenchTypeStep, PhaseStep, SlicesStep, ReplaysStep, CallersStep
  DEF MetricsInv, RunInv
<1> QED BY <1>1, <1>2, PTL DEF BenchSpec

\* No operation is replayed twice; after the joins, each has been replayed
\* once if every thread was created and had its buffer.
THEOREM ReplaysWorkloadOnce == BenchSpec => []WorkloadReplayedOnce
<1>1. RunInv => WorkloadReplayedOnce
  <2> SUFFICES ASSUME RunInv PROVE WorkloadReplayedOnce
    OBVIOUS
  <2>1. \A i \in Op : replays[i] <= 1
    BY DEF RunInv, ReplaysExact
  <2>2. ASSUME step \in {"ratio", "depth", "close", "end"}, AllReplay, NEW i \in Op
        PROVE  replays[i] = 1
    <3>1. 0 \in Slices /\ Slices \subseteq Worker /\ nthreads \in Nat \ {0}
      BY SliceRange DEF RunInv
    <3>2. \A k \in Slices : slice[k] \in {"running", "ended"}
      BY <2>2 DEF AllReplay
    <3>3. \A k \in Slices : slice[k] \in {"ended", "never"}
      BY <2>2, <3>1, <3>2 DEF RunInv, SlicesOK, AfterJoin, NothingRun
    <3>4. \A k \in Slices : done[k] = Count(k)
      BY <2>2, <3>2, <3>3 DEF AllReplay
    <3>5. Replayed(i)
      BY <3>1, <3>4, SlicesCover DEF Replayed
    <3> QED BY <3>5 DEF RunInv, ReplaysExact
  <2> QED BY <2>1, <2>2 DEF WorkloadReplayedOnce
<1> QED BY <1>1, RunInvariance, PTL

\* When main calls pc_close, and until it returns, no other thread is in a
\* call, and no slice is left that could begin one.
THEOREM ClosesWhenAllEnded == BenchSpec => []ClosesAfterAll
<1>1. RunInv => ClosesAfterAll
  <2> SUFFICES ASSUME RunInv, step \in {"close", "closing"}
               PROVE  /\ \A t \in Thread \ {Main} : pc[t] = "idle"
                      /\ \A k \in Slices : slice[k] # "running"
    BY DEF ClosesAfterAll
  <2>1. \A k \in Slices : slice[k] \in {"ended", "never"}
    BY DEF RunInv, SlicesOK, AfterJoin
  <2>2. \A k \in Worker : k \notin Slices => slice[k] = "new"
    BY DEF RunInv, SlicesOK
  <2>3. \A k \in Worker : pc[k] = "idle"
    BY <2>1, <2>2 DEF RunInv, CallersOK
  <2> QED BY <2>1, <2>3, BenchSizes
<1> QED BY <1>1, RunInvariance, PTL

-----------------------------------------------------------------------------
(* The counts.                                                             *)

LEMMA CountTypes ==
    ASSUME TypeOK, BenchTypeOK
    PROVE  /\ IsFiniteSet(Pending) /\ Cardinality(Pending) \in Nat
           /\ Total(hits) \in Nat /\ Total(misses) \in Nat
           /\ SumFunctionOnSet(replays, Op) \in Nat
<1>1. IsFiniteSet(Pending)
  BY BenchSizes, FS_Subset DEF Pending
<1>2. \A s \in Shard : hits[s] \in Nat /\ misses[s] \in Nat
  BY DEF TypeOK
<1>3. \A i \in Op : replays[i] \in Nat
  BY DEF BenchTypeOK
<1>4. Total(hits) \in Nat /\ Total(misses) \in Nat
  BY <1>2, BenchSizes, SumType DEF Total
<1>5. SumFunctionOnSet(replays, Op) \in Nat
  BY <1>3, BenchSizes, SumType
<1> QED BY <1>1, <1>4, <1>5, FS_CardinalityType

\* A step that counts nothing and replays nothing.
LEMMA QuietKeeps ==
    ASSUME CountsReplays, phase' # "closed" => phase # "closed",
           UNCHANGED metrics, replays' = replays,
           \A t \in Thread : t \in Pending' <=> t \in Pending
    PROVE  CountsReplays'
<1>1. Pending' = Pending
  <2>1. Pending \subseteq Thread /\ Pending' \subseteq Thread
    BY DEF Pending
  <2> QED BY <2>1
<1>2. hits' = hits /\ misses' = misses
  BY DEF metrics
<1>3. Total(hits)' = Total(hits) /\ Total(misses)' = Total(misses)
      /\ SumFunctionOnSet(replays, Op)' = SumFunctionOnSet(replays, Op)
  BY <1>2 DEF Total, Shard, Op
<1> QED BY <1>1, <1>3 DEF CountsReplays

\* A call that is pending after a step of another thread was so before.
LEMMA PendingOfOthers ==
    ASSUME NEW t \in Thread, \A u \in Thread : u # t => pc'[u] = pc[u] /\ call'[u] = call[u]
    PROVE  \A u \in Thread : u # t => (u \in Pending' <=> u \in Pending)
BY DEF Pending

\* The sum of the hits, or of the misses, goes up by one.
LEMMA CountOne ==
    ASSUME NEW f, NEW g, \A r \in Shard : f[r] \in Nat,
           NEW s \in Shard, g[s] = f[s] + 1, \A r \in Shard : r # s => g[r] = f[r]
    PROVE  Total(g) = Total(f) + 1
<1>1. IsFiniteSet(Shard) /\ \A r \in Shard : g[r] \in Nat
  BY BenchSizes
<1>2. \A a \in Shard :
         (\A r \in Shard : r # a => g[r] = f[r]) =>
           SumFunctionOnSet(g, Shard) = SumFunctionOnSet(f, Shard) - f[a] + g[a]
  BY <1>1, SumUpdate
<1>3. SumFunctionOnSet(f, Shard) \in Nat
  BY <1>1, SumType
<1> QED BY <1>2, <1>3 DEF Total

\* A step of the cache counts the access that it takes out of Pending.
LEMMA CacheCounts ==
    ASSUME Inv, BenchTypeOK, CountsReplays, NEW t \in Thread, Step(t), replays' = replays
    PROVE  CountsReplays'
<1>0. TypeOK
  BY DEF Inv
<1>1. \A u \in Thread : u # t => pc'[u] = pc[u] /\ call'[u] = call[u]
  BY <1>0, OthersKept
<1>2. CASE FreeAll(t)
  BY <1>2, Ends DEF CountsReplays
<1>3. ASSUME ~FreeAll(t), UNCHANGED metrics,
             call[t].op \in {"read", "write"} =>
                (pc[t] \in {"lock", "lookup"} <=> pc'[t] \in {"lock", "lookup"})
      PROVE  CountsReplays'
  <2>1. CASE Return(t)
    <3>1. t \notin Pending /\ t \notin Pending' /\ phase' = phase
      BY <2>1, Ends DEF Pending
    <3> QED BY <1>1, <1>3, <3>1, PendingOfOthers, QuietKeeps
  <2>2. CASE ~Return(t)
    <3>1. call'[t].op = call[t].op /\ phase' = phase
      BY <1>3, <2>2, StepKeepsCall
    <3>2. t \in Pending' <=> t \in Pending
      BY <1>3, <3>1 DEF Pending
    <3> QED BY <1>1, <1>3, <3>1, <3>2, PendingOfOthers, QuietKeeps
  <2> QED BY <2>1, <2>2
<1>4. ASSUME ~FreeAll(t), HitStep(t) \/ Miss(t), call[t].op \in {"read", "write"},
             pc[t] = "lookup", pc'[t] \notin {"lock", "lookup"}
      PROVE  CountsReplays'
  <2>1. t \in Pending /\ t \notin Pending'
    BY <1>4 DEF Pending
  <2>2. Pending' = Pending \ {t}
    <3>1. Pending \subseteq Thread /\ Pending' \subseteq Thread
      BY DEF Pending
    <3>2. \A u \in Thread : u # t => (u \in Pending' <=> u \in Pending)
      BY <1>1, PendingOfOthers
    <3> QED BY <2>1, <3>1, <3>2
  <2>3. Cardinality(Pending') = Cardinality(Pending) - 1
    BY <1>0, <2>1, <2>2, CountTypes, FS_RemoveElement
  <2>4. Total(hits') + Total(misses') = Total(hits) + Total(misses) + 1
    <3>1. hits \in [Shard -> Nat] /\ misses \in [Shard -> Nat]
      BY <1>0 DEF TypeOK
    <3>2. Total(hits) \in Nat /\ Total(misses) \in Nat
      BY <1>0, CountTypes
    <3>3. CASE HitStep(t)
      <4>1. PICK s \in Shard : hits' = [hits EXCEPT ![s] = @ + 1] /\ misses' = misses
        BY <3>3, HitCounts
      <4>2. /\ \A r \in Shard : hits[r] \in Nat
            /\ hits'[s] = hits[s] + 1 /\ \A r \in Shard : r # s => hits'[r] = hits[r]
        BY <3>1, <4>1
      <4>3. Total(hits') = Total(hits) + 1
        BY <4>2, CountOne
      <4> QED BY <3>2, <4>1, <4>3
    <3>4. CASE Miss(t)
      <4>1. PICK s \in Shard : misses' = [misses EXCEPT ![s] = @ + 1] /\ hits' = hits
        BY <3>4, MissCounts
      <4>2. /\ \A r \in Shard : misses[r] \in Nat
            /\ misses'[s] = misses[s] + 1 /\ \A r \in Shard : r # s => misses'[r] = misses[r]
        BY <3>1, <4>1
      <4>3. Total(misses') = Total(misses) + 1
        BY <4>2, CountOne
      <4> QED BY <3>2, <4>1, <4>3
    <3> QED BY <1>4, <3>3, <3>4
  <2>5. phase' = phase
    BY <1>4 DEF HitStep, Miss
  <2>6. Total(hits)' = Total(hits') /\ Total(misses)' = Total(misses')
    BY DEF Total, Shard
  <2>7. SumFunctionOnSet(replays, Op)' = SumFunctionOnSet(replays, Op)
    BY DEF Op
  <2>8. Total(hits) \in Nat /\ Total(misses) \in Nat /\ Cardinality(Pending) \in Nat
        /\ SumFunctionOnSet(replays, Op) \in Nat
    BY <1>0, CountTypes
  <2> QED BY <2>3, <2>4, <2>5, <2>6, <2>7, <2>8 DEF CountsReplays
<1> QED BY <1>2, <1>3, <1>4, StepCounts

\* A replay of an operation makes one more access pending.
LEMMA ReplayCounts ==
    ASSUME Inv, BenchTypeOK, CountsReplays, NEW k \in Slices, ReplayOp(k)
    PROVE  CountsReplays'
<1> DEFINE t == Runner(k)
           i == Start(k) + done[k]
<1>0. TypeOK /\ CallOK /\ t \in Thread
  BY SliceRange DEF Inv
<1>1. PICK c : Enter(t, c) /\ c.op \in {"read", "write"}
  BY ReplayBegins
<1>2. /\ phase = "open" /\ phase' = phase /\ pc[t] = "idle" /\ pc'[t] = "lock"
      /\ call'[t] = c /\ UNCHANGED metrics
      /\ \A u \in Thread : u # t => pc'[u] = pc[u] /\ call'[u] = call[u]
  BY <1>0, <1>1, EnterEffect
<1>3. t \notin Pending /\ Pending' = Pending \cup {t}
  <2>1. Pending \subseteq Thread /\ Pending' \subseteq Thread
    BY DEF Pending
  <2>2. \A u \in Thread : u # t => (u \in Pending' <=> u \in Pending)
    BY <1>0, <1>2, PendingOfOthers
  <2>3. t \notin Pending /\ t \in Pending'
    BY <1>0, <1>1, <1>2 DEF Pending
  <2> HIDE DEF t
  <2> QED BY <2>1, <2>2, <2>3
<1>4. Cardinality(Pending') = Cardinality(Pending) + 1
  BY <1>0, <1>3, CountTypes, FS_AddElement
<1>5. SumFunctionOnSet(replays', Op) = SumFunctionOnSet(replays, Op) + 1
  <2>1. i \in Op /\ replays' = [replays EXCEPT ![i] = @ + 1] /\ replays \in [Op -> Nat]
    BY ReplayBegins DEF ReplayOp, BenchTypeOK
  <2> HIDE DEF i
  <2>2. /\ i \in Op /\ replays'[i] = replays[i] + 1
        /\ \A x \in Op : x # i => replays'[x] = replays[x]
        /\ \A x \in Op : replays[x] \in Nat
        /\ \A x \in Op : replays'[x] \in Nat
    BY <2>1
  <2>3. IsFiniteSet(Op)
    BY BenchSizes
  <2>4. \A a \in Op :
           (\A x \in Op : x # a => replays'[x] = replays[x]) =>
             SumFunctionOnSet(replays', Op) =
                 SumFunctionOnSet(replays, Op) - replays[a] + replays'[a]
    BY <2>2, <2>3, SumUpdate
  <2>5. SumFunctionOnSet(replays, Op) \in Nat
    BY <2>2, <2>3, SumType
  <2> QED BY <2>2, <2>4, <2>5
<1>6. Total(hits)' = Total(hits) /\ Total(misses)' = Total(misses)
      /\ SumFunctionOnSet(replays, Op)' = SumFunctionOnSet(replays', Op)
  BY <1>2 DEF Total, Shard, Op, metrics
<1>7. Total(hits) \in Nat /\ Total(misses) \in Nat /\ Cardinality(Pending) \in Nat
      /\ SumFunctionOnSet(replays, Op) \in Nat
  BY <1>0, CountTypes
<1> QED BY <1>2, <1>4, <1>5, <1>6, <1>7 DEF CountsReplays

\* In an open cache, hits and misses are what has been replayed.
LEMMA CountsStep ==
    ASSUME Inv, BenchTypeOK, PhaseOfStep, SlicesOK, CallersOK, CountsReplays,
           [BenchNext]_allVars
    PROVE  CountsReplays'
<1>0. TypeOK /\ CallOK /\ Main \in Thread /\ Main \notin Worker
      /\ \A t \in Thread : t = Main \/ t \in Worker
  BY BenchSizes DEF Inv
<1>1. CASE UNCHANGED <<vars, replays>>
  BY <1>1, QuietKeeps DEF vars, shardVars, Pending
<1>2. CASE OpenCache
  <2>1. \A t \in Thread : pc[t] = "idle"
    BY <1>0, <1>2 DEF CallOK, OpenCache, pc_open
  <2>2. Pending' = {}
    BY <1>2, <2>1 DEF Pending, OpenCache, pc_open
  <2>3. \A s \in Shard : hits'[s] = 0 /\ misses'[s] = 0
    BY <1>2, CountersZero DEF OpenCache
  <2>4. \A i \in Op : replays'[i] = 0
    BY <1>2 DEF OpenCache, SlicesOK, NothingRun
  <2>5. Total(hits') = 0 /\ Total(misses') = 0 /\ SumFunctionOnSet(replays', Op) = 0
    BY <2>3, <2>4, BenchSizes, SumZero DEF Total
  <2>6. Total(hits)' = Total(hits') /\ Total(misses)' = Total(misses')
        /\ SumFunctionOnSet(replays, Op)' = SumFunctionOnSet(replays', Op)
    BY DEF Total, Shard, Op
  <2> QED BY <2>2, <2>5, <2>6, FS_EmptySet DEF CountsReplays
<1>3. CASE NextRun \/ RemoveFile
  <2>1. phase' = "closed"
    BY <1>3 DEF PhaseOfStep, NextRun, RemoveFile, vars
  <2> QED BY <2>1 DEF CountsReplays
<1>4. CASE CallRatio \/ CallDepth
  <2>1. PICK c : Enter(Main, c) /\ c.op \in {"ratio", "depth"}
    BY <1>4, MainCalls DEF Inv
  <2>2. /\ phase' = phase /\ call'[Main] = c /\ pc[Main] = "idle" /\ UNCHANGED metrics
        /\ \A u \in Thread : u # Main => pc'[u] = pc[u] /\ call'[u] = call[u]
    BY <1>0, <2>1, EnterEffect
  <2>3. Main \notin Pending /\ Main \notin Pending'
    BY <2>1, <2>2 DEF Pending
  <2>4. replays' = replays
    BY <1>4 DEF CallRatio, CallDepth
  <2> QED BY <1>0, <2>2, <2>3, <2>4, PendingOfOthers, QuietKeeps
<1>5. CASE CloseCache
  <2>1. Main \notin Pending /\ Main \notin Pending' /\ phase = "open" /\ UNCHANGED metrics
    BY <1>5, MainCalls DEF Pending
  <2>2. \A u \in Thread : u # Main => pc'[u] = pc[u] /\ call'[u] = call[u]
    BY <1>0, <1>5, MainCalls
  <2>3. replays' = replays
    BY <1>5 DEF CloseCache
  <2> QED BY <1>0, <2>1, <2>2, <2>3, PendingOfOthers, QuietKeeps
<1>6. CASE TakeRatio \/ TakeDepth
  BY <1>0, <1>6, CacheCounts DEF TakeRatio, TakeDepth, Step
<1>7. ASSUME NEW k \in Slices, ReplayOp(k) PROVE CountsReplays'
  BY <1>7, ReplayCounts
<1>8. ASSUME NEW t \in Thread, CacheStep(t) PROVE CountsReplays'
  BY <1>8, CacheCounts DEF CacheStep, benchVars
<1>9. ASSUME \/ UNCHANGED allVars \/ OpenFails \/ CreateThread \/ JoinThread \/ JoinNobody
             \/ \E k \in Slices : SkipSlice(k) \/ EndSlice(k)
      PROVE  UNCHANGED <<vars, replays>>
  BY <1>9 DEF allVars, benchVars, OpenFails, CreateThread, JoinThread, JoinNobody,
              SkipSlice, EndSlice
<1> QED BY <1>1, <1>2, <1>3, <1>4, <1>5, <1>6, <1>7, <1>8, <1>9, BenchCases

-----------------------------------------------------------------------------
(* The metrics of a run.                                                   *)

\* After the joins only main moves.
LEMMA OnlyMain ==
    ASSUME Inv, RunInv, step \in AfterJoin
    PROVE  /\ \A k \in Worker : pc[k] = "idle"
           /\ \A k \in Slices : slice[k] # "running"
           /\ \A t \in Thread : Step(t) => t = Main
<1>1. \A k \in Slices : slice[k] \in {"ended", "never"}
  BY DEF RunInv, SlicesOK
<1>2. \A k \in Worker : slice[k] # "running"
  BY <1>1 DEF RunInv, SlicesOK
<1>3. \A k \in Worker : pc[k] = "idle"
  BY <1>2 DEF RunInv, CallersOK
<1>4. \A t \in Thread : Step(t) => t = Main
  BY <1>3, StepKeepsCall, BenchSizes
<1> QED BY <1>1, <1>3, <1>4

LEMMA MainAlone ==
    ASSUME Inv, RunInv, [BenchNext]_allVars,
           step \in AfterJoin \/ step' \in AfterJoin \ {"ratio"}
    PROVE  /\ step \in AfterJoin
           /\ \/ UNCHANGED allVars
              \/ CallRatio \/ TakeRatio \/ CallDepth \/ TakeDepth \/ CloseCache
              \/ RemoveFile \/ CacheStep(Main)
<1>0. BenchTypeOK
  BY DEF RunInv
<1>1. step \in AfterJoin
  <2> SUFFICES ASSUME step \notin AfterJoin, step' \in AfterJoin \ {"ratio"} PROVE FALSE
    OBVIOUS
  <2>1. step' # step /\ step' \notin {"create", "join", "open", "end", "undefined"}
    BY DEF AfterJoin
  <2>2. ~UNCHANGED allVars
    BY <2>1 DEF allVars, benchVars
  <2>3. ~(OpenCache \/ OpenFails \/ CreateThread \/ JoinThread \/ JoinNobody \/ NextRun)
    BY <2>1 DEF OpenCache, OpenFails, CreateThread, JoinThread, JoinNobody, NextRun, NextTh,
                AfterJoin
  <2>4. ~(CallRatio \/ TakeRatio \/ CallDepth \/ TakeDepth \/ CloseCache \/ RemoveFile)
    BY DEF CallRatio, TakeRatio, CallDepth, TakeDepth, CloseCache, RemoveFile, AfterJoin
  <2>5. \A k \in Slices : ~(ReplayOp(k) \/ SkipSlice(k) \/ EndSlice(k))
    BY <2>1 DEF ReplayOp, SkipSlice, EndSlice
  <2>6. \A t \in Thread : ~CacheStep(t)
    BY <2>1 DEF CacheStep, benchVars
  <2> QED BY <1>0, <2>2, <2>3, <2>4, <2>5, <2>6, BenchCases
<1>2. ~(OpenCache \/ OpenFails \/ CreateThread \/ JoinThread \/ JoinNobody \/ NextRun)
  BY <1>1 DEF AfterJoin, OpenCache, OpenFails, CreateThread, JoinThread, JoinNobody, NextRun
<1>3. \A k \in Slices : ~(ReplayOp(k) \/ SkipSlice(k) \/ EndSlice(k))
  BY <1>1, OnlyMain DEF ReplayOp, SkipSlice, EndSlice
<1>4. \A t \in Thread : CacheStep(t) => t = Main
  BY <1>1, OnlyMain DEF CacheStep
<1> QED BY <1>0, <1>1, <1>2, <1>3, <1>4, BenchCases

\* Until it is done, a metric takes the next mutex or adds up the next shard.
LEMMA MetricWalk ==
    ASSUME Inv, Step(Main), call[Main].op \in {"ratio", "depth"}, pc[Main] # "done"
    PROVE  UNCHANGED metrics /\ (Lock(Main) \/ CountShard(Main))
<1>0. CallOK /\ Main \in Thread
  BY BenchSizes DEF Inv
<1>1. pc[Main] \notin {"lookup", "evict", "writeback", "fill", "flush", "free"}
  BY <1>0 DEF CallOK
<1>2. Lock(Main) \/ CountShard(Main)
  BY <1>1 DEF Step, HitRead, HitWrite, HitStep, Miss, Evict, EvictNothing, WriteBack,
              FillWrite, FillRead, FlushFrame, FlushShard, FreeAll, Return
<1>3. UNCHANGED metrics
  BY <1>2 DEF Lock, CountShard
<1> QED BY <1>2, <1>3

LEMMA CallPreserved ==
    ASSUME TypeOK, CountShard(Main), call[Main].shard \in Shard
    PROVE  LET s == call[Main].shard IN
           /\ call'[Main].op = call[Main].op /\ call'[Main].shard = s + 1
           /\ call'[Main].h = call[Main].h + hits[s]
           /\ call[Main].op = "ratio" => call'[Main].sum = call[Main].sum + misses[s]
           /\ pc'[Main] = "done" => s + 1 = NShards
<1> DEFINE s == call[Main].shard
<1>1. Main \in Thread /\ call[Main] \in Call /\ s \in Nat /\ s < NShards /\ NShards \in Nat
  BY BenchSizes, SizeFacts DEF TypeOK, Shard
<1>2. pc'[Main] = "done" => s + 1 = NShards
  BY <1>1 DEF TypeOK, CountShard, NextShard, Goto
<1>3. /\ call'[Main].op = call[Main].op /\ call'[Main].shard = s + 1
      /\ call'[Main].h = call[Main].h + hits[s]
      /\ call[Main].op = "ratio" => call'[Main].sum = call[Main].sum + misses[s]
  BY <1>1 DEF TypeOK, Call, CountShard
<1> QED BY <1>2, <1>3

\* The shards that a metric has passed.
LEMMA ShardsBelow ==
    /\ {s \in Shard : s < 0} = {}
    /\ {s \in Shard : s < NShards} = Shard
    /\ \A n \in Shard : /\ n \notin {s \in Shard : s < n}
                        /\ {s \in Shard : s < n + 1} = {s \in Shard : s < n} \cup {n}
<1>1. \A s \in Shard : s \in Nat /\ s < NShards
  BY SizeFacts
<1>2. NShards \in Nat
  BY SizeFacts
<1> QED BY <1>1, <1>2

\* What a metric has added up is what the shards it has passed have counted.
LEMMA ExactStep ==
    ASSUME Inv, RunInv, MetricExact, [BenchNext]_allVars
    PROVE  MetricExact'
<1>0. TypeOK /\ CallOK /\ Main \in Thread
  BY BenchSizes DEF Inv
<1> SUFFICES ASSUME step' \in {"ratio answer", "depth answer"}
             PROVE  LET c == call'[Main] IN
                    /\ c.h = SumFunctionOnSet(hits', Counted(Main)')
                    /\ step' = "ratio answer" => c.sum = SumFunctionOnSet(misses', Counted(Main)')
                    /\ pc'[Main] = "done" => c.shard = NShards
  BY DEF MetricExact
<1>1. CASE UNCHANGED allVars
  BY <1>1 DEF MetricExact, allVars, benchVars, vars, shardVars, metrics, Counted, Shard
<1>2. CASE CallRatio \/ CallDepth
  <2>1. PICK c : Enter(Main, c) /\ c.h = 0 /\ c.sum = 0 /\ c.shard = 0
    BY <1>2, MainCalls
  <2>2. call'[Main] = c /\ pc'[Main] = "lock"
    BY <1>0, <2>1, EnterEffect
  <2>3. Counted(Main)' = {}
    <3>1. Shard' = Shard
      BY DEF Shard
    <3> QED BY <2>1, <2>2, <3>1, ShardsBelow DEF Counted
  <2> QED BY <2>1, <2>2, <2>3, SumEmpty
<1>3. CASE CacheStep(Main)
  <2>1. Step(Main) /\ step' = step /\ pc[Main] # "done"
    BY <1>3 DEF CacheStep, benchVars
  <2>2. /\ step = "ratio answer" => call[Main].op = "ratio"
        /\ call[Main].op \in {"ratio", "depth"}
    BY <2>1 DEF RunInv, CallersOK
  <2>3. hits' = hits /\ misses' = misses /\ (Lock(Main) \/ CountShard(Main))
    BY <2>1, <2>2, MetricWalk DEF metrics
  <2>4. /\ call[Main].h = SumFunctionOnSet(hits, Counted(Main))
        /\ step = "ratio answer" => call[Main].sum = SumFunctionOnSet(misses, Counted(Main))
    BY <2>1 DEF MetricExact
  <2>5. CASE Lock(Main)
    <3>1. call' = call /\ pc'[Main] # "done"
      BY <1>0, <2>5 DEF TypeOK, Lock, Goto, Section
    <3>2. Counted(Main)' = Counted(Main)
      BY <3>1 DEF Counted, Shard
    <3> QED BY <2>1, <2>3, <2>4, <3>1, <3>2
  <2>6. CASE CountShard(Main)
    <3> DEFINE s == call[Main].shard
    <3>1. s \in Shard
      BY <1>0, <2>6 DEF CallOK, CountShard, InSection
    <3>2. /\ call'[Main].shard = s + 1 /\ call'[Main].h = call[Main].h + hits[s]
          /\ call[Main].op = "ratio" => call'[Main].sum = call[Main].sum + misses[s]
          /\ pc'[Main] = "done" => s + 1 = NShards
      BY <1>0, <2>6, <3>1, CallPreserved
    <3>3. s \notin Counted(Main) /\ Counted(Main)' = Counted(Main) \cup {s}
      <4>1. Shard' = Shard
        BY DEF Shard
      <4>2. Counted(Main)' = {r \in Shard : r < s + 1}
        BY <3>2, <4>1 DEF Counted
      <4>3. Counted(Main) = {r \in Shard : r < s}
        BY DEF Counted
      <4> HIDE DEF s
      <4> QED BY <3>1, <4>2, <4>3, ShardsBelow
    <3>4. Counted(Main) \subseteq Shard /\ IsFiniteSet(Counted(Main))
      BY CountedFinite
    <3>5. \A r \in Shard : hits[r] \in Nat /\ misses[r] \in Nat
      BY <1>0 DEF TypeOK
    <3>6. /\ SumFunctionOnSet(hits, Counted(Main)') =
                SumFunctionOnSet(hits, Counted(Main)) + hits[s]
          /\ SumFunctionOnSet(misses, Counted(Main)') =
                SumFunctionOnSet(misses, Counted(Main)) + misses[s]
      <4> HIDE DEF s
      <4> QED BY <3>1, <3>3, <3>4, <3>5, SumAdd
    <3> HIDE DEF s
    <3> QED BY <2>1, <2>2, <2>3, <2>4, <3>2, <3>6
  <2> QED BY <2>3, <2>5, <2>6
<1>4. ASSUME TakeRatio \/ TakeDepth \/ CloseCache \/ RemoveFile PROVE FALSE
  BY <1>4 DEF TakeRatio, TakeDepth, CloseCache, RemoveFile
<1> QED BY <1>1, <1>2, <1>3, <1>4, MainAlone DEF AfterJoin

\* A metric that is done has passed every shard.
LEMMA DoneIsTotal ==
    ASSUME Inv, MetricExact, step \in {"ratio answer", "depth answer"}, pc[Main] = "done"
    PROVE  /\ call[Main].h = Total(hits)
           /\ step = "ratio answer" => call[Main].sum = Total(misses)
<1>1. Counted(Main) = Shard
  BY ShardsBelow DEF MetricExact, Counted
<1> QED BY <1>1 DEF MetricExact, Total

\* Between the two metrics nobody counts.
LEMMA RatioStep ==
    ASSUME Inv, RunInv, MetricExact, RatioTaken, [BenchNext]_allVars
    PROVE  RatioTaken'
<1> SUFFICES ASSUME step' \in {"depth", "depth answer"}
             PROVE  result'.hits = Total(hits)' /\ result'.misses = Total(misses)'
  BY DEF RatioTaken
<1>0. TypeOK /\ Main \in Thread
  BY BenchSizes DEF Inv
<1>1. UNCHANGED metrics => Total(hits)' = Total(hits) /\ Total(misses)' = Total(misses)
  BY DEF Total, Shard, metrics
<1>2. CASE UNCHANGED allVars
  BY <1>1, <1>2 DEF RatioTaken, allVars, benchVars, vars, shardVars
<1>3. CASE TakeRatio
  <2>1. /\ step = "ratio answer" /\ pc[Main] = "done" /\ UNCHANGED metrics
        /\ result' = [result EXCEPT !.hits = call[Main].h, !.misses = call[Main].sum]
    BY <1>3 DEF TakeRatio, Return, shardVars
  <2>2. result'.hits = call[Main].h /\ result'.misses = call[Main].sum
    BY <2>1 DEF RunInv, BenchTypeOK
  <2> QED BY <1>1, <2>1, <2>2, DoneIsTotal
<1>4. CASE CallDepth
  <2>1. PICK c : Enter(Main, c)
    BY <1>4, MainCalls
  <2>2. UNCHANGED metrics /\ step = "depth" /\ result' = result
    BY <1>0, <1>4, <2>1, EnterEffect DEF CallDepth
  <2> QED BY <1>1, <2>2 DEF RatioTaken
<1>5. CASE CacheStep(Main)
  <2>1. Step(Main) /\ step' = step /\ result' = result
        /\ ~(pc[Main] = "done" /\ step \in {"ratio answer", "depth answer"})
    BY <1>5 DEF CacheStep, benchVars
  <2>2. pc[Main] # "idle"
    BY <1>0, <2>1, StepKeepsCall
  <2>3. step = "depth answer" /\ call[Main].op = "depth" /\ pc[Main] # "done"
    BY <2>1, <2>2 DEF RunInv, CallersOK
  <2>4. UNCHANGED metrics
    BY <2>1, <2>3, MetricWalk
  <2> QED BY <1>1, <2>1, <2>4 DEF RatioTaken
<1>6. ASSUME CallRatio \/ TakeDepth \/ CloseCache \/ RemoveFile PROVE FALSE
  BY <1>6 DEF CallRatio, TakeDepth, CloseCache, RemoveFile
<1> QED BY <1>2, <1>3, <1>4, <1>5, <1>6, MainAlone DEF AfterJoin

\* With the second metric the result is complete; then nothing touches it.
LEMMA ResultStep ==
    ASSUME MetricsInv, RunInv, CountInv, [BenchNext]_allVars
    PROVE  MetricsOfWorkload'
<1> SUFFICES ASSUME step' \in {"close", "closing", "end"}
             PROVE  /\ result'.depth_hits = result'.hits
                    /\ result'.hits + result'.misses = SumFunctionOnSet(replays', Op)
                    /\ result'.depth_sum <= (PerShard - 1) * result'.hits
  BY DEF MetricsOfWorkload, PerShard, Op
<1>0. Inv /\ TypeOK /\ CallOK /\ BenchTypeOK /\ Main \in Thread
  BY BenchSizes DEF MetricsInv, Inv, RunInv
<1>1. ASSUME step \in {"close", "closing", "end"}, result' = result, replays' = replays
      PROVE  /\ result'.depth_hits = result'.hits
             /\ result'.hits + result'.misses = SumFunctionOnSet(replays', Op)
             /\ result'.depth_sum <= (PerShard - 1) * result'.hits
  BY <1>1 DEF CountInv, MetricsOfWorkload
<1>2. CASE TakeDepth
  <2>1. /\ step = "depth answer" /\ pc[Main] = "done" /\ replays' = replays
        /\ result' = [result EXCEPT !.depth_hits = call[Main].h, !.depth_sum = call[Main].sum]
    BY <1>2 DEF TakeDepth
  <2>2. /\ result'.depth_hits = call[Main].h /\ result'.depth_sum = call[Main].sum
        /\ result'.hits = result.hits /\ result'.misses = result.misses
    BY <1>0, <2>1 DEF BenchTypeOK
  <2>3. result.hits = Total(hits) /\ result.misses = Total(misses) /\ call[Main].h = Total(hits)
    BY <1>0, <2>1, DoneIsTotal DEF CountInv, RatioTaken
  <2>4. call[Main].op = "depth"
    BY <2>1 DEF RunInv, CallersOK
  <2>5. Pending = {}
    <3>1. \A k \in Worker : pc[k] = "idle"
      BY <1>0, <2>1, OnlyMain DEF AfterJoin
    <3> QED BY <2>4, <3>1, BenchSizes DEF Pending
  <2>6. Total(hits) + Total(misses) = SumFunctionOnSet(replays, Op)
    <3>1. phase = "open"
      BY <2>1 DEF RunInv, PhaseOfStep
    <3>2. Total(hits) + Total(misses) + 0 = SumFunctionOnSet(replays, Op)
      BY <2>5, <3>1, FS_EmptySet DEF CountInv, CountsReplays
    <3>3. Total(hits) \in Nat /\ Total(misses) \in Nat
      BY <1>0, CountTypes
    <3> QED BY <3>2, <3>3
  <2>7. call[Main].sum <= (PerShard - 1) * call[Main].h
    BY <1>0, <2>4 DEF MetricsInv, MetricsConsistent
  <2> QED BY <2>1, <2>2, <2>3, <2>6, <2>7
<1>3. CASE OpenFails
  <2>1. result' = NoResult /\ replays' = replays /\ \A i \in Op : replays[i] = 0
    BY <1>3 DEF OpenFails, RunInv, SlicesOK, NothingRun
  <2>2. SumFunctionOnSet(replays, Op) = 0
    BY <2>1, BenchSizes, SumZero
  <2>3. (PerShard - 1) * 0 = 0
    BY PerShardType
  <2> QED BY <2>1, <2>2, <2>3 DEF NoResult
<1>4. CASE CloseCache \/ RemoveFile
  BY <1>1, <1>4 DEF CloseCache, RemoveFile
<1>5. ASSUME \/ OpenCache \/ CreateThread \/ JoinThread \/ JoinNobody
             \/ CallRatio \/ TakeRatio \/ CallDepth \/ NextRun
      PROVE  FALSE
  BY <1>5 DEF OpenCache, CreateThread, JoinThread, JoinNobody, CallRatio, TakeRatio,
              CallDepth, NextRun, NextTh
<1>6. ASSUME NEW k \in Slices, ReplayOp(k) PROVE FALSE
  <2>1. step' = step /\ slice[k] = "running" /\ k \in Worker
    BY <1>0, <1>6, SliceRange DEF ReplayOp
  <2> QED BY <2>1 DEF RunInv, SlicesOK, NothingRun, AfterJoin
<1>7. ASSUME NEW k \in Slices, SkipSlice(k) \/ EndSlice(k)
      PROVE  step' = step /\ result' = result /\ replays' = replays
  BY <1>7 DEF SkipSlice, EndSlice
<1>8. ASSUME UNCHANGED benchVars
      PROVE  step' = step /\ result' = result /\ replays' = replays
  BY <1>8 DEF benchVars
<1> QED BY <1>0, <1>1, <1>2, <1>3, <1>4, <1>5, <1>6, <1>7, <1>8, BenchCases DEF allVars, CacheStep

LEMMA CountInit == BenchInit => CountInv
<1> SUFFICES ASSUME BenchInit PROVE CountInv
  OBVIOUS
<1>1. phase = "closed" /\ step = "open"
  BY DEF BenchInit, Init
<1> QED BY <1>1 DEF CountInv, CountsReplays, MetricExact, RatioTaken, MetricsOfWorkload

\* The metrics that a run reports are those of its workload: both have seen
\* the same hits, hits and misses are the operations replayed, and the average
\* depth is below the number of frames of a shard.
THEOREM MetricsAreOfWorkload == BenchSpec => []MetricsOfWorkload
<1>1. MetricsInv /\ RunInv /\ CountInv /\ [BenchNext]_allVars => CountInv'
  BY CountsStep, ExactStep, RatioStep, ResultStep DEF MetricsInv, RunInv, CountInv
<1>2. CountInv => MetricsOfWorkload
  BY DEF CountInv
<1> QED BY <1>1, <1>2, CountInit, RunInvariance, PTL DEF BenchSpec
=============================================================================
