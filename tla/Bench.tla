------------------------------- MODULE Bench -------------------------------
(***************************************************************************)
(* The benchmark (src/bench/bench_main.c): run_one opens a cache, cuts a   *)
(* workload into one slice per thread, has each thread replay its slice    *)
(* through pc_read and pc_write, joins the threads, asks for the metrics   *)
(* and closes.  It is composed with PageCache, whose threads are main and  *)
(* the threads it creates: what PageCache takes for granted of its caller, *)
(* that nobody is in a call when pc_close comes, is shown here.            *)
(***************************************************************************)
EXTENDS PageCache

CONSTANTS
    MaxThreads,   \* the length of th[] and args[]: 64 in the code
    Requested,    \* the values of nthreads that run_one is called with
    NOps,         \* w->nops
    Pattern,      \* the block that every write writes
    BenchFaults   \* which of "open" (pc_open), "thread" (pthread_create) and
                  \*   "malloc" can fail

Main   == -1
Worker == 0 .. MaxThreads - 1
Op     == 0 .. NOps - 1

ASSUME ThreadsAssumption == MaxThreads \in Nat \ {0} /\ Thread = Worker \cup {Main}
ASSUME WorkloadAssumption == NOps \in Nat \ {0} /\ MaxCalls >= NOps + 2
ASSUME RequestedAssumption == Requested \subseteq Int /\ Pattern \in Block /\ Block # {Pattern}

VARIABLES
    step,      \* where main is in run_one
    work,      \* work[i]: the page of operation i, and whether it is a write
    nthreads,  \* as run_one has bounded it
    th,        \* the loop variable t of run_one
    slice,     \* slice[k]: "new", "running", "ended", or "never" created
    done,      \* done[k]: the operations that slice k has replayed
    result,    \* what the metrics have answered
    replays    \* history: how many times each operation was replayed

benchVars == <<step, work, nthreads, th, slice, done, result, replays>>
allVars == <<vars, benchVars>>

\* What workload_create makes, whatever its distribution.
Workload == [Op -> [page: Page, is_write: BOOLEAN]]

\* A file that is not there yet is all holes, which read as some other block.
EmptyFile == [p \in Page |-> CHOOSE b \in Block : b # Pattern]

NoResult == [hits |-> 0, misses |-> 0, depth_hits |-> 0, depth_sum |-> 0]

-----------------------------------------------------------------------------
(* The slices.                                                             *)

\* if (nthreads < 1) nthreads = 1; if (nthreads > 64) nthreads = 64;
Bounded(n) == IF n < 1 THEN 1 ELSE IF n > MaxThreads THEN MaxThreads ELSE n

Slices == 0 .. nthreads - 1

per == NOps \div nthreads

Start(k) == k * per

\* Mutant: the operations left over by the division belong to no slice.
CountEven(k) == per

\* The last slice takes what the division leaves.
Count(k) == IF k = nthreads - 1 THEN NOps - k * per ELSE per

\* The thread that replays slice k: with one thread, main itself.
Runner(k) == IF nthreads = 1 THEN Main ELSE k

-----------------------------------------------------------------------------
(* replay_slice                                                            *)

\* The next operation of the slice; what pc_read and pc_write answer is ignored.
ReplayOp(k) ==
    LET i == Start(k) + done[k] IN
    /\ slice[k] = "running"
    /\ done[k] < Count(k)
    /\ IF work[i].is_write THEN pc_write(Runner(k), work[i].page, Pattern)
                           ELSE pc_read(Runner(k), work[i].page)
    /\ done' = [done EXCEPT ![k] = @ + 1]
    /\ replays' = [replays EXCEPT ![i] = @ + 1]
    /\ UNCHANGED <<step, work, nthreads, th, slice, result>>

\* if (!buf) return;
SkipSlice(k) ==
    /\ "malloc" \in BenchFaults
    /\ slice[k] = "running"
    /\ done[k] = 0
    /\ pc[Runner(k)] = "idle"
    /\ slice' = [slice EXCEPT ![k] = "ended"]
    /\ UNCHANGED <<vars, step, work, nthreads, th, done, result, replays>>

EndSlice(k) ==
    /\ slice[k] = "running"
    /\ done[k] = Count(k)
    /\ pc[Runner(k)] = "idle"
    /\ slice' = [slice EXCEPT ![k] = "ended"]
    /\ UNCHANGED <<vars, step, work, nthreads, th, done, result, replays>>

Replay(k) == k \in Slices /\ (ReplayOp(k) \/ SkipSlice(k) \/ EndSlice(k))

-----------------------------------------------------------------------------
(* run_one                                                                 *)

\* The loop variable after slice k: the loop ends in the given step.
NextTh(k, end) ==
    /\ th' = IF k + 1 < nthreads THEN k + 1 ELSE 0
    /\ step' = IF k + 1 < nthreads THEN step ELSE end

OpenCache ==
    /\ step = "open"
    /\ pc_open
    /\ \E n \in Requested : nthreads' = Bounded(n)
    /\ step' = "create"
    /\ UNCHANGED <<work, th, slice, done, result, replays>>

\* pc_open answers NULL: an empty result, and no run.
OpenFails ==
    /\ "open" \in BenchFaults
    /\ step = "open"
    /\ step' = "end"
    /\ UNCHANGED <<vars, work, nthreads, th, slice, done, result, replays>>

\* A thread that is not created leaves its th[t] unset: nobody looks.
CreateThread ==
    /\ step = "create"
    /\ \/ slice' = [slice EXCEPT ![th] = "running"]
       \/ /\ "thread" \in BenchFaults /\ nthreads > 1
          /\ slice' = [slice EXCEPT ![th] = "never"]
    /\ NextTh(th, "join")
    /\ UNCHANGED <<vars, work, nthreads, done, result, replays>>

\* Mutant: main does not wait for its threads.
JoinThreadAtOnce ==
    /\ step = "join"
    /\ slice[th] # "never"
    /\ NextTh(th, "ratio")
    /\ UNCHANGED <<vars, work, nthreads, slice, done, result, replays>>

\* pthread_join; or, with one thread, the return of replay_slice.
JoinThread ==
    /\ step = "join"
    /\ slice[th] = "ended"
    /\ NextTh(th, "ratio")
    /\ UNCHANGED <<vars, work, nthreads, slice, done, result, replays>>

\* pthread_join of an unset pthread_t: an error that nobody looks at, or worse.
JoinNobody ==
    /\ step = "join"
    /\ slice[th] = "never"
    /\ NextTh(th, "ratio") \/ (step' = "undefined" /\ UNCHANGED th)
    /\ UNCHANGED <<vars, work, nthreads, slice, done, result, replays>>

CallRatio ==
    /\ step = "ratio"
    /\ pc_hit_ratio(Main)
    /\ step' = "ratio answer"
    /\ UNCHANGED <<work, nthreads, th, slice, done, result, replays>>

CallDepth ==
    /\ step = "depth"
    /\ pc_avg_depth(Main)
    /\ step' = "depth answer"
    /\ UNCHANGED <<work, nthreads, th, slice, done, result, replays>>

\* A metric returns: r.hit_ratio, then r.avg_depth.
TakeRatio ==
    /\ step = "ratio answer"
    /\ pc[Main] = "done"
    /\ Return(Main)
    /\ result' = [result EXCEPT !.hits = call[Main].h, !.misses = call[Main].sum]
    /\ step' = "depth"
    /\ UNCHANGED <<work, nthreads, th, slice, done, replays>>

TakeDepth ==
    /\ step = "depth answer"
    /\ pc[Main] = "done"
    /\ Return(Main)
    /\ result' = [result EXCEPT !.depth_hits = call[Main].h, !.depth_sum = call[Main].sum]
    /\ step' = "close"
    /\ UNCHANGED <<work, nthreads, th, slice, done, replays>>

CloseCache ==
    /\ step = "close"
    /\ pc_close(Main)
    /\ step' = "closing"
    /\ UNCHANGED <<work, nthreads, th, slice, done, result, replays>>

\* pc_close has returned; remove(path), and the result goes to the tables.
RemoveFile ==
    /\ step = "closing"
    /\ phase = "closed"
    /\ step' = "end"
    /\ disk' = EmptyFile
    /\ UNCHANGED <<phase, shardVars, pc, call, budget>>
    /\ UNCHANGED <<work, nthreads, th, slice, done, result, replays>>

\* The experiment calls run_one again.
NextRun ==
    /\ step = "end"
    /\ step' = "open"
    /\ slice' = [k \in Worker |-> "new"]
    /\ done' = [k \in Worker |-> 0]
    /\ replays' = [i \in Op |-> 0]
    /\ result' = NoResult
    /\ UNCHANGED <<vars, work, nthreads, th>>

\* A step that the cache takes for thread t.
CacheStep(t) ==
    /\ ~(t = Main /\ pc[t] = "done" /\ step \in {"ratio answer", "depth answer"})
    /\ Step(t)
    /\ UNCHANGED benchVars

MainStep ==
    \/ OpenCache
    \/ OpenFails
    \/ CreateThread
    \/ JoinThread
    \/ JoinNobody
    \/ CallRatio
    \/ TakeRatio
    \/ CallDepth
    \/ TakeDepth
    \/ CloseCache
    \/ RemoveFile
    \/ nthreads = 1 /\ Replay(0)
    \/ CacheStep(Main)

WorkerStep(k) ==
    \/ nthreads > 1 /\ Replay(k)
    \/ CacheStep(k)

BenchInit ==
    /\ Init
    /\ disk = EmptyFile
    /\ step = "open"
    /\ work \in Workload
    /\ nthreads = 1
    /\ th = 0
    /\ slice = [k \in Worker |-> "new"]
    /\ done = [k \in Worker |-> 0]
    /\ result = NoResult
    /\ replays = [i \in Op |-> 0]

BenchNext == MainStep \/ NextRun \/ \E k \in Worker : WorkerStep(k)

\* The scheduler runs main and every thread that main has created.
BenchSpec ==
    /\ BenchInit
    /\ [][BenchNext]_allVars
    /\ WF_allVars(MainStep)
    /\ \A k \in Worker : WF_allVars(WorkerStep(k))

-----------------------------------------------------------------------------
(* Properties.                                                             *)

\* Every thread was created, and every slice has its buffer.
AllReplay == \A k \in Slices : slice[k] \in {"running", "ended"} /\
                               (slice[k] = "ended" => done[k] = Count(k))

\* The slices share out the workload: no operation is replayed twice, and once
\* the threads are joined each has been replayed, if every thread could start.
WorkloadReplayedOnce ==
    /\ \A i \in Op : replays[i] <= 1
    /\ step \in {"ratio", "depth", "close", "end"} /\ AllReplay
         => \A i \in Op : replays[i] = 1

\* Why the metrics of a run are those of its workload although pc_hit_ratio and
\* pc_avg_depth add up shards one at a time: nobody is left to count meanwhile.
\* Both see the same hits, and hits and misses are the operations replayed.
MetricsOfWorkload ==
    step \in {"close", "closing", "end"} =>
        /\ result.depth_hits = result.hits
        /\ result.hits + result.misses = SumFunctionOnSet(replays, Op)
        /\ result.depth_sum <= (PerShard - 1) * result.hits

\* What PageCache asks of whoever calls pc_close: when main comes to it, no call
\* is running and no thread is left that could begin one.
ClosesAfterAll ==
    step \in {"close", "closing"} =>
        /\ \A t \in Thread \ {Main} : pc[t] = "idle"
        /\ \A k \in Slices : slice[k] # "running"

\* Every run comes to its end: its threads end, none waits for ever for a
\* mutex, and main gets past its joins, the metrics and the close.  (What
\* pthread_join does of an unset pthread_t is not known.)
RunEnds == step = "create" ~> step \in {"end", "undefined"}
=============================================================================
