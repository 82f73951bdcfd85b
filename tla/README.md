# A verification project for minicache

TLA+ modules, TLC runs and TLAPS proofs for the page cache of this repository:
a fixed pool of frames over a file of blocks, split into shards with a mutex
each, indexed by a splay tree or, for comparison, by an LRU; for the layer of
blocks below it, the benchmark above it, and the prototype that came before it.

## 1. Inventory

### The parts, their state and their operations

| part | code | state | operations |
|---|---|---|---|
| page cache facade | `src/src/page_cache.c` | the shards, each with a mutex, an index, a pool of frames (`pageno`, `valid`, `dirty`, `bytes`), `used`, and the counters `hits`, `misses`, `depth_sum` | `pc_open`, `pc_read`, `pc_write`, `pc_flush`, `pc_hit_ratio`, `pc_avg_depth`, `pc_close` |
| splay index | `src/src/splay.c` | a binary tree with left, right and parent pointers | `splay_lookup`, `splay_insert`, `splay_evict_victim` |
| LRU index | `src/src/lru.c` | a doubly linked list, hash chains through the same nodes, `count` | `lru_lookup`, `lru_insert`, `lru_evict_victim` |
| policy dispatch | `page_cache.c:56-69` | none | `pol_lookup`, `pol_insert`, `pol_evict` |
| disk | `src/src/disk.c` | the file and its size, two atomic counters | `disk_open`, `disk_read_block`, `disk_write_block`, `disk_close` |
| stats collector | `src/src/stats.c` | three counters | `stats_record_hit`, `stats_record_miss`, two quotients |
| benchmark | `src/bench/` | a workload, an array of threads | `run_one`: open, replay in slices, join, metrics, close |
| prototype | `src/docs/prototipo-splay.c` | a splay tree that owns its values, its capacity and policy, global counters | `criarCache`, `buscarPagina`, `inserirPagina`, `removerPagina`, `liberarCache`; a program of its own, outside the build |

### How they interact

`access_page` is the body of `pc_read` and `pc_write`. Under the mutex of shard
`pageno % nshards` it asks the index; on a miss it takes a free frame, or makes
the index give up a page, writes that page back if it is dirty, fills the frame
from the caller or from the file, and tells the index. `pc_flush`, `pc_close` and
the two metrics walk the shards and take one mutex at a time. The disk has no
lock: it relies on the shards. The callers create threads over one cache, join
them, then read the metrics and close (`tests/test_concurrency.c`,
`bench_main.c`). The prototype shares no code with the rest.

### What is hard

* Interleaving: everything that spans more than one critical section, which is
  the loops over the shards; and everything that is right only because it does
  *not* span two, such as evict, write back, fill, insert.
* Failure: reads, writes and the index's `calloc` can fail in the middle of
  `access_page`, which goes on after each of them. A thread of the benchmark may
  not start.
* Partial transfers: a `pread` or `pwrite` moves any part of what it is asked
  for, while other threads move the end of the same file.
* Ordering: what is in the index, what is in the frame and what is in the file
  change at different instants of one call.
* Pointer structures whose damage shows up calls later: rotations, detaching
  a list node, unlinking from a hash chain, cutting a tree in two and joining
  the halves.
* Arithmetic at its edges: offsets that overflow, slices of a division with a
  remainder, sizes that are decremented.
* A choice of victim that the documents say more about than the code does.

`PROJECT.json` lists every hazard at its line with the properties that cover it.

### What makes each part correct

* facade: a read delivers the last block written (`StoreSpec`); a page that is
  not dirty is on disk (`CleanMatchesDisk`); index and pool tell the same story
  (`IndexSound`, `PoolIndexed`); a flush that answers 0 has saved what was
  unsaved when it was called (`FlushDurable`); no call blocks for ever.
* indexes: both are a map from pages to frames (`FrameIndex`) that finds no page
  deeper than it has pages; the LRU evicts by age (`RecencyIndex`); the splay tree
  stays a search tree, in one piece, and shortens the paths it walks.
* disk: the loops move whole blocks (`DeviceSpec`), and end (`TransferEnds`), for
  callers that keep off each other's pages (`IoExclusive` is the facade's side of
  that agreement).
* benchmark: each operation of the workload is replayed once
  (`WorkloadReplayedOnce`), the metrics are those of the workload
  (`MetricsOfWorkload`), and `pc_close` comes after everybody has left
  (`ClosesAfterAll`).
* prototype: one search tree without leaks (`Inteira`), a bounded map
  (`CacheSpec`), victims as its policies promise (`VitimaJusta`), and the cost of
  an access is its depth (`RotacoesSaoProfundidade`).

## 2. The modules

| module | models |
|---|---|
| `BlockStore` | abstract: one atomic block per page, what `page_cache.h` promises |
| `PageCache` | `page_cache.c`, by any number of threads, with the file and its faults |
| `FlushHistory` | `PageCache` with a history variable for `pc_flush` |
| `FrameIndex` | abstract: the map that `splay.h` and `lru.h` promise |
| `RecencyIndex` | abstract: `FrameIndex` whose victim is the page used least recently |
| `Splay` | `splay.c` |
| `SplayRecency` | `Splay` with the order of accesses as a history variable |
| `Lru` | `lru.c` |
| `BlockDevice` | abstract: whole blocks, transferred in one step, what `disk.h` promises |
| `Disk` | `disk.c`, by any number of threads, one `pread` or `pwrite` at a time |
| `Bench` | `run_one` and `replay_slice` of `bench_main.c`, over `PageCache` |
| `CacheLimitado` | abstract: a bounded map, what the prototype's cache promises |
| `Prototipo` | `docs/prototipo-splay.c` |
| `PageCacheProofs` | theorems about `PageCache`: the invariants, the refinement of `BlockStore`, the sums of the metrics |
| `FlushHistoryProofs`, `BenchProofs`, `SplayProofs`, `LruProofs`, `DiskProofs`, `PrototipoProofs` | theorems about the module each is named for |
| `SearchTrees` | lemmas about binary search trees of pointers, and what rotating and splaying does to them |
| `MC...` | the small instances that TLC checks |

A definition under a comment that begins with `Mutant:` is a plausible bug. It
takes the place of the definition after it in the mutation tests that
`PROJECT.json` lists, which show that a property can fail; nothing else uses it.

### PageCache and the code

One action stands for the code between two points where another thread, or the
file, can notice something:

| action | code |
|---|---|
| `pc_open`, `Enter` with its arguments, `pc_close` | the call, up to its first lock |
| `Lock` | `pthread_mutex_lock` |
| `HitRead`, `HitWrite` | a hit, to its unlock (149-160) |
| `Miss` | counting the miss and `find_free` (164-165) |
| `Evict`, `EvictNothing` | `pol_evict`, and the discard of a clean victim (167-173) |
| `WriteBack` | the write of a dirty victim and its discard (170-173) |
| `FillWrite`, `FillRead` | the rest of a miss, to its unlock (176-190) |
| `FlushFrame`, `FlushShard` | one write, and the unlock, of the flush loop (106-117) |
| `CountShard` | one round of a metric's loop (208-214, 224-230) |
| `FreeAll` | what `pc_close` does after its flush (124-134) |
| `Return` | the return to the caller |

`pc[t]` is where thread `t` is, `call[t]` its arguments and locals. `HitStep`
leaves the depth open within what any tree of that size allows. A transfer that
fails may leave the old bytes or `Junk`, bytes that are no whole block: malloc'd
memory never written, or half of a block. `Faults` says which of `"read"`,
`"write"` and `"alloc"` (a node's `calloc`) can fail. When the index is empty,
`pol_evict` answers frame -1 and the code reads `frames[-1]`; the model stops
that thread at `"undefined"`, which `NeverUndefined` excludes.

The index inside `PageCache` is `FrameIndex`, folded into each shard: which page
it gives up is left open, so what is shown of the cache is shown for both
policies. `Splay` and `Lru` are shown to implement `FrameIndex` (`IndexSpec`,
`RecencySpec`) including the silent failure of an insert. Their calls are
single steps because a shard's mutex is held around each, which `OneMutexEach`
establishes for the cache.

### Disk and the code

`disk_read_block` and `disk_write_block` are loops; a round of one, that is one
`pread` or `pwrite`, is an action.

| action | code |
|---|---|
| `disk_open`, `disk_close` | themselves; the file keeps what it has (28-45) |
| `disk_read_block`, `disk_write_block` | the call, up to its first round |
| `ReadSome`, `WriteSome` | a round that moves between one byte and all that is left (57-65, 76-80) |
| `ReadEndOfFile` | a `pread` that answers 0, and the `memset` (60-63) |
| `TransferFails`, `TransferRefused` | a `pread` or `pwrite` that answers -1, for a fault or for a negative offset |
| `CountTransfer`, `Return` | the counter, the return (66, 82) |

A file is a row of cells that has a size; `pwrite` beyond it leaves zeroes.
`Position` computes the offset as the build does, with signed overflow that wraps
around. `PageAssumption` leaves out the page numbers from 2^64 / `block_size` on,
whose offsets come back to those of other pages, and blocks that lie across the
end of the range, which there are none of when `block_size` is a power of two.
`Enter` lets no thread call for a page that another one is using: that is the
agreement with `PageCache`, where `IoExclusive` shows that it is kept, and whose
`disk_read_block` and `disk_write_block` are the single steps of `BlockDevice`.

### Bench and the code

`Bench` extends `PageCache`: `Main` and the workers are its threads, and each of its
actions is a part of `run_one` or `replay_slice` together with the call that it
makes. `CreateThread` and `JoinThread` are one round each of their loops; with one
thread main replays the slice itself. The workload is any sequence of reads and
writes. `JoinNobody` is the join of a thread that was not created, an unset
`pthread_t`: it is an error that nobody looks at, or main goes no further
(`"undefined"`). `NextRun` begins another run with the file removed, as the
experiments do.

### Prototipo and the code

One thread: a call on the cache is a step. A tree is a value (`Arvore`) that the
functions taking a `No **` map to another one. Loops and recursion are recursive
functions of the number of rounds, or levels, and take as many as there are
pages, which is never too few: each round of `splay` brings more pages below x
(`Rodada`), each step of a search leaves fewer below it (`Andar`), and a walk goes one
level down at a time. `Percurso` is the preorder, the order in which the C recursion
picks among equals. `stats` is what the last call added to the
global counters. The score of `HIBRIDA` is a double: `Score` ranks the doubles by
depth and `acessos`, and `ScoreAssumption` says of it only that two scores compare as
the exact fractions do when these are more than 1/2^20 apart. Scores that are closer, or
equal, may have rounded either way, and `VitimaJusta` promises no more than that.
`MaxAcessos` bounds `acessos` so that TLC ends: any positive number will do.

### Names of nodes

Nodes in `Splay`, `Lru` and `Prototipo` are named by their page. That is sound as
long as the search finds every node there is, which `Rooted` with `Sorted`,
`ChainsWhole`, and `Inteira` state for the states before each call.

## 3. The runs

| run | question | instance | distinct states |
|---|---|---|---|
| `cache_safe` | do mutexes, index, pool, counters and file agree, in every interleaving? | 2 threads, 2 shards of 2 frames, 4 pages (3 of one shard), 2 calls each per opening | 2.8 million |
| `cache_store` | is the cache one atomic block per page, and does a flush that answers 0 save what was unsaved? | 2 threads, 2 shards of 1 frame, 3 pages, 2 blocks | 0.4 million |
| `cache_live` | with failing reads, writes and allocations: does the index tell the truth, do mutexes come free and calls return? | 2 threads, 2 shards of 1 frame, fairness | 46 thousand |
| `disk_blocks` | do the loops move whole blocks, and end? | 2 threads, 3 pages of which one has no place, blocks of 3 bytes, failing calls, fairness | 0.14 million |
| `bench_replay` | is each operation replayed once, are the metrics its metrics, is the close safe, does a run end? | main and 2 workers, 3 operations on 3 pages, 2 shards of 1 frame, failing I/O, `pthread_create` and `malloc`, fairness | 0.2 million |
| `splay_tree` | is the tree sound, a map, and shortened by what it does? | pages 0 to 4, 2 frames, failing `calloc` | 22 thousand |
| `lru_list` | are list and chains sound, and an LRU map? | pages 0, 1, 3, 6 over 3 buckets, failing `calloc` | 10 thousand |
| `prototype` | is the tree sound, the cache a bounded map, the victim the policy's? | 4 pages, capacities 1, 3 and 4, three policies, up to 3 counted accesses | 37 thousand |
| `flush_retry` | *violated*: a second flush answers 0 for a page the first failed to write | as `cache_store`, failing writes | |
| `read_junk` | *violated*: a read after a failed read answers 0 with no block | 1 frame, failing reads | |
| `write_lost` | *violated*: a page changes that nobody wrote | 1 frame, failing writes | |
| `splay_not_lru` | *violated*: the victim is the page accessed least recently | pages 0 to 2 | |

**Bounds.** `MaxCalls` bounds the calls of a thread per opening; closing and
opening again renews it, so that a behaviour is not bounded in length, only the
number of calls between two closes is. In `cache_safe` four calls reach three
pages of a shard with two frames, so that the shard evicts, and a metric can
overlap with the other thread's calls on both shards. In `cache_store` and
`cache_live` a shard has one frame, so that two calls already evict and write
back, dirty victims and clean ones; a reopening after each occurs, and a flush
that is passed by a writer on its way from one shard to the next. Five pages give
the splay tree every zig, zig-zig and zig-zag, on either side and nested, below
and above other nodes, and paths of depth four.
Three pages in one hash chain are enough for the front, the middle and the end
of it, four nodes for both ends and the middle of the list. `Capacity` 1 in
`lru_list` only sets the number of buckets: the index has no limit of its own.
A block of three bytes is cut in two or three parts at every place, and
two pages of three bytes are enough for a hole, for a page at the end of the
file, and for one that the other thread's write moves away from the end; the
third page has an offset past the range. `bench_replay` runs with 1 and with 2
threads (a request of 0 and of 3 is brought back into range), where three
operations leave a remainder; five calls of main are the three of a run in one
thread, and two metrics. The prototype's four pages give its tree every zig,
zig-zig and zig-zag and let a cache of three evict. The constraint `UmaPolitica` follows
what the policies can tell apart: a cache of four never evicts, and nothing but an
eviction asks for the policy, so that one policy stands for the three; LRU does not
look at the counters; two counted accesses are the fewest that tell LFU from LRU; and
three are what the hybrid score needs for a tie between different depths, since
one access weighs as much as three a level deeper. So few accesses make no score that
is not exact: the rounding is in the theorem only.

Threads and blocks are symmetric; they are permuted only in runs of safety
properties. `cache_live` and `bench_replay` do not check for deadlock, since a
thread that reads `frames[-1]`, or main after the join of an unset `pthread_t`,
stops in the model.

**Fairness.** `FairSpec` asks that each thread that can take a step by itself
takes one (`WF` of `Step(t)`): the scheduler runs it, I/O returns, and a mutex
that stays free is taken. It does not ask that a mutex be fair, which pthreads do
not promise: a waiting thread may be overtaken, and gets its turn because the
others have only `MaxCalls` calls each. Nor does it ask that anybody call or
close the cache. An overtaking that never ends is therefore not excluded for a
program that calls for ever. In `Disk` a fault is outside `Step`: nobody may count
on one to end a loop, so that `TransferEnds` has to follow from the rounds that
succeed; a `pwrite` of something moves at least one byte, as POSIX has it. In
`Bench` main and every thread it created run; nothing obliges the experiment to
call `run_one` again.

**What the passing runs show.** Without faults the cache is linearizable per
page, and a clean frame is a copy of the file. With faults the index still tells
the truth, the counter stays exact and transfers still exclude one another; what
does not survive is what the cache findings show, and what a failed `calloc` of a
node does (`splay.c:125`, `lru.c:97`): the page is in the pool and not in the
index, although the call answers 0, and once every slot of a shard is so, evicting reads
`frames[-1]`. Nothing is claimed of a cache in that state: `PoolIndexed` and
`NeverUndefined` are run and proved without failing `calloc`s.
`MutexReleased` and `EveryCallReturns` speak of the executions that have not come
to that. The splay tree keeps
`PathHalved`: the accessed page goes to the root, each node on the way to about
half its depth, and no other node sinks by more than two levels; single
rotations, which every test of `test_splay.c` would let pass, break it.
`EvictSparesLast` is what remains of "the victim is cold": the page of the last
call is spared. On disk, neither a page that another thread is writing nor the
growing of the file ever shows in a read. The benchmark's metrics are exact because
every thread has been joined; when one could not be created, what was replayed
is still what is counted.

**Findings.** They are listed in `PROJECT.json`, with the lines that say otherwise:
`pc_flush` forgets a failed write (`page_cache.c:113`), a failed read leaves a
valid page (`:185`), a failed write-back loses the victim (`:171`), and the
deepest leaf is not the page accessed least recently (`splay.c:148`,
`README.md:35-36`).

## 4. The proofs

Every theorem holds for all values of the constants that the assumptions of its
module allow. These are: pages are naturals, and in the indexes, where a page is a
`uint64_t`, and in the prototype, where it is an `int`, finitely many; frames are naturals; `NShards`, `Capacity` and the
numbers of threads and operations are positive (`pc_open` and `run_one` see to
that), as are the capacities of the prototype (`CapacidadeAssumption`); `Junk` is no block,
`Free` no thread, and a null pointer no page's data (`DadosAssumption`). `Prototipo` has
two more: `BoundAssumption`, that `MaxAcessos`, which bounds an `int`, is some positive
number (the counter's overflow is not modelled), and `ScoreAssumption`, a fact
about doubles that the comment above it derives. What a theorem needs beyond them is a
hypothesis of it.

| module | theorem | says | needs |
|---|---|---|---|
| `PageCacheProofs` | `TypeCorrect` | `TypeOK` | |
| | `MutualExclusion` | `OneMutexEach` | |
| | `IndexSoundness` | `IndexSound` | |
| | `IoExclusion` | `IoExclusive` | |
| | `UsedIsExact` | `UsedCountsValid` | |
| | `PoolIsIndexed` | `PoolIndexed` | no failing `calloc` |
| | `VictimAlwaysFound` | `NeverUndefined` | no failing `calloc` |
| | `CleanIsOnDisk` | `CleanMatchesDisk` | no faults |
| | `ImplementsStore` | `Spec => StoreSpec` | no faults |
| | `MetricsAreConsistent` | `MetricsConsistent` | |
| `FlushHistoryProofs` | `FlushIsDurable` | `FlushDurable` | no faults |
| `BenchProofs` | `ReplaysWorkloadOnce` | `WorkloadReplayedOnce` | |
| | `ClosesWhenAllEnded` | `ClosesAfterAll` | |
| | `MetricsAreOfWorkload` | `MetricsOfWorkload` | |
| `SplayProofs` | `TypeCorrect` | `TypeOK` | |
| | `LinksStayAgreed` | `LinksAgree` | |
| | `StaysRooted` | `Rooted` | |
| | `StaysSorted` | `Sorted` | |
| | `SparesLast` | `EvictSparesLast` | |
| | `AlwaysPathHalved` | `PathHalved` | |
| | `ImplementsIndex` | `Spec => IndexSpec` | |
| `LruProofs` | `TypeCorrect` | `TypeOK` | |
| | `ListStaysWhole` | `ListWhole` | |
| | `ChainsStayWhole` | `ChainsWhole` | |
| | `CountIsExact` | `CountIsLive` | |
| | `ImplementsRecency` | `Spec => RecencySpec` | |
| `DiskProofs` | `TypeCorrect` | `TypeOK` | |
| | `ImplementsDevice` | `Spec => DeviceSpec` | |
| `PrototipoProofs` | `TiposInvariante` | `TypeOK` | |
| | `InteiraInvariante` | `Inteira` | |
| | `CacheImplementa` | `Spec => CacheSpec` | |
| | `VitimaJustaSempre` | `VitimaJusta` | |
| | `UltimaFicaSempre` | `UltimaFica` | |
| | `RotacoesSempreProfundidade` | `RotacoesSaoProfundidade` | |
| | `SempreCaminhoPelaMetade` | `CaminhoPelaMetade` | |

**The inductive invariant of `PageCache`.** `IndexSound` is not inductive: that an eviction, or a
fill, leaves the other entries true depends on which slot it works on, on the page
being absent from the index, and on nobody else being in the shard. `Inv` adds

* `CallOK`: the call a thread is in agrees with where it is, with its shard and
  with the phase of the cache;
* `ClosesAlone`: while somebody closes, the others are idle;
* `OneMutexEach`, from which `Alone`: two threads are never in one shard;
* `FramesInShard`: a frame in use holds a page of its own shard;
* `MissOK`: during a miss, the page is not in the index, the pool is full while
  evicting, the slot to fill is not in use, and the slot being written back still
  holds its victim, which is out of the index already.

`Control` sums up what a step does to the mutexes, `Data` what it does to the
pool, and `Locality` that it stays in its thread and shard; each conjunct of
`Inv` is then preserved by one lemma over these cases. `IoExclusive` follows from
`Inv` without induction: pages belong to one shard, and a shard to one thread.
`PoolIndexed`, `UsedCountsValid` and `CleanMatchesDisk` are inductive relative to
`Inv`; the last needs that a page is in one frame (`OneFramePerPage`).

**The refinement of `BlockStore`.** `Content(p)` is the page's frame if it is indexed, the frame
being written back if a thread has just evicted it, and else the file. For a close
the proof needs two more invariants: the shards that a `pc_close` has passed are
clean (`CloseClean`), and a closed cache indexes nothing (`ClosedEmpty`). One lemma
per action then says what it does to the contents, and one what it does to the
requests: a read or a write takes effect where its critical section ends, an
eviction moves a page from its frame to the write-back and on to the file
without changing it.

**`Disk`.** For every set of threads and pages, block size, width of `off_t` and
set of faults, under `SizeAssumption`, `UnitAssumption` and `PageAssumption`.
`TypeOK` alone does not tell what a half-finished transfer has done. `IInv` adds
`CallsMatch` (a thread between calls has none), `PagesApart` (nobody uses a page
that another thread uses), and `TransfersAgree`: what a read has moved so far is what the
file holds, what a write has moved is in the file, and the rest of its block is as
it was before. That a step of one thread keeps this for the others is the
arithmetic of `BlocksApart`: the blocks of two pages have no byte in common
(`NextBlock`, `InFile`), and a round stays in its block (`PositionInBlock`,
`WriteSomeFile`). A page past the range never gets anywhere: its position stays
negative (`PositionNegative`). In the refinement the block of a page is the one in
the file, or, while the page is being written, the one that the write found
(`BlockInFile`, `BlockWhileWritten`); a round then shows nothing (`MovesHidden`),
and the counting or the failure of a transfer is the step of `BlockDevice`
(`CountShown`, `FailShown`), where a failed write leaves the units it has moved.
Every fault is allowed: the theorem has no hypothesis about them.

**The flush.** A `pc_flush` owes the pages whose `Content` is not the file's when it is
called, until an instant at which it is, whoever brought it there;
`FlushProgress` says that it owes nothing in the shards it has passed. That it may
pass a shard without dirty frames follows from `CleanMatchesDisk`, and from the
mutex, which keeps an eviction from being under way there.

**The metrics.** The sums over the shards are folds, and a fold over a set is known
by its least subset for which it is not what it should be. `MetricsConsistent` is
inductive with `Inv` and `DepthBounded`: in each shard `depth_sum` is at most
`PerShard - 1` for each hit, since the index answers a depth below the number of
its pages and the pool bounds that number. `CounterCases` reduces the steps to the
four that count.

**`Bench`.** `RunInv` follows main through `run_one`: which slices exist and how far
each is, from which `ReplaysExact` gives how often each operation has been
replayed, and `CallersOK` who can be in a call of the cache. The slices share out
the operations by the arithmetic of `per`: the last one takes the remainder.
`CountInv` then relates the counters of the cache to the replays (`CountsReplays`,
with what is `Pending` in a call that has not counted yet): after the joins nothing
is pending, so that a metric taken shard by shard is exact (`MetricExact`).

**Search trees.** The state of `Splay` has pointers only, as that of `Prototipo` has, and what they
make a tree is not a property of one node. `SearchTrees`, which knows neither program,
names it: a tree is three arrays of pointers, and is whole (`SearchTree`) if each node q
has a span s[q], the pages that may be in its subtree: all of them for the root, and
for a child the part of its parent's span that is below, or above, the parent. Every
fact about the tree is then a fact about a node and its neighbours, and the depth of a
node is the number of its ancestors (`Depth`).

* A rotation is proved to keep a tree whole once, in `TurnedWhole`, for two
  arrays of children and the two sides of an order; left and right are its two readings
  (`Mirror`). `Lifted` is what it does to a whole tree, and to the depths (`LiftedTree`,
  `LiftedDepth`).
* A round of the loop takes x up by its rotations, moves what comes under x by one level
  or two, and leaves the rest alone (`RoundTree`). The loop ends since each round makes the
  span of x a larger set of pages. Over all the rounds a node that was on the path ends
  at about half its depth: how many rounds pass before it comes under x tells how far
  up it then is, with the parity of its distance from x (`HalfWayRound`, `Splayed`).

**`Splay`.** `Shape` reads the nodes of the code as such a tree. `Inv` is `TypeOK`, the existence
of spans (`Linked`), and `RootIsLast`, that the page accessed last is at the root.

* `rotate` is `Lifted` (`RotateLifts`), zig, zig-zig and zig-zag are `Round` (`StepRound`), and
  `splay_node` leaves x on top (`SplayNode`).
* The search goes down into smaller spans, ends where its page is or would be, has
  counted the depth of that node (`SearchEnds`), and ends nowhere else (`OneEnd`), which is
  why a node may be hung there (`HangTree`).
* The walk reaches every node, at the level that is its depth (`LevelReaches`,
  `LevelDepth`), so that the deepest is a leaf (`DeepestIsLeaf`) and can be unlinked
  (`LeafTree`).
* For `PathHalved`, the depths that the property reads off the walk are those of
  `SearchTrees` before and after a step (`DepthsAre`, `DepthsAfter`), and the nodes below
  one are those in its span (`NodesAreSpan`). A hit splays the tree there is, a new page the
  tree with the page hung in it (`HitBrings`, `NewBrings`), which moves no other node.

**`Lru`.** `Along`, the pages that pointers lead to, is a recursive function; `AlongPath`
gives its value for every path that ends. `ListSound` says that there is a sequence
of all the nodes that `next` and `prev` both follow, `ChainsSound` that each bucket
has one that `hnext` follows. Detaching a node and pushing one are then operations
on sequences (`DetachLinked`, `PushLinked`, `PathRemove`, `PathCons`), and the
sequence itself is the order of `RecencyIndex`.

**`Prototipo`.** Its nodes are named by the same pages and its trees are whole in the same
sense, so that the proof rests on `SearchTrees` too. `Forma` reads the records of the prototype as such
arrays. `TypeOK` and `Inteira` are not inductive: that a rotation loses nothing depends on
what may be below each node, `removerSplay` on where the maximum of the left half is,
`tamanho--` on the removal having found its page, and that `tamanho` stays within the
capacity on it being the number of pages. `Arrumada` says that the nodes with
data have spans that make them one search tree below `raiz` (`Sa`), that `tamanho` counts
them, that there are none without a cache, and that the page found or stored last is the
root.

* Each function that takes a `No **` is shown to do one thing of `SearchTrees`: a
  rotation is `Lifted` (`SobeErgue`), a round of the loop `Round` (`RodadaRound`), the loop
  takes x to the top (`SplayFaz`), the insertion hangs a leaf (`PenduraHung`), the removal
  cuts at the root (`SeparaDuas`) and glues below the greatest of the left half
  (`JuntaAmbas`). What they do to the data and counters is kept apart (`Leva`, `Anota`).
* The preorder is proved by levels: `PercursoFeito` gives, for every node, the sequence
  that the recursion makes of what is below it, each page once and at its depth. The
  choice along it is the first that no other beats, which needs the three orders to be
  transitive (`PiorTransitiva`). Of the hybrid score that is all the proof uses, with
  `ScoreAssumption`: its ranks are integers (`FatosDoScore`), at depths that are in the
  table (`ProfundidadeCabe`). `VitimaAcha` puts the two together.
* For the map, each call is one of `CacheLimitado` (`LimitadoPasso`), since a search finds a
  page exactly if it has data (`BuscarAcha`).
* The depths: `Splayed` again, once `CaminhoAcima` has shown that the pages that `Prof`
  counts are the ancestors.

**Recursion.** What a recursive function computes is proved by taking the least
natural, or the least finite set, for which it computes something else (`LeastNat`,
`LeastSubset`): the induction theorems of the library, which take a predicate as a
parameter, are out of the provers' reach, and so are `RECURSIVE` operators, which
these modules therefore do not use. That a recursive function exists at all is
`Loop`, `SearchExists` and `FollowsExists`.

**Model-checked only.** Every safety property of a passing run is a theorem. What is
left is liveness (`MutexReleased`, `EveryCallReturns`,
`TransferEnds`, `RunEnds`) and the four violated properties: the prover has no
fairness, and a violation is a trace.

## 5. Not modelled

* The argument checks of the public functions; the allocations of `pc_open` and a
  `disk_open` that fails, since a cache that was not opened has no behaviour. A
  node's `calloc` is a choice without a cause.
* `stats.c`, which its own test alone uses.
* Of the benchmark: options, timing, tables and CSV files, which are input and
  output, and the generators of `workload.c` (uniform, Zipfian, sequential), which
  draw random numbers in floating point. `Bench` takes every workload instead.
* Of the prototype: `inserir`, which nothing calls; the printing; `profundidadeMedia`;
  `benchmarkPolitica`, a loop of calls on the cache. `buscarPagina` does not count
  an access (`prototipo-splay.c:914`), so that the counter that LFU goes by is not the
  "frequencia exata" of line 768; the model counts as the code does.
* Page numbers past 2^64 / `block_size`, two of which share a place in the file;
  a `pwrite` that answers 0 to a request that is not empty.
* The doubles that the metrics return are represented by their numerators and
  denominators.
* The plots and the tests.

## 6. Plan

Done, in this order: `BlockStore` and `PageCache` with its runs; `FlushHistory`;
`FrameIndex`, `Splay`; `RecencyIndex`, `Lru`; `SplayRecency`; the proofs of
`PageCache` and of its refinement; `BlockDevice` and `Disk` with its proofs; `Bench`;
`CacheLimitado` and `Prototipo`; the depth in `FrameIndex`; the proofs of the
flush, the metrics, `Bench`, `Lru`, `Splay` and `Prototipo`.

To do: a shard of `PageCache` over the real `Splay` tree, so that `depth_sum` and the
order of evictions are those of the tree. What the cache needs of the tree is
in `FrameIndex`, so that this would add the amortised cost and no safety.
