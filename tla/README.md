# Formal model of dense-and-late-ann-extensions

TLA+ modules that model the parts of this repository whose correctness depends
on the order of many steps, the TLC runs that check them on small instances,
and theorems proved with TLAPS. `PROJECT.json` lists the components, the runs,
the mutants (a plausible bug for each property, which the property catches),
the lines of source each definition models, the hazards and the findings.

- `tlc -workers 2 -config X.cfg M` runs one configuration.
- `tlapm M.tla` checks the proofs of a module.

## The system

The repository lets SQLite search an index over one large file, in a browser
over HTTP range requests or natively. The parts, from the bottom up:

| part | source | state | operations | what must be right |
|---|---|---|---|---|
| block cache | `wasm/src/httpvfs.c` 166-491 | slots with two recency lists (unpinned, pinned), a hash table, a free list, data chunks | get, put, pin, unpin all, trim, release, clear, shrink | no block twice; the hard limit; pinned blocks outlive unpinned ones; the floor of unpinned ones |
| open file | same file, 677-1345, 1461-1509 | the cache, the read position and readahead, the blocks recorded while speculating, network parameters | read, prefetch, speculate begin/end/discard, release, reset, configure | a batch arrives whole in one round; the cache shrinks back; a failed round changes nothing it should not |
| request planner, network estimator | same file, 493-675 | the last 64 rounds | plan, observe | the plan covers every range, within its limits, at least cost |
| fetch backend | `wasm/src/httpvfs-pre.js`, `wasm/pkg/multipart.mjs` | what is known of each URL's multi-range support, the requests in flight | fetch a round | one answer per range, one probe, failure stops new work |
| blocking fetch | `wasm/pkg/sync-fetch*.mjs` | a shared buffer and a wake-up word | post, wait, write, wake | the waiter wakes, once, with all of the data |
| database API | `wasm/pkg/index.mjs` | a queue per module, the open databases | open, query, exec, release, reset, close | one call at a time; every statement releases |
| worker RPC | `web/lib/rpc.mjs`, `sqlite-worker.mjs`, `encoder-worker.mjs` | the queue of calls, the pending answers | call, notify, answer, worker error | each call is answered once, in priority order |
| search client | `web/lib/index.mjs`, `search-core.mjs`, `fetch-cache.mjs` | encoders and warm-ups under way | open, search, warm, load encoder, close | a failed load can be retried; nothing waits for a terminated worker |
| HNSW build | `ext/dense/hnsw.c`, `dense_common.h` | the graph, entry point, node locks, global lock, shared counter | insert a node, in many threads | lists stay in bounds and proper; all nodes are reached; the build ends |
| `dense_ann` table | `ext/dense/dense_ann.c`, `rawpage.c` | shadow tables and a copy of their head in memory; page hints | build, finalize, insert, delete, update, search | memory agrees with the tables; hints are only hints |
| `late_plaid` table | `ext/late/*.c` | shadow tables, loaded centroid cells | build, finalize, search | as above |
| quantizers, clustering, ranking | `pq.c`, `ivf.c`, `late_codec.c`, `fts5rank.c` | none | numerics | floating-point accuracy |
| simulator, tools, encoders, benchmarks | `netsim/`, `tools/`, `python/`, `enc/`, `bench/` | none that outlives a run | | |

An extension (a virtual table) calls SQLite and, through file controls, the
open file: it announces a batch of ranges, reads them, and the open file asks
the backend for one round of requests. In the browser the database API queues
those calls, a worker runs them, and the client in the page waits for the
worker's messages. The index itself is built natively, by several threads.

What makes it hard: the cache's contents depend on the whole history of reads
and batches, and a batch may be larger than the budget; speculation repeats
reads until a pass finds nothing missing; rounds fail and allocations fail in
the middle of a batch; the graph is built by threads that lock one node at a
time; in the browser, answers, failures and closing overlap; in the virtual
tables, SQLite rolls the shadow tables back but not the copy in memory.

## What is modelled

### `HvCache`: the block cache as its callers see it

`cache` is a record of two sequences of block numbers, most recent first:
`lru` and `pin`. Each operation of the C code is an operator from a cache to a
cache (`Touch` is `hvCacheGet` with touch, `Pin` is `hvSlotMoveTo` to the
pinned list, `Put`, `Trim`, `UnpinAll`, `Released`, ...), and `CacheNext`
offers each of them as an action. That a slot's block is unlinked, freed and
re-linked is expressed on the sequences; the loops of `hvCacheTrim` are
expressed by what they evict (`ToBudget`, then `ToHardLimit`). `oom` is the
outcome of `hvSlotAlloc`.

`CacheSpec` is the abstract specification of the cache: what it promises to
whoever uses it, in any order.

### `HvSlots`: how the cache is built

`hv` is the `HvCache` struct: `slot[s]` collects the per-slot arrays (key,
state, list links, hash link) and the bytes the slot's memory holds (`data`,
the block they belong to). The operators follow the functions one by one
(`Unlink`, `PushFront`, `MoveToFront`, `EvictSlot`, `TrimSlots`, `Rehash`,
`SlotAlloc`, `PutSlot`, `UnpinSlots`, `Relocate`, `Shrink`, ...), the loops as
recursive functions over the states of the struct, a walk along a link as the list of
slots it meets (`Along`). The link shared by hash
chains and free list is one field, `hnext`, as in the code. A field that nothing
may read (the list links of a free slot, the bytes of a slot not filled yet)
holds `Junk`: the code leaves an old value there, and a step that read it
would end the check with an error. `aslot` and `nchunk` are kept, so
that an allocation can fail at each point where the code allocates
(`Failures`). `blocks` is a history variable, the blocks found by following
the links from the two heads; with it for `cache`, `ImplementsCache` is
`CacheSpec`, so what holds of the abstract cache, and of the files over it,
holds of the slots.

`hvHash` is a constant function masked by the table size; `peak` and
`pin_evictions` are left out. The budget changes once, at the end of `hvOpen`,
when the cache holds at most the first block: `SlotsInit` has both outcomes,
with the table still sized by the earlier budget.

### `HvFile`: an open file

Extends `HvCache`. A file serves one call at a time (SQLite and the queue of the
database API see to that), so `pc` is the loop the call in progress has
reached: `read` is pass 1 of `hvRead`, `scan` is `hvUncached`, `net` is a round
under way, `put` is the two insertion passes of `hvFetchBlocks`, which inserts
the blocks nobody asked for (`gaps`) before the wanted ones (`want`). One
action per block keeps the order of the code: ascending, gaps first. `Planned`
is the set of merges `hvFetchBlocks` may choose: holes of at most `Gap` blocks
always, and if that still leaves more ranges than the request budget, any
merge of whole holes within half the budget, which includes every plan
`httpvfs_plan` can return. A round may fail (`RoundFail`), an allocation may
fail wherever the code tests for it (`MemFails`). `batch` is a history variable: what
the batch in progress must pin.

Not modelled: counters and the log, the bytes copied to the reader, opening
(`CacheInit` has its two outcomes: an empty cache, or the first block in it).

### `HvPlan`: the request planner

`httpvfs_plan` as a function of a call, one call per behaviour: `Merge` follows
the candidates in the order of the code (all apart, then multiples of the budget,
a tie keeps the earlier), `Split` is its greedy loop as a recursive function of
the part reached, with the loop's state `at`. `PlanAssumption` says that the calls
are calls (`CallType`). Distances and lengths are in blocks; the latency is in blocks of time
(`rtt_ms * bw_Bpms / bs`), as an integer, so the rounding of doubles and the
clamping of senseless parameters are left out. That a merge keeps within
`max_blocks`, which `hvFetchBlocks` sets to the wanted blocks and half the budget,
and takes whole gaps, is what `Planned` of `HvFile` assumes of it.

### `SpecLoop`: speculative batching

Extends `HvFile` with the extension that uses it: `do begin; lookups; while
end > 0` as `httpvfs.h` documents it and `demo_ext.c` implements it, the latter with
a cap on the passes (`MaxPasses`). A lookup walks a path of blocks and stops at
the first that reads as zeros. The file's actions are reused as they are.

`AllFit` says when the loop is promised anything: allocations succeed, the cap on
the passes is above the length of every path, and the blocks of the paths and of
the holes a plan may fill between them (`Brought`) fit in the budget. Then every
lookup hits once the loop has ended and no round has failed (`LookupsHit`), and there
is at most one round per level (`RoundPerLevel`). Block 0 is an
exception the model showed: `hvRead` never speculates it, so a pass fetches it at once,
and if that fetch fails the lookup stops there and starts a level late;
`RoundPerLevel` leaves out only a failed loop over a path with block 0.

### `HnswBuild`: the concurrent graph build

Each worker takes nodes off the shared counter and inserts them. Every critical
section of a node lock is one action (no section takes another lock):
`Descend` reads one list, `Expand` reads one list, `WriteOwn` writes the
node's own, `LinkBack` adds to a neighbour's. The global lock spans actions
and is the variable `global`. The beam search keeps the two heaps as sets,
ordered by distance (`ByDistance`, each node at its `Rank`); points lie on a line, so
that selection by `dnhnsw_select` (with `alpha` = 1) has its usual shapes. Selection is
a recursive function of the candidates looked at (`Select`).

### `SqlTable` and `DenseTable`: the dense_ann table

`SqlTable` is what a virtual table promises as a table of SQLite: rows,
statements that happen whole, transactions, and a crash that loses exactly what
was not committed. `DenseTable` is `dense_ann.c` under one connection, and
`ImplementsSql` says that it implements `SqlTable`.

| module | models |
|---|---|
| `DenseFile` | the shadow tables as one record, the page each row lies on, the leaf that is split by an insertion in the middle (`InsertRow`), VACUUM, and a read through a hint (`Source`) |
| `DenseGraph` | the graph layout: the beam search `ann_core` with its candidate list and deleted routing nodes, insertion with link-backs and pruning, deletion, build, finalize |
| `DenseIvf` | the IVF layout: chunks and the directory of the lists, insertion, deletion by flag, build, finalize, search by list and over the codes |
| `DenseTable` | statements, BEGIN, COMMIT, ROLLBACK, VACUUM, a connection that ends at any point, and a build that a query starts |

The point of the model is that SQLite rolls the tables (`disk`, `work`) back and
nothing rolls `mem` (`DenseVtab`) back. `Insert` and `InsertUndone` share the
effect on `mem`; only the first keeps its effect on the tables. A build started
by a query outside a transaction commits statement by statement (`AutoStart`,
`AutoRows`, `AutoState`), because its nested statements are not inside a writing
one. Vectors are points on a line, a code is the point it decodes to, and the
graph and the partition a build makes are any choice of entry nodes and the
lists `ListOf` offers.

`Faults` names four things that can happen to statements and builds;
`TableAssumption` says what each is. The passing run has `undone`; with `undobuild`
or `autocrash` in the set the run shows the rows that are lost. `partial` is half of an
UPDATE, which `SqlTable` cannot tell from a DELETE.

### `SearchIndex` and `LateTable`: the late_plaid table

`SearchIndex` is the promise: documents go into a buffer, and a build makes the
buffer (or a `.npy` file) the collection, whole or not at all.

| module | models |
|---|---|
| `LatePages` | the shadow tables as b-trees of a root, one level of interior pages and leaves; freed pages used again; VACUUM; and `late_page.c`: leaves read off the committed file, interior pages from a cache only its owner drops, hinted leaves tried before a walk |
| `LateIndex` | what `do_build` writes: document rows, the IVF and posting lists cut into rows of `Chunk` units, the blocks of the cells, the rowid map or its absence (`Identity`), the static data; `Contents` reads the collection back |
| `LateTable` | insertion, deletion, `build`, `build_npy` and their refusal, `finalize`, `warm`, `drop_cache`, `reload`, searches of every kind, transactions, VACUUM and the end of the connection |

A search is an action because it changes memory: it loads the static data, the
cells it needs and the interior pages it walks. Which cells and centroids score
best is left open (`S`, `P`). `stale` is a history variable: memory may describe
pages or an index that have been replaced since. The code does not notice; its
documentation asks for `reload` or `drop_cache` then, so nothing is claimed of a
search while `stale` holds.

### `FetchRound` and `SearchClient`: the browser

`FetchRound` is one round of `httpvfsFetch`: groups of ranges taken by a pool of
workers, the first request for several ranges sent alone until the server is
known, single ranges where it does not answer several, a failure that stops what
is not yet sent. `SearchClient` extends it with everything above: the database
whose statements run one at a time, the worker's serial queue with priorities
(`rpc.mjs`), and the page (`web/lib/index.mjs`): opening, searches by text and by
vector, an encoder that loads and may fail to, the runtime it waits for, the
automatic warm-up, closing. `call[c]` is what search `c` waits for. `queue`,
`running` and `replies` are the messages on their way to the worker, its handler
under way and the messages on their way back.

## The runs

| run | question | bounds and why they are enough |
|---|---|---|
| `FileRounds` | does a batch of any size arrive whole and stay pinned, next to over-fetching, readahead and planner merges, and do reads end within the budget? | 6 blocks, budget 4, hard limit 5: batches of one or two blocks and of all or nearly all, so below the budget, above it and at the hard limit, also past the end of the file; a floor of 1; holes of 1, readahead to 2, request budget 1, reads of two blocks |
| `FileSpeculate` | is the cache within its limit and used only through its operations when rounds and allocations fail? | 4 blocks, at most 3 recorded when a read starts, failures at every allocation; `CacheSpec` is checked as a property |
| `Slots` | are links, chains, free list, bytes and memory right after every sequence of operations, with failing allocations too, and is it the cache of `HvCache`? | 4 blocks, opened with a budget of 1 and then given 2, hard limit 4, chunks of 2 slots, a table that starts with 1 bucket and so is rehashed as it grows; two blocks that always collide; each allocation of an operation may fail (one per operation, which includes all that stop it) |
| `Plan` | is no other way to cut the ranges cheaper, is the merge within its limit, and are multi-range requests as many as promised, none too full, of similar size? | every call of up to 5 ranges, 3 sizes of gaps, budgets 0 to 3, latencies from nothing to more than the whole span, with and without limit, and with the allocation failing, compared with all sets of cuts; every multi-range call of up to 6 ranges of three sizes, budgets 1 to 4, up to 5 parts per request or any number |
| `SpecFits` | does the loop end in a round per level with everything cached? | pairs and triples of paths of a three-level tree, one of them through the header's block; a budget the tree fits in, which TLC evaluates as `AllFit` |
| `SpecThrash` (violation) | does the documented loop end when the tree does not fit? | 7 blocks, budget 4: it does not |
| `HnswThreads` | do lists stay in bounds and proper, layers exist, and the build end? | 3 threads, 5 nodes, lists of 1 and 2 (so that pruning happens), level assignments in which two or three nodes rise above the top layer |
| `HnswLost` (violation) | is every node reached from the entry point? | every order of 4 points out of 5, every assignment of two levels, lists that cannot fill up, two threads: not all; with `Workers = {w1}` in the same configuration, TLC finds every node reached |
| `Dense` | is a dense_ann table a table of SQL, are searches sound, hinted reads the same as SQL, ids fresh, links whole and hints right? | 2 rows of 2 vectors, so that a row can be deleted, moved, replaced and inserted again; 3 nodes of one neighbour each (pruning), 2 lists of chunks of 1 entry (a list grows past its chunk, and its range past its pages), both layouts, training that runs out of memory (IVF), statements undone |
| `DenseFallback` (violation) | are the rows there when an automatic build fails? | 2 rows, the graph layout: they are not |
| `Late` | is a late_plaid table what `SearchIndex` promises, do searches find what the collection holds, do hints last? | 2 rows, 4 tokens of 3 centroids in 3 cells of which one is empty, rows of 2 units and leaves of 1 row (a list crosses rows, a table has interior pages), two `.npy` inputs of which one has a document too long; four configurations; transactions in one of them (`InTx`) |
| `Browser` | do searches and closing end, are counters a search's own, is a whole file sent once? | two searches at a time, repeated for ever, one warm-up, one round per statement, groups of 1, 2 and 2 ranges over 2 parallel requests, three kinds of server, any request failing |

Checking is of safety, of action properties (`PinnedUntilRead`,
`ReadEndsInBudget`, `FloorKept`, `EntryClimbs`, `HintsLast`), of refinement
(`CacheSpec`, `ImplementsCache`, `ImplementsSql`, `ImplementsTable`) and of liveness
(`LoopEnds`, `BuildEnds`, `SearchesSettle`).

**Fairness.** `LoopSpec` asks weak fairness of the loop and of the file below
it: the extension keeps running and a round is answered, with success or
failure (`RoundOk` and `RoundFail` are both allowed, neither is promised).
`HnswBuild` asks weak fairness of each worker, as `dn_parallel_for` joins
threads that the system schedules; nothing is assumed of the mutex beyond
that, so a worker may be overtaken at the global lock. `SearchClient` asks that
requests settle, in either way, that workers run what they have taken and that
messages arrive: the code has no timeouts of its own, so a request that never
settles hangs whatever waits for it. Nothing makes the page search or close, and
failing is never forced. `HvFile` and the tables need none.

**Bounds.** `NumBlocks`, `Cap`, `Hard`, `MaxRead`, `Batches`, `MaxSpec` size the
file and the calls; `CacheAssumption` allows any budget of at least one block
where the code has at least 16, so that pins, floors and limits meet in small
state spaces. `SpecLoop` asks for a budget of at least 4, as its floor argument
needs a real one. `passes` stops at the square of `NumBlocks`. `HnswBuild` is
bounded by `N`; `Chunk` is 1 with several threads, which allows every
interleaving that larger chunks allow between nodes of different chunks.
`MaxNodes` and `MaxSlots` bound the ids a dense_ann table gives out, which links, entries
and requests hold in 32 bits and the models never wrap. `WordLists` is 2 in `Dense`,
the number of its lists, so that the last list is the last one whose keys fit; the `Dense` run
explores nothing behind a VACUUM that moves pages which hints name (`Settled`), as
only SQL reads are claimed to be right there; VACUUM before the hints are written
is explored. The `Late` run
stops behind a state whose memory may be out of date (`Fresh` in `MCLateTable`):
what follows it is reached as well with `reload` before it. `MaxRounds` bounds the
rounds of a statement in `SearchClient`, and `Calls` the searches under way at
once, not how many there are in all.

## Findings

1. **The speculation loop need not end** (`SpecThrash`). With more blocks than
   the budget, a pass reads pinned blocks, which unpins them; its reads trim the
   cache to the budget; the next pass misses what was trimmed.
   `httpvfs_warm` stops after 16 passes, the loop documented in `httpvfs.h`
   and `wasm/NOTES.md` does not.
2. **A concurrent build can lose links** (`HnswLost`). `insert_node` writes its
   list for a layer over links other threads have put there since the node
   became reachable from the layer above. A node whose only incoming link is
   lost is unreachable.
3. **The fallback of an automatic build may find nothing** (`DenseFallback`).
   A query on an unbuilt graph table builds it; `do_build` deletes the buffer before
   it trains. If training runs out of memory, `dense_filter` falls back to brute
   force "over the buffer", which is empty, and outside a transaction its
   deletion is already committed.

## What is proved

Each theorem is proved for every value of the constants that the named assumptions
of its module allow.

**The cache and the open file** (`SpecLoopProofs`; `CacheAssumption`, `FileAssumption`)

- `CacheTypeCorrect`, `CacheWithinHard`: the abstract cache keeps its lists
  proper and within the hard limit. The inductive invariant is `CacheInv`, the
  conjunction of the two; neither is inductive alone, because the eviction
  counts are only right on lists without duplicates, and an insertion that
  finds no memory keeps the size only if it evicts. The lemmas say, operation by
  operation, what becomes of the lists, their sets of blocks and the size
  (`TouchProperties`, `PinProperties`, `EvictProperties`, `TrimProperties`,
  `PutProperties`, ...).
- `FileTypeCorrect`, `FileWithinHard`, `FileImplementsCache`: every step of an
  open file is a step of `CacheSpec` or leaves the cache alone, so the file
  inherits what the cache promises. The invariant is `FileInv`.
- `BatchAlwaysFits`: a batch that is being fetched fits beside the existing
  pins. `BatchAlwaysArrives`: until it is in the cache, each of its blocks is
  pinned or still to come. The invariant `BatchInv` adds to these where each
  batch block is in each phase (`scan`, `net`, `put`); the argument is that a
  block nobody asked for can evict a pinned one only when no unpinned block is
  left and the cache is at its hard limit, which the cut of the batch excludes.
- `FileReadEndsInBudget`, `FileFloorKept`, `FilePinnedUntilRead`: the action
  properties. A read that ends leaves no more blocks than the budget and its pins;
  trimming spares the floor of unpinned blocks; a pinned block leaves the cache
  only through an operation that may drop it.

**How the cache is built** (`HvSlotsProofs`; `SlotsAssumption`: any hash function, chunk size
and budgets, and any of the three allocations failing in any operation)

- `SlotsListsWhole`, `SlotsChainsExact`, `SlotsBytesOfBlock`, `SlotsMemoryGivenBack`: the
  four invariants of the `Slots` run. The inductive invariant is `SlotsInv`. It says (`Good`) that
  there are lists of slots, the LRU list, the pinned list, one chain per bucket and
  the free list, and that the links of the struct are those of the lists (`Recency`, `Hashed`,
  `Freed`): forwards along `next` and `hnext`, backwards along `prev`, and as sets what the
  states and the hash function say. Its parts need each other: `hvEvict` follows a
  chain to what leads to its slot, so the chain must be whole; a slot goes from chain to
  free list by its one `hnext`, so the two must share no slot; a lookup stops at the first
  slot with the key, so no two may hold one block (`Filled`). `Chunked` bounds the
  chunks by the slots, or by the budget: that is why moving the blocks down and dropping the
  slots above `Limit` is enough to give the memory back.
- `SlotsImplementCache`: `SlotsSpec` implements `CacheSpec`. The lists of blocks are the keys
  along the two lists of slots (`BlocksOf`), so the lemma of each function, which says what
  lists the struct has afterwards, also says what became of the blocks (`MovedGood`,
  `TrimmedGood`, `PutGood`, `UnpinnedGood`, `ReleasedGood`, `ClearedGood`). Rehashing
  and moving a block to another slot change no list of blocks. With `CacheWithinHard` and the
  theorems about files: what is proved of files over the two lists carries over,
  operation by operation, to the slots.
- Between two functions the struct is good but for one slot: the one `hvSlotAlloc` hands out is
  on no list yet (`Freed(h, f, {s})`), and a new one is still free when the table
  is rebuilt, which puts it on the free list. `UnlistReady`, `AppendWhole` and `AllocGood`
  carry it along.

**The speculative loop** (`SpecLoopProofs`; also `LoopAssumption`)

- `LoopUsesFile`: the loop is one use of a file (`LoopSpec => FileSpec`), so all of
  the above holds in it.
- `FittingLookupsHit`, `FittingRoundPerLevel`: under `AllFit`, `LookupsHit` and
  `RoundPerLevel`. The invariant `LoopInv` says that nothing is ever evicted
  (`Kept`: all that was brought in is in the cache, and is within `Brought`), what each
  lookup has passed (`Followed`), and that after `n` rounds the first `n` blocks of
  every path are in the cache (`Levels`), phase by phase (`InPhase`). `AllFit` is a
  condition on the workloads, not on the states; TLC evaluates it on those of
  `SpecFits` (`FittingFits`), and `SpecThrash` shows that without it the loop need not end.

**The planner** (`HvPlanProofs`; `PlanAssumption`)

- `PlanAssigned`: each range is in one request, requests are consecutive.
  `PlanMergeWithinLimit`: what a merge adds is within the limit `hvFetchBlocks` passes.
  `PlanPartsFit`: a multi-range plan has as many requests as promised and none with
  more parts than allowed. The argument follows the greedy loop: at each
  request the ranges left never exceed what the requests left can hold.
- `PlanCheapest`: no set of cuts is cheaper than the planner's, though it tries only
  multiples of the request budget, and for each only the largest gaps. Any `h` requests take
  some number of waves; as many waves have room for at least as many requests (`WavesOf`), and cuts at
  the largest gaps fetch no more than as many cuts elsewhere (`LargestSum`, by exchange), so a
  candidate is no dearer and within the limit if the cuts are (`BestIsCheapest`); the
  loop keeps the least of its candidates (`BestIsLeast`).
- `PlanSharesSimilar`: a request exceeds an equal share by less than its last range. The
  invariant `Shared` of the loop: either the requests before hold their shares,
  or there are as few ranges left as requests, and each gets one.
- Sums are folds, whose order is `CHOOSE`'s. `PartialSumsExist` unfolds the fold and
  `AnyGoesFirst` shows that its order does not matter, each by induction on the size of a set.

**The graph build** (`HnswBuildProofs`; `HnswAssumption`, any number of threads and nodes)

- `HnswTypes`, `HnswListsFit`, `HnswLayersExist`, `HnswEntryClimbs`: lists stay within
  the capacity of their layer, a link of a layer only names nodes that have it, and the
  entry point only ever changes to a higher one. None is inductive: a worker
  links what it found in a search begun many steps of others before. `BuildInv` adds what every
  worker carries (`WorkersOK`: its candidates have the layer it searches; the entry and
  top layer it works from were true and still exist) and that only the holder of
  the global lock raises the top (`SharedOK`).
- `HnswProperNeighbours`: no list names its own node, or a node twice. `link_back`
  appends without looking, so a worker must never have met a node that already has its
  node in its list. The danger is two insertions at once: a node is found on a layer
  from above, and linked to there, before its own worker has come down to that layer; that
  worker then writes its own list over these links. If it met one of those
  who had linked to it, it would be linked back to a second time. The invariant `MeetInv`
  says why it does not. For each worker there is a set of nodes (`Apart`) that holds its node
  and nothing it has met, that no link of the layers under the worker leaves or enters,
  and that no other worker is about to leave or enter (`Splits`): but for the worker's own next
  link, those layers fall apart (`Separate`). A worker that comes down a layer meets one
  node there, and the sets of all the others are put right at once (`Hung`,
  `Arrive`). A node whose insertion has not begun is known to nobody (`ComingUnmet`),
  as its chunk is of one worker only (`Owned`). TLC checked `MeetInv` on the constants
  of `HnswThreads` and on nodes with levels up to 2 before it was proved.

**The browser** (`SearchClientProofs`; `FetchAssumption`)

- `SearchCountersOwn`: the counters a search reports are of its own requests.
  `SearchWholeFileOnce`: a server that ignores ranges sends the whole file at most
  once, until a round fails. The invariant `ClientInv` says which jobs may run and with
  which counters (`JobsInv`: one at a time, so no other adds to a job's counters), and of
  rounds that until such a server is known nothing but the probe is sent for several
  ranges, in this round or a later one (`ProbeFirst`).

**The dense_ann table** (`DenseTableProofs`, on the lemmas of `DenseFileProofs`;
`FileAssumption`, `GraphAssumption`, `IvfAssumption`, `TableAssumption`; both layouts,
any set of `Faults`)

- `DenseIdsFresh`, `DenseLinksWhole`, `DenseHintsRight`: the three invariants of the
  `Dense` run, also behind a VACUUM that moves hinted rows and with the faults that
  run leaves out.
- The invariant `TableInv` is a statement about each of the two files, as none of the
  three is inductive about `work` alone: a rollback or a new connection makes `disk`
  the file that is used, under a memory that nothing took back. `FileGood` says of
  `work` and of `disk` that they are good for what a new connection would load from
  them (`state`, `head`) and for what this connection believes (`mem`), which may have
  counted ids that were undone. `Good` says it of one file, one counter and one entry
  set or directory: rows below the counter, links whole, hints absent or right
  (`GraphBase`, or `IvfBase` and `IvfHead`). `NotBuilt` has the states between the
  steps of a build that a query starts, and those in which a build was rolled back.
- `DenseSearchSound`: a search by SQL returns rows of the table with their own
  distances; an IVF search that probes every list, and one over the codes, returns every row.
  It assumes `KeysFit`, as explained below.
  Of a graph search it is what the beam search can have expanded (`AnnCoreFacts`) and
  what links rows and live nodes; of an IVF search, that the directory counts
  every chunk (`EveryChunkRead`) and that live entries and rows name each other.
- `DenseRawSameAsSql`: rows read off hinted pages are those SQL would have given, under
  `KeysFit` too. A page is
  taken for a row when it holds the row's id, whatever its table, so what is needed is
  where the rows of all tables lie: `PagesInv` says of both files that no two rows share a page
  and that just the rows there are have one (`Apart`, `Paged`), also when an
  insertion spreads the rows of three leaves over four (`SpreadPages`, `InsertedPages`), and
  that the ranges of a directory are page numbers. Of the three tables whose pages the model
  has, the graph layout fills only that of the nodes, so there a wrong hint could be slow
  but not wrong (`NodeSource`); in the IVF layout a hint that
  is right leads to the vector and to nothing else (`VectorSource`), and the chunks of a list
  are found in its range if the range is of lists only (`OwnPages`, `ReadChunkFacts`).
- `DenseImplementsSql`: the table is a table of SQL, under `NothingLost`: no build is rolled
  back, no process ends inside a query's build, and no graph runs out of memory in such a build.
  Each of the three really loses rows (`DenseFallback` shows the last), and nothing else
  does. The rows are mapped as the code sees them (`SqlRows` through `mem.built`, `SqlSaved` through
  `disk.state`). `SqlInv` says that outside those three memory and tables agree on whether
  the index is built, and what the rows are in the middle of a query's build, when
  they lie in no table. It needs `TableInv`: that links name live rows is what makes a
  deletion remove one row and an insertion add one.
- The lemmas follow the code: what the beam search returns (`AnnCoreFacts`: candidates
  are distinct, each carries the page and the code of its reference), what
  a selection keeps, what becomes of a file when rows are laid out, inserted in the
  middle, or moved by VACUUM (`VacuumFacts`), then one pair of lemmas for every
  operation of a layout (`InsertNodeFacts`, `InsertEntryFacts`, `DeleteNodeFacts`,
  `DeleteEntryFacts`, `BuildGraphFacts`, `BuildIvfFacts`, `FinalizeGraphFacts`,
  `FinalizeIvfFacts`, `VacuumGraphFacts`, `VacuumIvfFacts`), and one for every action
  (`BuildStep` ... `ReopenStep`).
- `IvfAssumption` asks that the rowids, and twice `MaxSlots`, do not exceed `Stride`: the
  number of a chunk is added to the number of its list shifted by `IVF_LIST_SHIFT`
  (20) bits, and nothing in `build_ivf` or `insert_ivf` checks that it fits. From
  chunk 2^20 of a list on, its key would be one of the next list's. The theorems hold below it.
- `KeysFit` (`NLists <= WordLists`) is a hypothesis of `DenseSearchSound` and
  `DenseRawSameAsSql` and of nothing else. The key of a chunk is a 64-bit integer wherever the
  tables are written, walked or scanned, and in the raw read of a chunk, but the read by
  SQL in `ivf_search` casts it to `uint32_t` (dense_ann.c:2149), which leaves of list L the
  number L mod 4096. `WordKey` is that cast and `WordLists` is the 4096, a
  constant because TLC's integers have 32 bits themselves. It is not an `ASSUME`: the
  code has no such limit, and its default of 4√N lists passes 4096 at about 1.05 million
  rows. Without `KeysFit` both theorems are false. **This is a defect of the code**: by SQL,
  that is before `finalize`, without a page reader, and for a chunk off the pages of its list's
  range, a search of every list reads other lists' chunks in place of those of the
  lists from 4096 on and misses their rows, which the raw read and `exact=2` find, although
  `test_dense_ann.py:208` says "exact PQ over all lists equals a full probe without rerank". TLC
  shows it when `Dense.cfg` has `WordLists = 1` for its 2 lists: `SearchSound` is
  refuted right after a build of two rows, `RawSameAsSql` too if it is checked alone.

`InductionLemmas` has what these proofs need of recursive functions, least naturals and
sizes of intervals and lists. As induction theorems with an operator parameter
cannot be used, each is proved from `Recursion` and `LeastNatural`, with the set of
the arguments that satisfy the claim for the predicate.

Model-checked only:

- liveness (`LoopEnds`, `BuildEnds`, `SearchesSettle`): TLAPS 1.4.5 proves no liveness
  under fairness;
- `SearchSound` and `HintsLast` of `LateTable` and its refinement of SQL's tables: not
  attempted yet.

## Not modelled

- Numerics: training, quantizers, scores and their bounds, the estimator's medians.
  A search picks any lists or centroids, and a code is a point.
- Data layout: b-tree cells, overflow pages, bit packing, codecs, multipart
  parsing. A unit, a row or a page is one value.
- `dense_ann`: the layout with codes in a table of their own, `vectors=table` for the
  graph, the hints of the head's own chunks, statistics, options; a second
  connection that changes the index behind this one's back. `RawSameAsSql` leaves
  out the state after VACUUM until `finalize`, and lists whose range of pages has come to
  span other tables (`OwnPages`): a hinted page is accepted when it holds a row of
  the same id, whatever its table, and whether such a page turns up depends on how
  SQLite gives out pages.
- `late_plaid`: memory out of date (`stale`), as above; the static data that takes
  several rows; the limit of the page cache; commands on a file that another
  connection writes.
- The blocking fetch worker (`sync-fetch*.mjs`): its groups and its probe are those
  of `FetchRound`; the shared buffer, which late groups may still write after a
  failure has woken the waiting thread, is not.
- In the browser: errors of a worker itself (`onerror`), several encoders and
  indexes, explicit warm-ups, what is asked of a page already closed, and a program
  that uses the database API without the worker. Promises that wait when the page
  closes never settle; `SearchesSettle` excludes them.
- Scripts, benchmarks, the network simulator, packaging, vendored code and data.

## What is left

Proofs about `LateTable`: `HintsLast`, `SearchSound`, then its refinement of SQL's tables.
No module uses a `RECURSIVE` operator, so it can be proved about.
