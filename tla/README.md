# A verification of badger-bench

badger-bench loads key-value engines (badger, RocksDB, bolt, LevelDB, LMDB),
times reads and scans of what was loaded, and times raw random file reads. It
brings its own Go and C++ wrapper of RocksDB. This directory holds TLA+ models of
these programs, the TLC configurations that check them, and TLAPS proofs.

## The system

| part | source | what it does | modules |
|---|---|---|---|
| loader | `populate/main.go` | 32 writers commit batches of 1000 entries, a reporter prints progress every second, an HTTP server may fail, main waits, closes the engine and prints the total | `Loader` (abstract), `Populate` (detailed), `PopulateProofs` |
| RocksDB wrapper: the database | `store/store.go`, `rdb/*.go`, `rdb/rdbc.cc` | Get, Put, Delete, batches, snapshots, iterators, checkpoints | `KVStore` (abstract), `RocksStore` (detailed), `RocksStoreProofs` |
| RocksDB wrapper: lifetimes | the same files | Go wrappers that hold raw C pointers, and the calls that free them | `RdbHandles`, `RdbHandlesProofs` |
| RocksDB wrapper: options | `rdb/options*.go`, `cache.go`, `filter_policy.go`, `store.go` | settings, caches and filter policies, and how they reach a database | `RdbOptions`, `RdbOptionsProofs`, `StoreOptions` |
| random read benchmarks | `bench_test.go` 34-267 | parallel lookups of random keys, hit counts | `ReadBench`, `ReadBenchProofs` |
| iteration benchmarks | `bench_test.go` 269-467 | scans of each engine after loads | `Iterate`, `IterateProofs` |
| rw-bench | `rw-bench/bench.go` | the same entries written to two engines, unique keys counted | `RwBench`, `RwBenchProofs` |
| random file reads | `randread/main.go` | serial, concurrent and asynchronous reads until a timer fires | `RandRead`, `RandReadProofs` |

`MC*` modules and the `.cfg` files are instances for TLC. The parts meet in three
places. The benchmarks read what the loader has left on disk: `ReadBench` starts
from any mixture of keys that loads with different value sizes may have left, and
`Iterate` models those loads (as one step each) before the benchmark; what such a
step may leave is what `Loader`, which `Populate` implements, allows. The loader
and rw-bench use the wrapper through `store`; what the loader depends on, that
commits of `NewStore` are not synchronous, is `RocksSync` in `Populate` and mode
`"rw"` in `RocksStore`. And `StoreOptions` composes the calls of `setOpts` from
the actions of `RdbOptions`.

## The modules

**Loader and Populate.** `Loader` is what populate promises, as one sequential
process: an old store is removed (badger ends if it cannot be), batches are added
whole and once, totals told never go down or ahead of the store, the last line is
exact, an error may leave one more batch, and a crash takes nothing from a
synchronous engine. `Populate` is the code. `main`, `pc[w]` and `rpc` are the positions of main, the writers
and the reporter. A batch is `<<w, i>>`; keys and values are random data that no
property tells apart. There is an action for each statement that other goroutines
can observe: the commit (`Write`), the atomic add (`Count`), the rate counter
(`Incr`), the two reads of a report line (`Tick`, `PrintTotal`), `Spawn`, `Wait`,
`Cancel`, `CloseStore`, `PrintWrote`. `Fatal` is `log.Fatal` and `y.Check` from any
goroutine; `Crash` a machine crash that leaves `synced`; `WriteBack` the operating
system. The runs take one engine with a checked `RemoveAll` and synchronous commits
(badger), one with neither (rocksdb), and an invalid name. bolt, LevelDB and LMDB
are synchronous with an unchecked `RemoveAll`: each of their steps is a step of one
of the first two.

**KVStore and RocksStore.** `KVStore` says what callers rely on: one dictionary per
directory, changed atomically, frozen snapshots and cursors, copies, and which
dictionaries a crash may leave. `RocksStore` is the code: a log of commits with
positions for snapshots and iterators, read options that may point to a released
snapshot, batches as queues, checkpoints that copy at `Save`. RocksDB itself is
external and modelled from how `rdbc.cc` calls it. `ImplementsKVStore` maps a log
to the dictionary its commits make (`View`). A call that returns an error is a
stuttering step.

**RdbHandles.** The native objects in the order they were made, each with the
object it was made from, whether its memory is allocated, and whether the wrapper
still has its pointer. One client makes any calls in any order, also those it must
not make; `sins` records which rule it broke, `fault` what the call did: `"nil"`
(the process dies at once) or `"dangling"` (freed memory is touched, perhaps
unnoticed).

**RdbOptions and StoreOptions.** Table options, options, databases and caches with
the settings each holds a copy of. A filter policy is owned by the copies of one
`std::shared_ptr` (a "block"), which delete it when the last one goes. Go policies
are registered in a slice and found again by index from a C callback.
`StoreOptions` is `setOpts` and the opening of a `Store`, call by call.

**ReadBench.** One benchmark function: rounds of `b.N`, `pb.Next` handing out
exactly `b.N` iterations, a hit counter per goroutine, the shared one, the
assertions on value size, and the copies `rdb_get` makes. The three adds of
`hitCounter.Update` are one step since nobody reads the sum before RunParallel is
over. LevelDB and LMDB look up as badger does (not found, error and found are counted,
the size is asserted), so the run takes badger, RocksDB and bolt.

**Iterate.** Some runs of populate with a value size each, then one of five
benchmarks with a size of its own: the loop over `b.N`, the scan with its limit,
the size assertion, the buffer that `safecopy` grows.

**RwBench.** main of rw-bench step by step: entries share their key buffers with
the badger transaction until Commit, while the RocksDB batch copies; the counter is
reused for the second scan; directories start with anything.

**RandRead.** The flag, the goroutines of the three modes, the histogram's
unsynchronised increment as a load and a store, the asynchronous queues, and the
collection loop. A full queue (the wait for room is commented out in the code) is
answered by the library with an error or by waiting; both are allowed.

## The runs

| run | shows | bounds, and why they are enough |
|---|---|---|
| populate | the engine is closed after its writers; WROTE is exact; no report line has a rate above its total; what was shown survives crashes of synchronous engines; the goroutines implement `Loader`; the loader ends | 2 writers, batches of 2, 5 keys: a share that is no whole number of batches, two batches each |
| store | stores with commits, deletes, a snapshot, Gets, a checkpoint, closing and crashes refine `KVStore` | 2 directories, 1 key, 1 value, 1 snapshot, 1 checkpoint, 2 commits: a snapshot, a copy and a durable prefix can each differ from the present state |
| store_scan | a scan meets exactly the keys of its creation while batches are written; batches apply in order | 2 keys, 1 iterator, batches of 2, 2 commits: a key is added or deleted ahead of and behind the iterator, and repeated in a batch |
| readbench | counts add up to `b.N` of the last round; found means present; the size assertion holds; the benchmark ends | 2 goroutines, `b.N` 1 and then 3, value sizes 0 and 2 |
| readbench_slices (violated) | values returned by Get are never freed | as above, one round of 2 |
| randread | the histogram never shows more reads than were made; the end of a file is met only in a file shorter than the last; all requests are collected; the program ends | 2 goroutines, 7 lists of up to two files, reads of 2 bytes, queue depth 2, 4 reads |
| randread_aio (violated) | the asynchronous mode reports 0 reads | 2 reads |
| handles | a client that keeps four rules never touches nil or freed memory; three mistakes go unnoticed; two kinds of objects leak | 5 native objects: a database, options, a snapshot or iterator, a slice and one more |
| options | a policy lives as long as it is used; a callback reaches its Go policy; an open database keeps its settings | 2 table options, 1 options, 1 database, 1 cache, 2 C policies, 2 Go policies, 3 owners: a policy can be replaced while another copy of its owner remains |
| options_bloom (violated) | a `Store` opens its database without its bloom filter | one `Store` |
| iterate | logged counts are exact; the size assertion fails only on data of another size; badger never has any | 2 numbers, sizes 0, 1, 3, limit 3, buffer 2, 2 loads, `b.N` 2: stores below, at and above the limit, values that make the buffer grow |
| rwbench | both engines print the number of different keys drawn | 4 keys, 5 entries: a key must repeat |

Two actors suffice for the races here, all of which are between one goroutine and
one other. `store` and `store_scan` together take every action of `RocksStore`, but
no run combines iterators or batches with snapshots and checkpoints; the proofs
below do. `Permutations` of directories, table options and keys are sound
symmetries: no action or property tells one from another. Named bounds:
`MaxCommits`, `MaxOps`, `MaxReads`, `MaxObjs`, `MaxPolicies`, `MaxBlocks`,
`MaxLoads`, `BN`. All passing runs check deadlock; the ends of a program are
explicit stuttering steps, and a `RocksStore` can always crash.

**Fairness.** `Populate`: weak fairness of main (or of failing to open, the only way
on with an invalid name) and of each writer, since the Go scheduler runs them and a
commit that does not fail returns; none for the reporter, whom main does not wait
for. `ReadBench`: main and every goroutine. `RandRead`: main, the timer and every
goroutine, whose step may be a failing read because no other read exists when every
file is too short. No crash and no other failure is fair.

## What is proved

For all values of the constants that satisfy the `ASSUME`s of the modules (finite
and non-empty sets of writers and goroutines, positive batch length and read size,
keys that are a finite set of positive numbers, a `Nil` that is none of the values;
for `Iterate` finitely many numbers in keys and a positive limit). The bounds named
above stay in the guards and may be any number.

**PopulateProofs**: `TypeCorrect`, `EngineOutlivesWriters`, `WroteTellsTheTruth`,
`RateNeverAboveTotal`, `ShownIsDurable`. None is inductive alone. `Barrier` says
that the WaitGroup counts exactly the writers between Spawn and Done and that main
is past Wait only when there are none. `Ledger` says that, until a crash, the
committed batches of a writer are those it has finished plus the one it is counting,
and that `counter` is the batch length times the counted ones; `Share` bounds a
writer's batches by the loop condition. Together at main's exit they give the exact
total and its bounds. `Reports` relates the line being printed to the counter: a
batch enters the counter before the rate. `LoaderIsImplemented`: `Spec` implies
`ImplementsLoader`. From these invariants each action of the code is one action of
`Loader` or changes nothing it speaks of; that a commit adds a batch the store does
not hold yet, and that a crash of a synchronous engine takes nothing, come from
`Ledger`, the last line from `Barrier` and `Share`.

**RandReadProofs**: `TypeCorrect`, `HistogramCorrect`, `EofOnlyInShorterFiles`,
`NoRequestIsLeft`, `ReportsAreBehind`. `Behind` is the strengthening for the race:
not only the total but every value loaded and not yet stored is behind the reads by
at least the number of goroutines with an unrecorded read. `SerialExact` pins down
the single goroutine. `Collectable` says that a queue that is not empty has a
goroutine that will still come to collect from it, also when another one has already
passed it. `ReportsAreBehind` uses both: what any mode prints is at most the reads
made, and what the asynchronous mode prints is zero, in every run of it and not only
in the counterexample of `randread_aio`.

**RdbHandlesProofs**: `TypeCorrect`, `RulesSuffice`, `ThreeCauses`, `LeaksAreKnown`.
The invariant `Heap` gives, for each kind of object, what its end has done to its
memory and its pointer (`Life`) and where its references go (`Linked`); `Faults` and
`Safe` say what is known of a fault and of the rules broken. The proof of a step is
that every pointer it touches belongs to a live object or that a rule is broken by
the call.

**RdbOptionsProofs**: `TypeCorrect`, `PoliciesOutliveTheirUse`, `IndexStaysRight`,
`SettingsAreCopied`. `Ownership`: unless a native policy was handed over twice, no
two owners have the same policy, and a deleted policy had an owner of which no copy
is left. The lemma `Dropped` carries it over every call that drops copies: an owner
without copies never gets one again. `Registry` is the same for the Go policies. The
module goes on to `StoreOptions`. `StoresUseOptionsRightly`: `StoreSpec` implies
`Spec`, and no call faults, if `opt`, `blockopt` and `store` are among the options,
tables and databases, so that the theorems before hold of every `Store`.
`StoreLacksItsFilter`: when a `Store` is open its block options have a filter and
its database has none, which is what the counterexample of `options_bloom` shows for
one. `SetOptsOK` is the invariant: it says, for each call, what the calls before
have left.

**RocksStoreProofs** starts with least and greatest keys of a finite set (by
well-founded minima), and that `View` depends only on the commits it counts, so
appending a commit, taking a prefix or opening another store leaves the dictionaries
of snapshots and iterators alone (`Kept`, `KeptViews`). `TypeCorrect`: the invariant
includes that snapshots, iterators and checkpoints belong to open stores, that no
position is beyond the end of its log, that an iterator stands on a key of its own
view, and that the snapshot in the read options is one of the same store.
`BatchesApplyInOrder`: the code's engine keeps the last update of each key
(`Effect`), the property applies updates one by one (`Applied`, a recursive
function). `AfterFirst` is its closed form: it solves the recursion, and a least
number of updates at which a solution differs from it cannot exist, which is the
induction. `ScansAreComplete`, by the keys seen so far being those up to the
position; and `Refinement`, that `RocksStore` implements `KVStore`: the initial
states map to initial states, and one lemma per action shows which action of
`KVStore` it is under the mapping. Iterators and batches, which the run `store`
leaves out, are included. Two action properties follow from the refinement.
`ViewsStayFrozen`: what a snapshot or an iterator shows never changes.
`WritesAreDurable`: a crash leaves a dictionary since the last one on stable
storage, and after a write of a synchronous store only that one.

**ReadBenchProofs**: `TypeCorrect`, `EveryLookupCounts`, `FoundTellsTheTruth`,
`AssertionNeverFails`, `RocksSlicesLeak`. `Tally` is the invariant: the iterations
of a round are those still to be handed out, those in the shared counter, and those
in the counts of goroutines that have not added theirs yet. The last is a sum over a
set of goroutines; it is written as the cardinality of a set of marks (`Marks`), one
per lookup, so that the lemmas on finite sets apply: a lookup adds one mark
(`MarksMore`), `Update` takes all of one goroutine's away (`MarksGone`). `Phases`
says that when main prints, every goroutine has added and none of the iterations is
left. `RocksSlicesLeak` gives the size of what `readbench_slices` finds: with
RocksDB at least one copy for each key found in the last round, with other engines
none.

**IterateProofs**: `IterateTypes`, `ScansCountExactly`, `LoggedScansHadOneSize`,
`BadgerScansMatch`. The invariant `ScanOK` says that the scan is past as many keys
as it has counted, that these come before all the others (`FirstKey`: every set of
keys has a first), and that they have the size asserted; a key within the limit that
was not passed would have `Limit` keys before it. `StoreOK` says that a badger
directory has keys of one size.

**RwBenchProofs**: `RwTypes`, `BothEnginesCountTheDrawnKeys`. The invariant says
what each step of main may rely on: the batch has the keys of the entries
(`DrawOK`), the transaction has the entries in order and in the end all (`TxnOK`), a
directory is empty from its removal to the write (`DiskOK`), and the counter is the
number of keys the scan is past (`CountOK`). Nothing is assumed of the keys or the
number of entries.

Every safety property of a passing run has a theorem. Only model-checked is liveness
(`Terminates`, `Ends`), which is out of the prover's reach.

## Differences between documentation and code

- `options_bloom`: `setOpts` copies the table options into the options
  (`store/store.go:38`) before it sets the bloom filter on them (`:47-48`), so no
  `Store` has its filter. The comment on `opt` says "Contains blockopt."
- `readbench_slices`: the RocksDB benchmark ignores "Remember to deallocate the
  returned Slice." (`rdb/db.go:86-87`).
- `randread_aio`: the code that records reads is commented out
  (`randread/main.go:188-194`), so the mode reports 0 as its number of reads.

## Not modelled

- `rdb/util.go`, and the casts in every wrapper: conversions between Go and C bytes
  without state. What they point to is in `RdbHandles`.
- `WriteBatchFrom`, a batch from serialized bytes: what it holds depends on RocksDB's
  format, which is not in this repository. `GetProperty` and `GetStats` return text;
  only their memory is modelled.
- `extra/` and `populate/lmdb_txn_bench_test.go`: straight-line timing of file and
  LMDB calls, with no state that a property could relate.
- Profiling, latencies, quantiles, progress dots and all other printing that no
  property is about.
- `run.sh`, `populate/record-heap.sh`, and `bench.go`, which prints one line.
- The engines themselves (badger, bolt, LevelDB, LMDB, RocksDB) are external and
  modelled by what this code relies on.
