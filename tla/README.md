# IssunDB: a TLA+ verification project

IssunDB is an embedded property-graph database in Rust. Its core crate,
`crates/issundb-core`, keeps a graph in tables of LMDB (or of a memory
backend) and serves most reads from memory: a CSR adjacency snapshot, columnar
copies of properties, label scans and statistics, refreshed lazily and partly
saved to cache files beside the database. On it stand the Cypher engine
(`issundb-cypher`), full-text search (`issundb-text`), vector search
(`issundb-vector`) and retrieval (`issundb-retrieval`), and on those the front
ends.

The modules in this directory model two kinds of code. Where threads, caches,
transactions and crashes meet, a module is a state machine with one step per
lock, load or transaction. Where a pure function decides what an answer is
(the planner, the executors, the kernels, the language's values), a module is
a set of operators translated from the code and held against an independent
definition of the answer on every small input of a menu. TLC checks both on
small instances; TLAPS proves a part for all instances.

## 1. The system and its parts

| part | state | operations | hard behaviour | what makes it correct |
|---|---|---|---|---|
| Graph tables (`graph/node.rs`, `edge.rs`, `storage/ids.rs`) | records, adjacency in both directions, label index, counts, id counters | add, update, delete, add/remove label | one logical change is many table writes; cascades; self-loops | tables agree, counts exact, ids never reused |
| Write transactions (`graph/txn.rs`, `Graph::update`) | an open write transaction, `WriteBatchCache`, `GraphDelta` | the same operations deferred, bulk mode, commit, abort | buffered adjacency, endpoint memo; a mutation that fails half way | all or nothing; reads see own writes; the published change covers the commit |
| Storage backends (`storage/memory.rs`, `lmdb.rs`) | tables, open readers, one writer | begin, get, put, delete, commit, abort | tables shared until written | snapshots never change, commits are whole |
| CSR snapshot cache (`csr.rs`, `graph/algo.rs`) | snapshot pointer, `write_gen`, `snapshot_gen`, pending batches, maintenance mutex | record change, advance, refresh by patch or by build, rebuild, two reader gates | writers and refreshes interleave at every step | a current snapshot has every published write |
| Rebuild claim (`csr.rs`) | `dirty`, `rebuilding`, `claimed` | note, claim, settle, cancel, reset | three atomics without a lock | one compaction at a time, the claim always returned |
| CSR cache file, backup, restore (`cache_file.rs`, `storage/lmdb.rs`) | `csr.cache`, `data.mdb` with identity and commit generation, a backup | save, replace, load, open, back up, restore | stops between any two steps, old files beside new databases | an accepted file is what a scan would produce |
| Property columns (`columns.rs`, `histogram.rs`) | typed columns, pending delta, group codes, statistics, columns file | record, absorb, serve, advise, compare, group, materialize | the delta is recorded after the write is visible; a column changes kind | columns converge to storage and answer what storage would |
| Label scans, plan cache, statistics (`graph/index.rs`, `graph/stats.rs`, `exec/read.rs`) | lists, bitmaps, tables, memos and plans, each with a generation | scan, probe, materialize, plan | commits are visible before their generation | a scan is never staler than its question; no plan is cut wrongly |
| Property indexes and constraints (`graph/index.rs`) | index entries, declarations, opt-outs | write, declare, drop, opt out and in, look up | two zeros, f64 rounding, over-long strings, leftovers | lookups and constraints are those of the stored values |
| Full text (`graph/fts_mod.rs`, `issundb-text`) | postings, lengths, statistics | index, create, drop, search | running statistics; pruning | statistics exact; ranking is that of scoring everything |
| Vector index (`issundb-vector`) | index in memory, vectors table, configuration, mutation lock | upsert, remove, configure, reindex, search | two copies written in two steps, cold start without a lock, ghosts | the copies agree; searches find the nearest live nodes |
| Graph kernels (`graph/kernels`, `graph/algo.rs`) | none (one snapshot per call) | traversals, paths, flow, components, communities, centralities, counts | parallel edges, self-loops, zero and negative weights, caps | each answer is what its name says |
| Cypher parser (`parser.rs`) | none | parse, validate | scopes across clauses | accepted statements read only bound variables |
| Cypher planner (`plan/`) | none | plan, rewrite in passes | each pass relies on shapes the others leave | the plan answers what the clauses mean |
| Cypher executor (`exec/`) | rows; overlay of pending writes | read operators, columnar path, write clauses, expressions | committed reads inside a transaction; nulls, errors, overflow | every clause does what it means |
| Retrieval (`issundb-retrieval`) | none | expand, fuse, materialize | caps and order of seeds | the subgraph its seeds and caps define |
| COPY, CLI, REST, MCP, Python, WebAssembly | per request | | | not modelled (section 8) |

**How they interact.** Every writer holds the write lock. It commits a
transaction that also bumps the persisted commit generation, records the
structural change in the CSR cache's pending list, advances the in-memory
write generation, notes the mutations in the dirty counter (which may spawn a
compaction thread), and last tells the property columns which entities it
touched. Readers never take the write lock: they compare generations, or look
for a pending delta, and refresh what lags. Full rebuilds and
`materialize_property_columns` save files stamped with the persisted
generation; the next process loads them if identity and generation match. A
Cypher statement is parsed, validated, planned, rewritten and run row by row
or column by column; a writing pipeline runs in one transaction and reads
committed state through an overlay of its own writes.

```
 SnapshotStore <== MemoryStore implements it
     ^ assumed by
 GraphSpec <== GraphStore --commit, change--> CsrCache --count--> RebuildClaim
                  |   |  persisted generation     | snapshot
                  |   +-----------> CsrFile <-----+
                  |   touched ids
                  +---------------> ColumnsCache (with its own file)
                  |   generation                  \ contents: PropColumns
                  +---------------> ReadCaches (label scans, statistics, plans)
                  +---------------> PropertyIndex, VectorIndex
 Validate -> CypherPlan -> PlanRewrite -> CypherExec | Vectorized
                           WriteStatement (overlay over a transaction)
                           Values, Temporal (what expressions compute)
 Kernels <- Analytics, PatternCounts, Retrieval    TextSearch
```

The modules meet in promises. `GraphStore` shows that every commit publishes
a change that covers it and moves the persisted generation
(`ChangeDescribesCommit`); `CsrCache`, `CsrFile`, `ColumnsCache` and
`ReadCaches` take exactly that for granted in their writers. `MemoryStore`
shows what `GraphStore` and `WriteStatement` assume of a transaction. The
counting operators of `CypherExec` are the kernels of `PatternCounts` on the
planner's graphs.

## 2. The modules

| module | models |
|---|---|
| `SnapshotStore`, `MemoryStore` | abstract: isolated snapshots and atomic commits; the memory backend that implements it |
| `GraphSpec`, `GraphStore` | abstract: a property graph that mutates at once and commits atomically; the tables and the write transaction that implement it |
| `CsrCache` | snapshot, generations, pending batches, maintenance pass, both reader gates |
| `RebuildClaim` | the three atomics, compaction threads, `rebuild_csr` |
| `CsrFile` | the snapshot's file across processes, databases, backups and restores |
| `ColumnsCache` | freshness of the property columns, group codes, the columns file |
| `PropColumns` | the typed columns: building, patching, masks, codes, bounds, statistics, file layout |
| `ReadCaches` | label scans and bitmaps, edge statistics, schema probes, plan caches |
| `PropertyIndex` | index entries, constraints, opt-outs and text postings under every write |
| `VectorIndex` | the index in memory beside the vectors table |
| `CypherPlan`, `PlanRewrite` | queries and what they mean, logical plans; the optimizer's passes |
| `CypherExec`, `Vectorized` | the row executor; the columnar path |
| `WriteStatement` | writing pipelines and the overlay their reads go through |
| `Validate`, `Temporal`, `Values` | checks before planning; dates, times, durations; operators, functions, aggregates, sorting |
| `Kernels`, `Analytics`, `PatternCounts`, `Retrieval`, `TextSearch` | algorithms over one snapshot or one set of indexes |
| `LanguageCalls`, `ColumnCalls`, `TextCalls`, `KernelCalls` | calls into the above and their reference definitions |
| `*Proofs` | the theorems about `MemoryStore` and `GraphStore` (both in `StoreProofs`), `CsrCache`, `RebuildClaim`, `CsrFile`, `ColumnsCache`, `ReadCaches` and `VectorIndex` (both in `ReadCachesProofs`), `PropertyIndex`, `WriteStatement` |
| `MC*` | instances for TLC |

**GraphStore.** `db` holds the committed tables as one record, `work` the same
tables as the open transaction sees them together with its `WriteBatchCache`
(`cnode`, `cedge` are the cached counters, `ldelta`, `tdelta` the count deltas,
`pendOut`, `pendIn` the bulk-mode buffers, `known` the endpoint memo). The
`*_inner` functions of the source take an optional cache, and so do the
operators `AddNodeInner`, `AddEdgeInner`, `DeleteNodeInner`, ... (field
`cached`). Each mutator is an action on its own (`AddNode`, ...) and one inside
a transaction (`TxnAddNode`, ...). The refused mutations leave their partial
writes in `work` and mark the transaction as `WriteTxn::mutate` does.
Properties are left out, so a constraint refuses freely; label and type names
stand for their registry numbers.

**MemoryStore.** A table set is a function from table names to numbered
copies (`Places`); `published`, the readers and the writer hold such sets.
`table_mut` copies a table somebody else holds and changes one nobody else
holds in place, which is where `Arc::make_mut` could go wrong.

**CsrCache.** A snapshot is its node set and its row entries, with the ids that
occur in a row more than once (`with_additions` does not look for them). One
step per atomic operation or critical section: a writer commits, records,
advances; a pass reads the generation (`MStart`), merges the pending batches,
patches, or builds, drains or prunes, stores the pointer, stores the stamp; a
reader loads `write_gen`, loads `snapshot_gen`, then the pointer. A workload
fixes the operations, the pending limit and whether calls overlap (`threads`).
`published` is history: storage when the generation last advanced.

**RebuildClaim.** `note_dirty_n` is three steps (`NoteDirty`,
`SwapRebuilding`, `Claim`), `settle_rebuild_claim` three (`TakeClaim`,
`Subtract`, `Settle`), `cancel_rebuild` two, `install_full`'s resets three.
Counters wrap at `Mod`, as `fetch_sub` does at 2^64. `noted` and `built` are
history: writes so far, and writes the installed snapshot holds.

**CsrFile.** Database content is a version number that no two commits share;
`restore` can therefore bring back an old generation and move it to a
different content at the same generation. `m` is the pass holding the mutex.
`Stop` may come between any two steps. `SetAside` and `Replace` are the path
`publish_cache_file` takes where a mapped file cannot be renamed over.

**ColumnsCache** and **PropColumns.** The first reduces a record to how many
writes it has seen and whether it exists: `TakePending` takes the delta with
the lock; the patch then reads one entity at a time (`PatchChunk`) while
writers go on; `AbsorbFails` may strike anywhere. A call for group codes
either builds and files them (`StartGroup` to `Serve`) or is answered by those
filed under the present generation (`GroupHit`). `recorded` and `stamped` are
history: the writes the columns have been told of, now and when the generation
was last published. The second module is what one
absorb computes: dense places, presence bitmaps, a kind chosen by the first
value and given up at the first other one, comparison masks, group codes,
bounds, histograms, and the arrays of the cache file with their padding: the
writer and the layout each compute where an array begins, and `ColumnsRight`
reads a saved file back through the layout.

**ReadCaches.** A writer commits and advances the generation in two steps;
storage is the members of one label and the presence of one (label, type,
label) triple. Label scans take the lock, look at the generation, read and
file; statements look into their thread's plan cache, plan, ask the table,
the memo or a probe, and file the plan.

**PropertyIndex.** One property, items (nodes and edges) under owners (labels
and types). Every operation is a transaction that either happens with all its
index entries or is refused. Values keep what decides an index key: family,
f64 rounding, the two zeros, length. Text postings, lengths and statistics
are kept per label and language; tokenizing is a table.

**VectorIndex.** `heap` holds every index some thread may still point to,
`slot` the shared one. Calls step through lock, existence check, cache lookup
or cold start (configuration, scan, install, each on its own), index, table.
The library's search returns the nearest by the distance of quantized
components, ties by id; quantization drops a bit.

**CypherPlan, PlanRewrite, CypherExec, Vectorized.** `Answer` says what a
query means, clause by clause, without a plan. `PlanRewrite` plans it and
applies one pass per step, in the optimizer's order; `env` holds what the
statistics may force (which labels are indexed, which side of a join is
heavier, row pipeline only). The last step runs the plan, by the columnar path
if `recognize` takes it. Rows are functions from variables to bindings, one
node property `x`; cost formulas are reduced to the choices they make.

**WriteStatement.** `db` is committed, `txn` the transaction's own view, `ov`
the overlay (created, changed and deleted ids). Reads of the executor go
through `db` and `ov`, writes and MERGE's match half through `txn`.

**Validate, Temporal, Values** and the algorithm modules have no state; the
`*Calls` modules ask one question per behaviour and hold the answer against a
definition written independently of the code: simple paths and cuts, all edge
subsets, assignments of a pattern, calendar days counted one by one, scores of
every document. `Retrieval` takes the answers of the two searches as given,
their errors included.

## 3. Runs

| run | instance | shows |
|---|---|---|
| `store` | graph: 2 nodes, 2 edges, 1 label, 1 type, 3 mutations per transaction, 3 generations, buffer of 2; memory: 2 tables (one with several values per key), 1 key, 2 values, 1 reader, 2 writers, 3 places per table | tables, buffers and counts consistent; reads see own writes; commits publish what they did; ids grow; `ImplementsGraph`; `ImplementsSnapshots` |
| `csr_additive` | two workloads: additions and edge updates with 1 reader, rebuilds and 3 writes; all operations without threads, 5 writes, pending limit 1 | a current snapshot has every published write and current weights; a reader gets at least what was published when it asked; without threads a current snapshot equals a full build |
| `csr_rebuild` | removals too, 1 edge, fairness | an explicit rebuild is exact; every reader is answered |
| `read_caches` | caches: 2 threads, 1 node, 2 writes, 3 calls, plan cache of 2; vectors: 2 callers, 3 starting states, 4 menus, ids up to 3, 3 calls, 1 node change, 1 restart; CSR file: 5 versions, 2 databases, 3 published writes per process | label scans are current, pruned plans sound; index and table agree, searches find the nearest live nodes; an accepted file holds the database's content and a current snapshot is what storage holds |
| `properties` | indexes: five profiles of 1 or 2 nodes, 0 or 2 edges, 3 to 6 values, two labels or languages where it matters; columns: 2 entities, 2 writes, and either 2 callers whose calls overlap or one call at a time and 1 restart | lookups, ranges, constraints, postings and statistics are those of the stored values; calls see finished writes, columns converge, a current file is exact |
| `planner` | 62 queries, every graph of up to two edges and 28 of three on 3 nodes, chains of up to 2 hops taken by the columnar path (6 in the code) | the final plan answers what the clauses mean, and reads only bound variables |
| `write_path` | statements: 22 clauses, 3 committed graphs, 2 statements, 5 clauses, 4 rows; claim: 2 threads, threshold 2, 6 writes, full rebuilds, failures, fairness | the overlay answers what the transaction holds, every clause does what it means, errors leave nothing; one compaction at a time until the first explicit rebuild, installs in order, the claim is always returned |
| `calls` | every multigraph of three edges on three nodes, six shapes of five weighted edges on four; every statement of up to three clauses from a menu of 20 and 7 returns; dates around month, year and leap ends and clock changes; all small columns, patches and statistics; all placings of two terms in three documents and two indexes | validation, temporal values, values, columns, kernels, counts, rankings and retrieval agree with their definitions |
| `csr_lost_marker` | violation: 2 edges of one node, 4 writes | see below |
| `columns_hits` | violation: 1 entity, 1 caller, 2 writes | see below |
| `index_opted_out` | violation: the profiles of `properties` | see below |
| `claim_lost` | violation: 2 threads, threshold 2, 6 writes, no failures | see below |

Each violation run is for a sentence of the source that the code does not
keep.

- `csr_lost_marker`: csr.rs:864 says "drop exactly the batches it applied
  (later ones stay for the next refresh)"; a removal recorded while a patch is
  prepared replaces the list by one full marker, the drain, counting batches,
  drops the marker, and the removed edge stays in a snapshot that counts as
  current.
- `columns_hits` (`HitsRecorded`): group codes are "valid for exactly one
  write generation" (graph/mod.rs:561). A write publishes its generation
  before it tells the columns; codes derived in between lack it, are filed
  under the new generation (graph/mod.rs:1319), and answer every later call of
  that generation, also those that begin after the writer has returned. The
  comment at graph/mod.rs:1612 allows a reader to be late for as long as the
  bookkeeping takes; the filed codes stay late until the next write.
- `index_opted_out` (`OptOutUnchanged`): opting a label out "makes every
  lookup on it scan, with results unchanged" (graph/txn.rs:1606, and 1653
  "agree with the indexed answers"). The scan compares numbers as f64
  (graph/index.rs:1015), so it also returns members whose integer only shares
  the rounding of the one asked for, which the index keeps apart.
- `claim_lost` (`WritesStayCounted`): settling subtracts the claimed count "so
  writes that landed during the rebuild remain counted" (csr.rs:964).
  `note_dirty_n` computes its total before it swaps the flag and claims it
  afterwards. If a pass settles in between, the claim holds writes that were
  subtracted already, and settling it takes later writes out of the counter,
  or wraps it.

The properties that do hold are chosen around these and the observations of
section 6. `ReadsRecorded` holds a call that reads the columns to every write
recorded before it began, and a hit on filed codes to those recorded before
its generation was published: it lacks at most the write that published it.
`LookupExact` asks of an index the exact answer, and of a scan of an opted-out
label the same for all numbers that differ as f64; of members that share the
rounding of the one asked for it says nothing there. With removals and threads a snapshot is only promised to be
complete (`NoLostWrite`, additions) or exact right after a full build
(`FullBuildExact`); exactness after any mix of operations holds on the build
without threads (`ExactWhenFresh`).

**Composed runs.** `store`, `read_caches`, `properties`, `write_path` and
`calls` hold components that
share no variable; a behaviour picks one of them in its initial state, and
only that one moves. They are runs of several questions, not products.

**Bounds.** A concurrency hazard needs two or three writes around one pass:
one before it, one during it, one to make the damage visible. Two nodes and
two edges give self-loops, parallel edges and both directions; one transaction
of three mutations reaches add, buffer, flush, delete. For `RebuildClaim`,
threshold 2 with counts 1 and 2 gives totals below, at and above it, and 6
writes three rounds of the claim. For `CsrFile`, two databases and five
versions include: save, back up, commit, remove, restore, commit something
else at the same generation. Two writers, one reader and three places per
table are all the copies of a table that can be held at once. For the vector
index one line of three points, a second dimension and a refused vector give
every comparison its outcome. Scaled constants keep their role: a presence word
has 2 bits (64), a histogram 2 buckets (10), one commonest value (8), a second
3 x 3 x 3 ticks (1000 each), integers end at 3 (2^63 - 1), text scores count
in thousandths. The mutant of every property shows that the instance is large
enough to see it fail.

**Deadlock** is checked where the workload never runs dry (`CsrCache`:
readers can always call). The others stop when their bounds
are used up, or when their one question is answered, and switch the check off.

**Fairness.** Threads that can run do run: weak fairness on the steps of a
writer that has committed, of a maintenance pass and of a reader. A thread
waiting for the maintenance mutex gets strong fairness: `parking_lot::Mutex`
is eventually fair, so a waiter is not overtaken for ever. Nothing is assumed
about new writes, new calls or failures: they may stop or go on to their
bounds. `ReaderServed` and `ClaimReleased` need nothing else.

**Mutants.** Next to some definitions stands a variant that no specification
uses: a plausible slip in the code the definition models. `PROJECT.json` names
the property that fails when the variant takes the definition's place.

## 4. Proofs

Every statement is of the form `Spec => []Inv`, `Spec => [][A]_vars` or
`Spec => Abstract`, for every value of the constants allowed by the module's
`ASSUME`: any number of readers, writers, threads, nodes, edges, labels,
writes, databases, versions and clauses, any size of a buffer or a list. The
assumptions only say that bounds are numbers, that capacities are positive,
that marks such as `None` are not also names, and that what a behaviour starts
from (a stored database, a parsed clause) is well formed. Each module states its inductive
invariant first, then one lemma per action, then the theorems.

`StoreProofs`, memory backend (`PlacesAssumption`: the first copy of a table
has a place):

- `MemRefinement`: `ImplementsSnapshots`. `MemInv` says that whoever holds a
  table set finds every table of it in memory and that the mutex has at most
  one holder, the only one with a working copy. A write then either goes to a
  place the writer alone holds, or to a place that nobody held: what any other
  holder reads is untouched, which is one abstract step.

`StoreProofs`, graph tables (`StoreAssumption`: the buffer is flushed at one
entry or more):

- `StoreInv` says of the committed tables, and of an open transaction's tables
  with its cache, that edges have their endpoints, ids lie below the counters,
  label postings and adjacency are those of the records once the buffered
  entries are added, and that the stored counts plus the cached deltas are
  cardinalities. Without the deltas and buffers it would not be inductive:
  between two flushes the tables alone are inconsistent on purpose.
- `Consistency` (`TablesConsistent`), `ReadingOwnWrites` (`ReadsOwnWrites`),
  `ChangesDescribed` (`ChangeDescribesCommit`) and `IdsFresh`
  (`IdsNeverReused`) follow. The latter two also need what a transaction has
  recorded of its own changes (`DeltaOK`) to cover the difference between its
  tables and the committed ones.
- `Refinement`: `ImplementsGraph`. Each mutator of the source, alone or inside
  a transaction, with or without a cache, is one mutation of the abstract
  graph; a flush changes nothing there.

`CsrCacheProofs` (`CsrAssumption`). Two invariants:

- `BaseInv` holds in every behaviour: types; ids and records; what the commit
  in flight has done; tags of recorded batches; the mutex and the generations
  of a pass; weights where they were asked for; and that a rebuild whose
  generation is still current is exact. `RebuildExact` is `FullBuildExact`.
- `CoverInv` is the argument of the protocol. At every moment the installed
  snapshot together with the batches tagged at or above its stamp accounts for
  storage (`PairOK`), and so does the snapshot a pass has computed, with the
  batches recorded after those it took or at or above its generation. So
  nothing is lost whichever of the two a reader finds. `ClaimOK` carries that
  over to what was published when a call began.
- One step breaks `CoverInv`, and the proof shows that it is the only one: a
  full marker recorded while a patch that counted batches has yet to drain
  them (`Overrun`). This is the cause of `csr_lost_marker`: the theorem
  `OnlyAnOverrunKeepsRemoved` gives `RemovalsReachSnapshot`, for any
  operations, to the behaviours without it. A marker comes from a removal, and
  also from a list at its limit, so additions can be lost the same way (section
  6); `WritesReachSnapshot`, `WeightsReachSnapshot` and `ReadersSeeTheirPast`
  (`NoLostWrite`, `WeightsCurrent`, `ReadsItsPast`) therefore exclude it. They
  speak of workloads that add and update (`Tame`): with removals and threads a
  snapshot may rightly lack what has been removed since.
- Without threads a call ends before the next begins, no marker can overrun a
  patch, and nothing is excluded: `FreshIsExact` (`ExactWhenFresh`) and
  `SingleKeepsPromises`.

`ReadCachesProofs` (`ReadCachesAssumption`: the plan cache holds at least one
plan):

- `ScansCurrent` (`LabelScanCurrent`) and `CutsJustified` (`PrunedPlansSound`).
  `CacheInv` says that whatever is filed under a generation was read from the
  version that generation announced or a later one, and the same of everything
  a thread has in hand since its call began, at every step of a scan or a
  statement. The generation is read before the data, everywhere: that is what
  makes it inductive.

`ReadCachesProofs`, vector index (`VectorAssumption`: a stored database holds
nonempty embeddings of one dimension under ids it gave out):

- `IndexAgreement`: `IndexAgrees`. It speaks of moments when the lock is free,
  so `VecInv` has to say what holds in between: exactly the caller between
  taking and releasing the lock is its holder and works on the index the slot
  names; that index agrees with the table for every live node that is not
  doubtful, where a node is doubtful while its table write is pending and
  after it failed; what configure and reindex have built stays right until
  they swap it in. Cold starts scan without the lock; the clause that carries
  them is that while the slot is empty nothing scanned can be out of date,
  since every mutation fills the slot before it writes.
- `ViewInvariance`, `RefusalsJustified`: the part of `SearchRight` that comes
  before ranking. `ViewInv` follows what a search has had in view since it
  began: it is stored unchanged, is not doubtful, and the index the search
  holds has it, also when that index has been swapped out of the slot
  meanwhile. So an empty index and a wrong dimension are reported only for a
  reason, and there is no third failure.

`PropertyIndexProofs` (`PropertyIndexAssumption`: labels and types are
apart, the profiles of values are sound, texts are tokenized into
numbers of occurrences):

- `ConstraintsHold` (`ConstraintsExact`) and `LookupsAnswer` (`LookupExact`).
  `IndexInv` says that the entries of an owner whose index is maintained are
  the encodings of its members' present values, all of them (`EntriesComplete`)
  and no others (`EntriesOK`), except under an owner whose declaration was
  dropped while it was opted out (`orphaned`), whose old entries may remain and
  of which neither theorem speaks;
  and that declared constraints hold of the records. A uniqueness check reads
  the entries for a value that has an encoding and scans the members for one
  that is too long, so it is only as good as the entries: that is why the
  constraints need the index part. A lookup takes the same two ways, and no
  record is compared again on the first.
- `TextsCurrent` (`TextExact`), with `TextsOK`: every text index is the
  document table, the postings and the two counters computed from the members'
  present texts. The counters are sums over finite sets; that adding and
  removing one document changes them by its length is shown once, by taking a
  smallest counterexample among the finite sets.

`WriteStatementProofs` (`WriteAssumption`: committed graphs are sound, no
stored property is an error, clauses name only variables that are in scope, as
the validator demands, `Null` is not the error mark):

- `OverlayAgreement`: `OverlayExact`. `WriteInv` says that the transaction's
  graph is the committed one corrected by the overlay (`Mirrors`), and that the
  rows bind only what the transaction has or has deleted. The second is needed
  by every write: one that went to an id the transaction never had would be
  recorded in the overlay and not in the graph. The recursive functions that
  run a clause over rows, items and hops are followed step by step along a
  trace, since the prover has no induction to offer.
- `UpdatesExact`: SET and REMOVE of one item on any rows, DELETE and WITH do
  what `ClausesRight` says, and fail exactly when they must.

`ColumnsCacheProofs` (`ColumnsAssumption`):

- `Convergence` (`Converged`), `ReadsFresh` (`ReadsRecorded`) and `FileExact`
  (`FileTrustworthy`). `ColumnsInv` says where the difference between columns
  and storage is at each moment: in the pending delta, in what the holder of
  the lock has yet to re-read, or in the write that is about to be recorded,
  unless a full rebuild is due; that a current file is exact; and that a
  materializing call whose stamp is still current read it with no write in
  flight.
- A hit reads no columns, so `ReadsFresh` needs `GroupInv` beside it: filed
  codes have every write recorded before their generation was published, and a
  caller that is building codes took its generation no later than what it has
  been served. `stamped` only grows at a publication, where codes of the old
  generation stop being hits.

`RebuildClaimProofs` (from `ClaimAssumption`: the threshold is positive and
the number of writes stays below 2^64, thread names differ from the two
mutex marks):

- `TypeCorrect`: `TypeOK`, one step per action, which the others rest on.
- `CompactionsExclude`: `OneCompaction`, which speaks of the time before the
  first explicit rebuild. On its own it is not inductive: a second thread is
  born when a writer has won the swap. `ClaimInv` adds that a live thread or a
  winning writer implies `rebuilding`, and that the two exclude each other;
  then the swap can only be won when nobody is at work. An explicit rebuild
  clears the flag while a thread may wait for the mutex, so afterwards the
  property is false by design.
- `InstallsOrdered`: `InstallsInOrder`, explicit rebuilds included. `PassInv`
  says that whoever is between its scan and the end of its pass holds the
  maintenance mutex, and that what it has scanned is at least `built` and at
  most `noted`. Mutual exclusion makes `built` a constant during a pass, which
  is why the install cannot go back.

`CsrFileProofs` (from `FileAssumption`: `None` is neither a database nor a
file):

- `FileTrusted`: `FileTrustworthy`. Inductive with `IdInv` (identities on disk
  lie below the next one; an open process has a database, and only an open
  process has a pass or a commit in flight; a restore has neither process nor
  database, and after its clean-up no file) and `FileInv` (a file of the
  database's identity has a generation at most the database's, and its content
  if the generations are equal; the same of the stamp and the content a pass is
  about to save, which was scanned no earlier than the stamp was read). The
  clean-up clause is where the removal of leftover caches enters: a backup
  keeps its identity, so nothing else would tell an old file from one of the
  restored database.
- `SnapshotHonest`: `SnapshotCurrent`, with `SnapInv`: a pass whose captured
  write generation is still current has, once it holds content, the content of
  storage, unless a commit is in flight.

Before it was proved, each invariant was checked with TLC on the instances
above or on smaller ones. The proofs rest on the same definitions the runs
check.

Only model-checked:

- Liveness (`ReaderServed`, `ClaimReleased`): the prover has no fairness.
- The hits of `SearchRight`: the ranking sorts by distances that are exact
  fractions only where norms are whole numbers, as in the run's vectors; for
  other vectors the model gives no order to reason about.
- `ClausesRight` for MATCH, CREATE and MERGE: that the rows are the trails of
  the pattern, each as often as it occurs, is an induction over hops about
  multiplicities; and for MATCH it is not true of every menu (section 6, schema
  pruning), the run's menu leaves those patterns out.
- `AnsweredRight`, `WellScoped`, `ScopesRight`, `TemporalRight`, `ValuesRight`,
  `ColumnsRight`, `PathsRight`, `ScoresRight`, `CountsRight`, `RetrievalRight`:
  they ask what recursive definitions compute, for which there is no induction.

`FairSpec` adds fairness to a `Spec`, so the theorems hold of it as well.

## 5. Running

```
tlc -workers 2 -config Store.cfg MCGraphStore
tlapm CsrFileProofs.tla
```

With two workers `store` takes three minutes, `properties`, `calls`,
`read_caches` and `csr_rebuild` about two, the others about a minute or less. From nothing
`tlapm` takes three to four minutes each for `StoreProofs`, `CsrCacheProofs`,
`ReadCachesProofs` and `WriteStatementProofs`, a minute or two for
`PropertyIndexProofs`, and half a minute or less for the others.

## 6. Observations

What modelling showed beyond the violation runs. The passing runs leave these
cases out, by the workload, the menu or an explicit condition in the property.

*Snapshot and claim.*
- A full build may read a commit whose batch is tagged at or above the build's
  stamp; the next patch adds its edges again, against csr.rs:428 "exactly what
  a full build would produce".
- The marker that stands for a list at its limit (csr.rs:712) is lost to a
  patch like the one of a removal: an edge whose addition overflows the list
  while a patch is under way is missing from the next current snapshot, until
  the next full build. `csr_additive` runs with threads below the limit, and
  the theorems name the condition.
- The release of `rebuilding` after the residue was compared can leave the
  counter past its threshold with nobody compacting until the next write.

*Columns, label scans, indexes.*
- A patch that meets a record deleted meanwhile skips it, so the old value is
  served until the delete has recorded its full marker; `ReadsRecorded`
  speaks of entities that still exist. `with_fresh` loops for as long as
  writers keep recording.
- A label's bitmap can be filed one generation late.
- Entries left by a declaration that was dropped while its label was opted out
  are not maintained: a later write leaves the old entry, and lookups and
  uniqueness checks that go by the index again find it.
  `LookupExact` and the refusals of `ConstraintsExact` leave such labels out.
- `-0.0` and `0.0` are apart in group codes, equal in comparisons.

*Planner.* Shapes whose rewritten plan answers something else: a chain grafted
onto a variable an OPTIONAL MATCH may have left null; an alias of WITH that
shadows a variable below it; a predicate without variables pushed through an
aggregate without groups; two leading OPTIONAL MATCHes; a closing hop below a
correlated seek; a correlated seek that replaces a join on a further shared
variable (optimize.rs:3289); ids passed sideways through a barrier
(read.rs:3592).

*Write statements.*
- A CREATE inside a pipeline part (read.rs, `write_part_rows`) does not hand
  the variables of one pattern to the next, as write.rs:66 does.
- SET, DELETE and REMOVE of a pipeline prune on the committed schema, so a
  MATCH over a triple the transaction created yields no rows.
- The optional side of an OPTIONAL MATCH after a write is read before it.
- An undirected MERGE over a self-loop matches twice. Reading a deleted node
  as a whole, or its labels, serves committed values.

*Kernels.*
- Dijkstra's trace back can give up on a reachable target when it enters a
  cycle of weight zero. `shortest_path_top_k` does not guard against negative
  weights. `all_paths` repeats a path per parallel edge,
  `all_shortest_paths` does not. Depth-first search from an unknown id answers
  that id, breadth-first nothing.
- `grouped_edge_counts` returns a group whose rows all count nothing with zero,
  as the comment at algo.rs:518 says it must for Cypher; its documentation
  (algo.rs:406, docs/api-reference.md:219) promises an entry "with a non-zero
  count". `CountsRight` accepts either.
- `maximum_flow` takes an absent capacity as 0.0; its documentation
  (algo.rs:1199) says 1.0.

*Validation.* Undefined variables are not looked for in MERGE, in the RETURN
of CREATE and MERGE, in ORDER BY of such statements, in WHERE after LIMIT, or
in EXISTS with several clauses; kinds are collected over the whole statement,
so a name reused for another kind may be refused; references after `YIELD *`
are refused though the comment at parser.rs:3102 says they must not be.
UNWIND clears the kinds known so far.

*Temporal values.* The sort key of a duration uses absolute values;
`time({microsecond: u})` with u >= 1000 counts milliseconds twice; an offset
with seconds loses its minutes (expr.rs:3773); for years beyond the library's
range, whole days round down and months count differently than the text at
expr.rs:5057 promises, and weeks are sevenths of the year; a wall clock inside
a clock change has offset 0; adding a negative total of months ignores them.

*Values.* The total order ranks all temporal types together and is not
transitive between them; grouping keys of lists and temporals are their text,
so `[1]` and `[1.0]` are equal and group apart; a simple CASE never matches a
node, relationship, map or null; the kind of a sum depends on the order of its
rows after an overflow; infinities are incomparable and an error in
arithmetic.

*Vector and text.*
- After every embedded node is deleted through the core, a search answers an
  empty list, not `EmptyIndex` (index.rs:322 "when the graph holds no
  embeddings at all"). A node deleted between the check and the write of an
  upsert leaves bytes under a dead id. Vectors staged in a transaction do not
  reach an index in memory. The index keeps its dimension after its last
  vector is removed, until reindex or reopen.
- Under TF-IDF a term that all or all but one document have weighs nothing;
  documents with only such terms are never returned, though `boolean_mode`
  (issundb-text lib.rs:171) says "any document matching at least one term is
  ranked". `RetrievalRight` accepts either. AND is decided per index.
- Hybrid retrieval fails with any error of the text search (retrieve.rs:337: no
  index, label or property not indexed, a query without terms) although the
  vector search has hits, and with every error of the vector search but an
  empty index (retrieve.rs:323). The comment at retrieve.rs:318 reserves "an
  error for a request where neither modality would run"; `RetrievalRight` asks
  for what the function does.

## 7. Plan

Done: the modules of section 2 and the theorems of section 4. Models that
would add most next: staged vectors in `VectorIndex`; the name registry;
procedures (`CALL`).

Proofs that would add most next: CREATE and MERGE of `ClausesRight`, which need
the graph a pattern adds hop by hop; MATCH for the patterns that schema pruning
cannot rule out, from a bijection between trails and the rows the hops extend;
the hits of `SearchRight`, once distances are taken from an abstract total
order.

## 8. Not modelled

LMDB is external: a commit is atomic and durable, a read transaction sees one
committed state. So are the vector library's traversal (taken to find the
nearest), the tokenizer and the calendar library. Left out: the grammar
itself; cost formulas (the choices they make are free in the model); float
rounding (scores and floats are exact fractions, the idf logarithm a table
that keeps sign and order); the text a grouping key is ordered by (groups come
out in the order of their keys, by value); procedures, most string and list functions;
eigenvector and Katz centrality, link prediction, and the division of kernels
over threads (each fills its own part); checksums; COPY, import and export
formats; the command line, REST, MCP, Python and WebAssembly layers, which
convert requests and results. `PROJECT.json` lists every part with its reason.
