------------------------------- MODULE CsrCache -------------------------------
(***************************************************************************)
(* The in-memory adjacency snapshot of an IssunDB graph and the protocol   *)
(* that keeps it current (crates/issundb-core/src/csr.rs, CsrCache, and    *)
(* the gates of graph/algo.rs).                                            *)
(*                                                                         *)
(* One writer at a time (the write lock) commits to storage, records what  *)
(* the commit did to the structure, and then advances the write            *)
(* generation.  Readers compare two counters without a lock and, when the  *)
(* snapshot lags, refresh it under the maintenance mutex: by patching it   *)
(* with the recorded additions, or by building it from storage.  Writers   *)
(* never take the maintenance mutex, so every step of a refresh            *)
(* interleaves with every step of a write.                                 *)
(*                                                                         *)
(* The dirty counter and the background-rebuild claim, which the same      *)
(* struct holds, are the subject of module RebuildClaim; the on-disk copy  *)
(* of a snapshot is the subject of module CsrFile.                         *)
(***************************************************************************)
EXTENDS Integers, Sequences, FiniteSets, FiniteSetsExt, SequencesExt

CONSTANTS
    Readers,       \* threads that ask for a fresh snapshot
    Workloads,     \* what a behaviour may be like, see Workload below
    Weights,       \* the weights an edge record can carry
    DefaultWeight, \* the weight of an edge without a weight property (1.0)
    MaxNode,       \* bound: node ids 1..MaxNode are allocated
    MaxEdge,       \* bound: edge ids 1..MaxEdge are allocated
    None           \* no thread, no weight, no snapshot

Additive == {"add_node", "add_edge", "batch", "update_edge", "update_node"}
Removing == {"delete_edge", "delete_node"}

\* Threads: "single" on a target without threads.  Ops: the kinds of write.
\* Writes: bound on committed transactions.  Pending: INCREMENTAL_MAX_EDGES.
Workload == [threads: {"single", "multi"}, ops: SUBSET (Additive \cup Removing),
             writes: Nat, pending: Nat]

ASSUME CsrAssumption ==
    /\ Workloads \subseteq Workload
    /\ MaxNode \in Nat /\ MaxEdge \in Nat
    /\ None \notin Weights \cup Readers /\ None # "rebuild"
    /\ "rebuild" \notin Readers
    /\ DefaultWeight \in Weights

VARIABLES
    db,        \* committed storage: the node ids and the edge records
    nextNode,  \* next node id to allocate
    nextEdge,  \* next edge id to allocate
    writeGen,  \* CsrCache.write_gen
    snapGen,   \* CsrCache.snapshot_gen
    snapshot,  \* CsrCache.snapshot
    pending,   \* CsrCache.pending.batches
    wants,     \* CsrCache.weights_requested
    w,         \* the writer: its program counter and the change it publishes
    m,         \* the maintenance mutex and the locals of the pass holding it
    r,         \* per reader: program counter and locals
    published, \* history: storage as of the last generation advance
    writes,    \* history: committed transactions so far
    load       \* the workload of this behaviour

cache == <<writeGen, snapGen, snapshot, pending, wants>>
store == <<db, nextNode, nextEdge, writes, load>>
vars  == <<store, cache, w, m, r, published>>

-----------------------------------------------------------------------------
(* Data                                                                    *)

NodeId == 1..MaxNode
EdgeId == 1..MaxEdge
AddedEdge == [id: EdgeId, src: NodeId, dst: NodeId]
Edge == [id: EdgeId, src: NodeId, dst: NodeId, w: Weights]
Storage == [nodes: SUBSET NodeId, edges: SUBSET Edge]

\* One entry of a snapshot row; an unweighted snapshot carries no weight.
Row == [id: EdgeId, src: NodeId, dst: NodeId, w: Weights \cup {None}]

\* A snapshot: `twice` holds the ids whose row entry appears more than once.
Snapshot == [nodes: SUBSET NodeId, rows: SUBSET Row, twice: SUBSET EdgeId,
             weighted: BOOLEAN]

CsrChange == [nodes: SUBSET NodeId, edges: SUBSET AddedEdge,
              updated: BOOLEAN, full: BOOLEAN]
Batch == [tag: Nat, change: CsrChange]

NoChange == [nodes |-> {}, edges |-> {}, updated |-> FALSE, full |-> FALSE]
FullChange == [NoChange EXCEPT !.full = TRUE]
EdgesUpdated == [NoChange EXCEPT !.updated = TRUE]

EmptySnapshot == [nodes |-> {}, rows |-> {}, twice |-> {}, weighted |-> FALSE]

AsRow(e, weighted) ==
    [id |-> e.id, src |-> e.src, dst |-> e.dst,
     w |-> IF weighted THEN e.w ELSE None]

\* CsrSnapshot::build / build_weighted over storage s: an edge with an
\* endpoint that has no node record is skipped.
BuildSnapshot(s, weighted) ==
    [nodes |-> s.nodes,
     rows  |-> {AsRow(e, weighted) :
                  e \in {x \in s.edges : x.src \in s.nodes /\ x.dst \in s.nodes}},
     twice |-> {},
     weighted |-> weighted]

\* CsrSnapshot::weight_of_edge: a record that is gone weighs the default.
WeightOfEdge(s, id) ==
    IF \E e \in s.edges : e.id = id
    THEN (CHOOSE e \in s.edges : e.id = id).w
    ELSE DefaultWeight

\* Mutant: an edge update does not make a weighted snapshot rebuild.
CannotAddKeepsWeights(snap, change) ==
    \/ change.full
    \/ \E n \in change.nodes \ snap.nodes : \E o \in snap.nodes : n <= o

\* CsrSnapshot::with_additions declines: a removal, an edge update against
\* weights, or a new node id that would not sort after the existing ones.
CannotAdd(snap, change) ==
    \/ change.full
    \/ change.updated /\ snap.weighted
    \/ \E n \in change.nodes \ snap.nodes : \E o \in snap.nodes : n <= o

\* CsrSnapshot::with_additions.  Added entries are de-duplicated among
\* themselves, and not against the rows the snapshot already holds.
WithAdditions(snap, change, s) ==
    LET nodes == snap.nodes \cup change.nodes
        adds  == {e \in change.edges : e.src \in nodes /\ e.dst \in nodes}
        entry(e) == [id |-> e.id, src |-> e.src, dst |-> e.dst,
                     w |-> IF snap.weighted
                           THEN WeightOfEdge(s, e.id) ELSE None]
    IN  [nodes |-> nodes,
         rows  |-> snap.rows \cup {entry(e) : e \in adds},
         twice |-> snap.twice
                     \cup {id \in EdgeId : /\ \E e \in adds : e.id = id
                                           /\ \E x \in snap.rows : x.id = id},
         weighted |-> snap.weighted]

-----------------------------------------------------------------------------
(* PendingChanges                                                          *)

TotalEdges(batches) ==
    FoldSeq(LAMBDA b, n : Cardinality(b.change.edges) + n, 0, batches)

\* PendingChanges::record
Record(batches, tag, change) ==
    IF change = NoChange THEN batches
    ELSE IF \/ change.full
            \/ TotalEdges(batches) + Cardinality(change.edges) > load.pending
         THEN << [tag |-> tag, change |-> FullChange] >>
         ELSE Append(batches, [tag |-> tag, change |-> change])

\* PendingChanges::prune_below: the batches the test retains, in their order.
PruneBelow(batches, gen) ==
    LET kept    == {i \in DOMAIN batches : batches[i].tag >= gen}
        rank(i) == Cardinality({k \in kept : k <= i})
    IN  [j \in 1..Cardinality(kept) |-> batches[CHOOSE i \in kept : rank(i) = j]]

\* Mutant: the batch tagged with the snapshot's own generation is passed over.
LackingStrict(batches, gen) == {i \in DOMAIN batches : batches[i].tag > gen}

\* The batches PendingChanges::applicable merges for a snapshot at `gen`.
Lacking(batches, gen) == {i \in DOMAIN batches : batches[i].tag >= gen}

\* Mutant: only the newest batch is asked for a full marker.
NeedsFullNewest(batches, gen) ==
    /\ Len(batches) \in Lacking(batches, gen)
    /\ batches[Len(batches)].change.full

\* PendingChanges::applicable returns None.
NeedsFull(batches, gen) ==
    \E i \in Lacking(batches, gen) : batches[i].change.full

\* PendingChanges::applicable's merged change (CsrChange::absorb).
Merged(batches, gen) ==
    LET some == {batches[i].change : i \in Lacking(batches, gen)}
    IN  [nodes   |-> UNION {c.nodes : c \in some},
         edges   |-> UNION {c.edges : c \in some},
         updated |-> \E c \in some : c.updated,
         full    |-> FALSE]

\* PendingChanges::drain_applied
DrainApplied(batches, applied) ==
    SubSeq(batches, 1 + (IF applied < Len(batches) THEN applied ELSE Len(batches)),
           Len(batches))

-----------------------------------------------------------------------------
(* The writer: Graph::update and the single-operation mutators, holding    *)
(* the write lock from before the commit to the end of the bookkeeping.    *)

\* On a target without threads a call runs to its end before the next one.
MayStart ==
    load.threads = "single" => /\ w.pc = "idle"
                          /\ m.owner = None
                          /\ \A p \in Readers : r[p].pc = "idle"

IdleWriter == [pc |-> "idle", change |-> NoChange, count |-> 0]

\* wtxn.commit, with the change and the mutation count still to publish.
Commit(newDb, change, count) ==
    /\ w.pc = "idle"
    /\ MayStart
    /\ writes < load.writes
    /\ db' = newDb
    /\ writes' = writes + 1
    /\ w' = [pc |-> "record", change |-> change, count |-> count]
    /\ UNCHANGED <<cache, m, r, published, load>>

\* Graph::add_node
AddNode ==
    /\ "add_node" \in load.ops
    /\ nextNode \in NodeId
    /\ nextNode' = nextNode + 1
    /\ Commit([db EXCEPT !.nodes = @ \cup {nextNode}],
              [NoChange EXCEPT !.nodes = {nextNode}], 1)
    /\ UNCHANGED nextEdge

NewEdge(s, d, wt) == [id |-> nextEdge, src |-> s, dst |-> d, w |-> wt]

\* Graph::add_edge; both endpoints must have a record.
AddEdge(s, d, wt) ==
    /\ "add_edge" \in load.ops
    /\ {s, d} \subseteq db.nodes
    /\ nextEdge \in EdgeId
    /\ nextEdge' = nextEdge + 1
    /\ Commit([db EXCEPT !.edges = @ \cup {NewEdge(s, d, wt)}],
              [NoChange EXCEPT !.edges = {[id |-> nextEdge, src |-> s, dst |-> d]}],
              1)
    /\ UNCHANGED nextNode

\* Graph::update with two mutations: a node and an edge that reaches it.
Batch2(s, wt) ==
    /\ "batch" \in load.ops
    /\ s \in db.nodes
    /\ nextNode \in NodeId /\ nextEdge \in EdgeId
    /\ nextNode' = nextNode + 1 /\ nextEdge' = nextEdge + 1
    /\ Commit([nodes |-> db.nodes \cup {nextNode},
               edges |-> db.edges \cup {NewEdge(s, nextNode, wt)}],
              [NoChange EXCEPT
                  !.nodes = {nextNode},
                  !.edges = {[id |-> nextEdge, src |-> s, dst |-> nextNode]}],
              2)

\* Graph::update_edge: a property change may move the weight.
UpdateEdge(e, wt) ==
    /\ "update_edge" \in load.ops
    /\ Commit([db EXCEPT !.edges = (@ \ {e}) \cup {[e EXCEPT !.w = wt]}],
              EdgesUpdated, 1)
    /\ UNCHANGED <<nextNode, nextEdge>>

\* Graph::update_node, add_label and remove_label, and delete_edge of an id
\* with no record: a generation without a structural change.
UpdateNode ==
    /\ "update_node" \in load.ops
    /\ Commit(db, NoChange, 1)
    /\ UNCHANGED <<nextNode, nextEdge>>

\* Graph::delete_edge
DeleteEdge(e) ==
    /\ "delete_edge" \in load.ops
    /\ Commit([db EXCEPT !.edges = @ \ {e}], FullChange, 1)
    /\ UNCHANGED <<nextNode, nextEdge>>

\* Graph::delete_node cascades to every incident edge.
DeleteNode(n) ==
    /\ "delete_node" \in load.ops
    /\ Commit([nodes |-> db.nodes \ {n},
               edges |-> {e \in db.edges : e.src # n /\ e.dst # n}],
              FullChange, 1)
    /\ UNCHANGED <<nextNode, nextEdge>>

\* CsrCache::record_change, tagged with the generation before the advance.
RecordChange ==
    /\ w.pc = "record"
    /\ pending' = Record(pending, writeGen, w.change)
    /\ w' = [w EXCEPT !.pc = "advance"]
    /\ UNCHANGED <<store, writeGen, snapGen, snapshot, wants, m, r, published>>

\* CsrCache::advance_write_gen
AdvanceWriteGen ==
    /\ w.pc = "advance"
    /\ writeGen' = writeGen + w.count
    /\ w' = IdleWriter
    /\ published' = db
    /\ UNCHANGED <<store, snapGen, snapshot, pending, wants, m, r>>

-----------------------------------------------------------------------------
(* The maintenance pass: every step below runs with the mutex held.        *)

Idle == [owner |-> None, pc |-> "free", want |-> FALSE, built |-> 0,
         change |-> NoChange, applied |-> 0, snap |-> EmptySnapshot]

Stale == writeGen # snapGen

\* Graph::refresh_snapshot_locked reads the generation, then decides whether
\* the installed snapshot may be patched.
MStart ==
    /\ m.pc = "start"
    /\ m' = [m EXCEPT !.built = writeGen,
                      !.pc = IF /\ m.owner \in Readers
                                /\ snapGen > 0
                                /\ m.want => snapshot.weighted
                             THEN "pend" ELSE "build"]
    /\ UNCHANGED <<store, cache, w, r, published>>

\* CsrCache::pending_applicable
PendingApplicable ==
    /\ m.pc = "pend"
    /\ m' = IF NeedsFull(pending, snapGen)
            THEN [m EXCEPT !.pc = "build"]
            ELSE [m EXCEPT !.pc = "patch",
                           !.change = Merged(pending, snapGen),
                           !.applied = Len(pending)]
    /\ UNCHANGED <<store, cache, w, r, published>>

\* The patch itself, with weights read from storage as of this moment.
Patch ==
    /\ m.pc = "patch"
    /\ m' = IF CannotAdd(snapshot, m.change)
            THEN [m EXCEPT !.pc = "build"]
            ELSE [m EXCEPT !.pc = "drain",
                           !.snap = WithAdditions(snapshot, m.change, db)]
    /\ UNCHANGED <<store, cache, w, r, published>>

\* Graph::build_snapshot, one storage read transaction.
Build ==
    /\ m.pc = "build"
    /\ m' = [m EXCEPT !.pc = "prune", !.snap = BuildSnapshot(db, wants)]
    /\ UNCHANGED <<store, cache, w, r, published>>

\* Mutant: the error does not reach the reader that holds the mutex.
BuildFailsSilently ==
    /\ m.pc \in {"build", "patch"}
    /\ m' = Idle
    /\ UNCHANGED <<store, cache, w, r, published>>

\* The storage read fails: the pass ends with nothing installed, and a
\* reader's call returns the error.
BuildFails ==
    /\ m.pc \in {"build", "patch"}
    /\ m' = Idle
    /\ r' = IF m.owner \in Readers
            THEN [r EXCEPT ![m.owner].pc = "failed"] ELSE r
    /\ UNCHANGED <<store, cache, w, published>>

\* CsrCache::install_incremental, the part under the pending lock.
Drain ==
    /\ m.pc = "drain"
    /\ pending' = PruneBelow(DrainApplied(pending, m.applied), m.built)
    /\ m' = [m EXCEPT !.pc = "store"]
    /\ UNCHANGED <<store, writeGen, snapGen, snapshot, wants, w, r, published>>

\* Mutant: the generation is captured after the scan.
PruneLateStamp ==
    /\ m.pc = "prune"
    /\ pending' = PruneBelow(pending, writeGen)
    /\ m' = [m EXCEPT !.pc = "store", !.built = writeGen]
    /\ UNCHANGED <<store, writeGen, snapGen, snapshot, wants, w, r, published>>

\* CsrCache::prune_pending of the three installs of a built snapshot.
Prune ==
    /\ m.pc = "prune"
    /\ pending' = PruneBelow(pending, m.built)
    /\ m' = [m EXCEPT !.pc = "store"]
    /\ UNCHANGED <<store, writeGen, snapGen, snapshot, wants, w, r, published>>

StoreSnapshot ==
    /\ m.pc = "store"
    /\ snapshot' = m.snap
    /\ m' = [m EXCEPT !.pc = "stamp"]
    /\ UNCHANGED <<store, writeGen, snapGen, pending, wants, w, r, published>>

\* snapshot_gen.store, then the mutex is released.  The weighted gate keeps
\* the snapshot it installed; the other gate loads the pointer afterwards.
Stamp ==
    /\ m.pc = "stamp"
    /\ snapGen' = m.built
    /\ m' = Idle
    /\ r' = IF m.owner \notin Readers THEN r
            ELSE IF r[m.owner].want
                 THEN [r EXCEPT ![m.owner].pc = "done", ![m.owner].got = m.snap]
                 ELSE [r EXCEPT ![m.owner].pc = "load"]
    /\ UNCHANGED <<store, writeGen, snapshot, pending, wants, w, published>>

\* Graph::rebuild_csr and one pass of run_compaction_passes take the mutex
\* and build from storage.
BeginRebuild ==
    /\ m.owner = None
    /\ MayStart
    /\ m' = [Idle EXCEPT !.owner = "rebuild", !.pc = "start"]
    /\ UNCHANGED <<store, cache, w, r, published>>

-----------------------------------------------------------------------------
(* Readers: with_snapshot (want = FALSE) and weighted_snapshot (TRUE).     *)

IdleReader == [pc |-> "idle", want |-> FALSE, seen |-> 0,
               from |-> [nodes |-> {}, edges |-> {}], got |-> EmptySnapshot]

\* The gate loads write_gen; `from` remembers what was published by then.
Gate(p, want) ==
    /\ r[p].pc = "idle"
    /\ MayStart
    /\ wants' = (wants \/ want)
    /\ r' = [r EXCEPT ![p] = [pc |-> "compare", want |-> want, seen |-> writeGen,
                              from |-> published, got |-> EmptySnapshot]]
    /\ UNCHANGED <<store, writeGen, snapGen, snapshot, pending, w, m, published>>

\* The second load of snapshot_is_stale.
Compare(p) ==
    /\ r[p].pc = "compare"
    /\ r' = [r EXCEPT ![p].pc = IF r[p].seen = snapGen THEN "load" ELSE "lock"]
    /\ UNCHANGED <<store, cache, w, m, published>>

\* Mutant: the weighted gate takes any current snapshot.
LoadAnyWeights(p) ==
    /\ r[p].pc = "load"
    /\ r' = [r EXCEPT ![p] = [@ EXCEPT !.pc = "done", !.got = snapshot]]
    /\ UNCHANGED <<store, cache, w, m, published>>

\* snapshot.load; the weighted gate refuses a snapshot without weights.
Load(p) ==
    /\ r[p].pc = "load"
    /\ r' = [r EXCEPT ![p] =
                IF r[p].want /\ ~snapshot.weighted
                THEN [@ EXCEPT !.pc = "lock"]
                ELSE [@ EXCEPT !.pc = "done", !.got = snapshot]]
    /\ UNCHANGED <<store, cache, w, m, published>>

\* The mutex is taken and the gate asked again; a snapshot another pass has
\* brought up to date is used as it is.
Lock(p) ==
    /\ r[p].pc = "lock"
    /\ m.owner = None
    /\ IF Stale \/ (r[p].want /\ ~snapshot.weighted)
       THEN /\ m' = [Idle EXCEPT !.owner = p, !.pc = "start", !.want = r[p].want]
            /\ r' = [r EXCEPT ![p].pc = "refresh"]
       ELSE /\ m' = m
            /\ r' = [r EXCEPT ![p] =
                        IF r[p].want THEN [@ EXCEPT !.pc = "done", !.got = snapshot]
                        ELSE [@ EXCEPT !.pc = "load"]]
    /\ UNCHANGED <<store, cache, w, published>>

\* The caller is done with the snapshot it was given (or with the error).
Return(p) ==
    /\ r[p].pc \in {"done", "failed"}
    /\ r' = [r EXCEPT ![p] = IdleReader]
    /\ UNCHANGED <<store, cache, w, m, published>>

-----------------------------------------------------------------------------

\* CsrCache::new_unbuilt: a placeholder that can never pass for current.
Init ==
    /\ db = [nodes |-> {}, edges |-> {}]
    /\ nextNode = 1 /\ nextEdge = 1
    /\ writeGen = 1 /\ snapGen = 0
    /\ snapshot = EmptySnapshot
    /\ pending = << >>
    /\ wants = FALSE
    /\ w = IdleWriter
    /\ m = Idle
    /\ r = [p \in Readers |-> IdleReader]
    /\ published = db
    /\ writes = 0
    /\ load \in Workloads

WriterNext ==
    \/ AddNode \/ UpdateNode
    \/ \E s, d \in NodeId, wt \in Weights : AddEdge(s, d, wt)
    \/ \E s \in NodeId, wt \in Weights : Batch2(s, wt)
    \/ \E e \in db.edges, wt \in Weights : UpdateEdge(e, wt)
    \/ \E e \in db.edges : DeleteEdge(e)
    \/ \E n \in db.nodes : DeleteNode(n)

WriterStep == RecordChange \/ AdvanceWriteGen

MaintenanceStep ==
    \/ MStart \/ PendingApplicable \/ Patch \/ Build
    \/ Drain \/ Prune \/ StoreSnapshot \/ Stamp

ReaderStep(p) == Compare(p) \/ Load(p) \/ Lock(p) \/ Return(p)

Next ==
    \/ WriterNext \/ WriterStep
    \/ MaintenanceStep \/ BuildFails \/ BeginRebuild
    \/ \E p \in Readers : ReaderStep(p) \/ (\E want \in BOOLEAN : Gate(p, want))

Spec == Init /\ [][Next]_vars

\* A thread that can run does run, and parking_lot's mutex is eventually fair.
Fairness ==
    /\ WF_vars(WriterStep)
    /\ WF_vars(MaintenanceStep)
    /\ \A p \in Readers : WF_vars(Compare(p)) /\ WF_vars(Load(p)) /\ WF_vars(Return(p))
    /\ \A p \in Readers : SF_vars(Lock(p))

FairSpec == Spec /\ Fairness

-----------------------------------------------------------------------------
(* Properties                                                              *)

SameEdge(x, e) == x.id = e.id /\ x.src = e.src /\ x.dst = e.dst

\* Snapshot snap has every node and every edge of storage s.
Covers(snap, s) ==
    /\ s.nodes \subseteq snap.nodes
    /\ \A e \in s.edges : \E x \in snap.rows : SameEdge(x, e)

\* A snapshot whose stamp equals the write generation has every published
\* node and edge, whichever mix of patches and builds produced it and
\* whatever writes landed during them (csr.rs, PendingChanges).
NoLostWrite == ~Stale => Covers(snapshot, published)

\* A current weighted snapshot never serves a weight older than the last
\* published one: an edge update makes the refresh rebuild (update_edge).
WeightsCurrent ==
    ~Stale /\ snapshot.weighted => snapshot.rows \subseteq published.edges \cup db.edges

\* A reader is given a snapshot with everything that was published when its
\* gate began, and weights when it asked for them (with_snapshot,
\* weighted_snapshot: staleness first, pointer second).
ReadsItsPast ==
    \A p \in Readers :
        r[p].pc = "done" => /\ Covers(r[p].got, r[p].from)
                            /\ r[p].want => r[p].got.weighted

\* Between calls of a single thread, a current snapshot is exactly what a
\* full build would produce, after any mix of additions, updates and
\* removals (with_additions: "exactly what a full build would produce").
ExactWhenFresh ==
    load.threads = "single" /\ w.pc = "idle" /\ m.owner = None /\ ~Stale
        => snapshot = BuildSnapshot(db, snapshot.weighted)

\* A full build that is about to be stamped with the current generation, no
\* write being in flight, is exact even under concurrency: capturing the
\* generation before the scan is conservative (rebuild_csr).
FullBuildExact ==
    m.owner = "rebuild" /\ m.pc = "stamp" /\ m.built = writeGen /\ w.pc = "idle"
        => snapshot = BuildSnapshot(db, snapshot.weighted)

\* A thread that asks for a fresh snapshot is answered, however many writes
\* and other passes get in between: the gate refreshes at most once.
ReaderServed ==
    \A p \in Readers : r[p].pc = "compare" ~> r[p].pc \in {"done", "failed"}

\* Edges removed before a refresh do not survive it: once the writer is idle a
\* current snapshot has only edges storage has (csr.rs:864, install_incremental
\* drops exactly the batches it applied, later ones stay).
RemovalsReachSnapshot ==
    w.pc = "idle" /\ m.owner = None /\ ~Stale
        => \A x \in snapshot.rows : \E e \in db.edges : SameEdge(x, e)
=============================================================================
