------------------------------ MODULE GraphStore ------------------------------
(***************************************************************************)
(* The write path of an IssunDB graph: the storage tables a mutation       *)
(* touches (graph/node.rs, graph/edge.rs, storage/ids.rs) and the write    *)
(* transaction with its batch cache (graph/txn.rs, graph/mod.rs,           *)
(* WriteBatchCache and Graph::update).                                     *)
(*                                                                         *)
(* One graph is kept in several tables: node records with their labels,    *)
(* edge records, one adjacency entry per edge and direction, a label       *)
(* index, a count per label and per type, and the id counters.  A single   *)
(* mutator changes the tables directly.  A transaction defers part of the  *)
(* work to its commit: it allocates ids and counts from memory, remembers  *)
(* which nodes it has proved to exist, and in bulk mode buffers adjacency  *)
(* entries.  The write lock admits one writer, so there is one `work`.     *)
(*                                                                         *)
(* A state of the tables and the cache together is one record; the         *)
(* committed state `db` is such a record with an empty cache.              *)
(***************************************************************************)
EXTENDS Integers, FiniteSets

CONSTANTS
    Labels,       \* label names (the registry that numbers them is left out)
    Types,        \* relationship type names
    MaxNode,      \* bound: node ids 0..MaxNode-1 are allocated
    MaxEdge,      \* bound: edge ids 0..MaxEdge-1 are allocated
    MaxMutations, \* bound: mutations of one transaction
    MaxGen,       \* bound: committed generations
    FlushAt       \* ADJ_FLUSH_THRESHOLD

ASSUME StoreAssumption ==
    /\ MaxNode \in Nat /\ MaxEdge \in Nat
    /\ MaxMutations \in Nat /\ MaxGen \in Nat
    /\ FlushAt \in Nat \ {0}

VARIABLES
    db,        \* committed tables
    commitGen, \* KEY_COMMIT_GEN, in the same store as the tables
    txn,       \* the open WriteTxn: "none", "open" or "failed"
    work,      \* its view of the tables, and its WriteBatchCache
    count,     \* WriteTxn.mutations_count
    delta,     \* WriteTxn.delta
    change     \* history: the CsrChange of the last commit

vars == <<db, commitGen, txn, work, count, delta, change>>

-----------------------------------------------------------------------------
(* Data                                                                    *)

NodeId == 0..MaxNode - 1
EdgeId == 0..MaxEdge - 1
Edge == [id: EdgeId, src: NodeId, dst: NodeId, type: Types]
AdjEntry == [at: NodeId, other: NodeId, type: Types, id: EdgeId]

Unread == -1  \* a counter the cache has not read yet

\* Tables: nodes, labels (of the node records), idx (label_idx), edges, out,
\* in, lcount, tcount, nextNode, nextEdge.  Cache: cached says whether the
\* mutator was given one; cnode, cedge, ldelta, tdelta, bulk, pendOut,
\* pendIn and known are its fields.
Tables ==
    [nodes: SUBSET NodeId, labels: SUBSET (NodeId \X Labels),
     idx: SUBSET (NodeId \X Labels), edges: SUBSET Edge,
     out: SUBSET AdjEntry, in: SUBSET AdjEntry,
     lcount: [Labels -> Nat], tcount: [Types -> Nat],
     nextNode: 0..MaxNode, nextEdge: 0..MaxEdge,
     cached: BOOLEAN, cnode: Unread..MaxNode, cedge: Unread..MaxEdge,
     ldelta: [Labels -> Int], tdelta: [Types -> Int],
     bulk: BOOLEAN, pendOut: SUBSET AdjEntry, pendIn: SUBSET AdjEntry,
     known: SUBSET NodeId]

EmptyTables ==
    [nodes |-> {}, labels |-> {}, idx |-> {}, edges |-> {}, out |-> {}, in |-> {},
     lcount |-> [l \in Labels |-> 0], tcount |-> [y \in Types |-> 0],
     nextNode |-> 0, nextEdge |-> 0,
     cached |-> FALSE, cnode |-> Unread, cedge |-> Unread,
     ldelta |-> [l \in Labels |-> 0], tdelta |-> [y \in Types |-> 0],
     bulk |-> FALSE, pendOut |-> {}, pendIn |-> {}, known |-> {}]

\* WriteBatchCache::default on top of the committed tables.
WithCache(g) == [g EXCEPT !.cached = TRUE]

\* The cache goes with the transaction.
WithoutCache(g) ==
    [g EXCEPT !.cached = FALSE, !.cnode = Unread, !.cedge = Unread,
              !.ldelta = [l \in Labels |-> 0], !.tdelta = [y \in Types |-> 0],
              !.bulk = FALSE, !.pendOut = {}, !.pendIn = {}, !.known = {}]

OutEntry(e) == [at |-> e.src, other |-> e.dst, type |-> e.type, id |-> e.id]
InEntry(e) == [at |-> e.dst, other |-> e.src, type |-> e.type, id |-> e.id]

NoDelta == [nodes |-> {}, edges |-> {}, updated |-> FALSE, removed |-> FALSE,
            full |-> FALSE]

-----------------------------------------------------------------------------
(* Counters                                                                *)

AtLeastZero(i) == IF i > 0 THEN i ELSE 0

\* adjust_label_count for every label, or bump_label_count of the cache:
\* by[l] is what the label's count changes by.
CountLabels(g, by) ==
    IF g.cached
    THEN [g EXCEPT !.ldelta = [l \in Labels |-> @[l] + by[l]]]
    ELSE [g EXCEPT !.lcount = [l \in Labels |-> AtLeastZero(@[l] + by[l])]]

CountTypes(g, by) ==
    IF g.cached
    THEN [g EXCEPT !.tdelta = [y \in Types |-> @[y] + by[y]]]
    ELSE [g EXCEPT !.tcount = [y \in Types |-> AtLeastZero(@[y] + by[y])]]

One(S, x, i) == [s \in S |-> IF s = x THEN i ELSE 0]
Each(S, X, i) == [s \in S |-> IF s \in X THEN i ELSE 0]

\* Mutant: the next id follows the largest one in use.
PeekNodeReuse(g) ==
    IF g.cnode = Unread
    THEN CHOOSE k \in 0..MaxNode :
            /\ \A n \in g.nodes : n < k
            /\ k = 0 \/ k - 1 \in g.nodes
    ELSE g.cnode

\* The next id, from the cache once it has read the stored counter.
PeekNode(g) == IF g.cnode = Unread THEN g.nextNode ELSE g.cnode
PeekEdge(g) == IF g.cedge = Unread THEN g.nextEdge ELSE g.cedge

\* alloc_node_id and alloc_edge_id, of ids.rs and of the cache.
AllocNode(g) ==
    IF g.cached THEN [g EXCEPT !.cnode = PeekNode(g) + 1]
    ELSE [g EXCEPT !.nextNode = @ + 1]

AllocEdge(g) ==
    IF g.cached THEN [g EXCEPT !.cedge = PeekEdge(g) + 1]
    ELSE [g EXCEPT !.nextEdge = @ + 1]

\* WriteBatchCache::flush_adjacency
FlushAdjacency(g) ==
    [g EXCEPT !.out = @ \cup g.pendOut, !.pendOut = {},
              !.in = @ \cup g.pendIn, !.pendIn = {}]

\* WriteBatchCache::flush_counters
FlushCounters(g) ==
    [g EXCEPT !.nextNode = PeekNode(g), !.cnode = Unread,
              !.nextEdge = PeekEdge(g), !.cedge = Unread,
              !.lcount = [l \in Labels |-> AtLeastZero(@[l] + g.ldelta[l])],
              !.ldelta = [l \in Labels |-> 0],
              !.tcount = [y \in Types |-> AtLeastZero(@[y] + g.tdelta[y])],
              !.tdelta = [y \in Types |-> 0]]

-----------------------------------------------------------------------------
(* The mutators, on tables with or without a cache.                        *)

\* add_node_inner up to the point where the labels in `done` are indexed; all
\* of them unless a property constraint of one of them refuses the node.
PutNode(g, ls, done) ==
    LET id == PeekNode(g)
        h  == AllocNode(g)
    IN  CountLabels([h EXCEPT !.nodes = @ \cup {id},
                              !.labels = @ \cup ({id} \X ls),
                              !.idx = @ \cup ({id} \X done)],
                    Each(Labels, done, 1))

AddNodeInner(g, ls) == PutNode(g, ls, ls)

HasNode(g, n) == n \in g.known \/ n \in g.nodes

\* The endpoint check of add_edge_inner remembers what it has proved.
Remember(g, S) == IF g.cached THEN [g EXCEPT !.known = @ \cup S] ELSE g

\* defer_adj in bulk mode, append_adj twice otherwise.
PutAdjacency(g, e) ==
    IF g.cached /\ g.bulk
    THEN LET h == [g EXCEPT !.pendOut = @ \cup {OutEntry(e)},
                            !.pendIn = @ \cup {InEntry(e)}]
         IN  IF Cardinality(h.pendOut) >= FlushAt THEN FlushAdjacency(h) ELSE h
    ELSE [g EXCEPT !.out = @ \cup {OutEntry(e)}, !.in = @ \cup {InEntry(e)}]

\* add_edge_inner, both endpoints having been found.
AddEdgeInner(g, s, d, ty) ==
    LET e == [id |-> PeekEdge(g), src |-> s, dst |-> d, type |-> ty]
        h == AllocEdge(Remember(g, {s, d}))
    IN  CountTypes(PutAdjacency([h EXCEPT !.edges = @ \cup {e}], e), One(Types, ty, 1))

\* add_label_inner on a node with a record.
AddLabelInner(g, n, l) ==
    IF <<n, l>> \in g.labels THEN g
    ELSE CountLabels([g EXCEPT !.labels = @ \cup {<<n, l>>}, !.idx = @ \cup {<<n, l>>}],
                     One(Labels, l, 1))

\* remove_label_inner: nothing happens to a node without the label.
RemoveLabelInner(g, n, l) ==
    IF <<n, l>> \notin g.labels THEN g
    ELSE CountLabels([g EXCEPT !.labels = @ \ {<<n, l>>}, !.idx = @ \ {<<n, l>>}],
                     One(Labels, l, -1))

\* delete_edge_inner: nothing happens to an id without a record.
DeleteEdgeInner(g, id) ==
    LET gone == {e \in g.edges : e.id = id}
    IN  CountTypes([g EXCEPT !.edges = @ \ gone,
                             !.out = @ \ {OutEntry(e) : e \in gone},
                             !.in = @ \ {InEntry(e) : e \in gone}],
                   [y \in Types |-> -Cardinality({e \in gone : e.type = y})])

\* The entries of one table under node n, and the reverse of an entry.
EntriesOf(t, n) == {a \in t : a.at = n}
Reverse(a) == [a EXCEPT !.at = a.other, !.other = a.at]

\* One of the two loops of delete_node_inner: the edges of the entries go,
\* with a count for each.
DropEdges(g, entries) ==
    CountTypes([g EXCEPT !.edges = {e \in @ : \A a \in entries : a.id # e.id}],
               [y \in Types |-> -Cardinality({a \in entries : a.type = y})])

\* Mutant: both loops take their entries from the table before the first one,
\* so a self-loop is counted twice.
DeleteNodeTwice(g, n) ==
    IF n \notin g.nodes THEN g
    ELSE LET mine == {p \in g.labels : p[1] = n}
             g1 == CountLabels([g EXCEPT !.idx = @ \ mine],
                               Each(Labels, {p[2] : p \in mine}, -1))
             outs == EntriesOf(g.out, n)
             ins == EntriesOf(g.in, n)
             g2 == DropEdges([g1 EXCEPT !.in = @ \ {Reverse(a) : a \in outs}], outs)
             g3 == DropEdges([g2 EXCEPT !.out = @ \ {Reverse(a) : a \in ins}], ins)
         IN  [g3 EXCEPT !.out = @ \ outs, !.in = @ \ ins,
                        !.nodes = @ \ {n}, !.labels = @ \ mine]

\* delete_node_inner: labels, then outgoing edges with their in_adj mirrors,
\* then what in_adj still holds with its out_adj mirrors (a self-loop is gone
\* by then), then the node's own keys.
DeleteNodeInner(g, n) ==
    IF n \notin g.nodes THEN g
    ELSE LET mine == {p \in g.labels : p[1] = n}
             g1 == CountLabels([g EXCEPT !.idx = @ \ mine],
                               Each(Labels, {p[2] : p \in mine}, -1))
             outs == EntriesOf(g1.out, n)
             g2 == DropEdges([g1 EXCEPT !.in = @ \ {Reverse(a) : a \in outs}], outs)
             ins == EntriesOf(g2.in, n)
             g3 == DropEdges([g2 EXCEPT !.out = @ \ {Reverse(a) : a \in ins}], ins)
         IN  [g3 EXCEPT !.out = @ \ EntriesOf(@, n), !.in = @ \ EntriesOf(@, n),
                        !.nodes = @ \ {n}, !.labels = @ \ mine]

\* WriteBatchCache::invalidate_nodes
InvalidateNodes(g) == [g EXCEPT !.known = {}]

-----------------------------------------------------------------------------
(* Graph::add_node and its siblings: a write transaction each, committed    *)
(* through commit_and_publish.  One that fails aborts and leaves no trace.  *)

Direct(newDb, published) ==
    /\ txn = "none"
    /\ commitGen < MaxGen
    /\ db' = newDb
    /\ commitGen' = commitGen + 1
    /\ change' = published
    /\ UNCHANGED <<txn, work, count, delta>>

AddedEdge(g, s, d) == [id |-> PeekEdge(g), src |-> s, dst |-> d]

AddNode(ls) ==
    /\ PeekNode(db) < MaxNode
    /\ Direct(AddNodeInner(db, ls), [NoDelta EXCEPT !.nodes = {PeekNode(db)}])

AddEdge(s, d, ty) ==
    /\ PeekEdge(db) < MaxEdge
    /\ HasNode(db, s) /\ HasNode(db, d)
    /\ Direct(AddEdgeInner(db, s, d, ty), [NoDelta EXCEPT !.edges = {AddedEdge(db, s, d)}])

AddLabel(n, l) == n \in db.nodes /\ Direct(AddLabelInner(db, n, l), NoDelta)

RemoveLabel(n, l) == Direct(RemoveLabelInner(db, n, l), NoDelta)

UpdateEdge(id) ==
    /\ \E e \in db.edges : e.id = id
    /\ Direct(db, [NoDelta EXCEPT !.updated = TRUE])

DeleteEdge(id) ==
    Direct(DeleteEdgeInner(db, id),
           [NoDelta EXCEPT !.full = \E e \in db.edges : e.id = id])

DeleteNode(n) == Direct(DeleteNodeInner(db, n), [NoDelta EXCEPT !.full = TRUE])

-----------------------------------------------------------------------------
(* Graph::update and WriteTxn                                              *)

Begin ==
    /\ txn = "none"
    /\ txn' = "open"
    /\ work' = WithCache(db)
    /\ count' = 0
    /\ delta' = NoDelta
    /\ UNCHANGED <<db, commitGen, change>>

\* WriteTxn::mutate with a closure that succeeds.
Mutate(newWork, newDelta) ==
    /\ txn = "open"
    /\ count < MaxMutations
    /\ work' = newWork
    /\ delta' = newDelta
    /\ count' = count + 1
    /\ UNCHANGED <<db, commitGen, txn, change>>

\* Mutant: a failed mutation does not mark the transaction.
MutateFailsUnmarked(newWork) ==
    /\ txn = "open"
    /\ count < MaxMutations
    /\ work' = newWork
    /\ UNCHANGED <<db, commitGen, txn, count, delta, change>>

\* WriteTxn::mutate with a closure that fails: what it wrote stays in the
\* transaction, which is marked.
MutateFails(newWork) ==
    /\ txn = "open"
    /\ count < MaxMutations
    /\ work' = newWork
    /\ txn' = "failed"
    /\ UNCHANGED <<db, commitGen, count, delta, change>>

TxnAddNode(ls) ==
    /\ PeekNode(work) < MaxNode
    /\ Mutate(AddNodeInner(work, ls), [delta EXCEPT !.nodes = @ \cup {PeekNode(work)}])

\* A unique or required property constraint of a label in `done` refuses the
\* node after part of it is written (index_node_for_label).
TxnAddNodeRefused(ls, done) ==
    /\ PeekNode(work) < MaxNode
    /\ done # {}
    /\ MutateFails(PutNode(work, ls, done))

TxnAddEdge(s, d, ty) ==
    /\ PeekEdge(work) < MaxEdge
    /\ HasNode(work, s) /\ HasNode(work, d)
    /\ Mutate(AddEdgeInner(work, s, d, ty),
              [delta EXCEPT !.edges = @ \cup {AddedEdge(work, s, d)}])

\* NodeNotFound; an endpoint found before the missing one is remembered.
TxnAddEdgeNoNode(s, d) ==
    /\ ~HasNode(work, s) \/ ~HasNode(work, d)
    /\ MutateFails(IF HasNode(work, s) THEN Remember(work, {s}) ELSE work)

\* A property constraint refuses the edge: its id is allocated by then.
TxnAddEdgeRefused(s, d) ==
    /\ PeekEdge(work) < MaxEdge
    /\ HasNode(work, s) /\ HasNode(work, d)
    /\ MutateFails(AllocEdge(Remember(work, {s, d})))

TxnAddLabel(n, l) ==
    /\ n \in work.nodes
    /\ Mutate(AddLabelInner(work, n, l), delta)

\* A node that is not there, or a constraint of the new label refuses it.
TxnAddLabelFails(n, l) ==
    MutateFails(IF n \in work.nodes THEN AddLabelInner(work, n, l) ELSE work)

TxnRemoveLabel(n, l) == Mutate(RemoveLabelInner(work, n, l), delta)

\* update_node of a node with a record: no table of this module changes.
TxnUpdateNode(n) == n \in work.nodes /\ Mutate(work, delta)

TxnUpdateEdge(id) ==
    /\ \E e \in work.edges : e.id = id
    /\ Mutate(work, [delta EXCEPT !.updated = TRUE])

TxnDeleteEdge(id) ==
    LET flushed == FlushAdjacency(work)
    IN  Mutate(DeleteEdgeInner(flushed, id),
               [delta EXCEPT !.removed = @ \/ \E e \in flushed.edges : e.id = id])

\* Mutant: the endpoint memo survives a deletion.
TxnDeleteNodeKeepsMemo(n) ==
    Mutate(DeleteNodeInner(FlushAdjacency(work), n), [delta EXCEPT !.full = TRUE])

TxnDeleteNode(n) ==
    Mutate(DeleteNodeInner(FlushAdjacency(InvalidateNodes(work)), n),
           [delta EXCEPT !.full = TRUE])

\* begin_bulk_load is not a mutation.
BeginBulkLoad ==
    /\ txn # "none"
    /\ work' = [work EXCEPT !.bulk = TRUE]
    /\ UNCHANGED <<db, commitGen, txn, count, delta, change>>

\* Mutant: the removal flag is not looked at.
ChangeOfAdditions(dl) ==
    IF dl.full THEN [NoDelta EXCEPT !.full = TRUE] ELSE dl

\* The CsrChange Graph::update derives from its delta.
ChangeOf(dl) ==
    IF dl.full \/ dl.removed THEN [NoDelta EXCEPT !.full = TRUE] ELSE dl

\* The closure returned Ok and no mutation failed: the buffers are flushed
\* into the transaction, which bumps the generation unless it did nothing.
Commit ==
    /\ txn = "open"
    /\ commitGen < MaxGen
    /\ db' = WithoutCache(FlushCounters(FlushAdjacency(work)))
    /\ commitGen' = IF count > 0 THEN commitGen + 1 ELSE commitGen
    /\ change' = ChangeOf(delta)
    /\ txn' = "none"
    /\ work' = EmptyTables /\ count' = 0 /\ delta' = NoDelta

\* The closure returned an error, a mutation failed, or the process stopped.
Abort ==
    /\ txn # "none"
    /\ txn' = "none"
    /\ work' = EmptyTables /\ count' = 0 /\ delta' = NoDelta
    /\ UNCHANGED <<db, commitGen, change>>

-----------------------------------------------------------------------------

Init ==
    /\ db = EmptyTables /\ work = EmptyTables
    /\ commitGen = 0 /\ count = 0
    /\ txn = "none"
    /\ delta = NoDelta /\ change = NoDelta

DirectNext ==
    \/ \E ls \in SUBSET Labels : AddNode(ls)
    \/ \E s, d \in NodeId, ty \in Types : AddEdge(s, d, ty)
    \/ \E n \in NodeId, l \in Labels : AddLabel(n, l) \/ RemoveLabel(n, l)
    \/ \E id \in EdgeId : UpdateEdge(id) \/ DeleteEdge(id)
    \/ \E n \in NodeId : DeleteNode(n)

TxnNext ==
    \/ Begin \/ BeginBulkLoad \/ Commit \/ Abort
    \/ \E ls \in SUBSET Labels :
          \/ TxnAddNode(ls)
          \/ \E done \in SUBSET ls : TxnAddNodeRefused(ls, done)
    \/ \E s, d \in NodeId :
          \/ \E ty \in Types : TxnAddEdge(s, d, ty)
          \/ TxnAddEdgeNoNode(s, d) \/ TxnAddEdgeRefused(s, d)
    \/ \E n \in NodeId, l \in Labels :
          TxnAddLabel(n, l) \/ TxnAddLabelFails(n, l) \/ TxnRemoveLabel(n, l)
    \/ \E n \in NodeId : TxnUpdateNode(n) \/ TxnDeleteNode(n)
    \/ \E id \in EdgeId : TxnUpdateEdge(id) \/ TxnDeleteEdge(id)

Next == DirectNext \/ TxnNext

Spec == Init /\ [][Next]_vars

-----------------------------------------------------------------------------
(* Properties                                                              *)

\* The tables of g, with the entries still buffered, agree: one entry per edge
\* and direction, no edge without its endpoints, a label index that equals
\* the labels of the records.
AdjacencyMatches(g) ==
    /\ g.out \cup g.pendOut = {OutEntry(e) : e \in g.edges}
    /\ g.in \cup g.pendIn = {InEntry(e) : e \in g.edges}
NoDangling(g) ==
    /\ \A e \in g.edges : e.src \in g.nodes /\ e.dst \in g.nodes
    /\ \A p \in g.labels : p[1] \in g.nodes
EdgeIdsUnique(g) == \A e, f \in g.edges : e.id = f.id => e = f
IdsBelowNext(g) ==
    /\ \A n \in g.nodes : n < PeekNode(g)
    /\ \A e \in g.edges : e.id < PeekEdge(g)
Consistent(g) ==
    /\ AdjacencyMatches(g) /\ NoDangling(g) /\ EdgeIdsUnique(g)
    /\ IdsBelowNext(g) /\ g.idx = g.labels

\* Nothing of a transaction's cache is left in the tables.
NothingCached(g) ==
    /\ ~g.cached /\ ~g.bulk /\ g.cnode = Unread /\ g.cedge = Unread
    /\ g.pendOut = {} /\ g.pendIn = {} /\ g.known = {}

\* The counters: stored, plus what the cache has not flushed, never clamped.
CountsExact(g) ==
    /\ \A l \in Labels :
          g.lcount[l] + g.ldelta[l] = Cardinality({n \in g.nodes : <<n, l>> \in g.labels})
    /\ \A y \in Types :
          g.tcount[y] + g.tdelta[y] = Cardinality({e \in g.edges : e.type = y})

\* Committed tables agree with each other, whatever transactions were
\* committed, refused or abandoned (add_edge_inner: "breaking adjacency
\* consistency"); inside a transaction that has not failed, the tables and its
\* buffers agree and every node it remembers is there (knows_node); and in both
\* the per-label and per-type counts equal the number of records, self-loops
\* and cascades included (adjust_label_count, flush_counters).
TablesConsistent ==
    /\ Consistent(db) /\ NothingCached(db) /\ CountsExact(db)
    /\ txn = "open" => Consistent(work) /\ CountsExact(work) /\ work.known \subseteq work.nodes

\* Mutant: the buffer is not merged into reads.
NeighborsStored(g, n, outgoing) == EntriesOf(IF outgoing THEN g.out ELSE g.in, n)

\* neighbors_with_pending: the buffer is merged only when entries are pending
\* in the outgoing direction.
Neighbors(g, n, outgoing) ==
    LET stored == EntriesOf(IF outgoing THEN g.out ELSE g.in, n)
    IN  IF g.pendOut = {} THEN stored
        ELSE stored \cup EntriesOf(IF outgoing THEN g.pendOut ELSE g.pendIn, n)

\* Reads through an open transaction see each of its edges in both directions,
\* bulk mode or not (begin_bulk_load: "the mode changes cost, not results").
ReadsOwnWrites ==
    txn = "open" =>
        \A n \in work.nodes :
            /\ Neighbors(work, n, TRUE) = {OutEntry(e) : e \in {x \in work.edges : x.src = n}}
            /\ Neighbors(work, n, FALSE) = {InEntry(e) : e \in {x \in work.edges : x.dst = n}}

Strip(E) == {[id |-> e.id, src |-> e.src, dst |-> e.dst] : e \in E}

\* Tables never change without a new persisted generation, which is what lets
\* a later process trust a cache file (bump_commit_gen), and the commit
\* publishes a change that covers it: a full rebuild, or exactly the added
\* nodes and edges (Graph::update, CsrChange).  The snapshot relies on it.
ChangeDescribesCommit ==
    [][/\ db' # db => commitGen' > commitGen
       /\ commitGen' # commitGen =>
             \/ change'.full
             \/ /\ db'.nodes = db.nodes \cup change'.nodes
                /\ Strip(db'.edges) = Strip(db.edges) \cup change'.edges]_vars

\* An id once used never denotes another node or edge: counters do not go
\* back, and what a commit adds is at or above the old counter (alloc_node_id).
IdsNeverReused ==
    [][/\ \A n \in db'.nodes \ db.nodes : n >= db.nextNode
       /\ \A e \in db'.edges \ db.edges : e.id >= db.nextEdge
       /\ db'.nextNode >= db.nextNode /\ db'.nextEdge >= db.nextEdge]_vars

-----------------------------------------------------------------------------
(* Refinement                                                              *)

\* The graph that reads of g return: edges are taken from the outgoing
\* adjacency, stored or buffered, never from the edge records.
GraphOf(g) ==
    [nodes |-> g.nodes,
     labels |-> g.idx,
     edges |-> {[id |-> a.id, src |-> a.at, dst |-> a.other, type |-> a.type] :
                   a \in g.out \cup g.pendOut},
     nextNode |-> PeekNode(g), nextEdge |-> PeekEdge(g)]

Abstract ==
    INSTANCE GraphSpec WITH
        graph  <- GraphOf(db),
        view   <- GraphOf(IF txn = "open" THEN work ELSE EmptyTables),
        status <- txn

\* The store with its deferred writes implements the graph that mutates at
\* once and commits atomically.
ImplementsGraph == Abstract!Spec
=============================================================================
