----------------------------- MODULE VectorIndex -----------------------------
(***************************************************************************)
(* Vector search over a graph (issundb-vector index.rs and backend.rs,     *)
(* core graph/vector.rs).  Embeddings live in the vectors table; searches  *)
(* run on an in-memory index that is kept in the graph's extensions, built *)
(* from the table by whoever needs it first, without a lock, and replaced  *)
(* as a whole by configure and reindex.  Every mutation changes the index  *)
(* and then the table under one mutation lock; the core's delete_node      *)
(* knows nothing of either and leaves a ghost in the index.                *)
(*                                                                         *)
(* One step per lock, transaction or read of the extension slot.  The      *)
(* index library is external: its traversal finds the nearest entries by   *)
(* the distance of the quantized components.                               *)
(***************************************************************************)
EXTENDS Integers, Sequences, FiniteSets, SequencesExt

CONSTANTS
    Callers,    \* threads that call VectorGraphExt
    Disks,      \* the stored states a behaviour may begin with
    Menus,      \* the sets of calls it may make
    Labelled,   \* the ids whose nodes carry the label a search filters by
    MaxId,      \* bound: node ids
    MaxIssued,  \* bound: calls begun
    MaxChanges, \* bound: nodes added or deleted
    MaxStops    \* bound: restarts of the process

VARIABLES
    disk,     \* alive nodes, next id, vectors table, persisted configuration
    slot,     \* the VectorIndexCache extension: 0, or a position in heap
    heap,     \* every VectorIndex some Arc may still point to
    mutex,    \* VectorMutationLock: its holder, or "free"
    at,       \* per caller: program counter, request and locals
    tainted,  \* history: nodes whose table write failed after the index step
    used      \* the menu of this behaviour; calls begun, nodes changed, restarts

vecVars == <<disk, slot, heap, mutex, at, tainted, used>>

-----------------------------------------------------------------------------
(* Requests and distances *)

\* VectorIndexOptions; a database that was never configured stores none.
Options == [metric: {"cosine", "l2", "dot"}, quantization: {"float32", "int8"}]
Unset == [metric |-> "unset", quantization |-> "unset"]
Opts(metric, quantization) == [metric |-> metric, quantization |-> quantization]
DefaultOpts == Opts("cosine", "float32")
effective == IF disk.config = Unset THEN DefaultOpts ELSE disk.config

UpsertOf(n, v) == [op |-> "upsert", node |-> n, v |-> v]
RemoveOf(n) == [op |-> "remove", node |-> n]
ConfigureOf(o) == [op |-> "configure", opts |-> o]
ReindexOf(o) == [op |-> "reindex", opts |-> o]
SearchOf(q, k, filtered, rescore) ==
    [op |-> "search", q |-> q, k |-> k, filtered |-> filtered, rescore |-> rescore]

Request ==
         [op: {"upsert"}, node: Nat, v: Seq(Int)]
    \cup [op: {"remove"}, node: Nat]
    \cup [op: {"configure", "reindex"}, opts: Options]
    \cup [op: {"search"}, q: Seq(Int), k: Nat, filtered: BOOLEAN, rescore: Nat]

\* encode_vector takes neither an empty embedding nor one that is not finite.
NotFinite == 999   \* stands for the components that are not a number
Encodable(v) == v # <<>> /\ NotFinite \notin Range(v)

SumOver(pairs, Term(_, _)) == FoldLeft(LAMBDA acc, p : acc + Term(p[1], p[2]), 0, pairs)
Times(x, y) == x * y
SquareOfDiff(x, y) == (x - y) * (x - y)
SquareOfFirst(x, y) == x * x
SquareOfSecond(x, y) == y * y
Root(n) == CHOOSE r \in 0 .. n : r * r = n

\* A distance is a fraction <<numerator, denominator>>.
exact_distance(q, v, metric) ==
    LET pairs == Zip(q, v)
        dot   == SumOver(pairs, Times)
        norm  == Root(SumOver(pairs, SquareOfFirst) * SumOver(pairs, SquareOfSecond))
    IN  CASE metric = "cosine" -> IF norm > 0 THEN <<norm - dot, norm>> ELSE <<1, 1>>
          [] metric = "l2"     -> <<SumOver(pairs, SquareOfDiff), 1>>
          [] metric = "dot"    -> <<1 - dot, 1>>
Less(d, e) == d[1] * e[2] < e[1] * d[2]
Before(h, g) == Less(h.distance, g.distance) \/ (~Less(g.distance, h.distance) /\ h.node < g.node)

-----------------------------------------------------------------------------
(* VectorIndex: Inner::Empty has no dimension yet. *)

EmptyIndex(opts) == [opts |-> opts, dims |-> 0, entries |-> <<>>]
Without(f, n) == [m \in DOMAIN f \ {n} |-> f[m]]
With(f, n, v) == [m \in DOMAIN f \cup {n} |-> IF m = n THEN v ELSE f[m]]
Mismatch(index, v) == index.dims # 0 /\ index.dims # Len(v)
Upserted(index, n, v) == [index EXCEPT !.dims = Len(v), !.entries = With(@, n, v)]

\* The library keeps fewer bits of a component under Int8.
Quantized(opts, v) ==
    IF opts.quantization = "float32" THEN v ELSE [i \in DOMAIN v |-> 2 * (v[i] \div 2)]

Truncated(hits, k) == SubSeq(hits, 1, IF Len(hits) < k THEN Len(hits) ELSE k)
Rank(index, q, k, kept) ==
    Truncated(SetToSortSeq({[node |-> n,
                             distance |-> exact_distance(Quantized(index.opts, q),
                                                         Quantized(index.opts, index.entries[n]),
                                                         index.opts.metric)] :
                              n \in DOMAIN index.entries \cap kept},
                           Before), k)

OneDimension(vectors) == \A n, m \in DOMAIN vectors : Len(vectors[n]) = Len(vectors[m])

\* A database holds embeddings of one dimension for some of the ids it gave out.
DiskOK(d) ==
    /\ d = [alive |-> d.alive, next |-> d.next, vectors |-> d.vectors, config |-> d.config]
    /\ d.next \in Nat \ {0}
    /\ d.alive \subseteq 1 .. d.next - 1
    /\ d.vectors \in [DOMAIN d.vectors -> Seq(Int) \ {<<>>}]
    /\ DOMAIN d.vectors \subseteq 1 .. d.next - 1
    /\ OneDimension(d.vectors)
    /\ d.config \in Options \cup {Unset}
ASSUME VectorAssumption ==
    /\ "free" \notin Callers
    /\ \A d \in Disks : DiskOK(d)
    /\ \A menu \in Menus : menu \subseteq Request

\* build_index: the stored embeddings in id order; it fails on the first one
\* of another dimension.
build_index(opts) ==
    [opts    |-> opts,
     dims    |-> IF DOMAIN disk.vectors = {} THEN 0
                 ELSE Len(disk.vectors[CHOOSE n \in DOMAIN disk.vectors : TRUE]),
     entries |-> disk.vectors]

-----------------------------------------------------------------------------
(* Calls *)

NoRequest == [op |-> "none"]
Calling(req, pc, seen, gone) ==
    [pc |-> pc, req |-> req, index |-> 0, built |-> EmptyIndex(DefaultOpts), want |-> 0,
     hits |-> <<>>, out |-> "", seen |-> seen, gone |-> gone]
Idle == Calling(NoRequest, "idle", <<>>, {})

Moved(c, pc) == [at EXCEPT ![c].pc = pc]
\* An error or a result of a mutation is returned; the guard lets go of the lock.
Finish(c) ==
    /\ at' = [at EXCEPT ![c] = Idle]
    /\ mutex' = IF mutex = c THEN "free" ELSE mutex
Answer(c, out, hits) == at' = [at EXCEPT ![c].pc = "answered", ![c].out = out, ![c].hits = hits]

\* History: a search loses sight of a node as soon as anything happens to it.
Disturbed(calls, n) == [c \in Callers |-> [calls[c] EXCEPT !.seen = Without(@, n)]]
BeingMutated == {at[c].req.node : c \in {d \in Callers : at[d].req.op \in {"upsert", "remove"}}}

InView ==
    [n \in (disk.alive \cap DOMAIN disk.vectors) \ (tainted \cup BeingMutated) |-> disk.vectors[n]]
GoneBefore == (1 .. disk.next - 1) \ disk.alive

Begin(c, req) ==
    /\ at[c].pc = "idle"
    /\ used.calls < MaxIssued
    /\ used' = [used EXCEPT !.calls = @ + 1]
    /\ at' = [at EXCEPT ![c] = IF req.op = "search" THEN Calling(req, "peek", InView, GoneBefore)
                                ELSE Calling(req, "lock", <<>>, {})]
    /\ UNCHANGED <<disk, slot, heap, mutex, tainted>>

LockUnguarded(c) ==
    /\ at[c].pc = "lock"
    /\ mutex' = c
    /\ at' = Moved(c, CASE at[c].req.op = "upsert"    -> "exists"
                       [] at[c].req.op = "remove"    -> "peek"
                       [] at[c].req.op = "configure" -> "check"
                       [] at[c].req.op = "reindex"   -> "rebuild")
    /\ UNCHANGED <<disk, slot, heap, tainted, used>>

\* mutation_lock(graph).lock.lock()
Lock(c) ==
    /\ at[c].pc = "lock"
    /\ mutex = "free"
    /\ mutex' = c
    /\ at' = Moved(c, CASE at[c].req.op = "upsert"    -> "exists"
                       [] at[c].req.op = "remove"    -> "peek"
                       [] at[c].req.op = "configure" -> "check"
                       [] at[c].req.op = "reindex"   -> "rebuild")
    /\ UNCHANGED <<disk, slot, heap, tainted, used>>

-----------------------------------------------------------------------------
(* get_or_init_cache: the initializer runs without the extensions lock, and *)
(* of two that race the first to store wins.                                *)

Peek(c) ==
    /\ at[c].pc = "peek"
    /\ at' = [at EXCEPT ![c].pc = IF slot # 0 THEN "ready" ELSE "config", ![c].index = slot]
    /\ UNCHANGED <<disk, slot, heap, mutex, tainted, used>>

LoadConfig(c) ==
    /\ at[c].pc = "config"
    /\ at' = [at EXCEPT ![c].pc = "scan", ![c].built = EmptyIndex(effective)]
    /\ UNCHANGED <<disk, slot, heap, mutex, tainted, used>>

ScanVectors(c) ==
    /\ at[c].pc = "scan"
    /\ IF OneDimension(disk.vectors)
       THEN /\ at' = [at EXCEPT ![c].pc = "install", ![c].built = build_index(at[c].built.opts)]
            /\ UNCHANGED mutex
       ELSE IF at[c].req.op = "search" THEN Answer(c, "broken", <<>>) /\ UNCHANGED mutex
       ELSE Finish(c)
    /\ UNCHANGED <<disk, slot, heap, tainted, used>>

InstallLatest(c) ==
    /\ at[c].pc = "install"
    /\ heap' = Append(heap, at[c].built)
    /\ slot' = Len(heap) + 1
    /\ at' = [at EXCEPT ![c].pc = "ready", ![c].index = slot']
    /\ UNCHANGED <<disk, mutex, tainted, used>>

InstallIndex(c) ==
    /\ at[c].pc = "install"
    /\ heap' = IF slot # 0 THEN heap ELSE Append(heap, at[c].built)
    /\ slot' = IF slot # 0 THEN slot ELSE Len(heap) + 1
    /\ at' = [at EXCEPT ![c].pc = "ready", ![c].index = slot']
    /\ UNCHANGED <<disk, mutex, tainted, used>>

-----------------------------------------------------------------------------
(* upsert_vector and remove_vector: the index first, then the table. *)

CheckNode(c) ==
    /\ at[c].pc = "exists"
    /\ IF at[c].req.node \in disk.alive /\ Encodable(at[c].req.v)
       THEN at' = Moved(c, "peek") /\ UNCHANGED mutex
       ELSE Finish(c)
    /\ UNCHANGED <<disk, slot, heap, tainted, used>>

UpsertIndex(c) ==
    /\ at[c].pc = "ready" /\ at[c].req.op = "upsert"
    /\ LET i == at[c].index
           n == at[c].req.node
       IN  IF Mismatch(heap[i], at[c].req.v) THEN Finish(c) /\ UNCHANGED heap
           ELSE /\ heap' = [heap EXCEPT ![i] = Upserted(@, n, at[c].req.v)]
                /\ at' = Disturbed(Moved(c, "put"), n)
                /\ UNCHANGED mutex
    /\ UNCHANGED <<disk, slot, tainted, used>>

RemoveIndex(c) ==
    /\ at[c].pc = "ready" /\ at[c].req.op = "remove"
    /\ LET i == at[c].index
           n == at[c].req.node
       IN  /\ heap' = [heap EXCEPT ![i].entries = Without(@, n)]
           /\ at' = Disturbed(Moved(c, "put"), n)
    /\ UNCHANGED <<disk, slot, mutex, tainted, used>>

\* put_vector_bytes or delete_vector_bytes, a transaction of its own.  The
\* table and the index agree about the node again.
WriteBytes(c) ==
    /\ at[c].pc = "put"
    /\ disk' = [disk EXCEPT !.vectors = IF at[c].req.op = "upsert"
                                        THEN With(@, at[c].req.node, at[c].req.v)
                                        ELSE Without(@, at[c].req.node)]
    /\ tainted' = tainted \ {at[c].req.node}
    /\ Finish(c)
    /\ UNCHANGED <<slot, heap, used>>

WriteBytesFails(c) ==
    /\ at[c].pc = "put"
    /\ tainted' = tainted \cup {at[c].req.node}
    /\ Finish(c)
    /\ UNCHANGED <<disk, slot, heap, used>>

-----------------------------------------------------------------------------
(* configure_vector_index and reindex_vector_index *)

CheckConfig(c) ==
    /\ at[c].pc = "check"
    /\ IF effective # at[c].req.opts /\ disk.vectors = <<>>
       THEN /\ at' = [at EXCEPT ![c].pc = "store", ![c].built = EmptyIndex(at[c].req.opts)]
            /\ UNCHANGED mutex
       ELSE Finish(c)
    /\ UNCHANGED <<disk, slot, heap, tainted, used>>

Rebuild(c) ==
    /\ at[c].pc = "rebuild"
    /\ IF OneDimension(disk.vectors)
       THEN /\ at' = [at EXCEPT ![c].pc = "store", ![c].built = build_index(at[c].req.opts)]
            /\ UNCHANGED mutex
       ELSE Finish(c)
    /\ UNCHANGED <<disk, slot, heap, tainted, used>>

PutConfig(c) ==
    /\ at[c].pc = "store"
    /\ disk' = [disk EXCEPT !.config = at[c].req.opts]
    /\ at' = Moved(c, "swap")
    /\ UNCHANGED <<slot, heap, mutex, tainted, used>>

PutConfigFails(c) ==
    /\ at[c].pc = "store"
    /\ Finish(c)
    /\ UNCHANGED <<disk, slot, heap, tainted, used>>

\* set_extension: whoever holds the old index keeps it.
Swap(c) ==
    /\ at[c].pc = "swap"
    /\ heap' = Append(heap, at[c].built)
    /\ slot' = Len(heap) + 1
    /\ tainted' = {}
    /\ Finish(c)
    /\ UNCHANGED <<disk, used>>

-----------------------------------------------------------------------------
(* vector_search_with *)

Factor(c) ==
    IF at[c].req.rescore # 0 THEN at[c].req.rescore
    ELSE IF heap[at[c].index].opts.quantization # "float32" THEN 2 ELSE 1
FetchK(c) == at[c].req.k * Factor(c)

CheckEmpty(c) ==
    /\ at[c].pc = "ready" /\ at[c].req.op = "search"
    /\ IF heap[at[c].index].entries = <<>> THEN Answer(c, "empty", <<>>)
       ELSE at' = [at EXCEPT ![c].pc = "search",
                             ![c].want = IF FetchK(c) = 0 THEN 1 ELSE FetchK(c)]
    /\ UNCHANGED <<disk, slot, heap, mutex, tainted, used>>

\* The filters are looked up during the traversal, and fail for a ghost.
Matching == disk.alive \cap Labelled
SearchIndex(c) ==
    /\ at[c].pc = "search"
    /\ LET index == heap[at[c].index]
           q     == at[c].req.q
       IN  IF Len(q) # index.dims THEN Answer(c, "mismatch", <<>>)
           ELSE IF at[c].req.filtered
           THEN at' = [at EXCEPT ![c].pc = "rescore", ![c].hits = Rank(index, q, FetchK(c), Matching)]
           ELSE at' = [at EXCEPT ![c].pc = "live",
                                 ![c].hits = Rank(index, q, at[c].want, DOMAIN index.entries)]
    /\ UNCHANGED <<disk, slot, heap, mutex, tainted, used>>

IsLive(hit) == hit.node \in disk.alive
DropGhostsOnce(c) ==
    /\ at[c].pc = "live"
    /\ at' = [at EXCEPT ![c].pc = "rescore", ![c].hits = SelectSeq(@, IsLive)]
    /\ UNCHANGED <<disk, slot, heap, mutex, tainted, used>>

\* The ghosts are dropped; the window doubles until enough hits are live or
\* the index is exhausted.
DropGhosts(c) ==
    /\ at[c].pc = "live"
    /\ LET live == SelectSeq(at[c].hits, IsLive)
       IN  IF Len(live) >= FetchK(c) \/ Len(at[c].hits) < at[c].want
           THEN at' = [at EXCEPT ![c].pc = "rescore", ![c].hits = live]
           ELSE at' = [at EXCEPT ![c].pc = "search", ![c].want = 2 * @]
    /\ UNCHANGED <<disk, slot, heap, mutex, tainted, used>>

\* A hit without stored bytes keeps its approximate distance.
Rescored(c, hit) ==
    IF hit.node \in DOMAIN disk.vectors
    THEN [hit EXCEPT !.distance = exact_distance(at[c].req.q, disk.vectors[hit.node],
                                                 heap[at[c].index].opts.metric)]
    ELSE hit
Rescore(c) ==
    /\ at[c].pc = "rescore"
    /\ LET hits == IF Factor(c) > 1
                   THEN SortSeq([i \in DOMAIN at[c].hits |-> Rescored(c, at[c].hits[i])], Before)
                   ELSE at[c].hits
       IN  Answer(c, "hits", Truncated(hits, at[c].req.k))
    /\ UNCHANGED <<disk, slot, heap, mutex, tainted, used>>

Collect(c) ==
    /\ at[c].pc = "answered"
    /\ Finish(c)
    /\ UNCHANGED <<disk, slot, heap, tainted, used>>

-----------------------------------------------------------------------------
(* The rest of the graph: ids are never reused, and a deleted node takes    *)
(* its stored embedding with it.  A restart leaves only what is stored.     *)

ChangesLeft == used.changes < MaxChanges /\ used' = [used EXCEPT !.changes = @ + 1]

CreateNode ==
    /\ disk.next <= MaxId
    /\ ChangesLeft
    /\ disk' = [disk EXCEPT !.alive = @ \cup {disk.next}, !.next = @ + 1]
    /\ UNCHANGED <<slot, heap, mutex, at, tainted>>

DropNode(n) ==
    /\ n \in disk.alive
    /\ ChangesLeft
    /\ disk' = [disk EXCEPT !.alive = @ \ {n}, !.vectors = Without(@, n)]
    /\ at' = Disturbed(at, n)
    /\ UNCHANGED <<slot, heap, mutex, tainted>>

Restart ==
    /\ used.stops < MaxStops
    /\ used' = [used EXCEPT !.stops = @ + 1]
    /\ slot' = 0 /\ heap' = <<>> /\ mutex' = "free" /\ tainted' = {}
    /\ at' = [c \in Callers |-> Idle]
    /\ UNCHANGED disk

VecInit ==
    /\ disk \in Disks
    /\ slot = 0 /\ heap = <<>> /\ mutex = "free" /\ tainted = {}
    /\ at = [c \in Callers |-> Idle]
    /\ used \in [menu: Menus, calls: {0}, changes: {0}, stops: {0}]

CacheNext(c) == Peek(c) \/ LoadConfig(c) \/ ScanVectors(c) \/ InstallIndex(c)
MutationNext(c) ==
    \/ Lock(c) \/ CheckNode(c) \/ UpsertIndex(c) \/ RemoveIndex(c) \/ WriteBytes(c) \/ WriteBytesFails(c)
    \/ CheckConfig(c) \/ Rebuild(c) \/ PutConfig(c) \/ PutConfigFails(c) \/ Swap(c)
SearchNext(c) == CheckEmpty(c) \/ SearchIndex(c) \/ DropGhosts(c) \/ Rescore(c) \/ Collect(c)
GraphNext == CreateNode \/ (\E n \in 1 .. MaxId : DropNode(n)) \/ Restart
VecNext ==
    \/ \E c \in Callers : \/ \E req \in used.menu : Begin(c, req)
                          \/ CacheNext(c) \/ MutationNext(c) \/ SearchNext(c)
    \/ GraphNext
VecSpec == VecInit /\ [][VecNext]_vecVars

-----------------------------------------------------------------------------
(* Properties *)

\* Whenever no mutation is under way, the index that searches use has the
\* persisted configuration and, for every live node whose last table write
\* did not fail, exactly the stored embedding; and what is stored always has
\* one dimension, so that the next cold start can build (upsert_vector,
\* remove_vector, configure_vector_index, reindex_vector_index and
\* get_or_init_cache in any order and overlap).
IndexAgrees ==
    /\ OneDimension(disk.vectors)
    /\ mutex = "free" /\ slot # 0 =>
         LET index == heap[slot]
         IN  /\ index.opts = effective
             /\ \A n \in disk.alive \ tainted :
                  /\ n \in DOMAIN index.entries <=> n \in DOMAIN disk.vectors
                  /\ n \in DOMAIN disk.vectors => index.entries[n] = disk.vectors[n]

Eligible(c) == {n \in DOMAIN at[c].seen : at[c].req.filtered => n \in Labelled}
HitNodes(c) == {at[c].hits[i].node : i \in DOMAIN at[c].hits}
ExactlyRanked(c) ==
    LET index == heap[at[c].index]
    IN  index.opts.quantization = "float32" /\ HitNodes(c) \subseteq DOMAIN at[c].seen =>
          \A n \in Eligible(c) \ HitNodes(c), i \in DOMAIN at[c].hits :
             ~Less(exact_distance(at[c].req.q, at[c].seen[n], index.opts.metric), at[c].hits[i].distance)

\* It reports an empty index only if there was nothing to find, and a wrong
\* dimension only if nothing had that dimension; nothing else makes it fail.
RefusalRight(c) ==
    CASE at[c].out = "empty"    -> DOMAIN at[c].seen = {}
      [] at[c].out = "mismatch" -> \A n \in DOMAIN at[c].seen : Len(at[c].seen[n]) # Len(at[c].req.q)
      [] OTHER -> FALSE

\* A search never returns a node that was deleted before it began, never
\* fewer hits than it was asked for while embeddings that nobody touched
\* meanwhile remain, and at full precision none that is farther than one it
\* left out; and it gives up only for a reason (vector_search_with).
SearchRight ==
    \A c \in Callers : at[c].pc = "answered" =>
        IF at[c].out # "hits" THEN RefusalRight(c)
        ELSE /\ HitNodes(c) \cap at[c].gone = {}
             /\ Cardinality(HitNodes(c)) = Len(at[c].hits) /\ Len(at[c].hits) <= at[c].req.k
             /\ at[c].req.filtered => HitNodes(c) \subseteq Labelled
             /\ Len(at[c].hits) < at[c].req.k => Eligible(c) \subseteq HitNodes(c)
             /\ ExactlyRanked(c)
=============================================================================
