------------------------------ MODULE ReadCaches ------------------------------
(***************************************************************************)
(* The caches of derived data that readers key by the write generation:    *)
(* the label scans and their bitmaps (graph/index.rs, LabelScanCache), the *)
(* edge statistics and the schema probe memo behind schema_has_edge        *)
(* (graph/stats.rs), and the plan cache of each thread, whose plans may    *)
(* have been cut to zero rows on the word of schema_has_edge               *)
(* (issundb-cypher exec/read.rs, plan/optimize.rs).                        *)
(*                                                                         *)
(* Storage is reduced to what these caches are asked about: the members of *)
(* one label, and whether any edge realises one (label, type, label)       *)
(* triple.  A writer commits first and advances the generation in a second *)
(* step; no reader takes the write lock.                                   *)
(***************************************************************************)
EXTENDS Integers, Sequences, SequencesExt

CONSTANTS
    Threads,   \* reader threads
    Nodes,     \* nodes that may carry the label
    MaxWrites, \* bound: commits
    MaxCalls,  \* bound: calls started
    Capacity,  \* PLAN_CACHE_CAPACITY
    Workloads, \* the sets of calls and writes one behaviour may make
    None

ASSUME ReadCachesAssumption ==
    /\ MaxWrites \in Nat /\ MaxCalls \in Nat /\ Capacity \in Nat \ {0}
    /\ None \notin Threads \cup {"yes", "no", "undecided"}
    /\ Workloads \subseteq SUBSET {"scan", "scanBits", "materialize", "statement",
                                "label", "edge"}

VARIABLES
    versions,  \* every committed state, the newest last
    published, \* index of the version the write generation has announced
    writeGen,  \* CsrCache.write_gen
    schemaGen, \* PlanEpoch.schema_gen
    scans,     \* LabelScanCache
    lock,      \* holder of the label_scans mutex across steps
    fan,       \* Graph.edge_fanout: None or a table and its generation
    memo,      \* Graph.schema_probes: the verdict kept for one generation
    plans,     \* PLAN_CACHE of each thread, least recently used first
    th,        \* per thread: program counter and locals
    calls,     \* the calls of this behaviour
    started    \* history: how many of them have begun

store == <<versions, published, writeGen, schemaGen>>
caches == <<scans, lock, fan, memo, plans>>
bound == <<calls, started>>
vars == <<store, caches, th, bound>>

Stored == [members: SUBSET Nodes, edge: BOOLEAN]
db == versions[Len(versions)]

\* What schema_has_edge answers: Some(true), Some(false) or None.
Verdicts == {"yes", "no", "undecided"}

\* The statements share one address in the key.  "hop" matches the triple
\* between two labelled ends, "star" does not.
Queries == {"hop", "star"}

IdleThread == [pc |-> "idle", from |-> 0, gen |-> 0, key |-> None, query |-> None,
               snap |-> None, got |-> None]

Goto(t, pc) == th' = [th EXCEPT ![t].pc = pc]

-----------------------------------------------------------------------------
(* The writer, under the write lock: wtxn.commit, then advance_write_gen.  *)

Commit(new) ==
    /\ published = Len(versions)
    /\ Len(versions) <= MaxWrites
    /\ new # db
    /\ versions' = Append(versions, new)
    /\ UNCHANGED <<published, writeGen, schemaGen, caches, th, bound>>

\* add_label and remove_label
ChangeLabel(n) ==
    /\ "label" \in calls
    /\ Commit([db EXCEPT !.members = IF n \in @ THEN @ \ {n} ELSE @ \cup {n}])

\* add_edge of the first edge that realises the triple, delete_edge of the last
ChangeEdge ==
    /\ "edge" \in calls
    /\ Commit([db EXCEPT !.edge = ~@])

AdvanceWriteGen ==
    /\ published < Len(versions)
    /\ published' = Len(versions)
    /\ writeGen' = writeGen + 1
    /\ UNCHANGED <<versions, schemaGen, caches, th, bound>>

-----------------------------------------------------------------------------
(* nodes_by_label_arc and label_bitmap_arc                                 *)

\* An idle thread makes a call of this kind.
Call(t, kind) ==
    /\ th[t].pc = "idle"
    /\ kind \in calls
    /\ started < MaxCalls
    /\ started' = started + 1

StartCall(t, pc) ==
    /\ Call(t, pc)
    /\ th' = [th EXCEPT ![t] = [IdleThread EXCEPT !.pc = pc, !.from = published]]
    /\ UNCHANGED <<store, caches, calls>>

NodesByLabel(t) == StartCall(t, "scan")

\* nodes_have_label with enough candidates for the bitmap.
NodesHaveLabel(t) == StartCall(t, "scanBits")

\* Mutant: a generation mismatch is stamped without clearing the entries.
AlignStampOnly(t) ==
    /\ th[t].pc \in {"scan", "scanBits"}
    /\ lock = None
    /\ lock' = t
    /\ scans' = [scans EXCEPT !.gen = writeGen]
    /\ Goto(t, IF th[t].pc = "scan" THEN "read" ELSE "readBits")
    /\ UNCHANGED <<store, fan, memo, plans, bound>>

\* The mutex is taken, the generation read and the cache aligned to it.
Align(t) ==
    /\ th[t].pc \in {"scan", "scanBits"}
    /\ lock = None
    /\ lock' = t
    /\ scans' = IF scans.gen = writeGen THEN scans
                ELSE [gen |-> writeGen, members |-> None, bits |-> None]
    /\ Goto(t, IF th[t].pc = "scan" THEN "read" ELSE "readBits")
    /\ UNCHANGED <<store, fan, memo, plans, bound>>

\* A hit, or a scan under a transaction opened now; the mutex is released.
ReadMembers(t) ==
    /\ th[t].pc \in {"read", "readBits"}
    /\ lock' = None
    /\ LET ids == IF scans.members # None THEN scans.members ELSE db.members
       IN  /\ scans' = [scans EXCEPT !.members = ids]
           /\ th' = [th EXCEPT ![t].got = ids,
                               ![t].pc = IF @ = "read" THEN "members" ELSE "file"]
    /\ UNCHANGED <<store, fan, memo, plans, bound>>

\* label_bitmap_arc takes the mutex a second time and does not look at the
\* generation again.
FileBitmap(t) ==
    /\ th[t].pc = "file"
    /\ lock = None
    /\ LET bits == IF scans.bits # None THEN scans.bits ELSE th[t].got
       IN  /\ scans' = [scans EXCEPT !.bits = bits]
           /\ th' = [th EXCEPT ![t].got = bits, ![t].pc = "bits"]
    /\ UNCHANGED <<store, lock, fan, memo, plans, bound>>

-----------------------------------------------------------------------------
(* materialize_edge_statistics                                             *)

Materialize(t) ==
    /\ Call(t, "materialize")
    /\ schemaGen' = schemaGen + 1
    /\ Goto(t, "check")
    /\ UNCHANGED <<versions, published, writeGen, caches, calls>>

\* A current table is kept; otherwise the generation is captured.
CheckTable(t) ==
    /\ th[t].pc = "check"
    /\ th' = [th EXCEPT ![t] = IF fan # None /\ fan.gen = writeGen THEN IdleThread
                               ELSE [@ EXCEPT !.pc = "build", !.gen = writeGen]]
    /\ UNCHANGED <<store, caches, bound>>

\* EdgeFanout::build, outside the lock.
BuildTable(t) ==
    /\ th[t].pc = "build"
    /\ th' = [th EXCEPT ![t] = [@ EXCEPT !.pc = "install", !.snap = db.edge]]
    /\ UNCHANGED <<store, caches, bound>>

\* The newer of two tables is kept.
InstallTable(t) ==
    /\ th[t].pc = "install"
    /\ fan' = IF fan # None /\ fan.gen > th[t].gen THEN fan
              ELSE [gen |-> th[t].gen, has |-> th[t].snap]
    /\ th' = [th EXCEPT ![t] = IdleThread]
    /\ UNCHANGED <<store, scans, lock, memo, plans, bound>>

-----------------------------------------------------------------------------
(* execute_read_query: the plan cache and schema_has_edge                  *)

\* plan_generation loads the write generation first.
StartStatement(t, query, rowOnly) ==
    /\ Call(t, "statement")
    /\ th' = [th EXCEPT ![t] = [IdleThread EXCEPT !.pc = "key", !.from = published,
                                    !.query = query,
                                    !.key = [gen |-> writeGen, sgen |-> 0,
                                             rowOnly |-> rowOnly]]]
    /\ UNCHANGED <<store, caches, calls>>

Slot(cache, key) == {i \in DOMAIN cache : cache[i].key = key}

\* PlanCache::get finds an entry made from an equal query.
Get(cache, key, query) == {i \in Slot(cache, key) : cache[i].query = query}

\* The rest of the key: the schema generation and the execution mode.
PlanKey(t) == [th[t].key EXCEPT !.sgen = schemaGen]

\* A hit is touched; an entry of another query under the same key is dropped.
Lookup(t) ==
    /\ th[t].pc = "key"
    /\ LET key   == PlanKey(t)
           cache == plans[t]
           slot  == Slot(cache, key)
           hit   == Get(cache, key, th[t].query)
           rest  == IF slot = {} THEN cache ELSE RemoveAt(cache, CHOOSE i \in slot : TRUE)
       IN  IF hit # {}
           THEN LET e == cache[CHOOSE i \in hit : TRUE]
                IN  /\ plans' = [plans EXCEPT ![t] = Append(rest, e)]
                    /\ th' = [th EXCEPT ![t] = [@ EXCEPT !.pc = "run", !.got = e.pruned]]
           ELSE /\ plans' = [plans EXCEPT ![t] = rest]
                /\ th' = [th EXCEPT ![t] = [@ EXCEPT
                              !.key.sgen = schemaGen,
                              !.pc = IF th[t].query = "hop" /\ ~th[t].key.rowOnly
                                     THEN "ask" ELSE "plan",
                              !.got = "undecided"]]
    /\ UNCHANGED <<store, scans, lock, fan, memo, bound>>

\* schema_has_edge captures the generation before its transaction opens.
CaptureGen(t) ==
    /\ th[t].pc = "ask"
    /\ th' = [th EXCEPT ![t] = [@ EXCEPT !.pc = "open", !.gen = writeGen]]
    /\ UNCHANGED <<store, caches, bound>>

\* The read transaction; a name the registry lacks ends the question.
OpenTxn(t) ==
    /\ th[t].pc = "open"
    /\ \E known \in BOOLEAN :
          th' = [th EXCEPT ![t] = [@ EXCEPT !.pc = IF known THEN "table" ELSE "plan",
                                            !.snap = db.edge]]
    /\ UNCHANGED <<store, caches, bound>>

\* with_current_fanout reads the generation under the table's lock.
TableCurrent == fan # None /\ fan.gen = writeGen

AskTable(t) ==
    /\ th[t].pc = "table"
    /\ th' = [th EXCEPT ![t] = IF TableCurrent
                               THEN [@ EXCEPT !.pc = "plan",
                                              !.got = IF fan.has THEN "yes" ELSE "no"]
                               ELSE [@ EXCEPT !.pc = "memo"]]
    /\ UNCHANGED <<store, caches, bound>>

\* cached_schema_probe
AskMemo(t) ==
    /\ th[t].pc = "memo"
    /\ th' = [th EXCEPT ![t] = IF memo.gen = writeGen /\ memo.verdict # None
                               THEN [@ EXCEPT !.pc = "plan", !.got = memo.verdict]
                               ELSE [@ EXCEPT !.pc = "probe"]]
    /\ UNCHANGED <<store, caches, bound>>

\* probe_schema_edge over the transaction; the budget may run out first.
Probe(t) ==
    /\ th[t].pc = "probe"
    /\ \E v \in {IF th[t].snap THEN "yes" ELSE "no", "undecided"} :
          th' = [th EXCEPT ![t] = [@ EXCEPT !.pc = "memoize", !.got = v]]
    /\ UNCHANGED <<store, caches, bound>>

\* Mutant: the verdict is filed under the generation read after the probe.
MemoizeLate(t) ==
    /\ th[t].pc = "memoize"
    /\ memo' = [gen |-> writeGen, verdict |-> th[t].got]
    /\ Goto(t, "plan")
    /\ UNCHANGED <<store, scans, lock, fan, plans, bound>>

\* memoize_schema_probe keeps a verdict only while its generation is live.
Memoize(t) ==
    /\ th[t].pc = "memoize"
    /\ memo' = IF writeGen = th[t].gen
               THEN [gen |-> writeGen, verdict |-> th[t].got] ELSE memo
    /\ Goto(t, "plan")
    /\ UNCHANGED <<store, scans, lock, fan, plans, bound>>

\* hop_is_impossible: only a definite negative cuts the plan.
Prunes(verdict) == verdict = "no"

\* Mutant: the cache grows without evicting.
EvictNone(cache) == cache

\* A full cache gives up its least recently used entry.
Evict(cache) == IF Len(cache) >= Capacity THEN Tail(cache) ELSE cache

\* PlanCache::insert evicts the least recently used entry of a full cache.
InsertPlan(t) ==
    /\ th[t].pc = "plan"
    /\ LET cache == plans[t]
           cut   == Prunes(th[t].got)
       IN  /\ plans' = [plans EXCEPT ![t] =
                           Append(Evict(cache), [key |-> th[t].key, query |-> th[t].query,
                                         pruned |-> cut])]
           /\ th' = [th EXCEPT ![t] = [@ EXCEPT !.pc = "run", !.got = cut,
                                                !.gen = 0, !.snap = None]]
    /\ UNCHANGED <<store, scans, lock, fan, memo, bound>>

\* The caller takes its answer.
Return(t) ==
    /\ th[t].pc \in {"members", "bits", "run"}
    /\ th' = [th EXCEPT ![t] = IdleThread]
    /\ UNCHANGED <<store, caches, bound>>

-----------------------------------------------------------------------------

Init ==
    /\ versions = << [members |-> {}, edge |-> FALSE] >>
    /\ published = 1
    /\ writeGen = 1 /\ schemaGen = 0
    /\ scans = [gen |-> 0, members |-> None, bits |-> None]
    /\ lock = None
    /\ fan = None
    /\ memo = [gen |-> 0, verdict |-> None]
    /\ plans = [t \in Threads |-> << >>]
    /\ th = [t \in Threads |-> IdleThread]
    /\ calls \in Workloads /\ started = 0

WriterNext == ChangeEdge \/ AdvanceWriteGen \/ \E n \in Nodes : ChangeLabel(n)

ThreadNext(t) ==
    \/ NodesByLabel(t) \/ NodesHaveLabel(t) \/ Align(t) \/ ReadMembers(t) \/ FileBitmap(t)
    \/ Materialize(t) \/ CheckTable(t) \/ BuildTable(t) \/ InstallTable(t)
    \/ \E q \in Queries, rowOnly \in BOOLEAN : StartStatement(t, q, rowOnly)
    \/ Lookup(t) \/ CaptureGen(t) \/ OpenTxn(t) \/ AskTable(t) \/ AskMemo(t)
    \/ Probe(t) \/ Memoize(t) \/ InsertPlan(t) \/ Return(t)

Next == WriterNext \/ \E t \in Threads : ThreadNext(t)

Spec == Init /\ [][Next]_vars

-----------------------------------------------------------------------------
(* Properties                                                              *)

PlanKeys == [gen: Nat, sgen: Nat, rowOnly: BOOLEAN]

\* Caches hold what their readers expect, a full plan cache stays full, and
\* the label mutex is held exactly between aligning and reading.
TypeOK ==
    /\ versions \in Seq(Stored) /\ published \in DOMAIN versions
    /\ writeGen \in Nat /\ schemaGen \in Nat
    /\ scans \in [gen: Nat, members: (SUBSET Nodes) \cup {None}, bits: (SUBSET Nodes) \cup {None}]
    /\ lock \in Threads \cup {None}
    /\ fan = None \/ fan \in [gen: Nat, has: BOOLEAN]
    /\ memo \in [gen: Nat, verdict: Verdicts \cup {None}]
    /\ \A t \in Threads :
          /\ plans[t] \in Seq([key: PlanKeys, query: Queries, pruned: BOOLEAN])
          /\ Len(plans[t]) <= Capacity
          /\ lock = t <=> th[t].pc \in {"read", "readBits"}

\* The versions a call that began with this thread's may have read.
SinceCall(t) == {versions[i] : i \in th[t].from .. Len(versions)}

\* A label scan is never older than what was published when it was asked
\* for: an entry may be fresher than the generation it is filed under, never
\* staler (nodes_by_label_arc).
LabelScanCurrent ==
    \A t \in Threads :
        th[t].pc = "members" => \E v \in SinceCall(t) : th[t].got = v.members

\* A plan cut to zero rows was cut by a state without the triple that is at
\* least as new as the start of the statement, whether the negative came from
\* the table, the memo, a probe or a plan cached earlier; a statement of a
\* write transaction, or of another query at the same address, never runs
\* one (prune_unsatisfiable, PlanKey).
PrunedPlansSound ==
    \A t \in Threads :
        th[t].pc = "run" /\ th[t].got =>
            /\ \E v \in SinceCall(t) : ~v.edge
            /\ th[t].query = "hop" /\ ~th[t].key.rowOnly
=============================================================================
