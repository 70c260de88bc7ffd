-------------------------- MODULE ReadCachesProofs --------------------------
(***************************************************************************)
(* Proofs about ReadCaches, for any number of reader threads, nodes,       *)
(* commits and calls and any capacity of the plan cache; and about         *)
(* VectorIndex, for any number of callers, any stored state to begin with  *)
(* and any calls.                                                          *)
(***************************************************************************)
EXTENDS ReadCaches, VectorIndex, SequenceTheorems, TLAPS

-----------------------------------------------------------------------------
(* The inductive invariant                                                 *)

\* What some state from version lo on holds, vs being the versions.
MembersSince(vs, lo, m) == \E i \in lo..Len(vs) : m = vs[i].members
EdgeSince(vs, lo, b) == \E i \in lo..Len(vs) : b = vs[i].edge
NoEdgeSince(vs, lo) == EdgeSince(vs, lo, FALSE)

\* The write generation is the number of the version it announced, and the
\* writer is at most one commit ahead of it.
StoreOK ==
    /\ versions \in Seq(Stored) /\ published \in Nat \ {0} /\ writeGen = published
    /\ schemaGen \in Nat
    /\ Len(versions) \in {published, published + 1}

\* What is filed under a generation comes from that version or a later one.
ScansOK ==
    /\ scans \in [gen: Nat, members: (SUBSET Nodes) \cup {None}, bits: (SUBSET Nodes) \cup {None}]
    /\ scans.gen <= published
    /\ scans.members # None => scans.gen # 0 /\ MembersSince(versions, scans.gen, scans.members)
FanOK ==
    fan # None => /\ fan \in [gen: Nat, has: BOOLEAN] /\ fan.gen \in 1..published
                  /\ EdgeSince(versions, fan.gen, fan.has)
MemoOK ==
    /\ memo \in [gen: Nat, verdict: Verdicts \cup {None}]
    /\ memo.verdict = "no" => memo.gen # 0 /\ NoEdgeSince(versions, memo.gen)

\* A plan was cut on the word of a state at least as new as its key.
CutOK(vs, key, query) ==
    query = "hop" /\ key.rowOnly = FALSE /\ key.gen # 0 /\ NoEdgeSince(vs, key.gen)

Entry == [key: PlanKeys, query: Queries, pruned: BOOLEAN]
EntriesOK(vs, cache) ==
    \A i \in 1..Len(cache) : cache[i].pruned = TRUE => CutOK(vs, cache[i].key, cache[i].query)
PlansOK ==
    /\ plans \in [Threads -> Seq(Entry)]
    /\ \A t \in Threads : Len(plans[t]) <= Capacity /\ EntriesOK(versions, plans[t])

LockOK ==
    /\ lock \in Threads \cup {None}
    /\ \A t \in Threads : lock = t <=> th[t].pc \in {"read", "readBits"}

ThreadState ==
    [pc: {"idle", "scan", "scanBits", "read", "readBits", "members", "file", "bits",
          "check", "build", "install", "key", "ask", "open", "table", "memo", "probe",
          "memoize", "plan", "run"},
     from: Nat, gen: Nat, key: PlanKeys \cup {None}, query: Queries \cup {None},
     snap: BOOLEAN \cup {None},
     got: (SUBSET Nodes) \cup Verdicts \cup BOOLEAN \cup {None}]
ThreadsTyped == th \in [Threads -> ThreadState]

\* Where the locals x of a thread come from, at each of its steps; pub is the
\* published version, sg the generation of the label scans.
ScanOK(vs, pub, sg, x) ==
    /\ x.pc \in {"scan", "scanBits"} => x.from \in 1..pub
    /\ x.pc \in {"read", "readBits"} => x.from \in 1..sg
    /\ x.pc = "members" => x.from # 0 /\ MembersSince(vs, x.from, x.got)
    /\ x.pc = "file" => x.got \in (SUBSET Nodes) \cup {None}
TableOK(vs, pub, x) ==
    /\ x.pc \in {"build", "install"} => x.gen \in 1..pub
    /\ x.pc = "install" => x.snap \in BOOLEAN /\ EdgeSince(vs, x.gen, x.snap)
StatementOK(vs, pub, x) ==
    /\ x.pc \in {"key", "ask", "open", "table", "memo", "probe", "memoize", "plan", "run"} =>
          x.key \in PlanKeys /\ x.query \in Queries /\ x.from \in 1..x.key.gen /\ x.key.gen <= pub
    /\ x.pc \in {"ask", "open", "table", "memo", "probe", "memoize"} =>
          x.query = "hop" /\ x.key.rowOnly = FALSE
    /\ x.pc \in {"ask", "open", "table", "memo", "probe"} => x.got = "undecided"
    /\ x.pc \in {"open", "table", "memo", "probe", "memoize"} => x.gen \in x.key.gen..pub
    /\ x.pc \in {"table", "memo", "probe"} => x.snap \in BOOLEAN /\ EdgeSince(vs, x.gen, x.snap)
    /\ x.pc = "memoize" => x.got \in Verdicts /\ (x.got = "no" => NoEdgeSince(vs, x.gen))
    /\ x.pc = "plan" => x.got \in Verdicts /\ (x.got = "no" => CutOK(vs, x.key, x.query))
    /\ x.pc = "run" => x.got \in BOOLEAN /\ (x.got = TRUE => CutOK(vs, x.key, x.query))
ThreadOK(vs, pub, sg, x) == ScanOK(vs, pub, sg, x) /\ TableOK(vs, pub, x) /\ StatementOK(vs, pub, x)
ThreadsOK == \A t \in Threads : ThreadOK(versions, published, scans.gen, th[t])

CacheInv ==
    /\ StoreOK /\ ScansOK /\ FanOK /\ MemoOK /\ PlansOK /\ LockOK
    /\ ThreadsTyped /\ ThreadsOK

-----------------------------------------------------------------------------
(* Time only adds versions                                                 *)

Grown(vs, ws) ==
    /\ Len(vs) \in Nat /\ Len(ws) \in Nat /\ Len(vs) <= Len(ws)
    /\ \A i \in 1..Len(vs) : ws[i] = vs[i]

\* What was read from some version still was.
LEMMA SinceGrown ==
  ASSUME NEW vs, NEW ws, Grown(vs, ws), NEW lo \in Nat \ {0}
  PROVE  /\ \A m : MembersSince(vs, lo, m) => MembersSince(ws, lo, m)
         /\ \A b : EdgeSince(vs, lo, b) => EdgeSince(ws, lo, b)
         /\ NoEdgeSince(vs, lo) => NoEdgeSince(ws, lo)
  BY DEF Grown, MembersSince, EdgeSince, NoEdgeSince

\* The newest version counts for every generation up to it.
LEMMA SinceNow ==
  ASSUME NEW vs \in Seq(Stored), NEW lo \in 1..Len(vs)
  PROVE  /\ MembersSince(vs, lo, vs[Len(vs)].members)
         /\ EdgeSince(vs, lo, vs[Len(vs)].edge)
  BY DEF MembersSince, EdgeSince

\* An earlier start sees as much.
LEMMA SinceEarlier ==
  ASSUME NEW vs \in Seq(Stored), NEW lo \in Nat, NEW hi \in Nat, lo <= hi
  PROVE  /\ \A m : MembersSince(vs, hi, m) => MembersSince(vs, lo, m)
         /\ \A b : EdgeSince(vs, hi, b) => EdgeSince(vs, lo, b)
         /\ NoEdgeSince(vs, hi) => NoEdgeSince(vs, lo)
  BY DEF MembersSince, EdgeSince, NoEdgeSince

\* A cut plan stays justified.
LEMMA CutGrown ==
  ASSUME NEW vs, NEW ws, Grown(vs, ws), NEW key \in PlanKeys, NEW query, CutOK(vs, key, query)
  PROVE  CutOK(ws, key, query)
  <1>1. key.gen \in Nat
    BY DEF PlanKeys
  <1> QED
    BY <1>1, SinceGrown DEF CutOK

\* A thread that does not move stays right.
LEMMA ThreadGrown ==
  ASSUME NEW vs, NEW ws, Grown(vs, ws),
         NEW pub \in Nat, NEW pub2 \in Nat, pub <= pub2, NEW sg \in Nat, NEW sg2 \in Nat, sg <= sg2,
         NEW x \in ThreadState, ThreadOK(vs, pub, sg, x)
  PROVE  ThreadOK(ws, pub2, sg2, x)
  <1>0. x.from \in Nat /\ x.gen \in Nat
    BY DEF ThreadState
  <1>1. ScanOK(ws, pub2, sg2, x)
    <2>1. x.pc = "members" => MembersSince(ws, x.from, x.got)
      BY <1>0, SinceGrown DEF ThreadOK, ScanOK
    <2> QED
      BY <1>0, <2>1 DEF ThreadOK, ScanOK
  <1>2. TableOK(ws, pub2, x)
    <2>1. x.pc = "install" => EdgeSince(ws, x.gen, x.snap)
      BY <1>0, SinceGrown DEF ThreadOK, TableOK
    <2> QED
      BY <1>0, <2>1 DEF ThreadOK, TableOK
  <1>3. StatementOK(ws, pub2, x)
    <2>1. x.pc \in {"key", "ask", "open", "table", "memo", "probe", "memoize", "plan", "run"} =>
             /\ x.key \in PlanKeys /\ x.key.gen \in Nat /\ x.query \in Queries
             /\ x.from \in 1..x.key.gen /\ x.key.gen <= pub2
      BY <1>0 DEF ThreadOK, StatementOK, PlanKeys
    <2>2. x.pc \in {"open", "table", "memo", "probe", "memoize"} => x.gen # 0 /\ x.gen \in x.key.gen..pub2
      <3> SUFFICES ASSUME x.pc \in {"open", "table", "memo", "probe", "memoize"}
                   PROVE  x.gen # 0 /\ x.gen \in x.key.gen..pub2
        OBVIOUS
      <3>1. x.gen \in x.key.gen..pub
        BY DEF ThreadOK, StatementOK
      <3>2. x.key.gen \in Nat /\ x.from \in 1..x.key.gen
        BY <2>1
      <3> QED
        BY <1>0, <3>1, <3>2
    <2>3. x.pc \in {"table", "memo", "probe"} => x.snap \in BOOLEAN /\ EdgeSince(ws, x.gen, x.snap)
      BY <1>0, <2>2, SinceGrown DEF ThreadOK, StatementOK
    <2>4. x.pc = "memoize" => x.got \in Verdicts /\ (x.got = "no" => NoEdgeSince(ws, x.gen))
      BY <1>0, <2>2, SinceGrown DEF ThreadOK, StatementOK
    <2>5. x.pc = "plan" => x.got \in Verdicts /\ (x.got = "no" => CutOK(ws, x.key, x.query))
      BY <2>1, CutGrown DEF ThreadOK, StatementOK
    <2>6. x.pc = "run" => x.got \in BOOLEAN /\ (x.got = TRUE => CutOK(ws, x.key, x.query))
      BY <2>1, CutGrown DEF ThreadOK, StatementOK
    <2>7. /\ x.pc \in {"ask", "open", "table", "memo", "probe", "memoize"} =>
                x.query = "hop" /\ x.key.rowOnly = FALSE
          /\ x.pc \in {"ask", "open", "table", "memo", "probe"} => x.got = "undecided"
      BY DEF ThreadOK, StatementOK
    <2> QED
      BY <2>1, <2>2, <2>3, <2>4, <2>5, <2>6, <2>7 DEF StatementOK
  <1> QED
    BY <1>1, <1>2, <1>3 DEF ThreadOK

\* A plan cache that does not change stays right.
LEMMA EntriesGrown ==
  ASSUME NEW vs, NEW ws, Grown(vs, ws), NEW cache \in Seq(Entry), EntriesOK(vs, cache)
  PROVE  EntriesOK(ws, cache)
  <1> SUFFICES ASSUME NEW i \in 1..Len(cache), cache[i].pruned = TRUE
               PROVE  CutOK(ws, cache[i].key, cache[i].query)
    BY DEF EntriesOK
  <1>0. cache[i] \in Entry
    BY ElementOfSeq
  <1>1. cache[i].key \in PlanKeys
    BY <1>0 DEF Entry
  <1>2. CutOK(vs, cache[i].key, cache[i].query)
    BY DEF EntriesOK
  <1> QED
    BY <1>1, <1>2, CutGrown

-----------------------------------------------------------------------------
(* Steps keep the invariant                                                *)

\* The store is left alone.
LEMMA SameVersions ==
  ASSUME StoreOK
  PROVE  Grown(versions, versions)
  BY DEF StoreOK, Grown

\* What a step of the caches leaves alone stays right.
LEMMA CachesGrown ==
  ASSUME CacheInv, Grown(versions, versions'), published' \in Nat, published <= published'
  PROVE  /\ scans' = scans => ScansOK'
         /\ fan' = fan => FanOK'
         /\ memo' = memo => MemoOK'
         /\ plans' = plans => PlansOK'
  <1>0. published \in Nat
    BY DEF CacheInv, StoreOK
  <1>1. ASSUME scans' = scans PROVE ScansOK'
    <2>1. scans.gen \in Nat /\ scans.gen <= published'
      BY <1>0 DEF CacheInv, ScansOK
    <2>2. scans.members # None => scans.gen # 0 /\ MembersSince(versions', scans.gen, scans.members)
      BY <2>1, SinceGrown DEF CacheInv, ScansOK
    <2> QED
      BY <1>1, <2>1, <2>2 DEF CacheInv, ScansOK
  <1>2. ASSUME fan' = fan PROVE FanOK'
    <2> SUFFICES ASSUME fan # None
                 PROVE  /\ fan \in [gen: Nat, has: BOOLEAN] /\ fan.gen \in 1..published'
                        /\ EdgeSince(versions', fan.gen, fan.has)
      BY <1>2 DEF FanOK
    <2>1. fan \in [gen: Nat, has: BOOLEAN] /\ fan.gen \in 1..published /\ EdgeSince(versions, fan.gen, fan.has)
      BY DEF CacheInv, FanOK
    <2>2. fan.gen \in Nat \ {0}
      BY <1>0, <2>1
    <2>3. EdgeSince(versions', fan.gen, fan.has)
      BY <2>1, <2>2, SinceGrown
    <2> QED
      BY <1>0, <2>1, <2>3
  <1>3. ASSUME memo' = memo PROVE MemoOK'
    <2>1. memo.gen \in Nat
      BY DEF CacheInv, MemoOK
    <2>2. memo.verdict = "no" => memo.gen # 0 /\ NoEdgeSince(versions', memo.gen)
      BY <2>1, SinceGrown DEF CacheInv, MemoOK
    <2> QED
      BY <1>3, <2>2 DEF CacheInv, MemoOK
  <1>4. ASSUME plans' = plans PROVE PlansOK'
    <2>1. \A t \in Threads : EntriesOK(versions', plans[t])
      BY EntriesGrown DEF CacheInv, PlansOK
    <2> QED
      BY <1>4, <2>1 DEF CacheInv, PlansOK
  <1> QED
    BY <1>1, <1>2, <1>3, <1>4

\* A step of the writer.
LEMMA WriterKeeps ==
  ASSUME CacheInv, WriterNext
  PROVE  CacheInv'
  <1>1. UNCHANGED <<caches, th, bound>> /\ schemaGen' = schemaGen
    BY DEF WriterNext, ChangeEdge, ChangeLabel, Commit, AdvanceWriteGen
  <1>2. StoreOK' /\ Grown(versions, versions') /\ published <= published'
    <2>1. ASSUME NEW new \in Stored, Commit(new)
          PROVE  StoreOK' /\ Grown(versions, versions') /\ published <= published'
      BY <2>1 DEF Commit, CacheInv, StoreOK, Grown
    <2>2. db \in Stored
      BY DEF CacheInv, StoreOK, db
    <2>3. CASE \E n \in Nodes : ChangeLabel(n)
      <3>1. PICK n \in Nodes : ChangeLabel(n)
        BY <2>3
      <3>2. [db EXCEPT !.members = IF n \in @ THEN @ \ {n} ELSE @ \cup {n}] \in Stored
        BY <2>2 DEF Stored
      <3> QED
        BY <2>1, <3>1, <3>2 DEF ChangeLabel
    <2>4. CASE ChangeEdge
      <3>2. [db EXCEPT !.edge = ~@] \in Stored
        BY <2>2 DEF Stored
      <3> QED
        BY <2>1, <2>4, <3>2 DEF ChangeEdge
    <2>5. CASE AdvanceWriteGen
      BY <2>5 DEF AdvanceWriteGen, CacheInv, StoreOK, Grown
    <2> QED
      BY <2>3, <2>4, <2>5 DEF WriterNext
  <1>3. ScansOK' /\ FanOK' /\ MemoOK' /\ PlansOK'
    BY <1>1, <1>2, CachesGrown DEF caches, StoreOK
  <1>4. LockOK' /\ ThreadsTyped'
    BY <1>1 DEF caches, CacheInv, LockOK, ThreadsTyped
  <1>5. ThreadsOK'
    <2> SUFFICES ASSUME NEW t \in Threads PROVE ThreadOK(versions', published', scans'.gen, th'[t])
      BY DEF ThreadsOK
    <2>1. th[t] \in ThreadState /\ ThreadOK(versions, published, scans.gen, th[t])
      BY DEF CacheInv, ThreadsTyped, ThreadsOK
    <2>2. published \in Nat /\ published' \in Nat /\ scans.gen \in Nat
      BY <1>2 DEF CacheInv, StoreOK, ScansOK
    <2>3. ThreadOK(versions', published', scans.gen, th[t])
      BY <1>2, <2>1, <2>2, ThreadGrown
    <2> QED
      BY <1>1, <2>3 DEF caches
  <1> QED
    BY <1>2, <1>3, <1>4, <1>5 DEF CacheInv

\* One thread moves, the others stay right.
LEMMA ThreadMoves ==
  ASSUME CacheInv, NEW t \in Threads, NEW y \in ThreadState,
         th' = [th EXCEPT ![t] = y],
         UNCHANGED <<versions, published, writeGen>>, schemaGen' \in Nat,
         scans'.gen \in Nat, scans.gen <= scans'.gen,
         ThreadOK(versions, published, scans'.gen, y)
  PROVE  StoreOK' /\ ThreadsTyped' /\ ThreadsOK'
  <1>1. StoreOK'
    BY DEF CacheInv, StoreOK
  <1>2. ThreadsTyped'
    BY DEF CacheInv, ThreadsTyped
  <1>3. ThreadsOK'
    <2> SUFFICES ASSUME NEW u \in Threads PROVE ThreadOK(versions, published, scans'.gen, th'[u])
      BY DEF ThreadsOK
    <2>0. th[u] \in ThreadState /\ ThreadOK(versions, published, scans.gen, th[u])
      BY DEF CacheInv, ThreadsTyped, ThreadsOK
    <2>1. published \in Nat /\ scans.gen \in Nat /\ Grown(versions, versions)
      BY SameVersions DEF CacheInv, StoreOK, ScansOK
    <2>2. CASE u = t
      BY <2>2 DEF CacheInv, ThreadsTyped
    <2>3. CASE u # t
      <3>1. th'[u] = th[u]
        BY <2>3 DEF CacheInv, ThreadsTyped
      <3>2. ThreadOK(versions, published, scans'.gen, th[u])
        BY <2>0, <2>1, ThreadGrown
      <3> QED
        BY <3>1, <3>2
    <2> QED
      BY <2>2, <2>3
  <1> QED
    BY <1>1, <1>2, <1>3

\* A step that leaves the mutex alone, and neither enters nor leaves it.
LEMMA LockStays ==
  ASSUME CacheInv, NEW t \in Threads, NEW y, th' = [th EXCEPT ![t] = y], lock' = lock,
         th[t].pc \notin {"read", "readBits"}, y.pc \notin {"read", "readBits"}
  PROVE  LockOK'
  BY DEF CacheInv, ThreadsTyped, LockOK

\* A step that changes nothing but the locals of its thread.
LEMMA LocalStep ==
  ASSUME CacheInv, NEW t \in Threads, NEW y \in ThreadState, th' = [th EXCEPT ![t] = y],
         UNCHANGED <<versions, published, writeGen, caches>>, schemaGen' \in Nat,
         th[t].pc \notin {"read", "readBits"}, y.pc \notin {"read", "readBits"},
         ThreadOK(versions, published, scans.gen, y)
  PROVE  CacheInv'
  <1>1. /\ published \in Nat /\ published <= published' /\ scans'.gen \in Nat /\ scans.gen <= scans'.gen
        /\ scans' = scans /\ fan' = fan /\ memo' = memo /\ plans' = plans /\ lock' = lock
    BY DEF CacheInv, StoreOK, ScansOK, caches
  <1>2. StoreOK' /\ ThreadsTyped' /\ ThreadsOK'
    BY <1>1, ThreadMoves
  <1>3. Grown(versions, versions') /\ published' \in Nat
    BY <1>1, SameVersions DEF CacheInv
  <1>4. ScansOK' /\ FanOK' /\ MemoOK' /\ PlansOK'
    BY <1>1, <1>3, CachesGrown
  <1>5. LockOK'
    BY <1>1, LockStays
  <1> QED
    BY <1>2, <1>4, <1>5 DEF CacheInv

\* A thread between calls promises nothing.
LEMMA IdleOK ==
  ASSUME NEW vs, NEW pub, NEW sg
  PROVE  IdleThread \in ThreadState /\ ThreadOK(vs, pub, sg, IdleThread) /\ IdleThread.pc = "idle"
  <1>1. IdleThread.pc = "idle"
    BY DEF IdleThread
  <1>2. ThreadOK(vs, pub, sg, IdleThread)
    BY <1>1 DEF ThreadOK, ScanOK, TableOK, StatementOK
  <1>3. /\ None \in PlanKeys \cup {None} /\ None \in Queries \cup {None} /\ None \in BOOLEAN \cup {None}
        /\ None \in (SUBSET Nodes) \cup Verdicts \cup BOOLEAN \cup {None}
    OBVIOUS
  <1>4. IdleThread \in ThreadState
    BY <1>3 DEF IdleThread, ThreadState
  <1> QED
    BY <1>1, <1>2, <1>4

\* nodes_by_label and nodes_have_label begin.
LEMMA StartCallKeeps ==
  ASSUME CacheInv, NEW t \in Threads, NEW pc \in {"scan", "scanBits"}, StartCall(t, pc)
  PROVE  CacheInv'
  <1> DEFINE y == [IdleThread EXCEPT !.pc = pc, !.from = published]
  <1>0. published \in Nat \ {0} /\ schemaGen \in Nat
    BY DEF CacheInv, StoreOK
  <1>1. y \in ThreadState /\ y.pc = pc /\ y.from = published
    <2>1. IdleThread \in ThreadState
      BY IdleOK
    <2> QED
      BY <1>0, <2>1 DEF ThreadState
  <1>2. /\ th' = [th EXCEPT ![t] = y] /\ UNCHANGED <<store, caches>> /\ th[t].pc = "idle"
    BY DEF StartCall, Call
  <1> HIDE DEF y
  <1>3. ThreadOK(versions, published, scans.gen, y)
    BY <1>0, <1>1 DEF ThreadOK, ScanOK, TableOK, StatementOK
  <1> QED
    BY <1>0, <1>1, <1>2, <1>3, LocalStep DEF store

\* The caller takes its answer.
LEMMA ReturnKeeps ==
  ASSUME CacheInv, NEW t \in Threads, Return(t)
  PROVE  CacheInv'
  <1>0. schemaGen \in Nat
    BY DEF CacheInv, StoreOK
  <1>1. /\ th' = [th EXCEPT ![t] = IdleThread] /\ UNCHANGED <<store, caches>>
        /\ th[t].pc \in {"members", "bits", "run"}
    BY DEF Return
  <1> QED
    BY <1>0, <1>1, IdleOK, LocalStep DEF store

\* Aligning the label scans to a new generation empties them.
LEMMA AlignKeeps ==
  ASSUME CacheInv, NEW t \in Threads, Align(t)
  PROVE  CacheInv'
  <1> DEFINE y == [th[t] EXCEPT !.pc = IF th[t].pc = "scan" THEN "read" ELSE "readBits"]
  <1>0. /\ published \in Nat \ {0} /\ writeGen = published /\ schemaGen \in Nat /\ scans.gen \in Nat
        /\ scans.gen <= published /\ th[t] \in ThreadState
        /\ ThreadOK(versions, published, scans.gen, th[t])
    BY DEF CacheInv, StoreOK, ScansOK, ThreadsTyped, ThreadsOK
  <1>1. /\ th[t].pc \in {"scan", "scanBits"} /\ lock = None /\ lock' = t
        /\ scans' = IF scans.gen = writeGen THEN scans
                    ELSE [gen |-> writeGen, members |-> None, bits |-> None]
        /\ th' = [th EXCEPT ![t] = y]
        /\ UNCHANGED <<store, fan, memo, plans>>
    BY DEF Align, Goto
  <1>2. scans'.gen = published /\ ScansOK'
    <2>1. CASE scans.gen = writeGen
      BY <1>0, <1>1, <2>1 DEF store, ScansOK, CacheInv
    <2>2. CASE scans.gen # writeGen
      <3>1. scans' = [gen |-> published, members |-> None, bits |-> None]
        BY <1>0, <1>1, <2>2
      <3>2. scans'.gen = published /\ scans'.members = None
        BY <3>1
      <3>3. scans' \in [gen: Nat, members: (SUBSET Nodes) \cup {None}, bits: (SUBSET Nodes) \cup {None}]
        BY <1>0, <3>1
      <3>4. published' = published
        BY <1>1 DEF store
      <3> QED
        BY <1>0, <3>2, <3>3, <3>4 DEF ScansOK
    <2> QED
      BY <2>1, <2>2
  <1>3. y \in ThreadState /\ y.pc \in {"read", "readBits"} /\ y.from = th[t].from
    BY <1>0, <1>1 DEF ThreadState
  <1> HIDE DEF y
  <1>4. ThreadOK(versions, published, scans'.gen, y)
    BY <1>0, <1>1, <1>2, <1>3 DEF ThreadOK, ScanOK, TableOK, StatementOK
  <1>5. StoreOK' /\ ThreadsTyped' /\ ThreadsOK'
    BY <1>0, <1>1, <1>2, <1>3, <1>4, ThreadMoves DEF store
  <1>6. FanOK' /\ MemoOK' /\ PlansOK'
    BY <1>0, <1>1, CachesGrown, SameVersions DEF store, CacheInv
  <1>7. LockOK'
    <2>1. \A u \in Threads : u # t => th'[u] = th[u]
      BY <1>1 DEF CacheInv, ThreadsTyped
    <2>2. th'[t] = y
      BY <1>1 DEF CacheInv, ThreadsTyped
    <2>3. \A u \in Threads : th[u].pc \notin {"read", "readBits"}
      BY <1>1, ReadCachesAssumption DEF CacheInv, LockOK
    <2> QED
      BY <1>1, <1>3, <2>1, <2>2, <2>3 DEF LockOK
  <1> QED
    BY <1>2, <1>5, <1>6, <1>7 DEF CacheInv

\* A hit or a scan under the mutex, which is released.
LEMMA ReadMembersKeeps ==
  ASSUME CacheInv, NEW t \in Threads, ReadMembers(t)
  PROVE  CacheInv'
  <1> DEFINE ids == IF scans.members # None THEN scans.members ELSE db.members
             pc == IF th[t].pc = "read" THEN "members" ELSE "file"
             y == [th[t] EXCEPT !.got = ids, !.pc = pc]
  <1>0. /\ published \in Nat \ {0} /\ schemaGen \in Nat /\ scans.gen \in Nat
        /\ scans.gen <= published /\ th[t] \in ThreadState
        /\ ThreadOK(versions, published, scans.gen, th[t])
        /\ versions \in Seq(Stored) /\ published <= Len(versions) /\ Len(versions) \in Nat
    BY DEF CacheInv, StoreOK, ScansOK, ThreadsTyped, ThreadsOK
  <1>1. /\ th[t].pc \in {"read", "readBits"} /\ lock' = None
        /\ scans' = [scans EXCEPT !.members = ids]
        /\ UNCHANGED <<store, fan, memo, plans>>
    BY DEF ReadMembers
  <1>2. th' = [th EXCEPT ![t] = y]
    BY DEF ReadMembers
  <1>3. th[t].from \in 1..scans.gen /\ th[t].from \in Nat
    BY <1>0, <1>1 DEF ThreadOK, ScanOK, ThreadState
  <1>4. db \in Stored
    BY <1>0 DEF db
  <1>5. ids \in (SUBSET Nodes) \cup {None} /\ MembersSince(versions, scans.gen, ids)
    <2>1. MembersSince(versions, scans.gen, db.members)
      BY <1>0, <1>3, SinceNow DEF db
    <2> QED
      BY <1>4, <2>1 DEF CacheInv, ScansOK, Stored
  <1> HIDE DEF ids
  <1>6. scans'.gen \in Nat /\ scans.gen <= scans'.gen /\ scans'.gen = scans.gen /\ ScansOK'
    <2>1. scans \in [gen: Nat, members: (SUBSET Nodes) \cup {None}, bits: (SUBSET Nodes) \cup {None}]
      BY DEF CacheInv, ScansOK
    <2>2. /\ scans' \in [gen: Nat, members: (SUBSET Nodes) \cup {None}, bits: (SUBSET Nodes) \cup {None}]
          /\ scans'.gen = scans.gen /\ scans'.members = ids
      BY <1>1, <1>5, <2>1
    <2>3. scans.gen # 0 /\ versions' = versions /\ published' = published
      BY <1>1, <1>3 DEF store
    <2> QED
      BY <1>0, <1>5, <2>2, <2>3 DEF ScansOK
  <1>7. y \in ThreadState /\ y.pc = pc /\ y.from = th[t].from /\ y.got = ids
    <2>1. ids \in (SUBSET Nodes) \cup Verdicts \cup BOOLEAN \cup {None} /\ pc \in {"members", "file"}
      BY <1>5
    <2> HIDE DEF pc
    <2> QED
      BY ZenonT(60), <1>0, <2>1 DEF ThreadState
  <1> HIDE DEF y
  <1>8. MembersSince(versions, y.from, ids)
    BY <1>0, <1>3, <1>5, <1>7, SinceEarlier
  <1>9. ThreadOK(versions, published, scans'.gen, y)
    BY <1>0, <1>3, <1>5, <1>7, <1>8 DEF ThreadOK, ScanOK, TableOK, StatementOK
  <1>10. StoreOK' /\ ThreadsTyped' /\ ThreadsOK'
    BY <1>0, <1>1, <1>2, <1>6, <1>7, <1>9, ThreadMoves DEF store
  <1>11. FanOK' /\ MemoOK' /\ PlansOK'
    BY <1>0, <1>1, CachesGrown, SameVersions DEF store, CacheInv
  <1>12. LockOK'
    <2>1. \A u \in Threads : u # t => th'[u] = th[u]
      BY <1>2 DEF CacheInv, ThreadsTyped
    <2>2. th'[t] = y
      BY <1>2 DEF CacheInv, ThreadsTyped
    <2>3. lock = t
      BY <1>1 DEF CacheInv, LockOK
    <2>4. \A u \in Threads : u # t => th[u].pc \notin {"read", "readBits"}
      BY <2>3 DEF CacheInv, LockOK
    <2> QED
      BY <1>1, <1>7, <2>1, <2>2, <2>4, ReadCachesAssumption DEF LockOK
  <1> QED
    BY <1>6, <1>10, <1>11, <1>12 DEF CacheInv

\* The bitmap is filed without a look at the generation.
LEMMA FileBitmapKeeps ==
  ASSUME CacheInv, NEW t \in Threads, FileBitmap(t)
  PROVE  CacheInv'
  <1> DEFINE bits == IF scans.bits # None THEN scans.bits ELSE th[t].got
             y == [th[t] EXCEPT !.got = bits, !.pc = "bits"]
  <1>0. /\ published \in Nat \ {0} /\ schemaGen \in Nat /\ scans.gen \in Nat
        /\ th[t] \in ThreadState /\ ThreadOK(versions, published, scans.gen, th[t])
    BY DEF CacheInv, StoreOK, ScansOK, ThreadsTyped, ThreadsOK
  <1>1. /\ th[t].pc = "file" /\ scans' = [scans EXCEPT !.bits = bits]
        /\ th' = [th EXCEPT ![t] = y] /\ UNCHANGED <<store, lock, fan, memo, plans>>
    BY DEF FileBitmap
  <1>2. bits \in (SUBSET Nodes) \cup {None}
    BY <1>0, <1>1 DEF ThreadOK, ScanOK, CacheInv, ScansOK
  <1> HIDE DEF bits
  <1>3. scans'.gen \in Nat /\ scans.gen <= scans'.gen /\ scans'.gen = scans.gen /\ ScansOK'
    BY <1>0, <1>1, <1>2 DEF store, ScansOK, CacheInv
  <1>4. y \in ThreadState /\ y.pc = "bits"
    BY <1>0, <1>2 DEF ThreadState
  <1> HIDE DEF y
  <1>5. ThreadOK(versions, published, scans'.gen, y)
    BY <1>4 DEF ThreadOK, ScanOK, TableOK, StatementOK
  <1>6. StoreOK' /\ ThreadsTyped' /\ ThreadsOK'
    BY <1>0, <1>1, <1>3, <1>4, <1>5, ThreadMoves DEF store
  <1>7. FanOK' /\ MemoOK' /\ PlansOK'
    BY <1>0, <1>1, CachesGrown, SameVersions DEF store, CacheInv
  <1>8. LockOK'
    BY <1>1, <1>4, LockStays
  <1> QED
    BY <1>3, <1>6, <1>7, <1>8 DEF CacheInv

\* materialize_edge_statistics begins: the schema generation moves.
LEMMA MaterializeKeeps ==
  ASSUME CacheInv, NEW t \in Threads, Materialize(t)
  PROVE  CacheInv'
  <1> DEFINE y == [th[t] EXCEPT !.pc = "check"]
  <1>0. th[t] \in ThreadState /\ schemaGen \in Nat
    BY DEF CacheInv, StoreOK, ThreadsTyped
  <1>1. /\ th[t].pc = "idle" /\ th' = [th EXCEPT ![t] = y] /\ schemaGen' = schemaGen + 1
        /\ UNCHANGED <<versions, published, writeGen, caches>>
    BY DEF Materialize, Call, Goto
  <1>2. y \in ThreadState /\ y.pc = "check"
    BY <1>0 DEF ThreadState
  <1> HIDE DEF y
  <1>3. ThreadOK(versions, published, scans.gen, y)
    BY <1>2 DEF ThreadOK, ScanOK, TableOK, StatementOK
  <1>4. schemaGen' \in Nat
    BY <1>0, <1>1
  <1> QED
    BY <1>1, <1>2, <1>3, <1>4, LocalStep

\* The generation is captured before the build.
LEMMA CheckTableKeeps ==
  ASSUME CacheInv, NEW t \in Threads, CheckTable(t)
  PROVE  CacheInv'
  <1> DEFINE z == [th[t] EXCEPT !.pc = "build", !.gen = writeGen]
  <1>0. /\ th[t] \in ThreadState /\ schemaGen \in Nat /\ writeGen = published /\ published \in Nat \ {0}
    BY DEF CacheInv, StoreOK, ThreadsTyped
  <1>1. /\ th[t].pc = "check" /\ UNCHANGED <<store, caches>>
        /\ th' = [th EXCEPT ![t] = IdleThread] \/ th' = [th EXCEPT ![t] = z]
    BY DEF CheckTable
  <1>2. z \in ThreadState /\ z.pc = "build" /\ z.gen = published
    BY <1>0 DEF ThreadState
  <1> HIDE DEF z
  <1>3. ThreadOK(versions, published, scans.gen, z)
    BY <1>0, <1>2 DEF ThreadOK, ScanOK, TableOK, StatementOK
  <1>4. CASE th' = [th EXCEPT ![t] = z]
    BY <1>0, <1>1, <1>2, <1>3, <1>4, LocalStep DEF store
  <1>5. CASE th' = [th EXCEPT ![t] = IdleThread]
    BY <1>0, <1>1, <1>5, IdleOK, LocalStep DEF store
  <1> QED
    BY <1>1, <1>4, <1>5

\* The build reads what is committed now.
LEMMA BuildTableKeeps ==
  ASSUME CacheInv, NEW t \in Threads, BuildTable(t)
  PROVE  CacheInv'
  <1> DEFINE y == [th[t] EXCEPT !.pc = "install", !.snap = db.edge]
  <1>0. /\ th[t] \in ThreadState /\ ThreadOK(versions, published, scans.gen, th[t])
        /\ schemaGen \in Nat /\ published \in Nat \ {0} /\ published <= Len(versions)
        /\ Len(versions) \in Nat /\ versions \in Seq(Stored)
    BY DEF CacheInv, StoreOK, ThreadsTyped, ThreadsOK
  <1>1. /\ th[t].pc = "build" /\ UNCHANGED <<store, caches>> /\ th' = [th EXCEPT ![t] = y]
    BY DEF BuildTable
  <1>2. db.edge \in BOOLEAN
    <2>1. db \in Stored
      BY <1>0 DEF db
    <2> QED
      BY <2>1 DEF Stored
  <1>3. y \in ThreadState /\ y.pc = "install" /\ y.gen = th[t].gen /\ y.snap = db.edge
    BY <1>0, <1>2 DEF ThreadState
  <1> HIDE DEF y
  <1>4. th[t].gen \in 1..published
    BY <1>0, <1>1 DEF ThreadOK, TableOK
  <1>5. EdgeSince(versions, y.gen, y.snap)
    BY <1>0, <1>3, <1>4, SinceNow DEF db
  <1>6. ThreadOK(versions, published, scans.gen, y)
    BY <1>2, <1>3, <1>4, <1>5 DEF ThreadOK, ScanOK, TableOK, StatementOK
  <1> QED
    BY <1>0, <1>1, <1>3, <1>6, LocalStep DEF store

\* The newer table is kept.
LEMMA InstallTableKeeps ==
  ASSUME CacheInv, NEW t \in Threads, InstallTable(t)
  PROVE  CacheInv'
  <1> DEFINE f == [gen |-> th[t].gen, has |-> th[t].snap]
  <1>0. /\ th[t] \in ThreadState /\ ThreadOK(versions, published, scans.gen, th[t])
        /\ schemaGen \in Nat /\ published \in Nat \ {0} /\ scans.gen \in Nat
    BY DEF CacheInv, StoreOK, ThreadsTyped, ThreadsOK, ScansOK
  <1>1. /\ th[t].pc = "install" /\ UNCHANGED <<store, scans, lock, memo, plans>>
        /\ th' = [th EXCEPT ![t] = IdleThread] /\ (fan' = fan \/ fan' = f)
    BY DEF InstallTable
  <1>2. th[t].gen \in 1..published /\ th[t].snap \in BOOLEAN /\ EdgeSince(versions, th[t].gen, th[t].snap)
    BY <1>0, <1>1 DEF ThreadOK, TableOK
  <1>3. f \in [gen: Nat, has: BOOLEAN] /\ f.gen = th[t].gen /\ f.has = th[t].snap
    BY <1>0, <1>2 DEF ThreadState
  <1> HIDE DEF f
  <1>4. Grown(versions, versions') /\ published' = published /\ versions' = versions
    BY <1>1, SameVersions DEF CacheInv, store
  <1>5. FanOK'
    <2>1. CASE fan' = fan
      BY <1>0, <1>4, <2>1, CachesGrown
    <2>2. CASE fan' = f
      BY <1>2, <1>3, <1>4, <2>2 DEF FanOK
    <2> QED
      BY <1>1, <2>1, <2>2
  <1>6. ScansOK' /\ MemoOK' /\ PlansOK'
    BY <1>0, <1>1, <1>4, CachesGrown
  <1>7. StoreOK' /\ ThreadsTyped' /\ ThreadsOK'
    <2>1. scans' = scans /\ scans'.gen \in Nat /\ scans.gen <= scans'.gen /\ schemaGen' \in Nat
      BY <1>0, <1>1 DEF store
    <2> QED
      BY <1>1, <2>1, IdleOK, ThreadMoves DEF store
  <1>8. LockOK'
    BY <1>1, IdleOK, LockStays
  <1> QED
    BY <1>5, <1>6, <1>7, <1>8 DEF CacheInv

\* A statement takes its generation first.
LEMMA StartStatementKeeps ==
  ASSUME CacheInv, NEW t \in Threads, NEW q \in Queries, NEW r \in BOOLEAN, StartStatement(t, q, r)
  PROVE  CacheInv'
  <1> DEFINE k == [gen |-> writeGen, sgen |-> 0, rowOnly |-> r]
             y == [IdleThread EXCEPT !.pc = "key", !.from = published, !.query = q, !.key = k]
  <1>0. /\ schemaGen \in Nat /\ published \in Nat \ {0} /\ writeGen = published
    BY DEF CacheInv, StoreOK
  <1>1. th[t].pc = "idle" /\ th' = [th EXCEPT ![t] = y] /\ UNCHANGED <<store, caches>>
    BY DEF StartStatement, Call
  <1>2. k \in PlanKeys /\ k.gen = published
    BY <1>0 DEF PlanKeys
  <1> HIDE DEF k
  <1>3. y \in ThreadState /\ y.pc = "key" /\ y.from = published /\ y.query = q /\ y.key = k
    <2>1. IdleThread \in ThreadState
      BY IdleOK
    <2> QED
      BY <1>0, <1>2, <2>1 DEF ThreadState
  <1> HIDE DEF y
  <1>4. ThreadOK(versions, published, scans.gen, y)
    BY <1>0, <1>2, <1>3 DEF ThreadOK, ScanOK, TableOK, StatementOK
  <1> QED
    BY <1>0, <1>1, <1>3, <1>4, LocalStep DEF store

\* schema_has_edge captures the generation.
LEMMA CaptureGenKeeps ==
  ASSUME CacheInv, NEW t \in Threads, CaptureGen(t)
  PROVE  CacheInv'
  <1> DEFINE y == [th[t] EXCEPT !.pc = "open", !.gen = writeGen]
  <1>0. /\ th[t] \in ThreadState /\ ThreadOK(versions, published, scans.gen, th[t])
        /\ schemaGen \in Nat /\ published \in Nat \ {0} /\ writeGen = published
    BY DEF CacheInv, StoreOK, ThreadsTyped, ThreadsOK
  <1>1. th[t].pc = "ask" /\ th' = [th EXCEPT ![t] = y] /\ UNCHANGED <<store, caches>>
    BY DEF CaptureGen
  <1>2. /\ y \in ThreadState /\ y.pc = "open" /\ y.gen = published /\ y.from = th[t].from
        /\ y.key = th[t].key /\ y.query = th[t].query /\ y.got = th[t].got
    BY <1>0 DEF ThreadState
  <1> HIDE DEF y
  <1>3. /\ y.key \in PlanKeys /\ y.query \in Queries /\ y.from \in 1..y.key.gen /\ y.key.gen <= published
        /\ y.query = "hop" /\ y.key.rowOnly = FALSE /\ y.got = "undecided"
    BY <1>0, <1>1, <1>2 DEF ThreadOK, StatementOK
  <1>4. y.gen \in y.key.gen..published
    BY <1>0, <1>2, <1>3 DEF PlanKeys
  <1>5. ThreadOK(versions, published, scans.gen, y)
    BY <1>2, <1>3, <1>4 DEF ThreadOK, ScanOK, TableOK, StatementOK
  <1> QED
    BY <1>0, <1>1, <1>2, <1>5, LocalStep DEF store

\* The read transaction sees what is committed now.
LEMMA OpenTxnKeeps ==
  ASSUME CacheInv, NEW t \in Threads, OpenTxn(t)
  PROVE  CacheInv'
  <1>1. PICK known \in BOOLEAN :
            th' = [th EXCEPT ![t] = [@ EXCEPT !.pc = IF known THEN "table" ELSE "plan", !.snap = db.edge]]
    BY DEF OpenTxn
  <1> DEFINE pc == IF known THEN "table" ELSE "plan"
             y == [th[t] EXCEPT !.pc = pc, !.snap = db.edge]
  <1>0. /\ th[t] \in ThreadState /\ ThreadOK(versions, published, scans.gen, th[t])
        /\ schemaGen \in Nat /\ published \in Nat \ {0} /\ published <= Len(versions)
        /\ Len(versions) \in Nat /\ versions \in Seq(Stored)
    BY DEF CacheInv, StoreOK, ThreadsTyped, ThreadsOK
  <1>2. th[t].pc = "open" /\ th' = [th EXCEPT ![t] = y] /\ UNCHANGED <<store, caches>>
    BY <1>1 DEF OpenTxn
  <1>3. db \in Stored
    BY <1>0 DEF db
  <1>4. db.edge \in BOOLEAN /\ pc \in {"table", "plan"}
    BY <1>3 DEF Stored
  <1> HIDE DEF pc
  <1>5. /\ y \in ThreadState /\ y.pc = pc /\ y.gen = th[t].gen /\ y.from = th[t].from
        /\ y.key = th[t].key /\ y.query = th[t].query /\ y.got = th[t].got /\ y.snap = db.edge
    BY <1>0, <1>4 DEF ThreadState
  <1> HIDE DEF y
  <1>6. /\ y.key \in PlanKeys /\ y.query \in Queries /\ y.from \in 1..y.key.gen /\ y.key.gen <= published
        /\ y.query = "hop" /\ y.key.rowOnly = FALSE /\ y.got = "undecided"
        /\ y.gen \in y.key.gen..published
    BY <1>0, <1>2, <1>5 DEF ThreadOK, StatementOK
  <1>7. EdgeSince(versions, y.gen, y.snap)
    <2>1. y.gen \in 1..Len(versions)
      BY <1>0, <1>6 DEF PlanKeys
    <2> QED
      BY <1>0, <1>5, <2>1, SinceNow DEF db
  <1>8. "undecided" \in Verdicts
    BY DEF Verdicts
  <1>9. ThreadOK(versions, published, scans.gen, y)
    BY <1>4, <1>5, <1>6, <1>7, <1>8 DEF ThreadOK, ScanOK, TableOK, StatementOK
  <1> QED
    BY <1>0, <1>2, <1>4, <1>5, <1>9, LocalStep DEF store

\* What a statement that is asking about the schema knows.
LEMMA Asking ==
  ASSUME CacheInv, NEW t \in Threads, th[t].pc \in {"table", "memo", "probe", "memoize"}
  PROVE  /\ th[t] \in ThreadState /\ ThreadOK(versions, published, scans.gen, th[t])
         /\ schemaGen \in Nat /\ published \in Nat \ {0} /\ writeGen = published
         /\ published <= Len(versions) /\ Len(versions) \in Nat /\ versions \in Seq(Stored)
         /\ th[t].key \in PlanKeys /\ th[t].query = "hop" /\ th[t].key.rowOnly = FALSE
         /\ th[t].key.gen \in Nat \ {0} /\ th[t].key.gen <= published
         /\ th[t].gen \in Nat /\ th[t].gen \in th[t].key.gen..published
  <1>1. /\ th[t] \in ThreadState /\ ThreadOK(versions, published, scans.gen, th[t])
        /\ schemaGen \in Nat /\ published \in Nat \ {0} /\ writeGen = published
        /\ published <= Len(versions) /\ Len(versions) \in Nat /\ versions \in Seq(Stored)
    BY DEF CacheInv, StoreOK, ThreadsTyped, ThreadsOK
  <1>2. /\ th[t].key \in PlanKeys /\ th[t].query = "hop" /\ th[t].key.rowOnly = FALSE
        /\ th[t].from \in 1..th[t].key.gen /\ th[t].key.gen <= published
        /\ th[t].gen \in th[t].key.gen..published
    BY <1>1 DEF ThreadOK, StatementOK
  <1>3. th[t].key.gen \in Nat /\ th[t].gen \in Nat
    BY <1>1, <1>2 DEF PlanKeys, ThreadState
  <1> QED
    BY <1>1, <1>2, <1>3

\* A definite answer lets the planner go on.
LEMMA AnswerOK ==
  ASSUME CacheInv, NEW t \in Threads, th[t].pc \in {"table", "memo", "probe", "memoize"},
         NEW v \in Verdicts, v = "no" => NoEdgeSince(versions, th[t].key.gen),
         NEW y, y = [th[t] EXCEPT !.pc = "plan", !.got = v]
  PROVE  y \in ThreadState /\ y.pc = "plan" /\ ThreadOK(versions, published, scans.gen, y)
  <1>1. /\ y \in ThreadState /\ y.pc = "plan" /\ y.got = v /\ y.from = th[t].from
        /\ y.key = th[t].key /\ y.query = th[t].query
    BY Asking DEF ThreadState
  <1>2. y.key \in PlanKeys /\ y.query \in Queries /\ y.from \in 1..y.key.gen /\ y.key.gen <= published
    BY <1>1, Asking DEF ThreadOK, StatementOK
  <1>3. y.got = "no" => CutOK(versions, y.key, y.query)
    BY <1>1, Asking DEF CutOK
  <1> QED
    BY <1>1, <1>2, <1>3 DEF ThreadOK, ScanOK, TableOK, StatementOK

\* A question passed on keeps its locals.
LEMMA PassedOn ==
  ASSUME CacheInv, NEW t \in Threads, th[t].pc \in {"table", "memo"},
         NEW pc \in {"memo", "probe"}, NEW y, y = [th[t] EXCEPT !.pc = pc]
  PROVE  y \in ThreadState /\ y.pc = pc /\ ThreadOK(versions, published, scans.gen, y)
  <1>1. /\ y \in ThreadState /\ y.pc = pc /\ y.got = th[t].got /\ y.from = th[t].from
        /\ y.gen = th[t].gen /\ y.snap = th[t].snap /\ y.key = th[t].key /\ y.query = th[t].query
    BY Asking DEF ThreadState
  <1>2. /\ y.key \in PlanKeys /\ y.query \in Queries /\ y.from \in 1..y.key.gen /\ y.key.gen <= published
        /\ y.query = "hop" /\ y.key.rowOnly = FALSE /\ y.got = "undecided"
        /\ y.gen \in y.key.gen..published /\ y.snap \in BOOLEAN /\ EdgeSince(versions, y.gen, y.snap)
    BY <1>1, Asking DEF ThreadOK, StatementOK
  <1> QED
    BY <1>1, <1>2 DEF ThreadOK, ScanOK, TableOK, StatementOK

\* The table answers only at its own generation.
LEMMA AskTableKeeps ==
  ASSUME CacheInv, NEW t \in Threads, AskTable(t)
  PROVE  CacheInv'
  <1>1. th[t].pc = "table" /\ UNCHANGED <<store, caches>>
    BY DEF AskTable
  <1>2. schemaGen' \in Nat
    BY <1>1, Asking DEF store
  <1>3. CASE TableCurrent
    <2> DEFINE v == IF fan.has THEN "yes" ELSE "no"
               y == [th[t] EXCEPT !.pc = "plan", !.got = v]
    <2>1. th' = [th EXCEPT ![t] = y]
      BY <1>3 DEF AskTable
    <2>2. fan.has \in BOOLEAN /\ EdgeSince(versions, published, fan.has)
      BY <1>1, <1>3, Asking DEF TableCurrent, CacheInv, FanOK
    <2>3. v \in Verdicts
      BY DEF Verdicts
    <2>4. v = "no" => NoEdgeSince(versions, th[t].key.gen)
      <3>1. v = "no" => NoEdgeSince(versions, published)
        BY <2>2 DEF NoEdgeSince
      <3> HIDE DEF v
      <3> QED
        BY <1>1, <3>1, Asking, SinceEarlier
    <2> HIDE DEF v
    <2>5. y \in ThreadState /\ y.pc = "plan" /\ ThreadOK(versions, published, scans.gen, y)
      BY <1>1, <2>3, <2>4, AnswerOK
    <2> HIDE DEF y
    <2> QED
      BY <1>1, <1>2, <2>1, <2>5, LocalStep DEF store
  <1>4. CASE ~TableCurrent
    <2> DEFINE y == [th[t] EXCEPT !.pc = "memo"]
    <2>1. th' = [th EXCEPT ![t] = y]
      BY <1>4 DEF AskTable
    <2>2. y \in ThreadState /\ y.pc = "memo" /\ ThreadOK(versions, published, scans.gen, y)
      BY <1>1, PassedOn
    <2> HIDE DEF y
    <2> QED
      BY <1>1, <1>2, <2>1, <2>2, LocalStep DEF store
  <1> QED
    BY <1>3, <1>4

\* The memo answers only at its own generation.
LEMMA AskMemoKeeps ==
  ASSUME CacheInv, NEW t \in Threads, AskMemo(t)
  PROVE  CacheInv'
  <1>1. th[t].pc = "memo" /\ UNCHANGED <<store, caches>>
    BY DEF AskMemo
  <1>2. schemaGen' \in Nat
    BY <1>1, Asking DEF store
  <1>3. CASE memo.gen = writeGen /\ memo.verdict # None
    <2> DEFINE y == [th[t] EXCEPT !.pc = "plan", !.got = memo.verdict]
    <2>1. th' = [th EXCEPT ![t] = y]
      BY <1>3 DEF AskMemo
    <2>2. memo.verdict \in Verdicts /\ (memo.verdict = "no" => NoEdgeSince(versions, published))
      BY <1>1, <1>3, Asking DEF CacheInv, MemoOK
    <2>3. memo.verdict = "no" => NoEdgeSince(versions, th[t].key.gen)
      BY <1>1, <2>2, Asking, SinceEarlier
    <2>4. y \in ThreadState /\ y.pc = "plan" /\ ThreadOK(versions, published, scans.gen, y)
      BY <1>1, <2>2, <2>3, AnswerOK
    <2> HIDE DEF y
    <2> QED
      BY <1>1, <1>2, <2>1, <2>4, LocalStep DEF store
  <1>4. CASE ~(memo.gen = writeGen /\ memo.verdict # None)
    <2> DEFINE y == [th[t] EXCEPT !.pc = "probe"]
    <2>1. th' = [th EXCEPT ![t] = y]
      BY <1>4 DEF AskMemo
    <2>2. y \in ThreadState /\ y.pc = "probe" /\ ThreadOK(versions, published, scans.gen, y)
      BY <1>1, PassedOn
    <2> HIDE DEF y
    <2> QED
      BY <1>1, <1>2, <2>1, <2>2, LocalStep DEF store
  <1> QED
    BY <1>3, <1>4

\* A probe speaks for its transaction.
LEMMA ProbeKeeps ==
  ASSUME CacheInv, NEW t \in Threads, Probe(t)
  PROVE  CacheInv'
  <1>1. th[t].pc = "probe" /\ UNCHANGED <<store, caches>>
    BY DEF Probe
  <1>2. PICK v \in {IF th[t].snap THEN "yes" ELSE "no", "undecided"} :
            th' = [th EXCEPT ![t] = [@ EXCEPT !.pc = "memoize", !.got = v]]
    BY DEF Probe
  <1> DEFINE y == [th[t] EXCEPT !.pc = "memoize", !.got = v]
  <1>3. th' = [th EXCEPT ![t] = y]
    BY <1>2
  <1>4. th[t].snap \in BOOLEAN /\ EdgeSince(versions, th[t].gen, th[t].snap)
    BY <1>1, Asking DEF ThreadOK, StatementOK
  <1>5. v \in Verdicts /\ (v = "no" => NoEdgeSince(versions, th[t].gen))
    <2>1. CASE v = "undecided"
      BY <2>1 DEF Verdicts
    <2>2. CASE th[t].snap = TRUE /\ v = "yes"
      BY <2>2 DEF Verdicts
    <2>3. CASE th[t].snap = FALSE /\ v = "no"
      BY <1>4, <2>3 DEF Verdicts, NoEdgeSince
    <2> QED
      BY <1>2, <1>4, <2>1, <2>2, <2>3
  <1>6. /\ y \in ThreadState /\ y.pc = "memoize" /\ y.got = v /\ y.from = th[t].from
        /\ y.gen = th[t].gen /\ y.key = th[t].key /\ y.query = th[t].query
    BY <1>1, <1>5, Asking DEF ThreadState
  <1> HIDE DEF y
  <1>7. /\ y.key \in PlanKeys /\ y.query \in Queries /\ y.from \in 1..y.key.gen /\ y.key.gen <= published
        /\ y.query = "hop" /\ y.key.rowOnly = FALSE /\ y.gen \in y.key.gen..published
    BY <1>1, <1>6, Asking DEF ThreadOK, StatementOK
  <1>8. ThreadOK(versions, published, scans.gen, y)
    BY <1>5, <1>6, <1>7 DEF ThreadOK, ScanOK, TableOK, StatementOK
  <1>9. schemaGen' \in Nat
    BY <1>1, Asking DEF store
  <1> QED
    BY <1>1, <1>3, <1>6, <1>8, <1>9, LocalStep DEF store

\* A verdict is filed only under the generation its probe began with.
LEMMA MemoizeKeeps ==
  ASSUME CacheInv, NEW t \in Threads, Memoize(t)
  PROVE  CacheInv'
  <1> DEFINE v == th[t].got
             y == [th[t] EXCEPT !.pc = "plan", !.got = v]
             m == [gen |-> writeGen, verdict |-> v]
  <1>1. /\ th[t].pc = "memoize" /\ UNCHANGED <<store, scans, lock, fan, plans>>
        /\ memo' = IF writeGen = th[t].gen THEN m ELSE memo
        /\ th' = [th EXCEPT ![t] = [@ EXCEPT !.pc = "plan"]]
    BY DEF Memoize, Goto
  <1>0. /\ schemaGen \in Nat /\ published \in Nat \ {0} /\ writeGen = published
        /\ versions \in Seq(Stored) /\ th[t].key.gen \in Nat /\ th[t].gen \in Nat
        /\ th[t].gen \in th[t].key.gen..published /\ scans.gen \in Nat
    BY <1>1, Asking DEF CacheInv, ScansOK
  <1>2. v \in Verdicts /\ (v = "no" => NoEdgeSince(versions, th[t].gen))
    BY <1>1, Asking DEF ThreadOK, StatementOK
  <1>3. v = "no" => NoEdgeSince(versions, th[t].key.gen)
    <2>1. th[t].key.gen <= th[t].gen
      BY <1>0
    <2> HIDE DEF v
    <2> QED
      BY <1>0, <1>2, <2>1, SinceEarlier
  <1>4. [th[t] EXCEPT !.pc = "plan"] = y
    BY <1>1, Asking DEF ThreadState
  <1>5. y \in ThreadState /\ y.pc = "plan" /\ ThreadOK(versions, published, scans.gen, y)
    BY <1>1, <1>2, <1>3, AnswerOK
  <1>6. th' = [th EXCEPT ![t] = y]
    BY <1>1, <1>4
  <1> HIDE DEF y, v
  <1>7. Grown(versions, versions') /\ published' = published /\ versions' = versions
    BY <1>1, SameVersions DEF CacheInv, store
  <1>8. MemoOK'
    <2>1. CASE writeGen = th[t].gen
      <3>1. memo' = m
        BY <1>1, <2>1
      <3>2. memo'.gen = writeGen /\ memo'.verdict = v
        BY <3>1
      <3>3. memo' \in [gen: Nat, verdict: Verdicts \cup {None}]
        BY <1>0, <1>2, <3>1
      <3>4. v = "no" => writeGen # 0 /\ NoEdgeSince(versions, writeGen)
        BY <1>0, <1>2, <2>1
      <3> QED
        BY <1>7, <3>2, <3>3, <3>4 DEF MemoOK
    <2>2. CASE writeGen # th[t].gen
      BY <1>0, <1>1, <1>7, <2>2, CachesGrown
    <2> QED
      BY <2>1, <2>2
  <1>9. published' \in Nat /\ published <= published'
    BY <1>0, <1>7
  <1>10. ScansOK' /\ FanOK' /\ PlansOK'
    BY <1>1, <1>7, <1>9, CachesGrown
  <1>11. scans' = scans /\ scans'.gen \in Nat /\ scans.gen <= scans'.gen /\ schemaGen' \in Nat
    BY <1>0, <1>1 DEF store
  <1>12. StoreOK' /\ ThreadsTyped' /\ ThreadsOK'
    BY <1>1, <1>5, <1>6, <1>11, ThreadMoves DEF store
  <1>13. LockOK'
    BY <1>1, <1>5, <1>6, LockStays
  <1> QED
    BY <1>8, <1>10, <1>12, <1>13 DEF CacheInv

\* What is left of a sequence without one of its elements.
LEMMA RemoveAtElements ==
  ASSUME NEW S, NEW s \in Seq(S), NEW i \in 1..Len(s), NEW r, r = RemoveAt(s, i)
  PROVE  /\ r \in Seq(S) /\ Len(r) = Len(s) - 1
         /\ \A k \in 1..Len(r) : \E j \in 1..Len(s) : r[k] = s[j]
  <1> DEFINE a == SubSeq(s, 1, i - 1)
             b == SubSeq(s, i + 1, Len(s))
  <1>1. a \in Seq(S) /\ Len(a) = i - 1 /\ \A k \in 1..Len(a) : a[k] = s[k]
    OBVIOUS
  <1>2. b \in Seq(S) /\ Len(b) = Len(s) - i /\ \A k \in 1..Len(b) : b[k] = s[i + k]
    OBVIOUS
  <1>3. r = a \o b
    BY DEF RemoveAt
  <1> HIDE DEF a, b
  <1>4. /\ r \in Seq(S) /\ Len(r) = Len(a) + Len(b)
        /\ \A k \in 1..Len(a) + Len(b) : r[k] = IF k <= Len(a) THEN a[k] ELSE b[k - Len(a)]
    <2>1. /\ a \o b \in Seq(S) /\ Len(a \o b) = Len(a) + Len(b)
          /\ \A k \in 1..Len(a) + Len(b) : (a \o b)[k] = IF k <= Len(a) THEN a[k] ELSE b[k - Len(a)]
      BY <1>1, <1>2, ConcatProperties, Zenon
    <2> QED
      BY <1>3, <2>1, Zenon
  <1>5. Len(s) \in Nat /\ Len(r) = Len(s) - 1
    BY <1>1, <1>2, <1>4
  <1>6. ASSUME NEW k \in 1..Len(r) PROVE \E j \in 1..Len(s) : r[k] = s[j]
    <2>1. CASE k <= Len(a)
      <3>1. r[k] = a[k] /\ a[k] = s[k]
        BY <1>1, <1>4, <1>5, <2>1
      <3> QED
        BY <1>5, <3>1
    <2>2. CASE ~(k <= Len(a))
      <3>0. k \in 1..Len(a) + Len(b) /\ k - Len(a) \in 1..Len(b)
        <4>1. Len(r) = Len(a) + Len(b) /\ Len(a) \in Nat /\ Len(b) \in Nat
          BY <1>1, <1>2, <1>4
        <4> QED
          BY <2>2, <4>1
      <3>1. k - Len(a) \in 1..Len(b) /\ r[k] = b[k - Len(a)]
        BY <1>4, <2>2, <3>0, Zenon
      <3>2. b[k - Len(a)] = s[i + (k - Len(a))]
        BY <1>2, <3>1
      <3>3. i + (k - Len(a)) \in 1..Len(s)
        BY <1>1, <1>2, <1>5, <3>1
      <3> QED
        BY <3>1, <3>2, <3>3
    <2> QED
      BY <2>1, <2>2
  <1> QED
    BY <1>4, <1>5, <1>6

\* Plan caches stay right when an entry goes and when a right one comes.
LEMMA EntriesRemoved ==
  ASSUME NEW vs, NEW cache \in Seq(Entry), EntriesOK(vs, cache), NEW i \in 1..Len(cache),
         NEW r, r = RemoveAt(cache, i)
  PROVE  r \in Seq(Entry) /\ Len(r) = Len(cache) - 1 /\ EntriesOK(vs, r)
  <1>1. /\ r \in Seq(Entry) /\ Len(r) = Len(cache) - 1
        /\ \A k \in 1..Len(r) : \E j \in 1..Len(cache) : r[k] = cache[j]
    BY RemoveAtElements
  <1> QED
    BY <1>1 DEF EntriesOK

\* Appending a right entry.
LEMMA EntriesAppended ==
  ASSUME NEW vs, NEW cache \in Seq(Entry), EntriesOK(vs, cache),
         NEW e \in Entry, e.pruned = TRUE => CutOK(vs, e.key, e.query),
         NEW r, r = Append(cache, e)
  PROVE  r \in Seq(Entry) /\ Len(r) = Len(cache) + 1 /\ EntriesOK(vs, r)
  <1>1. /\ r \in Seq(Entry) /\ Len(r) = Len(cache) + 1 /\ Len(cache) \in Nat
        /\ \A k \in 1..Len(r) : r[k] = IF k <= Len(cache) THEN cache[k] ELSE e
    OBVIOUS
  <1> QED
    BY <1>1 DEF EntriesOK

\* The oldest entry of a full cache goes.
LEMMA EntriesEvicted ==
  ASSUME NEW vs, NEW cache \in Seq(Entry), EntriesOK(vs, cache), Len(cache) <= Capacity,
         NEW r, r = Evict(cache)
  PROVE  r \in Seq(Entry) /\ Len(r) < Capacity /\ EntriesOK(vs, r)
  <1>0. Capacity \in Nat \ {0} /\ Len(cache) \in Nat
    BY ReadCachesAssumption
  <1>1. CASE Len(cache) >= Capacity
    <2>1. r = Tail(cache) /\ cache # << >>
      BY <1>0, <1>1 DEF Evict
    <2>2. r \in Seq(Entry) /\ Len(r) = Len(cache) - 1 /\ \A k \in 1..Len(r) : r[k] = cache[k + 1]
      BY <1>0, <2>1
    <2> QED
      BY <1>0, <2>2 DEF EntriesOK
  <1>2. CASE ~(Len(cache) >= Capacity)
    BY <1>0, <1>2 DEF Evict
  <1> QED
    BY <1>1, <1>2

\* A step of one thread on its own plan cache.
LEMMA PlanStep ==
  ASSUME CacheInv, NEW t \in Threads, NEW c \in Seq(Entry), Len(c) <= Capacity, EntriesOK(versions, c),
         plans' = [plans EXCEPT ![t] = c], NEW y \in ThreadState, th' = [th EXCEPT ![t] = y],
         UNCHANGED <<store, scans, lock, fan, memo>>,
         th[t].pc \notin {"read", "readBits"}, y.pc \notin {"read", "readBits"},
         ThreadOK(versions, published, scans.gen, y)
  PROVE  CacheInv'
  <1>1. /\ published \in Nat /\ scans.gen \in Nat /\ schemaGen \in Nat
    BY DEF CacheInv, StoreOK, ScansOK
  <1>2. /\ UNCHANGED <<versions, published, writeGen>> /\ schemaGen' \in Nat
        /\ scans'.gen \in Nat /\ scans.gen <= scans'.gen /\ scans' = scans
    BY <1>1 DEF store
  <1>3. StoreOK' /\ ThreadsTyped' /\ ThreadsOK'
    BY <1>2, ThreadMoves
  <1>4. Grown(versions, versions') /\ published' \in Nat /\ published <= published'
    BY <1>1, <1>2, SameVersions DEF CacheInv
  <1>5. ScansOK' /\ FanOK' /\ MemoOK'
    BY <1>4, CachesGrown
  <1>6. PlansOK'
    <2>1. plans \in [Threads -> Seq(Entry)]
      BY DEF CacheInv, PlansOK
    <2>2. plans' \in [Threads -> Seq(Entry)]
      BY <2>1
    <2>3. \A u \in Threads : Len(plans'[u]) <= Capacity /\ EntriesOK(versions, plans'[u])
      BY <2>1 DEF CacheInv, PlansOK
    <2> QED
      BY <1>2, <2>2, <2>3 DEF PlansOK
  <1>7. LockOK'
    BY LockStays
  <1> QED
    BY <1>3, <1>5, <1>6, <1>7 DEF CacheInv

\* Inserting a plan cut on the word of its key's generation.
LEMMA InsertPlanKeeps ==
  ASSUME CacheInv, NEW t \in Threads, InsertPlan(t)
  PROVE  CacheInv'
  <1> DEFINE cut == Prunes(th[t].got)
             e == [key |-> th[t].key, query |-> th[t].query, pruned |-> cut]
             r == Evict(plans[t])
             c == Append(r, e)
             y == [th[t] EXCEPT !.pc = "run", !.got = cut, !.gen = 0, !.snap = None]
  <1>0. /\ th[t] \in ThreadState /\ ThreadOK(versions, published, scans.gen, th[t])
        /\ plans[t] \in Seq(Entry) /\ Len(plans[t]) <= Capacity /\ EntriesOK(versions, plans[t])
    BY DEF CacheInv, ThreadsTyped, ThreadsOK, PlansOK
  <1>1. /\ th[t].pc = "plan" /\ plans' = [plans EXCEPT ![t] = c] /\ th' = [th EXCEPT ![t] = y]
        /\ UNCHANGED <<store, scans, lock, fan, memo>>
    BY DEF InsertPlan
  <1>2. /\ th[t].key \in PlanKeys /\ th[t].query \in Queries /\ th[t].from \in 1..th[t].key.gen
        /\ th[t].key.gen <= published
        /\ th[t].got = "no" => CutOK(versions, th[t].key, th[t].query)
    BY <1>0, <1>1 DEF ThreadOK, StatementOK
  <1>3. cut \in BOOLEAN /\ (cut = TRUE => CutOK(versions, th[t].key, th[t].query))
    BY <1>2 DEF Prunes
  <1> HIDE DEF cut
  <1>4. e \in Entry /\ e.key = th[t].key /\ e.query = th[t].query /\ e.pruned = cut
    BY <1>2, <1>3 DEF Entry
  <1>5. /\ y \in ThreadState /\ y.pc = "run" /\ y.got = cut /\ y.key = th[t].key /\ y.query = th[t].query
        /\ y.from = th[t].from
    BY <1>0, <1>3 DEF ThreadState
  <1> HIDE DEF e, y
  <1>6. r \in Seq(Entry) /\ Len(r) < Capacity /\ EntriesOK(versions, r)
    BY <1>0, EntriesEvicted
  <1> HIDE DEF r
  <1>7. c \in Seq(Entry) /\ Len(c) = Len(r) + 1 /\ EntriesOK(versions, c)
    BY <1>3, <1>4, <1>6, EntriesAppended
  <1> HIDE DEF c
  <1>8. Len(c) <= Capacity
    BY <1>6, <1>7, ReadCachesAssumption
  <1>9. ThreadOK(versions, published, scans.gen, y)
    BY <1>2, <1>3, <1>5 DEF ThreadOK, ScanOK, TableOK, StatementOK
  <1> QED
    BY <1>1, <1>5, <1>7, <1>8, <1>9, PlanStep

\* A hit was cut for the same query at the same generation; an entry of
\* another query is dropped.
LEMMA LookupKeeps ==
  ASSUME CacheInv, NEW t \in Threads, Lookup(t)
  PROVE  CacheInv'
  <1> DEFINE key == PlanKey(t)
             cache == plans[t]
             held == Slot(cache, key)
             hit == Get(cache, key, th[t].query)
             rest == IF held = {} THEN cache ELSE RemoveAt(cache, CHOOSE i \in held : TRUE)
  <1>0. /\ th[t] \in ThreadState /\ ThreadOK(versions, published, scans.gen, th[t]) /\ schemaGen \in Nat
        /\ cache \in Seq(Entry) /\ Len(cache) <= Capacity /\ EntriesOK(versions, cache) /\ Len(cache) \in Nat
    BY DEF CacheInv, ThreadsTyped, ThreadsOK, PlansOK, StoreOK
  <1>1. th[t].pc = "key" /\ UNCHANGED <<store, scans, lock, fan, memo>>
    BY DEF Lookup
  <1>2. /\ th[t].key \in PlanKeys /\ th[t].query \in Queries /\ th[t].from \in 1..th[t].key.gen
        /\ th[t].key.gen <= published
    BY <1>0, <1>1 DEF ThreadOK, StatementOK
  <1>3. key \in PlanKeys /\ key.gen = th[t].key.gen /\ key.rowOnly = th[t].key.rowOnly /\ key.sgen = schemaGen
    BY <1>0, <1>2 DEF PlanKey, PlanKeys
  <1>4. held \subseteq 1..Len(cache) /\ hit \subseteq held
    BY <1>0 DEF Slot, Get
  <1>5. rest \in Seq(Entry) /\ Len(rest) <= Capacity /\ EntriesOK(versions, rest)
        /\ (held # {} => Len(rest) = Len(cache) - 1)
    <2>1. CASE held = {}
      BY <1>0, <2>1
    <2>2. CASE held # {}
      <3> DEFINE i == CHOOSE i \in held : TRUE
      <3>1. i \in 1..Len(cache)
        BY <1>4, <2>2
      <3>2. rest = RemoveAt(cache, i)
        BY <2>2
      <3> HIDE DEF i, rest, cache
      <3>3. rest \in Seq(Entry) /\ Len(rest) = Len(cache) - 1 /\ EntriesOK(versions, rest)
        BY <1>0, <3>1, <3>2, EntriesRemoved
      <3> QED
        BY <1>0, <3>3, ReadCachesAssumption
    <2> QED
      BY <2>1, <2>2
  <1>6. CASE hit # {}
    <2> DEFINE i == CHOOSE i \in hit : TRUE
               e == cache[i]
               c == Append(rest, e)
               y == [th[t] EXCEPT !.pc = "run", !.got = e.pruned]
    <2>1. plans' = [plans EXCEPT ![t] = c] /\ th' = [th EXCEPT ![t] = y]
      BY <1>6 DEF Lookup
    <2>2. i \in hit
      BY <1>6
    <2>3. i \in 1..Len(cache) /\ e.key = key /\ e.query = th[t].query /\ held # {}
      BY <1>4, <2>2 DEF Get, Slot
    <2> HIDE DEF i
    <2>4. e \in Entry
      BY <1>0, <2>3, ElementOfSeq
    <2>5. e.pruned \in BOOLEAN /\ (e.pruned = TRUE => CutOK(versions, e.key, e.query))
      BY <1>0, <2>3, <2>4 DEF Entry, EntriesOK
    <2>6. e.pruned = TRUE => CutOK(versions, th[t].key, th[t].query)
      BY <1>3, <2>3, <2>5 DEF CutOK
    <2> HIDE DEF e, rest, cache, hit, held, key
    <2>7. /\ y \in ThreadState /\ y.pc = "run" /\ y.got = e.pruned /\ y.key = th[t].key
          /\ y.query = th[t].query /\ y.from = th[t].from
      BY <1>0, <2>5 DEF ThreadState
    <2> HIDE DEF y
    <2>8. ThreadOK(versions, published, scans.gen, y)
      BY <1>2, <2>5, <2>6, <2>7 DEF ThreadOK, ScanOK, TableOK, StatementOK
    <2>9. c \in Seq(Entry) /\ Len(c) = Len(rest) + 1 /\ EntriesOK(versions, c)
      BY <1>5, <2>4, <2>5, EntriesAppended
    <2> HIDE DEF c
    <2>10. Len(c) <= Capacity
      BY <1>0, <1>5, <2>3, <2>9
    <2> QED
      BY <1>1, <2>1, <2>7, <2>8, <2>9, <2>10, PlanStep
  <1>7. CASE hit = {}
    <2> DEFINE pc == IF th[t].query = "hop" /\ ~th[t].key.rowOnly THEN "ask" ELSE "plan"
               y == [th[t] EXCEPT !.key.sgen = schemaGen, !.pc = pc, !.got = "undecided"]
    <2>1. plans' = [plans EXCEPT ![t] = rest]
      BY <1>7 DEF Lookup
    <2>3. th' = [th EXCEPT ![t] = y]
      BY <1>7 DEF Lookup
    <2>4. pc \in {"ask", "plan"} /\ (pc = "ask" => th[t].query = "hop" /\ th[t].key.rowOnly = FALSE)
      BY <1>2 DEF PlanKeys
    <2> HIDE DEF pc
    <2>5. "undecided" \in Verdicts
      BY DEF Verdicts
    <2>6. y = [th[t] EXCEPT !.key = key, !.pc = pc, !.got = "undecided"]
      BY DEF PlanKey
    <2> HIDE DEF key, rest, y
    <2>7. /\ y \in ThreadState /\ y.pc = pc /\ y.got = "undecided" /\ y.key = key
          /\ y.query = th[t].query /\ y.from = th[t].from
      BY <1>0, <1>3, <2>4, <2>5, <2>6 DEF ThreadState
    <2>8. ThreadOK(versions, published, scans.gen, y)
      BY <1>2, <1>3, <2>4, <2>5, <2>7 DEF ThreadOK, ScanOK, TableOK, StatementOK
    <2> QED
      BY <1>1, <1>5, <2>1, <2>3, <2>4, <2>7, <2>8, PlanStep
  <1> QED
    BY <1>6, <1>7

-----------------------------------------------------------------------------
(* The theorems                                                            *)

\* Whatever is cached under a generation comes from that version or a later
\* one, and so does everything a thread has taken from a cache.
THEOREM Invariance == Spec => []CacheInv
  <1>1. Init => CacheInv
    <2> SUFFICES ASSUME Init PROVE CacheInv
      OBVIOUS
    <2>1. StoreOK
      BY DEF Init, StoreOK, Stored
    <2>2. ScansOK /\ MemoOK
      <3>1. /\ scans = [gen |-> 0, members |-> None, bits |-> None]
            /\ memo = [gen |-> 0, verdict |-> None] /\ published = 1
        BY DEF Init
      <3>2. /\ scans \in [gen: Nat, members: (SUBSET Nodes) \cup {None}, bits: (SUBSET Nodes) \cup {None}]
            /\ memo \in [gen: Nat, verdict: Verdicts \cup {None}]
        BY <3>1
      <3>3. scans.gen = 0 /\ scans.members = None /\ memo.verdict = None
        BY <3>1
      <3>4. None # "no"
        BY ReadCachesAssumption
      <3> QED
        BY <3>1, <3>2, <3>3, <3>4 DEF ScansOK, MemoOK
    <2>3. FanOK
      BY DEF Init, FanOK
    <2>4. PlansOK
      <3>1. << >> \in Seq(Entry) /\ Len(<< >>) = 0
        OBVIOUS
      <3> QED
        BY <3>1, ReadCachesAssumption DEF Init, PlansOK, EntriesOK
    <2>5. LockOK
      BY ReadCachesAssumption, IdleOK DEF Init, LockOK
    <2>6. ThreadsTyped /\ ThreadsOK
      BY IdleOK DEF Init, ThreadsTyped, ThreadsOK
    <2> QED
      BY <2>1, <2>2, <2>3, <2>4, <2>5, <2>6 DEF CacheInv
  <1>2. CacheInv /\ [Next]_vars => CacheInv'
    <2> SUFFICES ASSUME CacheInv, [Next]_vars PROVE CacheInv'
      OBVIOUS
    <2>1. CASE UNCHANGED vars
      BY <2>1 DEF vars, store, caches, CacheInv, StoreOK, ScansOK, FanOK, MemoOK, PlansOK, LockOK,
         ThreadsTyped, ThreadsOK
    <2>2. CASE WriterNext
      BY <2>2, WriterKeeps
    <2>3. ASSUME NEW t \in Threads, ThreadNext(t) PROVE CacheInv'
      <3>1. CASE NodesByLabel(t) \/ NodesHaveLabel(t)
        BY <3>1, StartCallKeeps DEF NodesByLabel, NodesHaveLabel
      <3>2. CASE Align(t) \/ ReadMembers(t) \/ FileBitmap(t)
        BY <3>2, AlignKeeps, ReadMembersKeeps, FileBitmapKeeps
      <3>3. CASE Materialize(t) \/ CheckTable(t) \/ BuildTable(t) \/ InstallTable(t)
        BY <3>3, MaterializeKeeps, CheckTableKeeps, BuildTableKeeps, InstallTableKeeps
      <3>4. CASE \E q \in Queries, rowOnly \in BOOLEAN : StartStatement(t, q, rowOnly)
        BY <3>4, StartStatementKeeps
      <3>5. CASE Lookup(t) \/ CaptureGen(t) \/ OpenTxn(t)
        BY <3>5, LookupKeeps, CaptureGenKeeps, OpenTxnKeeps
      <3>6. CASE AskTable(t) \/ AskMemo(t) \/ Probe(t) \/ Memoize(t)
        BY <3>6, AskTableKeeps, AskMemoKeeps, ProbeKeeps, MemoizeKeeps
      <3>7. CASE InsertPlan(t) \/ Return(t)
        BY <3>7, InsertPlanKeeps, ReturnKeeps
      <3> QED
        BY <2>3, <3>1, <3>2, <3>3, <3>4, <3>5, <3>6, <3>7, Zenon DEF ThreadNext
    <2> QED
      BY <2>1, <2>2, <2>3 DEF Next
  <1> QED
    BY <1>1, <1>2, PTL DEF Spec

\* The caches hold what their readers expect, the plan cache stays within its
\* capacity and the label mutex has one holder.
THEOREM Typing == Spec => []TypeOK
  <1>1. CacheInv => TypeOK
    <2> SUFFICES ASSUME CacheInv PROVE TypeOK
      OBVIOUS
    <2>1. versions \in Seq(Stored) /\ published \in DOMAIN versions /\ writeGen \in Nat /\ schemaGen \in Nat
      BY DEF CacheInv, StoreOK
    <2>2. /\ scans \in [gen: Nat, members: (SUBSET Nodes) \cup {None}, bits: (SUBSET Nodes) \cup {None}]
          /\ memo \in [gen: Nat, verdict: Verdicts \cup {None}]
          /\ fan = None \/ fan \in [gen: Nat, has: BOOLEAN]
      BY DEF CacheInv, ScansOK, FanOK, MemoOK
    <2>3. lock \in Threads \cup {None}
      BY DEF CacheInv, LockOK
    <2>4. ASSUME NEW t \in Threads
          PROVE  /\ plans[t] \in Seq([key: PlanKeys, query: Queries, pruned: BOOLEAN])
                 /\ Len(plans[t]) <= Capacity
                 /\ lock = t <=> th[t].pc \in {"read", "readBits"}
      BY DEF CacheInv, PlansOK, Entry, LockOK
    <2> QED
      BY <2>1, <2>2, <2>3, <2>4 DEF TypeOK
  <1> QED
    BY <1>1, Invariance, PTL

\* A label scan is never older than what was published when it was asked for.
THEOREM ScansCurrent == Spec => []LabelScanCurrent
  <1>1. CacheInv => LabelScanCurrent
    <2> SUFFICES ASSUME CacheInv, NEW t \in Threads, th[t].pc = "members"
                 PROVE  \E v \in SinceCall(t) : th[t].got = v.members
      BY DEF LabelScanCurrent
    <2>1. MembersSince(versions, th[t].from, th[t].got)
      BY DEF CacheInv, ThreadsOK, ThreadOK, ScanOK
    <2> QED
      BY <2>1 DEF MembersSince, SinceCall
  <1> QED
    BY <1>1, Invariance, PTL

\* A plan cut to zero rows is justified by a state no older than its statement.
THEOREM CutsJustified == Spec => []PrunedPlansSound
  <1>1. CacheInv => PrunedPlansSound
    <2> SUFFICES ASSUME CacheInv, NEW t \in Threads, th[t].pc = "run", th[t].got
                 PROVE  /\ \E v \in SinceCall(t) : ~v.edge
                        /\ th[t].query = "hop" /\ ~th[t].key.rowOnly
      BY DEF PrunedPlansSound
    <2>1. th[t].got \in BOOLEAN /\ (th[t].got = TRUE => CutOK(versions, th[t].key, th[t].query))
      BY DEF CacheInv, ThreadsOK, ThreadOK, StatementOK
    <2>2. th[t].got = TRUE
      BY <2>1
    <2>3. CutOK(versions, th[t].key, th[t].query) /\ th[t].key \in PlanKeys /\ th[t].from \in 1..th[t].key.gen
      BY <2>1, <2>2 DEF CacheInv, ThreadsOK, ThreadOK, StatementOK
    <2>4. th[t].from \in Nat /\ th[t].key.gen \in Nat /\ versions \in Seq(Stored)
      BY <2>3 DEF PlanKeys, CacheInv, ThreadsTyped, ThreadState, StoreOK
    <2>5. NoEdgeSince(versions, th[t].from)
      BY <2>3, <2>4, SinceEarlier DEF CutOK
    <2>6. \E v \in SinceCall(t) : v.edge = FALSE
      BY <2>5 DEF NoEdgeSince, EdgeSince, SinceCall
    <2> QED
      BY <2>3, <2>6 DEF CutOK
  <1> QED
    BY <1>1, Invariance, PTL

-----------------------------------------------------------------------------
(***************************************************************************)
(* The vector index and the vectors table agree (IndexAgrees).             *)
(***************************************************************************)

-----------------------------------------------------------------------------
(* The inductive invariant *)

Vector == Seq(Int) \ {<<>>}
Table == UNION {[S -> Vector] : S \in SUBSET Nat}
Index == [opts: Options, dims: Nat, entries: Table]
Below == 1 .. disk.next - 1

UsesCache == {"peek", "config", "scan", "install", "ready"}
PcFits(pc, op) ==
    \/ pc = "idle" /\ op = "none"
    \/ pc = "lock" /\ op \in {"upsert", "remove", "configure", "reindex"}
    \/ pc = "exists" /\ op = "upsert"
    \/ pc \in UsesCache /\ op \in {"upsert", "remove", "search"}
    \/ pc = "put" /\ op \in {"upsert", "remove"}
    \/ pc = "check" /\ op = "configure"
    \/ pc = "rebuild" /\ op = "reindex"
    \/ pc \in {"store", "swap"} /\ op \in {"configure", "reindex"}
    \/ pc \in {"search", "live", "rescore", "answered"} /\ op = "search"

\* What a caller keeps between its steps.
IsCall(r) ==
    r = [pc |-> r.pc, req |-> r.req, index |-> r.index, built |-> r.built, want |-> r.want,
         hits |-> r.hits, out |-> r.out, seen |-> r.seen, gone |-> r.gone]
CallOK(r) ==
    /\ IsCall(r)
    /\ r.req \in Request \cup {NoRequest}
    /\ PcFits(r.pc, r.req.op)
    /\ r.index \in 0 .. Len(heap)
    /\ r.pc \in {"ready", "search", "live", "rescore"} => r.index # 0
    /\ r.built \in Index
    /\ DOMAIN r.built.entries \subseteq Below

VecTypeOK ==
    /\ DiskOK(disk)
    /\ heap \in Seq(Index)
    /\ \A i \in 1 .. Len(heap) : DOMAIN heap[i].entries \subseteq Below
    /\ slot \in 0 .. Len(heap)
    /\ mutex \in Callers \cup {"free"}
    /\ at = [c \in Callers |-> at[c]]
    /\ \A c \in Callers : CallOK(at[c])
    /\ used \in [menu: Menus, calls: Nat, changes: Nat, stops: Nat]

\* The callers between the mutation lock's acquisition and its release.
Holding(r) ==
    \/ r.pc \in {"exists", "put", "check", "rebuild", "store", "swap"}
    \/ r.pc \in UsesCache /\ r.req.op # "search"
MutexOK == \A c \in Callers : mutex = c <=> Holding(at[c])

\* A mutation works on the index the slot names; an upsert was checked first.
HolderOK(r) ==
    /\ r.req.op = "upsert" /\ r.pc \in UsesCache \cup {"put"}
         => r.req.node \in Below /\ r.req.v \in Vector
    /\ r.pc \in {"ready", "put"} /\ r.req.op # "search" => r.index = slot

Doubtful == tainted \cup {at[c].req.node : c \in {d \in Callers : at[d].pc = "put"}}
Agrees(index, doubtful) ==
    \A n \in disk.alive \ doubtful :
       /\ n \in DOMAIN index.entries <=> n \in DOMAIN disk.vectors
       /\ n \in DOMAIN disk.vectors => index.entries[n] = disk.vectors[n]
Fits(index) == \A n \in DOMAIN disk.vectors : Len(disk.vectors[n]) = index.dims
Swapping == \E c \in Callers : at[c].pc = "swap"

\* The index in the slot agrees with the table, but for the nodes whose table
\* write failed or is still to come.
SlotOK ==
    /\ slot = 0 => tainted = {}
    /\ slot # 0 => /\ Fits(heap[slot])
                   /\ Agrees(heap[slot], Doubtful)
                   /\ Swapping \/ heap[slot].opts = effective

\* Between the index step and the table write the index is ahead by one node.
PutOK(r) ==
    r.pc = "put" =>
      /\ slot # 0
      /\ r.req.op = "upsert" => /\ r.req.node \in DOMAIN heap[slot].entries
                                /\ heap[slot].entries[r.req.node] = r.req.v
                                /\ heap[slot].dims = Len(r.req.v)
      /\ r.req.op = "remove" => r.req.node \notin DOMAIN heap[slot].entries

\* While the slot is empty nothing a caller scanned can be out of date.
ColdOK(r) ==
    slot = 0 =>
      /\ r.pc \in {"scan", "install"} => Swapping \/ r.built.opts = effective
      /\ r.pc = "install" => Fits(r.built) /\ Agrees(r.built, {})

\* What configure and reindex built stays right until they swap it in.
BuiltOK(r) ==
    /\ r.pc \in {"store", "swap"} =>
         r.built.opts = r.req.opts /\ Fits(r.built) /\ Agrees(r.built, {})
    /\ r.pc = "swap" => disk.config = r.req.opts

CallerOK(r) == HolderOK(r) /\ PutOK(r) /\ ColdOK(r) /\ BuiltOK(r)

VecInv == VecTypeOK /\ MutexOK /\ SlotOK /\ \A c \in Callers : CallerOK(at[c])

-----------------------------------------------------------------------------
(* Tables and indexes *)

\* The tables are the functions from some ids to embeddings.
LEMMA TableIs ==
  ASSUME NEW f
  PROVE  f \in Table <=> f \in [DOMAIN f -> Vector] /\ DOMAIN f \subseteq Nat
<1>1. ASSUME f \in Table PROVE f \in [DOMAIN f -> Vector] /\ DOMAIN f \subseteq Nat
  <2>1. PICK S \in SUBSET Nat : f \in [S -> Vector]
    BY <1>1 DEF Table
  <2>2. DOMAIN f = S
    BY <2>1
  <2> QED BY <2>1, <2>2
<1>2. ASSUME f \in [DOMAIN f -> Vector], DOMAIN f \subseteq Nat PROVE f \in Table
  BY <1>2 DEF Table
<1> QED BY <1>1, <1>2

\* Setting one id of a table.
LEMMA WithTable ==
  ASSUME NEW f \in Table, NEW n \in Nat, NEW v \in Vector
  PROVE  /\ With(f, n, v) \in Table
         /\ DOMAIN With(f, n, v) = DOMAIN f \cup {n}
         /\ With(f, n, v)[n] = v
         /\ \A m \in DOMAIN f : m # n => With(f, n, v)[m] = f[m]
<1>1. f \in [DOMAIN f -> Vector] /\ DOMAIN f \subseteq Nat
  BY TableIs
<1>2. With(f, n, v) \in [DOMAIN f \cup {n} -> Vector]
  BY <1>1 DEF With
<1> QED BY <1>1, <1>2, TableIs DEF With

\* Clearing one id of a table.
LEMMA WithoutTable ==
  ASSUME NEW f \in Table, NEW n
  PROVE  /\ Without(f, n) \in Table
         /\ DOMAIN Without(f, n) = DOMAIN f \ {n}
         /\ \A m \in DOMAIN f \ {n} : Without(f, n)[m] = f[m]
<1>1. f \in [DOMAIN f -> Vector] /\ DOMAIN f \subseteq Nat
  BY TableIs
<1>2. Without(f, n) \in [DOMAIN f \ {n} -> Vector]
  BY <1>1 DEF Without
<1> QED BY <1>1, <1>2, TableIs DEF Without

\* An index without entries.
LEMMA EmptyIndexOK ==
  ASSUME NEW opts \in Options
  PROVE  /\ EmptyIndex(opts) \in Index
         /\ EmptyIndex(opts).opts = opts
         /\ DOMAIN EmptyIndex(opts).entries = {}
<1>1. <<>> \in [{} -> Vector] /\ DOMAIN <<>> = {}
  OBVIOUS
<1>2. <<>> \in Table
  BY <1>1, TableIs
<1> QED BY <1>1, <1>2 DEF EmptyIndex, Index

\* The vectors table is a table, and what build_index reads from it is an
\* index that agrees with it.
LEMMA BuildOK ==
  ASSUME DiskOK(disk), NEW opts \in Options
  PROVE  /\ disk.vectors \in Table
         /\ build_index(opts) \in Index
         /\ build_index(opts).opts = opts
         /\ DOMAIN build_index(opts).entries \subseteq Below
         /\ Fits(build_index(opts)) /\ Agrees(build_index(opts), {})
<1> DEFINE b == build_index(opts)
<1>1. disk.vectors \in Table
  <2>1. DOMAIN disk.vectors \subseteq Nat
    BY DEF DiskOK
  <2> QED BY <2>1, TableIs DEF DiskOK, Vector
<1> DEFINE d == IF DOMAIN disk.vectors = {} THEN 0
                ELSE Len(disk.vectors[CHOOSE n \in DOMAIN disk.vectors : TRUE])
<1>3. b = [opts |-> opts, dims |-> d, entries |-> disk.vectors]
  BY DEF build_index
<1>4. d \in Nat /\ \A n \in DOMAIN disk.vectors : Len(disk.vectors[n]) = d
  <2>1. CASE DOMAIN disk.vectors = {}
    BY <2>1
  <2>2. CASE DOMAIN disk.vectors # {}
    <3> DEFINE m == CHOOSE n \in DOMAIN disk.vectors : TRUE
    <3>1. m \in DOMAIN disk.vectors
      BY <2>2
    <3> HIDE DEF m
    <3>2. disk.vectors[m] \in Seq(Int)
      BY <3>1 DEF DiskOK
    <3>3. \A n \in DOMAIN disk.vectors : Len(disk.vectors[n]) = Len(disk.vectors[m])
      BY <3>1 DEF DiskOK, OneDimension
    <3>4. d = Len(disk.vectors[m])
      BY <2>2 DEF m
    <3> QED BY <3>2, <3>3, <3>4
  <2> QED BY <2>1, <2>2
<1> HIDE DEF d
<1>5. b \in Index
  BY <1>1, <1>3, <1>4 DEF Index
<1> HIDE DEF b
<1>6. /\ b.opts = opts /\ DOMAIN b.entries \subseteq Below
      /\ Fits(b) /\ Agrees(b, {})
  BY <1>3, <1>4 DEF Fits, Agrees, Below, DiskOK
<1> QED BY <1>1, <1>5, <1>6 DEF b

-----------------------------------------------------------------------------
(* Steps of one caller that touch neither the table nor an index *)

\* A step of c that changes only c's own state and the lock, and neither
\* begins nor ends a table write or a swap, keeps the invariant if what c
\* keeps is right afterwards.
LEMMA CallerStep ==
  ASSUME VecInv, NEW c \in Callers,
         UNCHANGED <<disk, slot, heap, tainted>>,
         used' \in [menu: Menus, calls: Nat, changes: Nat, stops: Nat],
         at' = [d \in Callers |-> at'[d]],
         \A d \in Callers \ {c} : at'[d] = at[d],
         at[c].pc \notin {"put", "swap"}, at'[c].pc \notin {"put", "swap"},
         CallOK(at'[c]), CallerOK(at'[c]),
         \/ mutex' = mutex /\ (Holding(at'[c]) <=> Holding(at[c]))
         \/ mutex = "free" /\ mutex' = c /\ Holding(at'[c])
         \/ mutex' = (IF mutex = c THEN "free" ELSE mutex) /\ ~Holding(at'[c])
  PROVE  VecInv'
<1>1. Swapping' <=> Swapping
  BY DEF Swapping
<1>2. \A d \in Callers : (at'[d].pc = "put" <=> at[d].pc = "put") /\ (at'[d].pc = "put" => at'[d] = at[d])
  OBVIOUS
<1>3. Doubtful' = Doubtful
  BY <1>2 DEF Doubtful
<1>4. (effective)' = effective
  BY DEF effective
<1>5. \A x : /\ (CallOK(x)' <=> CallOK(x)) /\ (Fits(x)' <=> Fits(x)) /\ (Holding(x)' <=> Holding(x))
             /\ \A y : Agrees(x, y)' <=> Agrees(x, y)
  BY DEF CallOK, Fits, Agrees, Holding, Below
<1>6. \A x : CallerOK(x)' <=> CallerOK(x)
  <2>1. \A x : HolderOK(x)' <=> HolderOK(x)
    BY DEF HolderOK, Below
  <2>2. \A x : PutOK(x)' <=> PutOK(x)
    BY DEF PutOK
  <2>3. \A x : ColdOK(x)' <=> ColdOK(x)
    BY <1>1, <1>4, <1>5 DEF ColdOK
  <2>4. \A x : BuiltOK(x)' <=> BuiltOK(x)
    BY <1>5 DEF BuiltOK
  <2> QED BY <2>1, <2>2, <2>3, <2>4 DEF CallerOK
<1>7. VecTypeOK'
  BY <1>5 DEF VecInv, VecTypeOK, Below
<1>8. MutexOK'
  BY <1>5, VectorAssumption DEF VecInv, MutexOK, VecTypeOK
<1>9. SlotOK'
  BY <1>1, <1>3, <1>4, <1>5 DEF VecInv, SlotOK
<1> QED BY <1>6, <1>7, <1>8, <1>9 DEF VecInv

\* What a caller keeps has the fields of a call.
LEMMA IsCallAt ==
  VecInv => \A c \in Callers : IsCall(at[c])
BY DEF VecInv, VecTypeOK, CallOK

\* An idle caller keeps nothing.
LEMMA IdleCall ==
  /\ EmptyIndex(DefaultOpts) \in Index
  /\ Idle.pc = "idle" /\ Idle.req = NoRequest
  /\ VecInv => CallOK(Idle) /\ CallerOK(Idle) /\ ~Holding(Idle)
<1>1. DefaultOpts \in Options
  BY DEF DefaultOpts, Opts, Options
<1>2. /\ EmptyIndex(DefaultOpts) \in Index
      /\ DOMAIN EmptyIndex(DefaultOpts).entries = {}
  BY <1>1, EmptyIndexOK
<1>4. Idle.pc = "idle" /\ Idle.req = NoRequest
  BY DEF Idle, Calling
<1>3. ASSUME VecInv PROVE CallOK(Idle) /\ CallerOK(Idle) /\ ~Holding(Idle)
  <2>1. Len(heap) \in Nat
    BY <1>3 DEF VecInv, VecTypeOK
  <2>2. CallOK(Idle)
    <3>1. IsCall(Idle) /\ Idle.index = 0 /\ Idle.built = EmptyIndex(DefaultOpts)
      BY DEF Idle, Calling, IsCall
    <3>2. PcFits("idle", "none")
      BY DEF PcFits
    <3> QED BY <1>2, <1>4, <2>1, <3>1, <3>2 DEF CallOK, NoRequest
  <2>3. CallerOK(Idle)
    BY <1>4 DEF CallerOK, HolderOK, PutOK, ColdOK, BuiltOK, NoRequest, UsesCache
  <2> QED BY <1>4, <2>2, <2>3 DEF Holding, UsesCache
<1> QED BY <1>2, <1>3, <1>4

\* Returning from a call that is not in the middle of a table write or swap.
LEMMA FinishStep ==
  ASSUME VecInv, NEW c \in Callers, at[c].pc \notin {"put", "swap"}, Finish(c),
         UNCHANGED <<disk, slot, heap, tainted, used>>
  PROVE  VecInv'
<1>1. /\ at' = [d \in Callers |-> at'[d]] /\ at'[c] = Idle
      /\ \A d \in Callers \ {c} : at'[d] = at[d]
  BY DEF VecInv, VecTypeOK, Finish
<1>2. at'[c].pc \notin {"put", "swap"}
  BY <1>1, IdleCall
<1> QED BY <1>1, <1>2, IdleCall, CallerStep DEF Finish, VecInv, VecTypeOK

\* VectorGraphExt's calls begin: no more than the request is known.
LEMMA BeginStep ==
  ASSUME VecInv, NEW c \in Callers, NEW req \in used.menu, Begin(c, req)
  PROVE  VecInv'
<1>1. req \in Request
  BY VectorAssumption DEF VecInv, VecTypeOK
<1> DEFINE r == IF req.op = "search" THEN Calling(req, "peek", InView, GoneBefore)
                ELSE Calling(req, "lock", <<>>, {})
<1>2. at' = [at EXCEPT ![c] = r]
  BY DEF Begin
<1>3. /\ IsCall(r)
      /\ r.req = req /\ r.pc = (IF req.op = "search" THEN "peek" ELSE "lock")
      /\ r.index = 0 /\ r.built = EmptyIndex(DefaultOpts)
  BY DEF Calling, IsCall
<1> HIDE DEF r
<1>4. /\ at' = [d \in Callers |-> at'[d]] /\ at'[c] = r
      /\ \A d \in Callers \ {c} : at'[d] = at[d]
  BY <1>2 DEF VecInv, VecTypeOK
<1>5. req.op \in {"upsert", "remove", "configure", "reindex", "search"}
  BY <1>1 DEF Request
<1>6. CallOK(r)
  <2>1. DOMAIN r.built.entries = {} /\ r.built \in Index
    BY <1>3, IdleCall DEF EmptyIndex
  <2>2. Len(heap) \in Nat
    BY DEF VecInv, VecTypeOK
  <2>3. PcFits(r.pc, r.req.op)
    BY <1>3, <1>5 DEF PcFits, UsesCache
  <2> QED BY <1>1, <1>3, <2>1, <2>2, <2>3 DEF CallOK
<1>7. CallerOK(r) /\ ~Holding(r)
  BY <1>3, <1>5 DEF CallerOK, HolderOK, PutOK, ColdOK, BuiltOK, Holding, UsesCache
<1>8. ~Holding(at[c]) /\ at[c].pc \notin {"put", "swap"}
  BY DEF Begin, Holding, UsesCache
<1>9. used' \in [menu: Menus, calls: Nat, changes: Nat, stops: Nat]
  BY DEF Begin, VecInv, VecTypeOK
<1> QED BY <1>3, <1>4, <1>6, <1>7, <1>8, <1>9, CallerStep DEF Begin

\* A step that moves c on within its call, the lock left alone.
LEMMA MoveStep ==
  ASSUME VecInv, NEW c \in Callers, NEW r,
         UNCHANGED <<disk, slot, heap, mutex, tainted, used>>,
         at' = [at EXCEPT ![c] = r],
         at[c].pc \notin {"put", "swap"}, r.pc \notin {"put", "swap"},
         CallOK(r), CallerOK(r), Holding(r) <=> Holding(at[c])
  PROVE  VecInv'
<1>1. /\ at' = [d \in Callers |-> at'[d]] /\ at'[c] = r
      /\ \A d \in Callers \ {c} : at'[d] = at[d]
  BY DEF VecInv, VecTypeOK
<1> QED BY <1>1, CallerStep DEF VecInv, VecTypeOK

\* mutation_lock(graph).lock.lock()
LEMMA LockStep ==
  ASSUME VecInv, NEW c \in Callers, Lock(c)
  PROVE  VecInv'
<1> DEFINE pc == CASE at[c].req.op = "upsert"    -> "exists"
                  [] at[c].req.op = "remove"    -> "peek"
                  [] at[c].req.op = "configure" -> "check"
                  [] at[c].req.op = "reindex"   -> "rebuild"
           r == [at[c] EXCEPT !.pc = pc]
<1>1. /\ at[c].pc = "lock" /\ CallOK(at[c]) /\ CallerOK(at[c])
      /\ at[c].req.op \in {"upsert", "remove", "configure", "reindex"}
  BY DEF VecInv, VecTypeOK, Lock, CallOK, PcFits, UsesCache
<1>2. at' = [at EXCEPT ![c] = r]
  BY DEF Lock, Moved
<1>3. /\ pc \in {"exists", "peek", "check", "rebuild"}
      /\ PcFits(pc, at[c].req.op)
      /\ pc = "peek" => at[c].req.op = "remove"
  BY <1>1 DEF PcFits, UsesCache
<1> HIDE DEF pc
<1>4. CallOK(r) /\ r.pc = pc /\ r.req = at[c].req
  <2>0. IsCall(at[c])
    BY IsCallAt
  <2>1. /\ IsCall(r) /\ r.pc = pc /\ r.req = at[c].req
        /\ r.index = at[c].index /\ r.built = at[c].built
    BY <2>0 DEF IsCall
  <2> HIDE DEF r
  <2> QED BY <1>1, <1>3, <2>1 DEF CallOK
<1> HIDE DEF r
<1>5. CallerOK(r) /\ Holding(r)
  BY <1>3, <1>4 DEF CallerOK, HolderOK, PutOK, ColdOK, BuiltOK, Holding, UsesCache
<1>6. /\ at' = [d \in Callers |-> at'[d]] /\ at'[c] = r
      /\ \A d \in Callers \ {c} : at'[d] = at[d]
  BY <1>2 DEF VecInv, VecTypeOK
<1>7. at[c].pc \notin {"put", "swap"} /\ at'[c].pc \notin {"put", "swap"}
  BY <1>1, <1>3, <1>4, <1>6
<1> QED BY <1>4, <1>5, <1>6, <1>7, CallerStep DEF Lock, VecInv, VecTypeOK

\* get_or_init_cache looks at the slot.
LEMMA PeekStep ==
  ASSUME VecInv, NEW c \in Callers, Peek(c)
  PROVE  VecInv'
<1> DEFINE pc == IF slot # 0 THEN "ready" ELSE "config"
           s == [at[c] EXCEPT !.pc = pc]
           r == [s EXCEPT !.index = slot]
<1>1. at[c].pc = "peek" /\ CallOK(at[c]) /\ CallerOK(at[c])
  BY DEF VecInv, VecTypeOK, Peek
<1>2. at' = [at EXCEPT ![c] = r]
  BY DEF Peek
<1>01. IsCall(at[c])
  BY IsCallAt
<1>0. IsCall(s) /\ s.pc = pc /\ s.req = at[c].req /\ s.index = at[c].index /\ s.built = at[c].built
  BY <1>01 DEF IsCall
<1> HIDE DEF s
<1>00. IsCall(r) /\ r.pc = s.pc /\ r.index = slot /\ r.req = s.req /\ r.built = s.built
  BY <1>0 DEF IsCall
<1> HIDE DEF r
<1>3. IsCall(r) /\ r.pc = pc /\ r.req = at[c].req /\ r.index = slot /\ r.built = at[c].built
  BY <1>0, <1>00
<1>4. CallOK(r)
  <2>2. PcFits(pc, at[c].req.op)
    BY <1>1 DEF CallOK, PcFits, UsesCache
  <2>3. slot \in 0 .. Len(heap)
    BY DEF VecInv, VecTypeOK
  <2> HIDE DEF r
  <2> QED BY <1>1, <1>3, <2>2, <2>3 DEF CallOK
<1> HIDE DEF r
<1>5. CallerOK(r)
  BY <1>1, <1>3 DEF CallerOK, HolderOK, PutOK, ColdOK, BuiltOK, UsesCache
<1>6. Holding(r) <=> Holding(at[c])
  BY <1>1, <1>3 DEF Holding, UsesCache
<1>7. r.pc \notin {"put", "swap"} /\ at[c].pc \notin {"put", "swap"}
  BY <1>1, <1>3
<1> QED BY <1>2, <1>4, <1>5, <1>6, <1>7, MoveStep DEF Peek

\* The persisted configuration is read.
LEMMA LoadConfigStep ==
  ASSUME VecInv, NEW c \in Callers, LoadConfig(c)
  PROVE  VecInv'
<1> DEFINE s == [at[c] EXCEPT !.pc = "scan"]
           r == [s EXCEPT !.built = EmptyIndex(effective)]
<1>1. at[c].pc = "config" /\ CallOK(at[c]) /\ CallerOK(at[c])
  BY DEF VecInv, VecTypeOK, LoadConfig
<1>2. at' = [at EXCEPT ![c] = r]
  BY DEF LoadConfig
<1>3. effective \in Options
  BY DEF VecInv, VecTypeOK, DiskOK, effective, DefaultOpts, Opts, Options
<1>4. /\ EmptyIndex(effective) \in Index
      /\ EmptyIndex(effective).opts = effective
      /\ DOMAIN EmptyIndex(effective).entries = {}
  BY <1>3, EmptyIndexOK
<1>01. IsCall(at[c])
  BY IsCallAt
<1>0. IsCall(s) /\ s.pc = "scan" /\ s.req = at[c].req /\ s.index = at[c].index /\ s.built = at[c].built
  BY <1>01 DEF IsCall
<1> HIDE DEF s
<1>00. IsCall(r) /\ r.pc = s.pc /\ r.built = EmptyIndex(effective) /\ r.req = s.req /\ r.index = s.index
  BY <1>0 DEF IsCall
<1> HIDE DEF r
<1>5. r.pc = "scan" /\ r.req = at[c].req /\ r.index = at[c].index /\ r.built = EmptyIndex(effective)
  BY <1>0, <1>00
<1>6. IsCall(r)
  BY <1>0, <1>00
<1> HIDE DEF r
<1>7. CallOK(r)
  <2>1. PcFits("scan", at[c].req.op)
    BY <1>1 DEF CallOK, PcFits, UsesCache
  <2> QED BY <1>1, <1>4, <1>5, <1>6, <2>1 DEF CallOK
<1>8. CallerOK(r)
  BY <1>1, <1>4, <1>5 DEF CallerOK, HolderOK, PutOK, ColdOK, BuiltOK, UsesCache
<1>9. (Holding(r) <=> Holding(at[c])) /\ r.pc \notin {"put", "swap"} /\ at[c].pc \notin {"put", "swap"}
  BY <1>1, <1>5 DEF Holding, UsesCache
<1> QED BY <1>2, <1>7, <1>8, <1>9, MoveStep DEF LoadConfig

\* build_index scans the table; what is stored has one dimension.
LEMMA ScanVectorsStep ==
  ASSUME VecInv, NEW c \in Callers, ScanVectors(c)
  PROVE  VecInv'
<1> DEFINE b == build_index(at[c].built.opts)
           s == [at[c] EXCEPT !.pc = "install"]
           r == [s EXCEPT !.built = b]
<1>1. at[c].pc = "scan" /\ CallOK(at[c]) /\ CallerOK(at[c]) /\ DiskOK(disk)
  BY DEF VecInv, VecTypeOK, ScanVectors
<1>2. OneDimension(disk.vectors)
  BY <1>1 DEF DiskOK
<1>3. at' = [at EXCEPT ![c] = r] /\ UNCHANGED <<disk, slot, heap, mutex, tainted, used>>
  BY <1>2 DEF ScanVectors
<1>4. at[c].built.opts \in Options
  BY <1>1 DEF CallOK, Index
<1>5. /\ b \in Index /\ b.opts = at[c].built.opts
      /\ DOMAIN b.entries \subseteq Below
      /\ Fits(b) /\ Agrees(b, {})
  BY <1>1, <1>4, BuildOK
<1> HIDE DEF b
<1>01. IsCall(at[c])
  BY IsCallAt
<1>0. IsCall(s) /\ s.pc = "install" /\ s.req = at[c].req /\ s.index = at[c].index /\ s.built = at[c].built
  BY <1>01 DEF IsCall
<1> HIDE DEF s
<1>00. IsCall(r) /\ r.pc = s.pc /\ r.built = b /\ r.req = s.req /\ r.index = s.index
  BY <1>0 DEF IsCall
<1> HIDE DEF r
<1>6. r.pc = "install" /\ r.req = at[c].req /\ r.index = at[c].index /\ r.built = b
  BY <1>0, <1>00
<1>7. IsCall(r)
  BY <1>0, <1>00
<1> HIDE DEF r
<1>8. CallOK(r)
  <2>1. PcFits("install", at[c].req.op)
    BY <1>1 DEF CallOK, PcFits, UsesCache
  <2> QED BY <1>1, <1>5, <1>6, <1>7, <2>1 DEF CallOK
<1>9. CallerOK(r)
  BY <1>1, <1>5, <1>6 DEF CallerOK, HolderOK, PutOK, ColdOK, BuiltOK, UsesCache
<1>10. (Holding(r) <=> Holding(at[c])) /\ r.pc \notin {"put", "swap"} /\ at[c].pc \notin {"put", "swap"}
  BY <1>1, <1>6 DEF Holding, UsesCache
<1> QED BY <1>3, <1>8, <1>9, <1>10, MoveStep

\* upsert_vector checks the node and the embedding first.
LEMMA CheckNodeStep ==
  ASSUME VecInv, NEW c \in Callers, CheckNode(c)
  PROVE  VecInv'
<1>1. at[c].pc = "exists" /\ CallOK(at[c]) /\ DiskOK(disk) /\ at[c].req.op = "upsert"
  BY DEF VecInv, VecTypeOK, CheckNode, CallOK, PcFits, UsesCache
<1>2. CASE at[c].req.node \in disk.alive /\ Encodable(at[c].req.v)
  <2> DEFINE r == [at[c] EXCEPT !.pc = "peek"]
  <2>1. at' = [at EXCEPT ![c] = r] /\ UNCHANGED <<disk, slot, heap, mutex, tainted, used>>
    BY <1>2 DEF CheckNode, Moved
  <2>2. CallOK(r) /\ r.pc = "peek" /\ r.req = at[c].req
    <3>0. IsCall(at[c])
      BY IsCallAt
    <3>1. /\ IsCall(r) /\ r.pc = "peek" /\ r.req = at[c].req
          /\ r.index = at[c].index /\ r.built = at[c].built
      BY <3>0 DEF IsCall
    <3> HIDE DEF r
    <3>2. PcFits("peek", at[c].req.op)
      BY <1>1 DEF PcFits, UsesCache
    <3> QED BY <1>1, <3>1, <3>2 DEF CallOK
  <2> HIDE DEF r
  <2>3. at[c].req.node \in Below /\ at[c].req.v \in Vector
    <3>1. at[c].req \in [op: {"upsert"}, node: Nat, v: Seq(Int)]
      BY <1>1 DEF CallOK, Request, NoRequest
    <3> QED BY <1>1, <1>2, <3>1 DEF DiskOK, Below, Vector, Encodable
  <2>4. CallerOK(r)
    BY <2>2, <2>3 DEF CallerOK, HolderOK, PutOK, ColdOK, BuiltOK, UsesCache
  <2>5. (Holding(r) <=> Holding(at[c])) /\ r.pc \notin {"put", "swap"} /\ at[c].pc \notin {"put", "swap"}
    BY <1>1, <2>2 DEF Holding, UsesCache
  <2> QED BY <2>1, <2>2, <2>4, <2>5, MoveStep
<1>3. CASE ~(at[c].req.node \in disk.alive /\ Encodable(at[c].req.v))
  BY <1>1, <1>3, FinishStep DEF CheckNode
<1> QED BY <1>2, <1>3

\* configure_vector_index and reindex_vector_index build their index.
LEMMA ConfigureStep ==
  ASSUME VecInv, NEW c \in Callers, CheckConfig(c) \/ Rebuild(c)
  PROVE  VecInv'
<1>1. /\ at[c].pc \in {"check", "rebuild"} /\ CallOK(at[c]) /\ DiskOK(disk)
      /\ at[c].req.op \in {"configure", "reindex"}
  BY DEF VecInv, VecTypeOK, CheckConfig, Rebuild, CallOK, PcFits, UsesCache
<1>2. at[c].req.opts \in Options
  <2>1. at[c].req \in [op: {"configure", "reindex"}, opts: Options]
    BY <1>1 DEF CallOK, Request, NoRequest
  <2> QED BY <2>1
<1>3. CASE Finish(c)
  BY <1>1, <1>3, FinishStep DEF CheckConfig, Rebuild
<1>4. CASE ~Finish(c)
  <2>1. PICK b : /\ at' = [at EXCEPT ![c].pc = "store", ![c].built = b]
                 /\ UNCHANGED <<disk, slot, heap, mutex, tainted, used>>
                 /\ \/ b = EmptyIndex(at[c].req.opts) /\ disk.vectors = <<>>
                    \/ b = build_index(at[c].req.opts)
    BY <1>4 DEF CheckConfig, Rebuild
  <2>2. /\ b \in Index /\ b.opts = at[c].req.opts
        /\ DOMAIN b.entries \subseteq Below
        /\ Fits(b) /\ Agrees(b, {})
    <3>1. CASE b = EmptyIndex(at[c].req.opts) /\ disk.vectors = <<>>
      <4>1. b \in Index /\ b.opts = at[c].req.opts /\ DOMAIN b.entries = {}
        BY <1>2, <3>1, EmptyIndexOK
      <4>2. DOMAIN disk.vectors = {}
        BY <3>1
      <4> QED BY <4>1, <4>2 DEF Fits, Agrees
    <3>2. CASE b = build_index(at[c].req.opts)
      BY <1>1, <1>2, <3>2, BuildOK
    <3> QED BY <2>1, <3>1, <3>2
  <2> DEFINE s == [at[c] EXCEPT !.pc = "store"]
             r == [s EXCEPT !.built = b]
  <2>3. at' = [at EXCEPT ![c] = r]
    BY <2>1
  <2>01. IsCall(at[c])
    BY IsCallAt
  <2>0. IsCall(s) /\ s.pc = "store" /\ s.req = at[c].req /\ s.index = at[c].index /\ s.built = at[c].built
    BY <2>01 DEF IsCall
  <2> HIDE DEF s
  <2>00. IsCall(r) /\ r.pc = s.pc /\ r.built = b /\ r.req = s.req /\ r.index = s.index
    BY <2>0 DEF IsCall
  <2> HIDE DEF r
  <2>4. r.pc = "store" /\ r.req = at[c].req /\ r.index = at[c].index /\ r.built = b
    BY <2>0, <2>00
  <2>5. IsCall(r)
    BY <2>0, <2>00
  <2> HIDE DEF r
  <2>6. CallOK(r)
    <3>1. PcFits("store", at[c].req.op)
      BY <1>1 DEF PcFits
    <3> QED BY <1>1, <2>2, <2>4, <2>5, <3>1 DEF CallOK
  <2>7. CallerOK(r)
    BY <1>1, <2>2, <2>4 DEF CallerOK, HolderOK, PutOK, ColdOK, BuiltOK, UsesCache
  <2>8. (Holding(r) <=> Holding(at[c])) /\ r.pc \notin {"put", "swap"} /\ at[c].pc \notin {"put", "swap"}
    BY <1>1, <2>4 DEF Holding, UsesCache
  <2> QED BY <2>1, <2>3, <2>6, <2>7, <2>8, MoveStep
<1> QED BY <1>3, <1>4

\* vector_search_with reads and answers: the rest of what it keeps does not
\* bear on the table.
LEMMA SearchStep ==
  ASSUME VecInv, NEW c \in Callers, SearchNext(c)
  PROVE  VecInv'
<1>1. CallOK(at[c]) /\ CallerOK(at[c])
  BY DEF VecInv, VecTypeOK
<1>2. CASE Collect(c)
  BY <1>2, FinishStep DEF Collect
<1>3. CASE ~Collect(c)
  <2>1. /\ at[c].pc \in {"ready", "search", "live", "rescore"} /\ at[c].req.op = "search"
        /\ UNCHANGED <<disk, slot, heap, mutex, tainted, used>>
    BY <1>1, <1>3 DEF SearchNext, CheckEmpty, SearchIndex, DropGhosts, Rescore, CallOK, PcFits, UsesCache
  <2> DEFINE Fine(r) == /\ at' = [at EXCEPT ![c] = r] /\ IsCall(r)
                       /\ r.req = at[c].req /\ r.index = at[c].index /\ r.built = at[c].built
                       /\ r.pc \in {"search", "live", "rescore", "answered"}
  <2>2. \E r : Fine(r)
    <3>1. ASSUME NEW out, NEW hits, Answer(c, out, hits) PROVE \E r : Fine(r)
      <4> DEFINE s == [at[c] EXCEPT !.pc = "answered"]
                 u == [s EXCEPT !.out = out]
                 r == [u EXCEPT !.hits = hits]
      <4>1. at' = [at EXCEPT ![c] = r]
        BY <3>1 DEF Answer
      <4>01. IsCall(at[c])
        BY IsCallAt
      <4>2. IsCall(s) /\ s.pc = "answered" /\ s.req = at[c].req /\ s.index = at[c].index /\ s.built = at[c].built
        BY <4>01 DEF IsCall
      <4> HIDE DEF s
      <4>4. IsCall(u) /\ u.pc = s.pc /\ u.req = s.req /\ u.index = s.index /\ u.built = s.built
        BY <4>2 DEF IsCall
      <4> HIDE DEF u
      <4>5. IsCall(r) /\ r.pc = u.pc /\ r.req = u.req /\ r.index = u.index /\ r.built = u.built
        BY <4>4 DEF IsCall
      <4> HIDE DEF r
      <4>3. Fine(r)
        BY <4>1, <4>2, <4>4, <4>5
      <4> QED BY <4>3
    <3>2. ASSUME NEW pc \in {"search", "live", "rescore"}, NEW hits,
                 at' = [at EXCEPT ![c].pc = pc, ![c].hits = hits]
          PROVE \E r : Fine(r)
      <4> DEFINE s == [at[c] EXCEPT !.pc = pc]
                 r == [s EXCEPT !.hits = hits]
      <4>1. at' = [at EXCEPT ![c] = r]
        BY <3>2
      <4>01. IsCall(at[c])
        BY IsCallAt
      <4>0. IsCall(s) /\ s.pc = pc /\ s.req = at[c].req /\ s.index = at[c].index /\ s.built = at[c].built
        BY <4>01 DEF IsCall
      <4> HIDE DEF s
      <4>00. IsCall(r) /\ r.pc = s.pc /\ r.hits = hits /\ r.req = s.req /\ r.index = s.index /\ r.built = s.built
        BY <4>0 DEF IsCall
      <4> HIDE DEF r
      <4>3. Fine(r)
        BY <4>0, <4>00, <4>1
      <4> QED BY <4>3
    <3>3. ASSUME NEW want, at' = [at EXCEPT ![c].pc = "search", ![c].want = want]
          PROVE \E r : Fine(r)
      <4> DEFINE s == [at[c] EXCEPT !.pc = "search"]
                 r == [s EXCEPT !.want = want]
      <4>1. at' = [at EXCEPT ![c] = r]
        BY <3>3
      <4>01. IsCall(at[c])
        BY IsCallAt
      <4>0. IsCall(s) /\ s.pc = "search" /\ s.req = at[c].req /\ s.index = at[c].index /\ s.built = at[c].built
        BY <4>01 DEF IsCall
      <4> HIDE DEF s
      <4>00. IsCall(r) /\ r.pc = s.pc /\ r.want = want /\ r.req = s.req /\ r.index = s.index /\ r.built = s.built
        BY <4>0 DEF IsCall
      <4> HIDE DEF r
      <4>3. Fine(r)
        BY <4>0, <4>00, <4>1
      <4> QED BY <4>3
    <3> HIDE DEF Fine
    <3>4. CASE CheckEmpty(c)
      BY <3>1, <3>3, <3>4 DEF CheckEmpty
    <3>5. CASE SearchIndex(c)
      BY <3>1, <3>2, <3>5 DEF SearchIndex
    <3>6. CASE DropGhosts(c)
      BY <3>2, <3>3, <3>6 DEF DropGhosts
    <3>7. CASE Rescore(c)
      BY <3>1, <3>7 DEF Rescore
    <3> QED BY <1>3, <3>4, <3>5, <3>6, <3>7 DEF SearchNext
  <2>3. PICK r : Fine(r)
    BY <2>2
  <2>4. r.req = at[c].req /\ r.index = at[c].index /\ r.built = at[c].built
    BY <2>3
  <2>5. CallOK(r)
    <3>1. PcFits(r.pc, "search")
      BY <2>3 DEF PcFits
    <3> QED BY <1>1, <2>1, <2>3, <2>4, <3>1 DEF CallOK
  <2>6. CallerOK(r)
    BY <2>1, <2>3, <2>4 DEF CallerOK, HolderOK, PutOK, ColdOK, BuiltOK, UsesCache
  <2>7. (Holding(r) <=> Holding(at[c])) /\ r.pc \notin {"put", "swap"} /\ at[c].pc \notin {"put", "swap"}
    BY <2>1, <2>3, <2>4 DEF Holding, UsesCache
  <2> QED BY <2>1, <2>3, <2>5, <2>6, <2>7, MoveStep
<1> QED BY <1>2, <1>3

-----------------------------------------------------------------------------
(* Steps that touch the table, an index or the slot *)

\* Only one caller at a time is between the lock's acquisition and release.
LEMMA SoleHolder ==
  ASSUME VecInv, NEW c \in Callers, Holding(at[c])
  PROVE  mutex = c /\ \A d \in Callers \ {c} : ~Holding(at[d])
BY DEF VecInv, MutexOK

\* Whoever does not hold the lock relies on nothing but what it scanned while
\* the slot was empty.
LEMMA NotHolding ==
  ASSUME NEW r, PcFits(r.pc, r.req.op), ~Holding(r), ColdOK(r)
  PROVE  CallerOK(r) /\ r.pc \notin {"put", "store", "swap"}
BY DEF CallerOK, HolderOK, PutOK, BuiltOK, PcFits, Holding, UsesCache

\* Two states of a caller that differ in a search's results or view at most.
SameCall(r, s) ==
    IsCall(r) /\ r.pc = s.pc /\ r.req = s.req /\ r.index = s.index /\ r.built = s.built

\* The invariant does not tell such states apart.
LEMMA SameCallOK ==
  ASSUME NEW r, NEW s, SameCall(r, s)
  PROVE  /\ CallOK(s) => CallOK(r)
         /\ CallerOK(s) => CallerOK(r)
         /\ ColdOK(s) => ColdOK(r)
         /\ Holding(s) <=> Holding(r)
<1>1. CallOK(s) => CallOK(r)
  BY DEF SameCall, CallOK
<1>2. HolderOK(s) => HolderOK(r)
  BY DEF SameCall, HolderOK
<1>3. PutOK(s) => PutOK(r)
  BY DEF SameCall, PutOK
<1>4. ColdOK(s) => ColdOK(r)
  BY DEF SameCall, ColdOK
<1>5. BuiltOK(s) => BuiltOK(r)
  BY DEF SameCall, BuiltOK
<1> QED BY <1>1, <1>2, <1>3, <1>4, <1>5 DEF SameCall, Holding, CallerOK

\* A search loses sight of a node and keeps everything else.
LEMMA DisturbedSame ==
  ASSUME NEW moved, NEW n, \A c \in Callers : IsCall(moved[c])
  PROVE  /\ Disturbed(moved, n) = [c \in Callers |-> Disturbed(moved, n)[c]]
         /\ \A c \in Callers : SameCall(Disturbed(moved, n)[c], moved[c])
<1>1. \A c \in Callers : Disturbed(moved, n)[c] = [moved[c] EXCEPT !.seen = Without(@, n)]
  BY DEF Disturbed
<1>2. ASSUME NEW r, IsCall(r), NEW x PROVE SameCall([r EXCEPT !.seen = x], r)
  BY <1>2 DEF SameCall, IsCall
<1>3. ASSUME NEW c \in Callers PROVE SameCall(Disturbed(moved, n)[c], moved[c])
  <2> DEFINE r == moved[c]
             x == Without(moved[c].seen, n)
  <2>1. Disturbed(moved, n)[c] = [r EXCEPT !.seen = x]
    BY <1>1
  <2>2. IsCall(r)
    OBVIOUS
  <2> HIDE DEF r, x
  <2>3. SameCall([r EXCEPT !.seen = x], r)
    BY <2>2, <1>2
  <2> QED BY <2>1, <2>3 DEF r
<1>4. Disturbed(moved, n) = [c \in Callers |-> Disturbed(moved, n)[c]]
  BY DEF Disturbed
<1> QED BY <1>3, <1>4

\* A step of the lock's holder c, after which the slot is right and so is
\* what c keeps.
LEMMA HolderStep ==
  ASSUME VecInv, NEW c \in Callers, Holding(at[c]),
         DiskOK(disk)', disk'.next = disk.next,
         heap' \in Seq(Index), Len(heap') >= Len(heap),
         \A i \in 1 .. Len(heap') : DOMAIN heap'[i].entries \subseteq Below,
         slot' \in 0 .. Len(heap'),
         used' = used,
         at' = [d \in Callers |-> at'[d]],
         \A d \in Callers \ {c} : SameCall(at'[d], at[d]),
         slot' = 0 => \A d \in Callers \ {c} : ColdOK(at[d])',
         CallOK(at[c])', CallerOK(at[c])', SlotOK',
         \/ mutex' = mutex /\ Holding(at'[c])
         \/ mutex' = "free" /\ ~Holding(at'[c])
  PROVE  VecInv'
<1>1. mutex = c /\ \A d \in Callers \ {c} : ~Holding(at[d])
  BY SoleHolder
<1>2. Below' = Below
  BY DEF Below
<1>3. ASSUME NEW d \in Callers \ {c} PROVE CallOK(at[d])'
  <2>1. CallOK(at[d]) /\ Len(heap) \in Nat /\ Len(heap') \in Nat
    BY DEF VecInv, VecTypeOK
  <2>2. CallOK(at'[d])
    BY <2>1, SameCallOK
  <2> QED BY <1>2, <2>1, <2>2 DEF CallOK
<1>4. ASSUME NEW d \in Callers \ {c} PROVE CallerOK(at[d])' /\ ~Holding(at'[d])
  <2>1. ~Holding(at'[d])
    BY <1>1, SameCallOK
  <2>2. PcFits(at'[d].pc, at'[d].req.op)
    BY <1>3 DEF CallOK
  <2>3. ColdOK(at[d])'
    BY DEF ColdOK
  <2>4. CallerOK(at[d])'
    BY <2>1, <2>2, <2>3 DEF CallerOK, HolderOK, PutOK, BuiltOK, PcFits, Holding, UsesCache
  <2> QED BY <2>1, <2>4
<1>5. VecTypeOK'
  BY <1>1, <1>2, <1>3 DEF VecInv, VecTypeOK
<1>6. MutexOK'
  <2>1. \A d \in Callers : Holding(at[d])' <=> Holding(at'[d])
    BY DEF Holding
  <2> QED BY <1>1, <1>4, <2>1, VectorAssumption DEF MutexOK
<1> QED BY <1>4, <1>5, <1>6 DEF VecInv

\* The first caller to store its index wins the slot.
LEMMA InstallIndexStep ==
  ASSUME VecInv, NEW c \in Callers, InstallIndex(c)
  PROVE  VecInv'
<1> DEFINE s == [at[c] EXCEPT !.pc = "ready"]
           r == [s EXCEPT !.index = slot']
<1>1. at[c].pc = "install" /\ CallOK(at[c]) /\ CallerOK(at[c]) /\ IsCall(at[c])
  BY DEF VecInv, VecTypeOK, InstallIndex, CallOK
<1>2. at' = [at EXCEPT ![c] = r]
  BY DEF InstallIndex
<1>3. IsCall(s) /\ s.pc = "ready" /\ s.req = at[c].req /\ s.built = at[c].built
  BY <1>1 DEF IsCall
<1> HIDE DEF s
<1>4. IsCall(r) /\ r.pc = "ready" /\ r.req = at[c].req /\ r.built = at[c].built /\ r.index = slot'
  BY <1>3 DEF IsCall
<1> HIDE DEF r
<1>5. /\ at' = [d \in Callers |-> at'[d]] /\ at'[c] = r
      /\ \A d \in Callers \ {c} : at'[d] = at[d]
  BY <1>2 DEF VecInv, VecTypeOK
<1>6. /\ heap \in Seq(Index) /\ Len(heap) \in Nat /\ slot \in 0 .. Len(heap)
      /\ at[c].built \in Index /\ DOMAIN at[c].built.entries \subseteq Below
  BY <1>1 DEF VecInv, VecTypeOK, CallOK
<1>7. PcFits("ready", at[c].req.op)
  BY <1>1 DEF CallOK, PcFits, UsesCache
<1>8. (Holding(r) <=> Holding(at[c])) /\ r.pc \notin {"put", "swap"} /\ at[c].pc \notin {"put", "swap"}
  BY <1>1, <1>4 DEF Holding, UsesCache
<1>9. CASE slot # 0
  <2>1. slot' = slot /\ heap' = heap /\ UNCHANGED <<disk, mutex, tainted, used>>
    BY <1>9 DEF InstallIndex
  <2>2. CallOK(r)
    BY <1>1, <1>4, <1>6, <1>7, <1>9, <2>1 DEF CallOK
  <2>3. CallerOK(r)
    BY <1>1, <1>4, <1>9, <2>1 DEF CallerOK, HolderOK, PutOK, ColdOK, BuiltOK, UsesCache
  <2> QED BY <1>2, <1>8, <2>1, <2>2, <2>3, MoveStep
<1>10. CASE slot = 0
  <2>1. slot' = Len(heap) + 1 /\ heap' = Append(heap, at[c].built) /\ UNCHANGED <<disk, mutex, tainted, used>>
    BY <1>10 DEF InstallIndex
  <2>2. /\ heap' \in Seq(Index) /\ Len(heap') = Len(heap) + 1 /\ heap'[slot'] = at[c].built
        /\ \A i \in 1 .. Len(heap) : heap'[i] = heap[i]
    BY <1>6, <2>1
  <2>3. Below' = Below /\ (effective)' = effective
    BY <2>1 DEF Below, effective
  <2>4. /\ \A x : Fits(x)' <=> Fits(x)
        /\ \A x, y : Agrees(x, y)' <=> Agrees(x, y)
    BY <2>1 DEF Fits, Agrees
  <2>5. Swapping' <=> Swapping
    BY <1>5, <1>8 DEF Swapping
  <2>6. \A d \in Callers : CallOK(at[d])'
    <3>1. CallOK(at[c])'
      BY <1>1, <1>5, <1>4, <1>6, <1>7, <2>1, <2>2, <2>3 DEF CallOK
    <3>2. ASSUME NEW d \in Callers \ {c} PROVE CallOK(at[d])'
      <4>1. CallOK(at[d])
        BY DEF VecInv, VecTypeOK
      <4> QED BY <1>5, <1>6, <2>2, <2>3, <4>1 DEF CallOK
    <3> QED BY <1>5, <3>1, <3>2
  <2>7. VecTypeOK'
    <3>1. \A i \in 1 .. Len(heap') : DOMAIN heap'[i].entries \subseteq Below'
      BY <1>6, <2>1, <2>2, <2>3 DEF VecInv, VecTypeOK
    <3> QED BY <1>5, <1>6, <2>1, <2>2, <2>6, <3>1 DEF VecInv, VecTypeOK
  <2>8. MutexOK'
    <3>1. \A x : Holding(x)' <=> Holding(x)
      BY DEF Holding
    <3> QED BY <1>5, <1>8, <2>1, <3>1 DEF VecInv, MutexOK
  <2>9. SlotOK'
    <3>1. Swapping \/ at[c].built.opts = effective
      BY <1>1, <1>10 DEF CallerOK, ColdOK
    <3>2. Fits(at[c].built) /\ Agrees(at[c].built, {})
      BY <1>1, <1>10 DEF CallerOK, ColdOK
    <3>3. Agrees(at[c].built, (Doubtful)')
      BY <3>2 DEF Agrees
    <3> QED BY <1>6, <2>1, <2>2, <2>3, <2>4, <2>5, <3>1, <3>2, <3>3 DEF SlotOK
  <2>10. ASSUME NEW d \in Callers PROVE CallerOK(at[d])'
    <3>1. slot' # 0
      BY <1>6, <2>1
    <3>2. CallOK(at[d]) /\ CallerOK(at[d])
      BY DEF VecInv, VecTypeOK
    <3>3. d # c => ~(at[d].pc \in {"ready", "put"} /\ at[d].req.op # "search")
      BY <1>10, <3>2 DEF CallerOK, HolderOK, PutOK, CallOK
    <3>4. HolderOK(at[d])'
      <4>1. CASE d = c
        BY <1>1, <1>4, <1>5, <2>3, <4>1 DEF CallerOK, HolderOK, UsesCache
      <4>2. CASE d # c
        BY <1>5, <2>3, <3>2, <3>3, <4>2 DEF CallerOK, HolderOK
      <4> QED BY <4>1, <4>2
    <3>5. PutOK(at[d])'
      <4>1. at'[d].pc # "put"
        BY <1>4, <1>5, <1>10, <3>2 DEF CallerOK, PutOK
      <4> QED BY <4>1 DEF PutOK
    <3>6. BuiltOK(at[d])'
      <4>1. CASE d = c
        BY <1>4, <1>5, <4>1 DEF BuiltOK
      <4>2. CASE d # c
        BY <1>5, <2>1, <2>4, <3>2, <4>2 DEF CallerOK, BuiltOK
      <4> QED BY <4>1, <4>2
    <3> QED BY <3>1, <3>4, <3>5, <3>6 DEF CallerOK, ColdOK
  <2> QED BY <2>7, <2>8, <2>9, <2>10 DEF VecInv
<1> QED BY <1>9, <1>10

\* Nobody is between the index step and the table write while c holds the
\* lock and is not there itself.
LEMMA NobodyPuts ==
  ASSUME VecInv, NEW c \in Callers, Holding(at[c]), at[c].pc # "put"
  PROVE  Doubtful = tainted
<1>1. \A d \in Callers : at[d].pc # "put"
  BY SoleHolder DEF Holding
<1> QED BY <1>1 DEF Doubtful

SameBut(f, g, n) ==
    \A m \in Below : m # n => (m \in DOMAIN f <=> m \in DOMAIN g) /\ (m \in DOMAIN f => f[m] = g[m])

\* The slot's index after a mutation's own step: only the mutated node's entry
\* is another one.
Mutated(index, req) ==
    /\ index \in Index /\ DOMAIN index.entries \subseteq Below
    /\ index.opts = heap[slot].opts /\ Fits(index)
    /\ SameBut(index.entries, heap[slot].entries, req.node)
    /\ req.op = "upsert" => /\ req.node \in DOMAIN index.entries
                            /\ index.entries[req.node] = req.v
                            /\ index.dims = Len(req.v)
    /\ req.op = "remove" => req.node \notin DOMAIN index.entries
ReplacedInSlot(index) ==
    /\ heap' \in Seq(Index) /\ Len(heap') = Len(heap) /\ heap'[slot] = index
    /\ \A i \in 1 .. Len(heap) : i # slot => heap'[i] = heap[i]

\* The index step of a mutation: what the slot's index says of the node the
\* caller mutates, it will say of the table once the write is done.
LEMMA IndexStep ==
  ASSUME VecInv, NEW c \in Callers, at[c].pc = "ready", at[c].req.op \in {"upsert", "remove"},
         NEW index, Mutated(index, at[c].req), ReplacedInSlot(index),
         at' = Disturbed(Moved(c, "put"), at[c].req.node),
         UNCHANGED <<disk, slot, mutex, tainted, used>>
  PROVE  VecInv'
<1> DEFINE n == at[c].req.node
           s == [at[c] EXCEPT !.pc = "put"]
           moved == Moved(c, "put")
<1>1. CallOK(at[c]) /\ CallerOK(at[c]) /\ IsCall(at[c]) /\ Holding(at[c]) /\ at[c].index = slot /\ slot # 0
  BY DEF VecInv, VecTypeOK, CallOK, Holding, UsesCache, CallerOK, HolderOK
<1>2. mutex = c /\ (\A d \in Callers \ {c} : ~Holding(at[d])) /\ Doubtful = tainted
  BY <1>1, SoleHolder, NobodyPuts
<1>3. /\ IsCall(s) /\ s.pc = "put" /\ s.req = at[c].req
      /\ s.index = at[c].index /\ s.built = at[c].built
  BY <1>1 DEF IsCall
<1>4. moved[c] = s /\ \A d \in Callers \ {c} : moved[d] = at[d]
  BY DEF Moved, VecInv, VecTypeOK
<1>5. \A d \in Callers : IsCall(moved[d])
  BY <1>3, <1>4, IsCallAt
<1> HIDE DEF s
<1>6. /\ at' = [d \in Callers |-> at'[d]]
      /\ \A d \in Callers : SameCall(at'[d], moved[d])
  BY <1>5, DisturbedSame
<1> HIDE DEF moved
<1>7. /\ heap \in Seq(Index) /\ Len(heap) \in Nat /\ slot \in 1 .. Len(heap)
      /\ DiskOK(disk)
  BY <1>1 DEF VecInv, VecTypeOK
<1>8. /\ heap' \in Seq(Index) /\ Len(heap') = Len(heap) /\ heap'[slot] = index
      /\ \A i \in 1 .. Len(heap) : i # slot => heap'[i] = heap[i]
  BY DEF ReplacedInSlot
<1>18. /\ index \in Index /\ DOMAIN index.entries \subseteq Below
       /\ index.opts = heap[slot].opts /\ Fits(index)
       /\ SameBut(index.entries, heap[slot].entries, n)
       /\ at[c].req.op = "upsert" => /\ n \in DOMAIN index.entries
                                     /\ index.entries[n] = at[c].req.v
                                     /\ index.dims = Len(at[c].req.v)
       /\ at[c].req.op = "remove" => n \notin DOMAIN index.entries
  BY DEF Mutated
<1>9. \A i \in 1 .. Len(heap') : DOMAIN heap'[i].entries \subseteq Below
  BY <1>7, <1>8, <1>18 DEF VecInv, VecTypeOK
<1>10. \A d \in Callers \ {c} : SameCall(at'[d], at[d])
  BY <1>4, <1>6
<1>11. /\ IsCall(at'[c]) /\ at'[c].pc = "put" /\ at'[c].req = at[c].req
       /\ at'[c].index = slot /\ at'[c].built = at[c].built
  BY <1>1, <1>3, <1>4, <1>6 DEF SameCall
<1>12. Below' = Below /\ (effective)' = effective
  BY DEF Below, effective
<1>13. CallOK(at[c])'
  <2>1. PcFits("put", at[c].req.op)
    BY DEF PcFits
  <2> QED BY <1>1, <1>7, <1>8, <1>11, <1>12, <2>1 DEF CallOK
<1>14. CallerOK(at[c])'
  <2>1. HolderOK(at[c])'
    BY <1>1, <1>11, <1>12 DEF CallerOK, HolderOK, UsesCache
  <2>2. PutOK(at[c])'
    BY <1>1, <1>8, <1>11, <1>18 DEF PutOK
  <2>3. ColdOK(at[c])' /\ BuiltOK(at[c])'
    BY <1>11 DEF ColdOK, BuiltOK
  <2> QED BY <2>1, <2>2, <2>3 DEF CallerOK
<1>15. SlotOK'
  <2>1. (Doubtful)' = tainted \cup {n}
    <3>1. \A d \in Callers : at'[d].pc = "put" <=> d = c
      BY <1>2, <1>10, <1>11 DEF SameCall, Holding
    <3>2. {d \in Callers : at'[d].pc = "put"} = {c}
      BY <3>1
    <3> QED BY <1>11, <3>2 DEF Doubtful
  <2>2. Fits(heap[slot])' /\ heap'[slot].opts = (effective)'
    <3>1. ~Swapping
      BY <1>1, <1>2 DEF Swapping, Holding
    <3> QED BY <1>1, <1>8, <1>12, <1>18, <3>1 DEF Fits, VecInv, SlotOK
  <2>3. Agrees(heap[slot], Doubtful)'
    <3>1. Agrees(heap[slot], tainted)
      BY <1>1, <1>2 DEF VecInv, SlotOK
    <3>2. disk.alive \subseteq Below
      BY <1>7 DEF DiskOK, Below
    <3> QED BY <1>8, <1>18, <2>1, <3>1, <3>2 DEF Agrees, SameBut
  <2> QED BY <1>1, <2>2, <2>3 DEF SlotOK
<1>16. Holding(at'[c]) /\ mutex' = mutex
  BY <1>11 DEF Holding
<1>17. DiskOK(disk)' /\ slot' \in 0 .. Len(heap')
  BY <1>7, <1>8 DEF DiskOK
<1> QED BY <1>1, <1>6, <1>8, <1>9, <1>10, <1>13, <1>14, <1>15, <1>16, <1>17, HolderStep

\* upsert_vector's index step.
LEMMA UpsertIndexStep ==
  ASSUME VecInv, NEW c \in Callers, UpsertIndex(c)
  PROVE  VecInv'
<1> DEFINE n == at[c].req.node
           v == at[c].req.v
           old == heap[at[c].index]
           index == Upserted(old, n, v)
<1>1. /\ at[c].pc = "ready" /\ at[c].req.op = "upsert"
      /\ CallOK(at[c]) /\ CallerOK(at[c])
  BY DEF VecInv, VecTypeOK, UpsertIndex
<1>2. CASE Mismatch(old, v)
  BY <1>1, <1>2, FinishStep DEF UpsertIndex
<1>3. CASE ~Mismatch(old, v)
  <2>1. /\ heap' = [heap EXCEPT ![at[c].index] = index]
        /\ at' = Disturbed(Moved(c, "put"), n)
        /\ UNCHANGED <<disk, slot, mutex, tainted, used>>
    BY <1>3 DEF UpsertIndex
  <2>2. at[c].index = slot /\ slot \in 1 .. Len(heap) /\ n \in Below /\ v \in Vector
    BY <1>1 DEF CallerOK, HolderOK, CallOK, UsesCache
  <2>3. old \in Index /\ DOMAIN old.entries \subseteq Below /\ Fits(old) /\ n \in Nat /\ Len(v) \in Nat
    <3>1. heap \in Seq(Index) /\ \A i \in 1 .. Len(heap) : DOMAIN heap[i].entries \subseteq Below
      BY DEF VecInv, VecTypeOK
    <3>2. Fits(heap[slot])
      BY <2>2 DEF VecInv, SlotOK
    <3> QED BY <2>2, <3>1, <3>2 DEF Below, Vector
  <2>4. old.entries \in Table /\ old.dims \in Nat
    BY <2>3 DEF Index
  <2> DEFINE w == With(old.entries, n, v)
  <2>12. index = [old EXCEPT !.dims = Len(v), !.entries = w]
    BY DEF Upserted
  <2> HIDE DEF old, n, v
  <2>5. /\ w \in Table /\ DOMAIN w = DOMAIN old.entries \cup {n} /\ w[n] = v
        /\ \A m \in DOMAIN old.entries : m # n => w[m] = old.entries[m]
    BY <2>2, <2>3, <2>4, WithTable
  <2> HIDE DEF w, index
  <2>6. index = [opts |-> old.opts, dims |-> Len(v), entries |-> w]
    BY <2>3, <2>12 DEF Index
  <2>7. old.opts \in Options
    BY <2>3 DEF Index
  <2>8. index \in Index /\ DOMAIN index.entries \subseteq Below
    BY <2>2, <2>3, <2>5, <2>6, <2>7 DEF Index
  <2>9. Fits(index)
    <3>1. old.dims # 0 => old.dims = Len(v)
      BY <1>3 DEF Mismatch
    <3>2. old.dims = 0 => DOMAIN disk.vectors = {}
      <4>1. \A m \in DOMAIN disk.vectors : disk.vectors[m] \in Seq(Int) /\ disk.vectors[m] # <<>>
        BY DEF VecInv, VecTypeOK, DiskOK
      <4>2. \A m \in DOMAIN disk.vectors : Len(disk.vectors[m]) # 0
        BY <4>1
      <4> QED BY <2>3, <4>2 DEF Fits
    <3> QED BY <2>3, <2>6, <3>1, <3>2 DEF Fits
  <2>10. SameBut(index.entries, heap[slot].entries, n)
    BY <2>2, <2>5, <2>6 DEF old, SameBut
  <2>11. index.opts = heap[slot].opts /\ n \in DOMAIN index.entries /\ index.entries[n] = v /\ index.dims = Len(v)
    BY <2>2, <2>5, <2>6 DEF old
  <2>13. /\ heap' \in Seq(Index) /\ Len(heap') = Len(heap) /\ heap'[slot] = index
         /\ \A i \in 1 .. Len(heap) : i # slot => heap'[i] = heap[i]
    <3>1. heap \in Seq(Index)
      BY DEF VecInv, VecTypeOK
    <3> QED BY <2>1, <2>2, <2>8, <3>1
  <2>14. Mutated(index, at[c].req)
    BY <1>1, <2>8, <2>9, <2>10, <2>11 DEF Mutated, n, v
  <2>15. ReplacedInSlot(index)
    BY <2>13 DEF ReplacedInSlot
  <2> QED BY <1>1, <2>1, <2>14, <2>15, IndexStep DEF n
<1> QED BY <1>2, <1>3

\* remove_vector's index step.
LEMMA RemoveIndexStep ==
  ASSUME VecInv, NEW c \in Callers, RemoveIndex(c)
  PROVE  VecInv'
<1> DEFINE n == at[c].req.node
           old == heap[at[c].index]
           w == Without(old.entries, n)
           index == [old EXCEPT !.entries = w]
<1>1. /\ at[c].pc = "ready" /\ at[c].req.op = "remove"
      /\ CallOK(at[c]) /\ CallerOK(at[c])
  BY DEF VecInv, VecTypeOK, RemoveIndex
<1>2. at[c].index = slot /\ slot \in 1 .. Len(heap)
  BY <1>1 DEF CallerOK, HolderOK, CallOK
<1>3. heap \in Seq(Index) /\ \A i \in 1 .. Len(heap) : DOMAIN heap[i].entries \subseteq Below
  BY DEF VecInv, VecTypeOK
<1>4. old \in Index /\ DOMAIN old.entries \subseteq Below /\ Fits(old)
  <2>1. Fits(heap[slot])
    BY <1>2 DEF VecInv, SlotOK
  <2> QED BY <1>2, <1>3, <2>1
<1>5. /\ heap' = [heap EXCEPT ![at[c].index] = index]
      /\ at' = Disturbed(Moved(c, "put"), n)
      /\ UNCHANGED <<disk, slot, mutex, tainted, used>>
  BY DEF RemoveIndex
<1>6. old.entries \in Table
  BY <1>4 DEF Index
<1>7. /\ w \in Table /\ DOMAIN w = DOMAIN old.entries \ {n}
      /\ \A m \in DOMAIN old.entries \ {n} : w[m] = old.entries[m]
  BY <1>6, WithoutTable
<1> HIDE DEF w
<1>8. index = [opts |-> old.opts, dims |-> old.dims, entries |-> w]
  BY <1>4 DEF Index
<1> HIDE DEF index
<1>9. old.opts \in Options /\ old.dims \in Nat
  BY <1>4 DEF Index
<1>10. index \in Index /\ DOMAIN index.entries \subseteq Below
  BY <1>4, <1>7, <1>8, <1>9 DEF Index
<1>11. Fits(index)
  BY <1>4, <1>8 DEF Fits
<1>12. SameBut(index.entries, heap[slot].entries, n)
  BY <1>2, <1>7, <1>8 DEF SameBut
<1>13. index.opts = heap[slot].opts /\ n \notin DOMAIN index.entries
  BY <1>2, <1>7, <1>8
<1>14. /\ heap' \in Seq(Index) /\ Len(heap') = Len(heap) /\ heap'[slot] = index
       /\ \A i \in 1 .. Len(heap) : i # slot => heap'[i] = heap[i]
  BY <1>2, <1>3, <1>5, <1>10
<1>15. Mutated(index, at[c].req)
  BY <1>1, <1>10, <1>11, <1>12, <1>13 DEF Mutated
<1>16. ReplacedInSlot(index)
  BY <1>14 DEF ReplacedInSlot
<1> QED BY <1>1, <1>5, <1>15, <1>16, IndexStep

\* A mutation or a swap that returns.
LEMMA HolderFinishes ==
  ASSUME VecInv, NEW c \in Callers, Finish(c)
  PROVE  /\ at' = [d \in Callers |-> at'[d]] /\ at'[c] = Idle
         /\ \A d \in Callers \ {c} : at'[d] = at[d] /\ SameCall(at'[d], at[d])
         /\ Len(heap') >= Len(heap) /\ Len(heap') \in Nat /\ Len(heap) \in Nat => CallOK(at[c])'
         /\ CallerOK(at[c])' /\ ~Holding(at'[c])
<1>1. /\ at' = [d \in Callers |-> at'[d]] /\ at'[c] = Idle
      /\ \A d \in Callers \ {c} : at'[d] = at[d]
  BY DEF Finish, VecInv, VecTypeOK
<1>2. \A d \in Callers \ {c} : SameCall(at'[d], at[d])
  BY <1>1, IsCallAt DEF SameCall
<1>3. /\ CallOK(Idle) /\ ~Holding(Idle)
      /\ Idle.pc = "idle" /\ Idle.req = NoRequest
  BY IdleCall
<1>4. Idle.index = 0 /\ DOMAIN Idle.built.entries = {}
  BY DEF Idle, Calling, EmptyIndex
<1>5. Len(heap') >= Len(heap) /\ Len(heap') \in Nat /\ Len(heap) \in Nat => CallOK(at[c])'
  BY <1>1, <1>3, <1>4 DEF CallOK
<1>6. CallerOK(at[c])'
  BY <1>1, <1>3 DEF CallerOK, HolderOK, PutOK, ColdOK, BuiltOK, NoRequest, UsesCache
<1> QED BY <1>1, <1>2, <1>3, <1>5, <1>6

\* put_vector_bytes or delete_vector_bytes: the table catches up with the index.
LEMMA WriteBytesStep ==
  ASSUME VecInv, NEW c \in Callers, WriteBytes(c)
  PROVE  VecInv'
<1> DEFINE n == at[c].req.node
           v == at[c].req.v
           w == IF at[c].req.op = "upsert" THEN With(disk.vectors, n, v) ELSE Without(disk.vectors, n)
<1>1. /\ at[c].pc = "put" /\ at[c].req.op \in {"upsert", "remove"} /\ Holding(at[c])
      /\ CallOK(at[c]) /\ CallerOK(at[c])
  BY DEF VecInv, VecTypeOK, WriteBytes, CallOK, PcFits, UsesCache, Holding
<1>2. /\ slot # 0
      /\ at[c].req.op = "upsert" => /\ n \in DOMAIN heap[slot].entries
                                    /\ heap[slot].entries[n] = v /\ heap[slot].dims = Len(v)
                                    /\ n \in Below /\ v \in Vector
      /\ at[c].req.op = "remove" => n \notin DOMAIN heap[slot].entries
  BY <1>1 DEF CallerOK, PutOK, HolderOK
<1>3. mutex = c /\ \A d \in Callers \ {c} : ~Holding(at[d])
  BY <1>1, SoleHolder
<1>4. /\ disk' = [disk EXCEPT !.vectors = w] /\ tainted' = tainted \ {n}
      /\ Finish(c) /\ UNCHANGED <<slot, heap, used>>
  BY DEF WriteBytes
<1>5. DiskOK(disk) /\ heap \in Seq(Index) /\ Len(heap) \in Nat /\ slot \in 1 .. Len(heap)
  BY <1>2 DEF VecInv, VecTypeOK
<1>6. disk.vectors \in Table /\ disk.next \in Nat
  <2>1. DefaultOpts \in Options
    BY DEF DefaultOpts, Opts, Options
  <2> QED BY <1>5, <2>1, BuildOK DEF DiskOK
<1>7. /\ w \in Table /\ DOMAIN w \subseteq Below
      /\ \A m \in DOMAIN w : m # n => m \in DOMAIN disk.vectors /\ w[m] = disk.vectors[m]
      /\ \A m \in DOMAIN disk.vectors : m # n => m \in DOMAIN w
      /\ at[c].req.op = "upsert" => n \in DOMAIN w /\ w[n] = v
      /\ at[c].req.op = "remove" => n \notin DOMAIN w
  <2>1. DOMAIN disk.vectors \subseteq Below
    BY <1>5 DEF DiskOK, Below
  <2>2. CASE at[c].req.op = "upsert"
    <3>1. n \in Nat /\ v \in Vector /\ n \in Below
      BY <1>2, <1>6, <2>2 DEF Below
    <3>2. w = With(disk.vectors, n, v)
      BY <2>2
    <3> HIDE DEF w, n, v
    <3>3. /\ w \in Table /\ DOMAIN w = DOMAIN disk.vectors \cup {n} /\ w[n] = v
          /\ \A m \in DOMAIN disk.vectors : m # n => w[m] = disk.vectors[m]
      BY ZenonT(60), <1>6, <3>1, <3>2, WithTable
    <3> QED BY <2>1, <2>2, <3>1, <3>3
  <2>3. CASE at[c].req.op = "remove"
    <3>2. w = Without(disk.vectors, n)
      BY <2>3
    <3> HIDE DEF w, n
    <3>3. /\ w \in Table /\ DOMAIN w = DOMAIN disk.vectors \ {n}
          /\ \A m \in DOMAIN disk.vectors \ {n} : w[m] = disk.vectors[m]
      BY <1>6, <3>2, WithoutTable
    <3> QED BY <2>1, <2>3, <3>3
  <2> QED BY <1>1, <2>2, <2>3
<1> HIDE DEF w
<1>8. /\ disk'.vectors = w /\ disk'.alive = disk.alive /\ disk'.next = disk.next /\ disk'.config = disk.config
      /\ disk' = [alive |-> disk'.alive, next |-> disk'.next, vectors |-> disk'.vectors, config |-> disk'.config]
  BY <1>4, <1>5 DEF DiskOK
<1>9. \A m \in DOMAIN w : Len(w[m]) = heap[slot].dims
  <2>1. \A m \in DOMAIN disk.vectors : Len(disk.vectors[m]) = heap[slot].dims
    BY <1>2 DEF VecInv, SlotOK, Fits
  <2> QED BY <1>1, <1>2, <1>7, <2>1
<1>10. DiskOK(disk)'
  <2>1. w \in [DOMAIN w -> Vector]
    BY <1>7, TableIs
  <2>2. OneDimension(w)
    BY <1>9 DEF OneDimension
  <2> QED BY <1>5, <1>7, <1>8, <2>1, <2>2 DEF DiskOK, Vector, Below
<1>11. SlotOK'
  <2>1. Fits(heap[slot])'
    BY <1>4, <1>8, <1>9 DEF Fits
  <2>2. Agrees(heap[slot], Doubtful)'
    <3>1. Doubtful = tainted \cup {n}
      <4>1. {d \in Callers : at[d].pc = "put"} = {c}
        BY <1>1, <1>3 DEF Holding
      <4> QED BY <4>1 DEF Doubtful
    <3>2. Agrees(heap[slot], tainted \cup {n})
      BY <1>2, <3>1 DEF VecInv, SlotOK
    <3>3. tainted \ {n} \subseteq Doubtful'
      BY <1>4 DEF Doubtful
    <3>4. ASSUME NEW m \in disk.alive, m \notin Doubtful'
          PROVE /\ m \in DOMAIN heap[slot].entries <=> m \in DOMAIN w
                /\ m \in DOMAIN w => heap[slot].entries[m] = w[m]
      <4>1. CASE m = n
        BY <1>1, <1>2, <1>7, <4>1
      <4>2. CASE m # n
        BY <1>7, <3>2, <3>3, <3>4, <4>2 DEF Agrees
      <4> QED BY <4>1, <4>2
    <3> QED BY <1>4, <1>8, <3>4 DEF Agrees
  <2>3. heap'[slot'].opts = (effective)'
    <3>1. ~Swapping
      BY <1>1, <1>3 DEF Swapping, Holding
    <3> QED BY <1>2, <1>4, <1>8, <3>1 DEF effective, VecInv, SlotOK
  <2> QED BY <1>2, <1>4, <2>1, <2>2, <2>3 DEF SlotOK
<1>12. /\ \A i \in 1 .. Len(heap') : DOMAIN heap'[i].entries \subseteq Below
       /\ heap' \in Seq(Index) /\ Len(heap') >= Len(heap) /\ Len(heap') \in Nat /\ slot' \in 0 .. Len(heap')
  BY <1>4, <1>5 DEF VecInv, VecTypeOK
<1>13. mutex' = "free"
  BY <1>3, <1>4 DEF Finish
<1>14. slot' # 0
  BY <1>2, <1>4
<1> QED BY <1>1, <1>4, <1>5, <1>8, <1>10, <1>11, <1>12, <1>13, <1>14, HolderFinishes, HolderStep

\* A table write that fails leaves the node in doubt.
LEMMA WriteBytesFailsStep ==
  ASSUME VecInv, NEW c \in Callers, WriteBytesFails(c)
  PROVE  VecInv'
<1> DEFINE n == at[c].req.node
<1>1. /\ at[c].pc = "put" /\ Holding(at[c]) /\ CallerOK(at[c])
      /\ tainted' = tainted \cup {n} /\ Finish(c) /\ UNCHANGED <<disk, slot, heap, used>>
  BY DEF VecInv, VecTypeOK, WriteBytesFails, Holding
<1>2. slot # 0 /\ DiskOK(disk) /\ Len(heap) \in Nat
  BY <1>1 DEF CallerOK, PutOK, VecInv, VecTypeOK
<1>3. mutex = c /\ \A d \in Callers \ {c} : ~Holding(at[d])
  BY <1>1, SoleHolder
<1>4. SlotOK'
  <2>1. Doubtful \subseteq Doubtful'
    <3>1. {d \in Callers : at[d].pc = "put"} = {c}
      BY <1>1, <1>3 DEF Holding
    <3> QED BY <1>1, <3>1 DEF Doubtful
  <2>2. Agrees(heap[slot], Doubtful)'
    <3>1. Agrees(heap[slot], Doubtful)
      BY <1>2 DEF VecInv, SlotOK
    <3> QED BY <1>1, <2>1, <3>1 DEF Agrees
  <2>3. ~Swapping
    BY <1>1, <1>3 DEF Swapping, Holding
  <2>4. Fits(heap[slot])' /\ heap'[slot'].opts = (effective)'
    BY <1>1, <1>2, <2>3 DEF VecInv, SlotOK, Fits, effective
  <2> QED BY <1>1, <1>2, <2>2, <2>4 DEF SlotOK
<1>5. /\ \A i \in 1 .. Len(heap') : DOMAIN heap'[i].entries \subseteq Below
      /\ heap' \in Seq(Index) /\ Len(heap') >= Len(heap) /\ Len(heap') \in Nat /\ slot' \in 0 .. Len(heap')
  BY <1>1, <1>2 DEF VecInv, VecTypeOK
<1>6. mutex' = "free" /\ DiskOK(disk)' /\ disk'.next = disk.next /\ slot' # 0
  BY <1>1, <1>2, <1>3 DEF Finish, DiskOK
<1> QED BY <1>1, <1>2, <1>4, <1>5, <1>6, HolderFinishes, HolderStep

\* The configuration is stored before the index that has it is swapped in.
LEMMA PutConfigStep ==
  ASSUME VecInv, NEW c \in Callers, PutConfig(c)
  PROVE  VecInv'
<1> DEFINE r == [at[c] EXCEPT !.pc = "swap"]
<1>1. /\ at[c].pc = "store" /\ Holding(at[c]) /\ CallOK(at[c]) /\ CallerOK(at[c]) /\ IsCall(at[c])
      /\ at[c].req.op \in {"configure", "reindex"}
  BY DEF VecInv, VecTypeOK, PutConfig, Holding, CallOK, PcFits, UsesCache
<1>2. at[c].req.opts \in Options
  <2>1. at[c].req \in [op: {"configure", "reindex"}, opts: Options]
    BY <1>1 DEF CallOK, Request, NoRequest
  <2> QED BY <2>1
<1>3. /\ disk' = [disk EXCEPT !.config = at[c].req.opts] /\ at' = [at EXCEPT ![c] = r]
      /\ UNCHANGED <<slot, heap, mutex, tainted, used>>
  BY DEF PutConfig, Moved
<1>4. DiskOK(disk) /\ heap \in Seq(Index) /\ Len(heap) \in Nat /\ slot \in 0 .. Len(heap)
  BY DEF VecInv, VecTypeOK
<1>5. /\ disk'.vectors = disk.vectors /\ disk'.alive = disk.alive /\ disk'.next = disk.next
      /\ disk'.config = at[c].req.opts
      /\ disk' = [alive |-> disk'.alive, next |-> disk'.next, vectors |-> disk'.vectors, config |-> disk'.config]
  BY <1>3, <1>4 DEF DiskOK
<1>6. DiskOK(disk)'
  BY <1>2, <1>4, <1>5 DEF DiskOK
<1>7. IsCall(r) /\ r.pc = "swap" /\ r.req = at[c].req /\ r.index = at[c].index /\ r.built = at[c].built
  BY <1>1 DEF IsCall
<1> HIDE DEF r
<1>8. /\ at' = [d \in Callers |-> at'[d]] /\ at'[c] = r
      /\ \A d \in Callers \ {c} : at'[d] = at[d]
  BY <1>3 DEF VecInv, VecTypeOK
<1>9. \A d \in Callers \ {c} : SameCall(at'[d], at[d])
  BY <1>8, IsCallAt DEF SameCall
<1>10. Below' = Below /\ Swapping'
  BY <1>5, <1>7, <1>8 DEF Below, Swapping
<1>11. /\ \A x : Fits(x)' <=> Fits(x)
       /\ \A x, y : Agrees(x, y)' <=> Agrees(x, y)
  BY <1>5 DEF Fits, Agrees
<1>12. CallOK(at[c])'
  <2>1. PcFits("swap", at[c].req.op)
    BY <1>1 DEF PcFits
  <2> QED BY <1>1, <1>3, <1>7, <1>8, <1>10, <2>1 DEF CallOK
<1>13. CallerOK(at[c])'
  <2>1. at'[c].built.opts = at'[c].req.opts /\ Fits(at'[c].built) /\ Agrees(at'[c].built, {})
    BY <1>1, <1>7, <1>8 DEF CallerOK, BuiltOK
  <2>2. BuiltOK(at[c])'
    BY <1>5, <1>7, <1>8, <1>11, <2>1 DEF BuiltOK
  <2> QED BY <1>7, <1>8, <2>2 DEF CallerOK, HolderOK, PutOK, ColdOK, UsesCache
<1>14. ASSUME NEW d \in Callers \ {c}, slot' = 0 PROVE ColdOK(at[d])'
  <2>1. ColdOK(at[d]) /\ slot = 0
    BY <1>3, <1>14 DEF VecInv, CallerOK
  <2> QED BY <1>8, <1>10, <1>11, <2>1 DEF ColdOK
<1>15. SlotOK'
  <2>1. (Doubtful)' = Doubtful
    <3>1. \A d \in Callers : (at'[d].pc = "put" <=> at[d].pc = "put") /\ (at'[d].pc = "put" => at'[d] = at[d])
      BY <1>1, <1>7, <1>8
    <3> QED BY <1>3, <3>1 DEF Doubtful
  <2>2. slot # 0 => Fits(heap[slot]) /\ Agrees(heap[slot], Doubtful)
    BY DEF VecInv, SlotOK
  <2> QED BY <1>3, <1>10, <1>11, <2>1, <2>2 DEF VecInv, SlotOK
<1>16. /\ \A i \in 1 .. Len(heap') : DOMAIN heap'[i].entries \subseteq Below
       /\ heap' \in Seq(Index) /\ Len(heap') >= Len(heap) /\ slot' \in 0 .. Len(heap')
  BY <1>3, <1>4 DEF VecInv, VecTypeOK
<1>17. Holding(at'[c]) /\ mutex' = mutex /\ used' = used
  BY <1>3, <1>7, <1>8 DEF Holding
<1> QED BY <1>1, <1>5, <1>6, <1>8, <1>9, <1>12, <1>13, <1>14, <1>15, <1>16, <1>17, HolderStep

\* set_extension: the slot names the new index from now on.
LEMMA SwapStep ==
  ASSUME VecInv, NEW c \in Callers, Swap(c)
  PROVE  VecInv'
<1> DEFINE b == at[c].built
<1>1. /\ at[c].pc = "swap" /\ Holding(at[c]) /\ CallOK(at[c]) /\ CallerOK(at[c])
      /\ at[c].req.op \in {"configure", "reindex"}
  BY DEF VecInv, VecTypeOK, Swap, Holding, CallOK, PcFits, UsesCache
<1>2. /\ b \in Index /\ DOMAIN b.entries \subseteq Below
      /\ b.opts = at[c].req.opts /\ Fits(b) /\ Agrees(b, {}) /\ disk.config = at[c].req.opts
  BY <1>1 DEF CallOK, CallerOK, BuiltOK
<1>3. b.opts = effective
  <2>1. b.opts \in Options
    BY <1>2 DEF Index
  <2>2. disk.config # Unset
    BY <1>2, <2>1 DEF Options, Unset
  <2> QED BY <1>2, <2>2 DEF effective
<1>4. /\ heap' = Append(heap, b) /\ slot' = Len(heap) + 1 /\ tainted' = {}
      /\ Finish(c) /\ UNCHANGED <<disk, used>>
  BY DEF Swap
<1>5. DiskOK(disk) /\ heap \in Seq(Index) /\ Len(heap) \in Nat
  BY DEF VecInv, VecTypeOK
<1>6. /\ heap' \in Seq(Index) /\ Len(heap') = Len(heap) + 1 /\ heap'[slot'] = b
      /\ \A i \in 1 .. Len(heap) : heap'[i] = heap[i]
  BY <1>2, <1>4, <1>5
<1>7. mutex = c
  BY <1>1, SoleHolder
<1>8. SlotOK'
  <2>1. Agrees(b, (Doubtful)')
    BY <1>2 DEF Agrees
  <2> QED BY <1>2, <1>3, <1>4, <1>5, <1>6, <2>1 DEF SlotOK, Fits, Agrees, effective
<1>9. /\ \A i \in 1 .. Len(heap') : DOMAIN heap'[i].entries \subseteq Below
      /\ Len(heap') >= Len(heap) /\ Len(heap') \in Nat /\ slot' \in 0 .. Len(heap') /\ slot' # 0
  BY <1>2, <1>4, <1>5, <1>6 DEF VecInv, VecTypeOK
<1>10. mutex' = "free" /\ DiskOK(disk)' /\ disk'.next = disk.next
  BY <1>4, <1>5, <1>7 DEF Finish, DiskOK
<1> QED BY <1>1, <1>4, <1>5, <1>6, <1>8, <1>9, <1>10, HolderFinishes, HolderStep

-----------------------------------------------------------------------------
(* The rest of the graph *)

\* Another thread creates or deletes a node: ids only grow, and of the stored
\* embeddings some may go with their nodes.
LEMMA GraphStep ==
  ASSUME VecInv, UNCHANGED <<slot, heap, mutex, tainted>>,
         used' \in [menu: Menus, calls: Nat, changes: Nat, stops: Nat],
         at' = [c \in Callers |-> at'[c]], \A c \in Callers : SameCall(at'[c], at[c]),
         DiskOK(disk)', disk'.config = disk.config, disk'.next >= disk.next,
         \A n \in DOMAIN disk'.vectors : n \in DOMAIN disk.vectors /\ disk'.vectors[n] = disk.vectors[n],
         \A n \in DOMAIN disk.vectors : n \in disk'.alive => n \in DOMAIN disk'.vectors,
         \A n \in disk'.alive : n \in disk.alive \/ n \notin Below
  PROVE  VecInv'
<1>1. DiskOK(disk) /\ Below \subseteq Below' /\ DOMAIN disk.vectors \subseteq Below
  BY DEF VecInv, VecTypeOK, DiskOK, Below
<1>2. (effective)' = effective /\ (Swapping' <=> Swapping) /\ Doubtful' = Doubtful
  BY DEF effective, Swapping, Doubtful, SameCall
<1>3. \A x : Fits(x) => Fits(x)'
  BY DEF Fits
<1>4. ASSUME NEW x, NEW y, DOMAIN x.entries \subseteq Below, Agrees(x, y) PROVE Agrees(x, y)'
  <2>1. ASSUME NEW n \in disk'.alive, n \notin y
        PROVE /\ n \in DOMAIN x.entries <=> n \in DOMAIN disk'.vectors
              /\ n \in DOMAIN disk'.vectors => x.entries[n] = disk'.vectors[n]
    <3>1. CASE n \in disk.alive
      BY <1>4, <2>1, <3>1 DEF Agrees
    <3>2. CASE n \notin Below
      BY <1>1, <1>4, <3>2
    <3> QED BY <3>1, <3>2
  <2> QED BY <2>1 DEF Agrees
<1>5. ASSUME NEW c \in Callers PROVE CallOK(at[c])' /\ CallerOK(at[c])'
  <2>1. CallOK(at'[c]) /\ CallerOK(at'[c])
    BY SameCallOK DEF VecInv, VecTypeOK
  <2>2. CallOK(at[c])'
    BY <1>1, <2>1 DEF CallOK
  <2>3. HolderOK(at[c])'
    BY <1>1, <2>1 DEF CallerOK, HolderOK
  <2>4. PutOK(at[c])'
    BY <2>1 DEF CallerOK, PutOK
  <2>5. DOMAIN at'[c].built.entries \subseteq Below
    BY <2>1 DEF CallOK
  <2>6. ColdOK(at[c])'
    BY <1>2, <1>3, <1>4, <2>1, <2>5 DEF CallerOK, ColdOK
  <2>7. BuiltOK(at[c])'
    BY <1>3, <1>4, <2>1, <2>5 DEF CallerOK, BuiltOK
  <2> QED BY <2>2, <2>3, <2>4, <2>6, <2>7 DEF CallerOK
<1>6. VecTypeOK'
  BY <1>1, <1>5 DEF VecInv, VecTypeOK
<1>7. MutexOK'
  <2>1. \A c \in Callers : Holding(at[c])' <=> Holding(at[c])
    BY DEF SameCall, Holding
  <2> QED BY <2>1 DEF VecInv, MutexOK
<1>8. SlotOK'
  <2>1. slot # 0 => DOMAIN heap[slot].entries \subseteq Below
    BY DEF VecInv, VecTypeOK
  <2> QED BY <1>2, <1>3, <1>4, <2>1 DEF VecInv, SlotOK
<1> QED BY <1>5, <1>6, <1>7, <1>8 DEF VecInv

\* Nodes come and go, and the process restarts.
LEMMA GraphNextStep ==
  ASSUME VecInv, GraphNext
  PROVE  VecInv'
<1>1. DiskOK(disk) /\ used \in [menu: Menus, calls: Nat, changes: Nat, stops: Nat]
  BY DEF VecInv, VecTypeOK
<1>2. CASE CreateNode
  <2>1. /\ disk' = [disk EXCEPT !.alive = @ \cup {disk.next}, !.next = @ + 1]
        /\ UNCHANGED <<slot, heap, mutex, at, tainted>>
        /\ used' \in [menu: Menus, calls: Nat, changes: Nat, stops: Nat]
    BY <1>1, <1>2 DEF CreateNode, ChangesLeft
  <2>2. /\ disk'.alive = disk.alive \cup {disk.next} /\ disk'.next = disk.next + 1
        /\ disk'.vectors = disk.vectors /\ disk'.config = disk.config
        /\ disk' = [alive |-> disk'.alive, next |-> disk'.next, vectors |-> disk'.vectors, config |-> disk'.config]
    BY <1>1, <2>1 DEF DiskOK
  <2>3. DiskOK(disk)'
    BY <1>1, <2>2 DEF DiskOK
  <2>4. disk.next \notin Below /\ disk'.next >= disk.next
    BY <1>1, <2>2 DEF DiskOK, Below
  <2>5. /\ at' = [c \in Callers |-> at'[c]]
        /\ \A c \in Callers : SameCall(at'[c], at[c])
    BY <2>1, IsCallAt DEF SameCall, VecInv, VecTypeOK
  <2> QED BY <2>1, <2>2, <2>3, <2>4, <2>5, GraphStep
<1>3. ASSUME NEW n \in 1 .. MaxId, DropNode(n) PROVE VecInv'
  <2> DEFINE w == Without(disk.vectors, n)
  <2>1. /\ disk' = [disk EXCEPT !.alive = @ \ {n}, !.vectors = w]
        /\ at' = Disturbed(at, n)
        /\ UNCHANGED <<slot, heap, mutex, tainted>>
        /\ used' \in [menu: Menus, calls: Nat, changes: Nat, stops: Nat]
    BY <1>1, <1>3 DEF DropNode, ChangesLeft
  <2>2. disk.vectors \in Table
    <3>1. DefaultOpts \in Options
      BY DEF DefaultOpts, Opts, Options
    <3> QED BY <1>1, <3>1, BuildOK
  <2>3. /\ w \in Table /\ DOMAIN w = DOMAIN disk.vectors \ {n}
        /\ \A m \in DOMAIN disk.vectors \ {n} : w[m] = disk.vectors[m]
    BY <2>2, WithoutTable
  <2> HIDE DEF w
  <2>4. /\ disk'.alive = disk.alive \ {n} /\ disk'.next = disk.next
        /\ disk'.vectors = w /\ disk'.config = disk.config
        /\ disk' = [alive |-> disk'.alive, next |-> disk'.next, vectors |-> disk'.vectors, config |-> disk'.config]
    BY <1>1, <2>1 DEF DiskOK
  <2>5. DiskOK(disk)'
    <3>1. w \in [DOMAIN w -> Vector]
      BY <2>3, TableIs
    <3>2. OneDimension(w)
      BY <1>1, <2>3 DEF DiskOK, OneDimension
    <3> QED BY <1>1, <2>3, <2>4, <3>1, <3>2 DEF DiskOK, Vector
  <2>6. disk'.next >= disk.next
    BY <1>1, <2>4 DEF DiskOK
  <2>7. /\ at' = [c \in Callers |-> at'[c]]
        /\ \A c \in Callers : SameCall(at'[c], at[c])
    BY <2>1, IsCallAt, DisturbedSame
  <2> QED BY <2>1, <2>3, <2>4, <2>5, <2>6, <2>7, GraphStep
<1>4. CASE Restart
  <2>1. /\ slot' = 0 /\ heap' = <<>> /\ mutex' = "free" /\ tainted' = {}
        /\ at' = [c \in Callers |-> Idle] /\ disk' = disk
        /\ used' \in [menu: Menus, calls: Nat, changes: Nat, stops: Nat]
    BY <1>1, <1>4 DEF Restart
  <2>2. CallOK(Idle) /\ CallerOK(Idle) /\ ~Holding(Idle) /\ Idle.pc = "idle" /\ Idle.req = NoRequest
    BY IdleCall
  <2>3. Idle.index = 0
    BY DEF Idle, Calling
  <2>4. \A c \in Callers : CallOK(at[c])'
    BY <2>1, <2>2, <2>3 DEF CallOK, Below
  <2>5. \A c \in Callers : CallerOK(at[c])'
    BY <2>1, <2>2 DEF CallerOK, HolderOK, PutOK, ColdOK, BuiltOK, NoRequest, UsesCache
  <2>6. VecTypeOK'
    BY <1>1, <2>1, <2>4 DEF VecTypeOK, DiskOK
  <2>7. MutexOK'
    BY <2>1, <2>2, VectorAssumption DEF MutexOK, Holding
  <2> QED BY <2>1, <2>5, <2>6, <2>7 DEF VecInv, SlotOK
<1> QED BY <1>2, <1>3, <1>4 DEF GraphNext

-----------------------------------------------------------------------------
(* The theorem *)

\* An open database whose index nobody has asked for yet.
LEMMA VecInitInv ==
  ASSUME VecInit
  PROVE  VecInv
<1>1. /\ DiskOK(disk) /\ slot = 0 /\ heap = <<>> /\ mutex = "free" /\ tainted = {}
      /\ at = [c \in Callers |-> Idle]
      /\ used \in [menu: Menus, calls: Nat, changes: Nat, stops: Nat]
  BY VectorAssumption DEF VecInit
<1>2. EmptyIndex(DefaultOpts) \in Index /\ Idle.pc = "idle" /\ Idle.req = NoRequest
  BY IdleCall
<1>3. /\ IsCall(Idle) /\ Idle.index = 0 /\ Idle.built = EmptyIndex(DefaultOpts)
      /\ DOMAIN Idle.built.entries = {}
  BY DEF Idle, Calling, EmptyIndex, IsCall
<1>4. PcFits("idle", "none") /\ NoRequest.op = "none"
  BY DEF PcFits, NoRequest
<1>5. \A c \in Callers : CallOK(at[c])
  BY <1>1, <1>2, <1>3, <1>4 DEF CallOK
<1>6. \A c \in Callers : CallerOK(at[c]) /\ ~Holding(at[c])
  BY <1>1, <1>2, <1>4 DEF CallerOK, HolderOK, PutOK, ColdOK, BuiltOK, Holding, UsesCache
<1>7. VecTypeOK
  BY <1>1, <1>5 DEF VecTypeOK
<1>8. MutexOK
  BY <1>1, <1>6, VectorAssumption DEF MutexOK
<1> QED BY <1>1, <1>6, <1>7, <1>8 DEF VecInv, SlotOK

\* Every step keeps the invariant.
LEMMA VecNextInv ==
  ASSUME VecInv, [VecNext]_vecVars
  PROVE  VecInv'
<1>1. CASE UNCHANGED vecVars
  BY <1>1 DEF vecVars, VecInv, VecTypeOK, DiskOK, CallOK, Below, MutexOK, Holding, SlotOK, Fits, Agrees, Doubtful,
              Swapping, effective, CallerOK, HolderOK, PutOK, ColdOK, BuiltOK
<1>2. CASE GraphNext
  BY <1>2, GraphNextStep
<1>3. ASSUME NEW c \in Callers, NEW req \in used.menu, Begin(c, req) PROVE VecInv'
  BY <1>3, BeginStep
<1>4. ASSUME NEW c \in Callers, CacheNext(c) PROVE VecInv'
  BY <1>4, PeekStep, LoadConfigStep, ScanVectorsStep, InstallIndexStep DEF CacheNext
<1>5. ASSUME NEW c \in Callers, MutationNext(c) PROVE VecInv'
  <2>1. CASE PutConfigFails(c)
    BY <1>5, <2>1, FinishStep DEF PutConfigFails
  <2> QED BY <1>5, <2>1, LockStep, CheckNodeStep, UpsertIndexStep, RemoveIndexStep, WriteBytesStep,
             WriteBytesFailsStep, ConfigureStep, PutConfigStep, SwapStep DEF MutationNext
<1>6. ASSUME NEW c \in Callers, SearchNext(c) PROVE VecInv'
  BY <1>6, SearchStep
<1> QED BY <1>1, <1>2, <1>3, <1>4, <1>5, <1>6 DEF VecNext

\* The invariant holds in every reachable state.
THEOREM VecInvariance == VecSpec => []VecInv
<1>1. VecInit => VecInv
  BY VecInitInv
<1>2. VecInv /\ [VecNext]_vecVars => VecInv'
  BY VecNextInv
<1> QED BY <1>1, <1>2, PTL DEF VecSpec

\* Whenever no mutation is under way, the index that searches use has the
\* persisted configuration and exactly the stored embedding of every live node
\* whose last table write did not fail; and what is stored has one dimension.
\* For any callers, calls, stored states, crashes and overlaps.
THEOREM IndexAgreement == VecSpec => []IndexAgrees
<1>1. ASSUME VecInv PROVE IndexAgrees
  <2>1. OneDimension(disk.vectors)
    BY <1>1 DEF VecInv, VecTypeOK, DiskOK
  <2>2. ASSUME mutex = "free", slot # 0
        PROVE /\ heap[slot].opts = effective
              /\ Agrees(heap[slot], tainted)
    <3>1. \A c \in Callers : ~Holding(at[c])
      BY <1>1, <2>2, VectorAssumption DEF VecInv, MutexOK
    <3>2. Doubtful = tainted /\ ~Swapping
      BY <3>1 DEF Doubtful, Swapping, Holding
    <3> QED BY <1>1, <2>2, <3>2 DEF VecInv, SlotOK
  <2> QED BY <2>1, <2>2 DEF IndexAgrees, Agrees
<1> QED BY <1>1, VecInvariance, PTL

-----------------------------------------------------------------------------
(* What a search may rely on: a node it has had in view since it began is   *)
(* stored as it was then, and the index it works on has it.                 *)

SeenOK(r) ==
    \A n \in DOMAIN r.seen : /\ n \in disk.alive \cap DOMAIN disk.vectors /\ n \notin Doubtful
                             /\ disk.vectors[n] = r.seen[n]
Searches(r) == r.req.op = "search" /\ r.pc \in {"ready", "search", "live", "rescore"}
Offers(index, seen) ==
    \A n \in DOMAIN seen : /\ n \in DOMAIN index.entries /\ index.entries[n] = seen[n]
                           /\ index.dims = Len(seen[n])
HeldOK(r) == Searches(r) => Offers(heap[r.index], r.seen)
RefusalOK(r) ==
    r.pc = "answered" =>
      /\ r.out \in {"hits", "empty", "mismatch"}
      /\ r.out = "empty" => DOMAIN r.seen = {}
      /\ r.out = "mismatch" => \A n \in DOMAIN r.seen : Len(r.seen[n]) # Len(r.req.q)
ViewOK(r) == SeenOK(r) /\ HeldOK(r) /\ RefusalOK(r) /\ (r.req.op # "search" => DOMAIN r.seen = {})
ViewInv == \A c \in Callers : ViewOK(at[c])

\* A caller that stands still, but for losing sight of the nodes in N.
Narrowed(r, s, N) ==
    /\ r.pc = s.pc /\ r.req = s.req /\ r.index = s.index /\ r.out = s.out
    /\ \A n \in DOMAIN r.seen : n \in DOMAIN s.seen \ N /\ r.seen[n] = s.seen[n]

\* Index j still has what index i had, but for the nodes in N.
StillOffers(j, i, N) ==
    /\ \A n \in DOMAIN i.entries \ N : n \in DOMAIN j.entries /\ j.entries[n] = i.entries[n]
    /\ i.dims # 0 => j.dims = i.dims

\* A step that touches no node outside N: neither in the table nor in an
\* index, and takes no other node's write in hand.
Touches(N) ==
    /\ \A n \in disk.alive \ N : n \in disk'.alive
    /\ \A n \in DOMAIN disk.vectors \ N : n \in DOMAIN disk'.vectors /\ disk'.vectors[n] = disk.vectors[n]
    /\ Doubtful' \subseteq Doubtful \cup N
    /\ \A i \in 1 .. Len(heap) : StillOffers(heap'[i], heap[i], N)

\* Whoever stands still keeps what it relies on.
LEMMA ViewStays ==
  ASSUME VecInv, NEW d \in Callers, ViewOK(at[d]), NEW N, Touches(N), Narrowed(at'[d], at[d], N)
  PROVE  ViewOK(at[d])'
<1> DEFINE r == at[d]
           s == at'[d]
<1>0. /\ s.pc = r.pc /\ s.req = r.req /\ s.index = r.index /\ s.out = r.out
      /\ \A n \in DOMAIN s.seen : n \in DOMAIN r.seen \ N /\ s.seen[n] = r.seen[n]
  BY DEF Narrowed
<1>1. SeenOK(at[d])'
  BY <1>0 DEF ViewOK, SeenOK, Touches
<1>2. ASSUME Searches(s) PROVE Offers(heap'[s.index], s.seen)
  <2>1. Searches(r) /\ s.index = r.index
    BY <1>0, <1>2 DEF Searches
  <2>2. r.index \in 1 .. Len(heap)
    <3>1. CallOK(r) /\ Len(heap) \in Nat
      BY DEF VecInv, VecTypeOK
    <3> QED BY <2>1, <3>1 DEF CallOK, Searches
  <2>3. Offers(heap[r.index], r.seen)
    BY <2>1 DEF ViewOK, HeldOK
  <2>4. StillOffers(heap'[r.index], heap[r.index], N)
    BY <2>2 DEF Touches
  <2>5. ASSUME NEW n \in DOMAIN s.seen PROVE Len(s.seen[n]) # 0
    <3>1. n \in DOMAIN disk.vectors /\ disk.vectors[n] = s.seen[n]
      BY <1>0, <2>5 DEF ViewOK, SeenOK
    <3>2. disk.vectors[n] \in Seq(Int) \ {<<>>}
      BY <3>1 DEF VecInv, VecTypeOK, DiskOK
    <3> QED BY <3>1, <3>2
  <2> HIDE DEF r, s
  <2> QED BY <1>0, <2>1, <2>3, <2>4, <2>5 DEF Offers, StillOffers
<1>3. HeldOK(at[d])'
  BY <1>2 DEF HeldOK, Searches, Offers
<1>4. RefusalOK(at[d])'
  BY <1>0 DEF ViewOK, RefusalOK
<1> QED BY <1>0, <1>1, <1>3, <1>4 DEF ViewOK

\* A step of c leaves the others where they are.
LEMMA OthersStay ==
  ASSUME VecInv, ViewInv, NEW c \in Callers, NEW N, Touches(N), ViewOK(at[c])',
         \A d \in Callers \ {c} : Narrowed(at'[d], at[d], N)
  PROVE  ViewInv'
<1>1. ASSUME NEW d \in Callers PROVE ViewOK(at[d])'
  <2>1. CASE d = c
    BY <2>1
  <2>2. CASE d # c
    <3>1. ViewOK(at[d]) /\ Narrowed(at'[d], at[d], N)
      BY <2>2 DEF ViewInv
    <3> QED BY <3>1, ViewStays
  <2> QED BY <2>1, <2>2
<1> QED BY <1>1 DEF ViewInv

\* Standing still altogether.
LEMMA NarrowedSame ==
  \A r, N : DOMAIN r.seen \cap N = {} => Narrowed(r, r, N)
BY DEF Narrowed

\* Who has nothing in view relies on nothing.
LEMMA BlindOK ==
  ASSUME NEW c, DOMAIN at'[c].seen = {}, at'[c].pc # "answered"
  PROVE  ViewOK(at[c])'
BY DEF ViewOK, SeenOK, HeldOK, Offers, RefusalOK

\* A call that has returned keeps nothing in view.
LEMMA IdleBlind == DOMAIN Idle.seen = {} /\ Idle.pc = "idle"
BY DEF Idle, Calling

\* A step that writes nothing at all touches no node.
LEMMA TouchesNothing ==
  ASSUME VecInv, NEW c \in Callers, UNCHANGED <<disk, heap, tainted>>,
         \A d \in Callers \ {c} : at'[d] = at[d], at'[c].pc # "put"
  PROVE  Touches({}) /\ \A d \in Callers \ {c} : Narrowed(at'[d], at[d], {})
<1>1. Doubtful' \subseteq Doubtful
  BY DEF Doubtful
<1>2. \A i : StillOffers(heap'[i], heap[i], {})
  BY DEF StillOffers
<1>3. \A d \in Callers \ {c} : Narrowed(at'[d], at[d], {})
  BY NarrowedSame
<1> QED BY <1>1, <1>2, <1>3 DEF Touches

\* c moves on within its call, with the same view and the same index.
LEMMA SearchMoves ==
  ASSUME VecInv, ViewInv, NEW c \in Callers, Searches(at[c]),
         UNCHANGED <<disk, heap, tainted>>, \A d \in Callers \ {c} : at'[d] = at[d],
         at'[c].seen = at[c].seen, at'[c].req = at[c].req, at'[c].index = at[c].index,
         at'[c].pc \in {"search", "live", "rescore", "answered"}, RefusalOK(at[c])'
  PROVE  ViewInv'
<1>1. Touches({}) /\ \A d \in Callers \ {c} : Narrowed(at'[d], at[d], {})
  BY TouchesNothing
<1>2. ViewOK(at[c])
  BY DEF ViewInv
<1>3. SeenOK(at[c])'
  BY <1>1, <1>2 DEF ViewOK, SeenOK, Touches
<1>4. HeldOK(at[c])'
  BY <1>2 DEF ViewOK, HeldOK, Searches, Offers
<1>5. ViewOK(at[c])'
  BY <1>2, <1>3, <1>4 DEF ViewOK
<1> QED BY <1>1, <1>5, OthersStay

\* A search begins with what is stored and in nobody's hands.
LEMMA BeginView ==
  ASSUME VecInv, ViewInv, NEW c \in Callers, NEW req \in used.menu, Begin(c, req)
  PROVE  ViewInv'
<1> DEFINE r == IF req.op = "search" THEN Calling(req, "peek", InView, GoneBefore)
                ELSE Calling(req, "lock", <<>>, {})
<1>1. /\ at'[c] = r /\ \A d \in Callers \ {c} : at'[d] = at[d]
      /\ UNCHANGED <<disk, heap, tainted>>
  BY DEF Begin, VecInv, VecTypeOK
<1>2. /\ r.pc \in {"peek", "lock"} /\ r.req = req
      /\ r.seen = (IF req.op = "search" THEN InView ELSE <<>>)
  BY DEF Calling
<1> HIDE DEF r
<1>3. Touches({}) /\ \A d \in Callers \ {c} : Narrowed(at'[d], at[d], {})
  BY <1>1, <1>2, TouchesNothing
<1>4. CASE req.op # "search"
  BY <1>1, <1>2, <1>3, <1>4, BlindOK, OthersStay
<1>5. CASE req.op = "search"
  <2>1. /\ DOMAIN InView = (disk.alive \cap DOMAIN disk.vectors) \ (tainted \cup BeingMutated)
        /\ \A n \in DOMAIN InView : InView[n] = disk.vectors[n]
    BY DEF InView
  <2>2. Doubtful \subseteq tainted \cup BeingMutated
    <3>1. \A d \in Callers : at[d].pc = "put" => at[d].req.op \in {"upsert", "remove"}
      BY DEF VecInv, VecTypeOK, CallOK, PcFits, UsesCache
    <3> QED BY <3>1 DEF Doubtful, BeingMutated
  <2>3. Doubtful' \subseteq Doubtful
    BY <1>3 DEF Touches
  <2>4. SeenOK(at[c])'
    BY <1>1, <1>2, <1>5, <2>1, <2>2, <2>3 DEF SeenOK
  <2>5. ViewOK(at[c])'
    BY <1>1, <1>2, <1>5, <2>4 DEF ViewOK, HeldOK, Searches, RefusalOK
  <2> QED BY <1>1, <1>3, <2>5, OthersStay
<1> QED BY <1>4, <1>5

\* A mutation that writes nothing, or returns, is not seen by the searches.
LEMMA QuietView ==
  ASSUME VecInv, ViewInv, NEW c \in Callers, UNCHANGED <<disk, heap, tainted>>,
         \A d \in Callers \ {c} : at'[d] = at[d],
         DOMAIN at'[c].seen = {}, at'[c].pc \notin {"put", "answered"}
  PROVE  ViewInv'
<1>1. Touches({}) /\ \A d \in Callers \ {c} : Narrowed(at'[d], at[d], {})
  BY TouchesNothing
<1> QED BY <1>1, BlindOK, OthersStay

\* Returning from a call.
LEMMA FinishView ==
  ASSUME VecInv, ViewInv, NEW c \in Callers, Finish(c), UNCHANGED <<disk, heap, tainted>>
  PROVE  ViewInv'
<1>1. at'[c] = Idle /\ \A d \in Callers \ {c} : at'[d] = at[d]
  BY DEF Finish, VecInv, VecTypeOK
<1> QED BY <1>1, IdleBlind, QuietView

\* Before it looks at the slot and until it has the index, a search keeps its
\* view; a mutation has none.
LEMMA CacheView ==
  ASSUME VecInv, ViewInv, NEW c \in Callers, UNCHANGED <<disk, heap, tainted>>,
         \A d \in Callers \ {c} : at'[d] = at[d],
         at'[c].seen = at[c].seen, at'[c].req = at[c].req,
         at'[c].pc \in {"config", "scan", "install", "exists", "peek", "check", "rebuild", "store"}
  PROVE  ViewInv'
<1>1. Touches({}) /\ \A d \in Callers \ {c} : Narrowed(at'[d], at[d], {})
  BY TouchesNothing
<1>2. ViewOK(at[c])
  BY DEF ViewInv
<1>3. SeenOK(at[c])'
  BY <1>1, <1>2 DEF ViewOK, SeenOK, Touches
<1>4. ViewOK(at[c])'
  BY <1>2, <1>3 DEF ViewOK, HeldOK, Searches, RefusalOK
<1> QED BY <1>1, <1>4, OthersStay

\* The index in the slot has what nobody has touched.
LEMMA SlotOffers ==
  ASSUME VecInv, slot # 0, NEW r, SeenOK(r)
  PROVE  Offers(heap[slot], r.seen)
BY DEF VecInv, SlotOK, Agrees, Fits, SeenOK, Offers

\* get_or_init_cache finds an index or has to build one.
LEMMA PeekView ==
  ASSUME VecInv, ViewInv, NEW c \in Callers, Peek(c)
  PROVE  ViewInv'
<1> DEFINE pc == IF slot # 0 THEN "ready" ELSE "config"
           s == [at[c] EXCEPT !.pc = pc]
           r == [s EXCEPT !.index = slot]
<1>1. IsCall(at[c]) /\ ViewOK(at[c])
  BY IsCallAt DEF ViewInv
<1>2. /\ at'[c] = r /\ \A d \in Callers \ {c} : at'[d] = at[d]
      /\ UNCHANGED <<disk, heap, tainted>>
  BY DEF Peek, VecInv, VecTypeOK
<1>3. IsCall(s) /\ s.pc = pc /\ s.req = at[c].req /\ s.seen = at[c].seen
  BY <1>1 DEF IsCall
<1> HIDE DEF s
<1>4. r.pc = pc /\ r.req = at[c].req /\ r.seen = at[c].seen /\ r.index = slot
  BY <1>3 DEF IsCall
<1> HIDE DEF r
<1>5. CASE slot = 0
  BY <1>2, <1>4, <1>5, CacheView
<1>6. CASE slot # 0
  <2>1. r.pc = "ready"
    BY <1>4, <1>6
  <2>2. Touches({}) /\ \A d \in Callers \ {c} : Narrowed(at'[d], at[d], {})
    BY <1>2, <2>1, TouchesNothing
  <2>3. SeenOK(at[c])'
    BY <1>1, <1>2, <1>4, <2>2 DEF ViewOK, SeenOK, Touches
  <2>4. Offers(heap[slot], at[c].seen)
    BY <1>1, <1>6, SlotOffers DEF ViewOK
  <2>5. HeldOK(at[c])'
    BY <1>2, <1>4, <2>4 DEF HeldOK, Offers
  <2>6. ViewOK(at[c])'
    BY <1>1, <1>2, <1>4, <2>1, <2>3, <2>5 DEF ViewOK, RefusalOK
  <2> QED BY <1>2, <2>2, <2>6, OthersStay
<1> QED BY <1>5, <1>6

\* c becomes r.
LEMMA Becomes ==
  ASSUME VecInv, NEW c \in Callers, NEW r, at' = [at EXCEPT ![c] = r]
  PROVE  at'[c] = r /\ \A d \in Callers \ {c} : at'[d] = at[d]
BY DEF VecInv, VecTypeOK

\* The cold start reads the configuration, then the table.
LEMMA ScanView ==
  ASSUME VecInv, ViewInv, NEW c \in Callers, LoadConfig(c) \/ ScanVectors(c)
  PROVE  ViewInv'
<1>1. IsCall(at[c]) /\ OneDimension(disk.vectors)
  BY IsCallAt DEF VecInv, VecTypeOK, DiskOK
<1>2. \E pc \in {"scan", "install"} : \E b : at' = [at EXCEPT ![c].pc = pc, ![c].built = b]
  BY <1>1 DEF LoadConfig, ScanVectors
<1>30. PICK pc \in {"scan", "install"} : \E b : at' = [at EXCEPT ![c].pc = pc, ![c].built = b]
  BY <1>2
<1>3. PICK b : at' = [at EXCEPT ![c].pc = pc, ![c].built = b]
  BY <1>30
<1> DEFINE s == [at[c] EXCEPT !.pc = pc]
           r == [s EXCEPT !.built = b]
<1>4. at' = [at EXCEPT ![c] = r]
  BY <1>3
<1>5. IsCall(s) /\ s.pc = pc /\ s.req = at[c].req /\ s.seen = at[c].seen
  BY <1>1 DEF IsCall
<1> HIDE DEF s
<1>6. r.pc = pc /\ r.req = at[c].req /\ r.seen = at[c].seen
  BY <1>5 DEF IsCall
<1> HIDE DEF r
<1>7. at'[c] = r /\ \A d \in Callers \ {c} : at'[d] = at[d]
  BY <1>4, Becomes
<1> QED BY <1>6, <1>7, CacheView DEF LoadConfig, ScanVectors

\* The first to store its index wins, and everyone works on that one.
LEMMA InstallView ==
  ASSUME VecInv, ViewInv, NEW c \in Callers, InstallIndex(c)
  PROVE  ViewInv'
<1> DEFINE s == [at[c] EXCEPT !.pc = "ready"]
           r == [s EXCEPT !.index = slot']
           b == at[c].built
<1>1. IsCall(at[c]) /\ ViewOK(at[c]) /\ at[c].pc = "install" /\ CallerOK(at[c]) /\ heap \in Seq(Index)
  BY IsCallAt DEF ViewInv, InstallIndex, VecInv, VecTypeOK
<1>2. /\ at' = [at EXCEPT ![c] = r] /\ UNCHANGED <<disk, tainted>>
      /\ heap' = (IF slot # 0 THEN heap ELSE Append(heap, b))
      /\ slot' = (IF slot # 0 THEN slot ELSE Len(heap) + 1)
  BY DEF InstallIndex
<1>3. IsCall(s) /\ s.pc = "ready" /\ s.req = at[c].req /\ s.seen = at[c].seen
  BY <1>1 DEF IsCall
<1> HIDE DEF s
<1>4. r.pc = "ready" /\ r.req = at[c].req /\ r.seen = at[c].seen /\ r.index = slot'
  BY <1>3 DEF IsCall
<1> HIDE DEF r
<1>5. at'[c] = r /\ \A d \in Callers \ {c} : at'[d] = at[d]
  BY <1>2, Becomes
<1>6. \A i \in 1 .. Len(heap) : heap'[i] = heap[i]
  BY <1>1, <1>2
<1>7. Doubtful' \subseteq Doubtful
  BY <1>2, <1>4, <1>5 DEF Doubtful
<1>8. Touches({}) /\ \A d \in Callers \ {c} : Narrowed(at'[d], at[d], {})
  BY <1>2, <1>5, <1>6, <1>7, NarrowedSame DEF Touches, StillOffers
<1>9. Offers(heap'[slot'], at[c].seen)
  <2>1. CASE slot # 0
    BY <1>1, <1>2, <2>1, SlotOffers DEF ViewOK
  <2>2. CASE slot = 0
    <3>1. heap'[slot'] = b
      BY <1>1, <1>2, <2>2
    <3>2. Fits(b) /\ Agrees(b, {})
      BY <1>1, <2>2 DEF CallerOK, ColdOK
    <3> HIDE DEF b
    <3> QED BY <1>1, <3>1, <3>2 DEF ViewOK, SeenOK, Offers, Fits, Agrees
  <2> QED BY <2>1, <2>2
<1>10. SeenOK(at[c])'
  BY <1>1, <1>2, <1>4, <1>5, <1>7 DEF ViewOK, SeenOK
<1>11. HeldOK(at[c])'
  BY <1>4, <1>5, <1>9 DEF HeldOK, Offers
<1>12. ViewOK(at[c])'
  BY <1>1, <1>4, <1>5, <1>10, <1>11 DEF ViewOK, RefusalOK
<1> QED BY <1>5, <1>8, <1>12, OthersStay

\* The steps of a mutation before it writes.
LEMMA MutationView ==
  ASSUME VecInv, ViewInv, NEW c \in Callers,
         Lock(c) \/ CheckNode(c) \/ CheckConfig(c) \/ Rebuild(c) \/ PutConfigFails(c)
  PROVE  ViewInv'
<1>1. IsCall(at[c]) /\ UNCHANGED <<disk, heap, tainted>>
  BY IsCallAt DEF Lock, CheckNode, CheckConfig, Rebuild, PutConfigFails
<1>2. CASE Finish(c)
  BY <1>1, <1>2, FinishView
<1>3. CASE \E pc \in {"exists", "peek", "check", "rebuild"} : at' = [at EXCEPT ![c].pc = pc]
  <2>1. PICK pc \in {"exists", "peek", "check", "rebuild"} : at' = [at EXCEPT ![c].pc = pc]
    BY <1>3
  <2> DEFINE r == [at[c] EXCEPT !.pc = pc]
  <2>2. at' = [at EXCEPT ![c] = r]
    BY <2>1
  <2>3. r.pc = pc /\ r.req = at[c].req /\ r.seen = at[c].seen
    BY <1>1 DEF IsCall
  <2> HIDE DEF r
  <2> QED BY <1>1, <2>2, <2>3, Becomes, CacheView
<1>4. CASE \E b : at' = [at EXCEPT ![c].pc = "store", ![c].built = b]
  <2>1. PICK b : at' = [at EXCEPT ![c].pc = "store", ![c].built = b]
    BY <1>4
  <2> DEFINE s == [at[c] EXCEPT !.pc = "store"]
             r == [s EXCEPT !.built = b]
  <2>2. at' = [at EXCEPT ![c] = r]
    BY <2>1
  <2>3. IsCall(s) /\ s.pc = "store" /\ s.req = at[c].req /\ s.seen = at[c].seen
    BY <1>1 DEF IsCall
  <2> HIDE DEF s
  <2>4. r.pc = "store" /\ r.req = at[c].req /\ r.seen = at[c].seen
    BY <2>3 DEF IsCall
  <2> HIDE DEF r
  <2> QED BY <1>1, <2>2, <2>4, Becomes, CacheView
<1>5. CASE Lock(c)
  <2>1. at[c].req.op \in {"upsert", "remove", "configure", "reindex"}
    BY <1>5 DEF Lock, VecInv, VecTypeOK, CallOK, PcFits, UsesCache
  <2>2. \E pc \in {"exists", "peek", "check", "rebuild"} : at' = [at EXCEPT ![c].pc = pc]
    BY <1>5, <2>1 DEF Lock, Moved
  <2> QED BY <1>3, <2>2
<1>6. CASE CheckNode(c)
  BY <1>2, <1>3, <1>6 DEF CheckNode, Moved
<1>7. CASE CheckConfig(c) \/ Rebuild(c)
  BY <1>2, <1>4, <1>7 DEF CheckConfig, Rebuild
<1>8. CASE PutConfigFails(c)
  BY <1>2, <1>8 DEF PutConfigFails
<1> QED BY <1>5, <1>6, <1>7, <1>8

\* configure and reindex write the configuration and store a new index; the
\* searches on the old one keep it.
LEMMA SwapView ==
  ASSUME VecInv, ViewInv, NEW c \in Callers, PutConfig(c) \/ Swap(c)
  PROVE  ViewInv'
<1>1. IsCall(at[c]) /\ ViewOK(at[c]) /\ DiskOK(disk) /\ heap \in Seq(Index)
  BY IsCallAt DEF ViewInv, VecInv, VecTypeOK
<1>2. at[c].req.op # "search"
  BY DEF PutConfig, Swap, VecInv, VecTypeOK, CallOK, PcFits, UsesCache
<1>3. /\ disk'.alive = disk.alive /\ disk'.vectors = disk.vectors /\ tainted' \subseteq tainted
      /\ \A i \in 1 .. Len(heap) : heap'[i] = heap[i]
  BY <1>1 DEF PutConfig, Swap, DiskOK
<1>4. /\ \A d \in Callers \ {c} : at'[d] = at[d]
      /\ DOMAIN at'[c].seen = {} /\ at'[c].pc \notin {"put", "answered"}
  <2>1. CASE PutConfig(c)
    <3> DEFINE r == [at[c] EXCEPT !.pc = "swap"]
    <3>1. at' = [at EXCEPT ![c] = r]
      BY <2>1 DEF PutConfig, Moved
    <3>2. r.pc = "swap" /\ r.seen = at[c].seen
      BY <1>1 DEF IsCall
    <3> HIDE DEF r
    <3> QED BY <1>1, <1>2, <3>1, <3>2, Becomes DEF ViewOK
  <2>2. CASE Swap(c)
    BY <2>2, IdleBlind DEF Swap, Finish, VecInv, VecTypeOK
  <2> QED BY <2>1, <2>2
<1>5. Doubtful' \subseteq Doubtful
  BY <1>3, <1>4 DEF Doubtful
<1>6. Touches({}) /\ \A d \in Callers \ {c} : Narrowed(at'[d], at[d], {})
  BY <1>3, <1>4, <1>5, NarrowedSame DEF Touches, StillOffers
<1> QED BY <1>4, <1>6, BlindOK, OthersStay

\* A node disappears from every view.
LEMMA DisturbedNarrows ==
  ASSUME NEW moved, NEW n, \A c \in Callers : IsCall(moved[c]), NEW d \in Callers
  PROVE  Narrowed(Disturbed(moved, n)[d], moved[d], {n})
<1> DEFINE x == Without(moved[d].seen, n)
           r == [moved[d] EXCEPT !.seen = x]
<1>1. Disturbed(moved, n)[d] = r
  BY DEF Disturbed
<1>2. DOMAIN x = DOMAIN moved[d].seen \ {n} /\ \A m \in DOMAIN x : x[m] = moved[d].seen[m]
  BY DEF Without
<1> HIDE DEF x
<1>3. /\ r.pc = moved[d].pc /\ r.req = moved[d].req /\ r.index = moved[d].index /\ r.out = moved[d].out
      /\ r.seen = x
  BY DEF IsCall
<1> HIDE DEF r
<1> QED BY <1>1, <1>2, <1>3 DEF Narrowed

\* The index takes or drops the node: the searches lose sight of it, and of
\* no other.
LEMMA IndexView ==
  ASSUME VecInv, ViewInv, NEW c \in Callers, NEW n, NEW index,
         at[c].pc = "ready", at[c].req.op \in {"upsert", "remove"}, n = at[c].req.node,
         UNCHANGED <<disk, tainted>>,
         heap' = [heap EXCEPT ![at[c].index] = index],
         StillOffers(index, heap[at[c].index], {n}),
         at' = Disturbed(Moved(c, "put"), n)
  PROVE  ViewInv'
<1> DEFINE moved == Moved(c, "put")
           r == [at[c] EXCEPT !.pc = "put"]
<1>1. /\ \A d \in Callers : IsCall(at[d])
      /\ ViewOK(at[c]) /\ heap \in Seq(Index)
  BY IsCallAt DEF ViewInv, VecInv, VecTypeOK
<1>2. IsCall(r) /\ r.pc = "put" /\ r.req = at[c].req /\ r.seen = at[c].seen
  <2>1. IsCall(at[c])
    BY <1>1
  <2> QED BY <2>1 DEF IsCall
<1>3. moved[c] = r /\ \A d \in Callers \ {c} : moved[d] = at[d]
  BY DEF Moved, VecInv, VecTypeOK
<1> HIDE DEF r, moved
<1>4. \A d \in Callers : IsCall(moved[d])
  BY <1>1, <1>2, <1>3
<1>5. \A d \in Callers : Narrowed(at'[d], moved[d], {n})
  BY <1>4, DisturbedNarrows DEF moved
<1>6. \A d \in Callers \ {c} : Narrowed(at'[d], at[d], {n})
  BY <1>3, <1>5
<1>7. at'[c].pc = "put" /\ at'[c].req = at[c].req /\ DOMAIN at'[c].seen = {}
  <2>1. DOMAIN at[c].seen = {}
    BY <1>1 DEF ViewOK
  <2> QED BY <1>2, <1>3, <1>5, <2>1 DEF Narrowed
<1>8. Doubtful' \subseteq Doubtful \cup {n}
  <2>1. \A d \in Callers \ {c} : at'[d].pc = at[d].pc /\ at'[d].req = at[d].req
    BY <1>6 DEF Narrowed
  <2> QED BY <1>7, <2>1 DEF Doubtful
<1>9. \A i \in 1 .. Len(heap) : StillOffers(heap'[i], heap[i], {n})
  <2>1. \A i \in 1 .. Len(heap) : heap'[i] = IF i = at[c].index THEN index ELSE heap[i]
    BY <1>1
  <2>2. \A j : StillOffers(j, j, {n})
    BY DEF StillOffers
  <2> QED BY <2>1, <2>2
<1>10. Touches({n})
  BY <1>8, <1>9 DEF Touches
<1> QED BY <1>6, <1>7, <1>10, BlindOK, OthersStay

\* upsert_vector and remove_vector reach the index.
LEMMA IndexStepView ==
  ASSUME VecInv, ViewInv, NEW c \in Callers, UpsertIndex(c) \/ RemoveIndex(c)
  PROVE  ViewInv'
<1> DEFINE n == at[c].req.node
           old == heap[at[c].index]
<1>1. old \in Index
  BY DEF UpsertIndex, RemoveIndex, VecInv, VecTypeOK, CallOK
<1>2. CASE RemoveIndex(c)
  <2> DEFINE w == Without(old.entries, n)
             index == [old EXCEPT !.entries = w]
  <2>1. DOMAIN w = DOMAIN old.entries \ {n} /\ \A m \in DOMAIN w : w[m] = old.entries[m]
    BY DEF Without
  <2>2. /\ heap' = [heap EXCEPT ![at[c].index] = index]
        /\ at' = Disturbed(Moved(c, "put"), n) /\ UNCHANGED <<disk, tainted>>
        /\ at[c].pc = "ready" /\ at[c].req.op \in {"upsert", "remove"}
    BY <1>2 DEF RemoveIndex
  <2> HIDE DEF w, old
  <2>3. index.dims = old.dims /\ index.entries = w
    BY <1>1 DEF Index
  <2> HIDE DEF index
  <2>4. StillOffers(index, old, {n})
    BY <2>1, <2>3 DEF StillOffers
  <2> HIDE DEF n
  <2> QED BY <2>2, <2>4, IndexView DEF old, n
<1>3. CASE UpsertIndex(c) /\ ~Mismatch(old, at[c].req.v)
  <2> DEFINE v == at[c].req.v
             w == With(old.entries, n, v)
             index == [old EXCEPT !.dims = Len(v), !.entries = w]
  <2>1. DOMAIN w = DOMAIN old.entries \cup {n} /\ \A m \in DOMAIN old.entries \ {n} : w[m] = old.entries[m]
    BY DEF With
  <2>2. /\ heap' = [heap EXCEPT ![at[c].index] = index]
        /\ at' = Disturbed(Moved(c, "put"), n) /\ UNCHANGED <<disk, tainted>>
        /\ at[c].pc = "ready" /\ at[c].req.op \in {"upsert", "remove"}
    BY <1>3 DEF UpsertIndex, Upserted
  <2>3. old.dims # 0 => Len(v) = old.dims
    BY <1>3 DEF Mismatch
  <2> HIDE DEF w, old, v
  <2>4. index.dims = Len(v) /\ index.entries = w
    BY <1>1 DEF Index
  <2> HIDE DEF index
  <2>5. StillOffers(index, old, {n})
    BY <2>1, <2>3, <2>4 DEF StillOffers
  <2> HIDE DEF n
  <2> QED BY <2>2, <2>5, IndexView DEF old, n
<1>4. CASE UpsertIndex(c) /\ Mismatch(old, at[c].req.v)
  BY <1>4, FinishView DEF UpsertIndex
<1> QED BY <1>2, <1>3, <1>4

\* The table write, done or failed: its node was lost sight of before.
LEMMA WriteView ==
  ASSUME VecInv, ViewInv, NEW c \in Callers, WriteBytes(c) \/ WriteBytesFails(c)
  PROVE  ViewInv'
<1> DEFINE n == at[c].req.node
<1>1. at'[c] = Idle /\ \A d \in Callers \ {c} : at'[d] = at[d]
  BY DEF WriteBytes, WriteBytesFails, Finish, VecInv, VecTypeOK
<1>2. n \in Doubtful
  BY DEF Doubtful, WriteBytes, WriteBytesFails
<1>3. heap' = heap /\ tainted' \subseteq tainted \cup {n} /\ DiskOK(disk)
  BY DEF WriteBytes, WriteBytesFails, VecInv, VecTypeOK
<1>4. /\ disk'.alive = disk.alive
      /\ \A m \in DOMAIN disk.vectors \ {n} : m \in DOMAIN disk'.vectors /\ disk'.vectors[m] = disk.vectors[m]
  <2>1. CASE WriteBytes(c)
    <3> DEFINE w == IF at[c].req.op = "upsert" THEN With(disk.vectors, n, at[c].req.v)
                    ELSE Without(disk.vectors, n)
    <3>1. \A m \in DOMAIN disk.vectors \ {n} : m \in DOMAIN w /\ w[m] = disk.vectors[m]
      BY DEF With, Without
    <3>2. disk' = [disk EXCEPT !.vectors = w]
      BY <2>1 DEF WriteBytes
    <3> HIDE DEF w
    <3>3. disk'.vectors = w /\ disk'.alive = disk.alive
      BY <1>3, <3>2 DEF DiskOK
    <3> QED BY <3>1, <3>3
  <2>2. CASE WriteBytesFails(c)
    BY <2>2 DEF WriteBytesFails
  <2> QED BY <2>1, <2>2
<1>5. Doubtful' \subseteq Doubtful
  BY <1>1, <1>2, <1>3, IdleBlind DEF Doubtful
<1> HIDE DEF n
<1>6. Touches({n})
  BY <1>3, <1>4, <1>5 DEF Touches, StillOffers
<1>7. \A d \in Callers \ {c} : Narrowed(at'[d], at[d], {n})
  <2>1. \A d \in Callers : n \notin DOMAIN at[d].seen
    BY <1>2 DEF ViewInv, ViewOK, SeenOK
  <2> QED BY <1>1, <2>1, NarrowedSame
<1> QED BY <1>1, <1>6, <1>7, IdleBlind, BlindOK, OthersStay

\* vector_search_with answers: nothing in view if the index is empty, nothing
\* of the query's dimension if the dimensions differ.
LEMMA SearchView ==
  ASSUME VecInv, ViewInv, NEW c \in Callers, SearchNext(c)
  PROVE  ViewInv'
<1>1. IsCall(at[c]) /\ ViewOK(at[c]) /\ CallOK(at[c])
  BY IsCallAt DEF ViewInv, VecInv, VecTypeOK
<1>2. CASE Collect(c)
  BY <1>2, FinishView DEF Collect
<1>3. CASE ~Collect(c)
  <2> DEFINE index == heap[at[c].index]
  <2>1. Searches(at[c]) /\ UNCHANGED <<disk, heap, tainted>>
    BY <1>1, <1>3 DEF SearchNext, CheckEmpty, SearchIndex, DropGhosts, Rescore, CallOK, PcFits, UsesCache, Searches
  <2>2. Offers(index, at[c].seen)
    BY <1>1, <2>1 DEF ViewOK, HeldOK
  <2>3. ASSUME NEW out \in {"hits", "empty", "mismatch"}, NEW hits, Answer(c, out, hits),
               out = "empty" => DOMAIN at[c].seen = {},
               out = "mismatch" => \A n \in DOMAIN at[c].seen : Len(at[c].seen[n]) # Len(at[c].req.q)
        PROVE  ViewInv'
    <3> DEFINE s == [at[c] EXCEPT !.pc = "answered"]
               u == [s EXCEPT !.out = out]
               r == [u EXCEPT !.hits = hits]
    <3>1. at' = [at EXCEPT ![c] = r]
      BY <2>3 DEF Answer
    <3>2. IsCall(s) /\ s.pc = "answered" /\ s.req = at[c].req /\ s.seen = at[c].seen /\ s.index = at[c].index
      BY <1>1 DEF IsCall
    <3> HIDE DEF s
    <3>3. IsCall(u) /\ u.pc = "answered" /\ u.req = at[c].req /\ u.seen = at[c].seen /\ u.index = at[c].index
          /\ u.out = out
      BY <3>2 DEF IsCall
    <3> HIDE DEF u
    <3>4. /\ r.pc = "answered" /\ r.req = at[c].req /\ r.seen = at[c].seen /\ r.index = at[c].index
          /\ r.out = out
      BY <3>3 DEF IsCall
    <3> HIDE DEF r
    <3>5. at'[c] = r /\ \A d \in Callers \ {c} : at'[d] = at[d]
      BY <3>1, Becomes
    <3>6. RefusalOK(at[c])'
      BY <2>3, <3>4, <3>5 DEF RefusalOK
    <3> QED BY <2>1, <3>4, <3>5, <3>6, SearchMoves
  <2>4. ASSUME NEW pc \in {"search", "live", "rescore"}, NEW r,
               r.pc = pc, r.req = at[c].req, r.seen = at[c].seen, r.index = at[c].index,
               at' = [at EXCEPT ![c] = r]
        PROVE  ViewInv'
    <3>1. at'[c] = r /\ \A d \in Callers \ {c} : at'[d] = at[d]
      BY <2>4, Becomes
    <3>2. RefusalOK(at[c])'
      BY <2>4, <3>1 DEF RefusalOK
    <3> QED BY <2>1, <2>4, <3>1, <3>2, SearchMoves
  <2>5. ASSUME NEW pc \in {"search", "live", "rescore"}, NEW hits,
               at' = [at EXCEPT ![c].pc = pc, ![c].hits = hits]
        PROVE  ViewInv'
    <3> DEFINE s == [at[c] EXCEPT !.pc = pc]
               r == [s EXCEPT !.hits = hits]
    <3>1. at' = [at EXCEPT ![c] = r]
      BY <2>5
    <3>2. IsCall(s) /\ s.pc = pc /\ s.req = at[c].req /\ s.seen = at[c].seen /\ s.index = at[c].index
      BY <1>1 DEF IsCall
    <3> HIDE DEF s
    <3>3. r.pc = pc /\ r.req = at[c].req /\ r.seen = at[c].seen /\ r.index = at[c].index
      BY <3>2 DEF IsCall
    <3> HIDE DEF r
    <3> QED BY <2>4, <3>1, <3>3
  <2>6. ASSUME NEW want, at' = [at EXCEPT ![c].pc = "search", ![c].want = want]
        PROVE  ViewInv'
    <3> DEFINE s == [at[c] EXCEPT !.pc = "search"]
               r == [s EXCEPT !.want = want]
    <3>1. at' = [at EXCEPT ![c] = r]
      BY <2>6
    <3>2. IsCall(s) /\ s.pc = "search" /\ s.req = at[c].req /\ s.seen = at[c].seen /\ s.index = at[c].index
      BY <1>1 DEF IsCall
    <3> HIDE DEF s
    <3>3. r.pc = "search" /\ r.req = at[c].req /\ r.seen = at[c].seen /\ r.index = at[c].index
      BY <3>2 DEF IsCall
    <3> HIDE DEF r
    <3> QED BY <2>4, <3>1, <3>3
  <2>7. CASE CheckEmpty(c)
    <3>1. CASE index.entries = <<>>
      <4>1. DOMAIN at[c].seen = {}
        BY <2>2, <3>1 DEF Offers
      <4>2. Answer(c, "empty", <<>>)
        BY <2>7, <3>1 DEF CheckEmpty
      <4> QED BY <2>3, <4>1, <4>2
    <3>2. CASE index.entries # <<>>
      BY <2>6, <2>7, <3>2 DEF CheckEmpty
    <3> QED BY <3>1, <3>2
  <2>8. CASE SearchIndex(c)
    <3>1. CASE Len(at[c].req.q) # index.dims
      <4>1. \A n \in DOMAIN at[c].seen : Len(at[c].seen[n]) # Len(at[c].req.q)
        BY <2>2, <3>1 DEF Offers
      <4>2. Answer(c, "mismatch", <<>>)
        BY <2>8, <3>1 DEF SearchIndex
      <4> QED BY <2>3, <4>1, <4>2
    <3>2. CASE Len(at[c].req.q) = index.dims
      BY <2>5, <2>8, <3>2 DEF SearchIndex
    <3> QED BY <3>1, <3>2
  <2>9. CASE DropGhosts(c)
    BY <2>5, <2>6, <2>9 DEF DropGhosts
  <2>10. CASE Rescore(c)
    BY <2>3, <2>10 DEF Rescore
  <2> QED BY <1>3, <2>7, <2>8, <2>9, <2>10 DEF SearchNext
<1> QED BY <1>2, <1>3

\* Nodes come and go, and the process restarts.
LEMMA GraphView ==
  ASSUME VecInv, ViewInv, GraphNext
  PROVE  ViewInv'
<1>1. DiskOK(disk) /\ \A c \in Callers : IsCall(at[c])
  BY IsCallAt DEF VecInv, VecTypeOK
<1>2. CASE CreateNode
  <2>1. /\ disk'.alive = disk.alive \cup {disk.next} /\ disk'.vectors = disk.vectors
        /\ UNCHANGED <<heap, at, tainted>>
    BY <1>1, <1>2 DEF CreateNode, DiskOK
  <2>2. Touches({})
    BY <2>1 DEF Touches, StillOffers, Doubtful
  <2>3. ASSUME NEW d \in Callers PROVE ViewOK(at[d])'
    <3>1. ViewOK(at[d]) /\ Narrowed(at'[d], at[d], {})
      BY <2>1, NarrowedSame DEF ViewInv
    <3> QED BY <2>2, <3>1, ViewStays
  <2> QED BY <2>3 DEF ViewInv
<1>3. ASSUME NEW n \in 1 .. MaxId, DropNode(n) PROVE ViewInv'
  <2> DEFINE w == Without(disk.vectors, n)
  <2>1. DOMAIN w = DOMAIN disk.vectors \ {n} /\ \A m \in DOMAIN w : w[m] = disk.vectors[m]
    BY DEF Without
  <2>2. /\ disk' = [disk EXCEPT !.alive = @ \ {n}, !.vectors = w]
        /\ at' = Disturbed(at, n) /\ UNCHANGED <<heap, tainted>>
    BY <1>3 DEF DropNode
  <2> HIDE DEF w
  <2>3. disk'.alive = disk.alive \ {n} /\ disk'.vectors = w
    BY <1>1, <2>2 DEF DiskOK
  <2>4. \A d \in Callers : Narrowed(at'[d], at[d], {n})
    BY <1>1, <2>2, DisturbedNarrows
  <2>5. Doubtful' \subseteq Doubtful
    BY <2>2, <2>4 DEF Doubtful, Narrowed
  <2>6. Touches({n})
    BY <2>1, <2>2, <2>3, <2>5 DEF Touches, StillOffers
  <2>7. ASSUME NEW d \in Callers PROVE ViewOK(at[d])'
    BY <2>4, <2>6, ViewStays DEF ViewInv
  <2> QED BY <2>7 DEF ViewInv
<1>4. CASE Restart
  <2>1. \A d \in Callers : at'[d] = Idle
    BY <1>4 DEF Restart
  <2> QED BY <2>1, IdleBlind, BlindOK DEF ViewInv
<1> QED BY <1>2, <1>3, <1>4 DEF GraphNext

\* Every step keeps the views.
LEMMA VecNextView ==
  ASSUME VecInv, ViewInv, [VecNext]_vecVars
  PROVE  ViewInv'
<1>1. CASE UNCHANGED vecVars
  BY <1>1 DEF vecVars, ViewInv, ViewOK, SeenOK, HeldOK, Offers, RefusalOK, Searches, Doubtful
<1>2. CASE GraphNext
  BY <1>2, GraphView
<1>3. ASSUME NEW c \in Callers, NEW req \in used.menu, Begin(c, req) PROVE ViewInv'
  BY <1>3, BeginView
<1>4. ASSUME NEW c \in Callers, CacheNext(c) PROVE ViewInv'
  BY <1>4, PeekView, ScanView, InstallView DEF CacheNext
<1>5. ASSUME NEW c \in Callers, MutationNext(c) PROVE ViewInv'
  BY <1>5, MutationView, IndexStepView, WriteView, SwapView DEF MutationNext
<1>6. ASSUME NEW c \in Callers, SearchNext(c) PROVE ViewInv'
  BY <1>6, SearchView
<1> QED BY <1>1, <1>2, <1>3, <1>4, <1>5, <1>6 DEF VecNext

\* What a search has had in view since it began is stored unchanged, and the
\* index it works on offers it, whatever is upserted, removed, reindexed or
\* deleted meanwhile.
THEOREM ViewInvariance == VecSpec => []ViewInv
<1>1. VecInit => ViewInv
  BY IdleBlind DEF VecInit, ViewInv, ViewOK, SeenOK, HeldOK, Offers, RefusalOK
<1>2. VecInv /\ ViewInv /\ [VecNext]_vecVars => ViewInv'
  BY VecNextView
<1> QED BY <1>1, <1>2, VecInvariance, PTL DEF VecSpec

\* A search reports an empty index only if nothing that was there when it
\* began and that nobody touched could be found, a wrong dimension only if
\* nothing of the kind has the query's dimension, and no other failure: the
\* part of SearchRight that does not depend on how hits are ranked.
THEOREM RefusalsJustified ==
  VecSpec => [](\A c \in Callers : at[c].pc = "answered" /\ at[c].out # "hits" => RefusalRight(c))
<1>1. ASSUME ViewInv
      PROVE  \A c \in Callers : at[c].pc = "answered" /\ at[c].out # "hits" => RefusalRight(c)
  BY <1>1 DEF ViewInv, ViewOK, RefusalOK, RefusalRight
<1> QED BY <1>1, ViewInvariance, PTL
=============================================================================
