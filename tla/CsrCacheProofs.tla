--------------------------- MODULE CsrCacheProofs ---------------------------
(***************************************************************************)
(* What the snapshot protocol of CsrCache guarantees, for any readers, any *)
(* ids and weights, any number of writes and any workload.                 *)
(*                                                                         *)
(* The one way to lose a write is a full marker recorded while a patch is  *)
(* under way (Overrun, the subject of run csr_lost_marker).  Behaviours    *)
(* without it, and behaviours on a target without threads, where it cannot *)
(* happen, keep every promise.                                             *)
(***************************************************************************)
EXTENDS CsrCache, FiniteSetTheorems, SequenceTheorems, TLAPS

-----------------------------------------------------------------------------
(* What is recorded, and what it accounts for *)

Elems(s) == {s[i] : i \in DOMAIN s}

\* The recorded batches.
Recorded == Elems(pending)

\* Those a snapshot stamped gen lacks.
Owed(gen) == {b \in Recorded : b.tag >= gen}

\* Those recorded after the first k.
After(k) == {pending[i] : i \in {j \in DOMAIN pending : j > k}}

HasFull(bs) == \E b \in bs : b.change.full
HasUpdate(bs) == \E b \in bs : b.change.updated \/ b.change.full
InRows(snap, e) == \E x \in snap.rows : SameEdge(x, e)
InStore(s, a) == \E e \in s.edges : SameEdge(a, e)

\* Storage s is in the snapshot once the batches bs are applied to it.
Reached(snap, bs, s) ==
    \/ HasFull(bs)
    \/ /\ \A n \in s.nodes : n \in snap.nodes \/ \E b \in bs : n \in b.change.nodes
       /\ \A e \in s.edges :
            InRows(snap, e) \/ \E b \in bs : \E a \in b.change.edges : SameEdge(a, e)

\* Storage without what the commit in flight has added.
Settled == [nodes |-> db.nodes \ w.change.nodes,
            edges |-> {e \in db.edges : \A a \in w.change.edges : a.id # e.id}]

\* What the recorded changes account for.
Due == IF w.pc = "record" THEN Settled ELSE db

Closed(s) == \A e \in s.edges : e.src \in s.nodes /\ e.dst \in s.nodes
Within(s, t) == s.nodes \subseteq t.nodes /\ \A e \in s.edges : InStore(t, e)

\* A full marker, for a removal or too many edges, replaces the recorded
\* batches while a patch that counted some of them has yet to drain them.
Overrun ==
    /\ w.pc = "record" /\ w' # w
    /\ m.pc \in {"patch", "drain"} /\ m.applied > 0
    /\ \E i \in DOMAIN pending' : pending'[i].change.full

-----------------------------------------------------------------------------
(* The invariant of every behaviour *)

TypesOK ==
    /\ db \in Storage /\ published \in Storage
    /\ nextNode \in Nat /\ nextEdge \in Nat /\ writes \in Nat
    /\ writeGen \in Nat \ {0} /\ snapGen \in Nat /\ wants \in BOOLEAN
    /\ snapshot \in Snapshot /\ pending \in Seq(Batch)
    /\ w \in [pc: {"idle", "record", "advance"}, change: CsrChange, count: Nat]
    /\ m \in [owner: Readers \cup {"rebuild", None},
              pc: {"free", "start", "pend", "patch", "build", "drain", "prune", "store", "stamp"},
              want: BOOLEAN, built: Nat, change: CsrChange, applied: Nat, snap: Snapshot]
    /\ r \in [Readers -> [pc: {"idle", "compare", "load", "lock", "refresh", "done", "failed"},
                          want: BOOLEAN, seen: Nat, from: Storage, got: Snapshot]]
    /\ load \in Workloads

\* Ids are fresh, records unique, and edges have their endpoints.
StorageOK ==
    /\ \A n \in db.nodes : n < nextNode
    /\ \A e \in db.edges : e.id < nextEdge
    /\ \A e, f \in db.edges : e.id = f.id => e = f
    /\ Closed(db) /\ Closed(published)

\* The change in flight says what the commit did.
WriterOK ==
    /\ w.pc = "idle" => published = db /\ w.change = NoChange
    /\ w.pc # "idle" => w.count > 0
    /\ \A a \in w.change.edges : a.id < nextEdge /\ \A e \in db.edges : a.id = e.id => SameEdge(a, e)
    /\ \A a \in w.change.edges : InStore(db, a) \/ w.change.full
    /\ published.edges \subseteq db.edges \/ w.change.updated \/ w.change.full
    /\ w.change.nodes \subseteq db.nodes /\ Closed(Settled)

\* The recorded batches: tagged with generations already given out, and
\* gone as soon as one of their edges is deleted.
PendingOK ==
    /\ \A b \in Recorded : b.tag <= writeGen /\ (w.pc # "advance" => b.tag < writeGen)
    /\ \A b \in Recorded : \A a \in b.change.edges :
         /\ a.id < nextEdge
         /\ \A e \in db.edges : a.id = e.id => SameEdge(a, e)
         /\ InStore(db, a) \/ (w.pc = "record" /\ w.change.full)
         /\ w.pc = "record" => \A c \in w.change.edges : a.id # c.id

\* The mutex, its owner, and the generations of a pass.
MutexOK ==
    /\ m.owner = None <=> m.pc = "free"
    /\ \A p \in Readers : r[p].pc = "refresh" <=> m.owner = p
    /\ m.owner \in Readers => m.want = r[m.owner].want
    /\ m.owner \notin Readers => m.want = FALSE
    /\ m.pc \in {"pend", "patch", "drain"} => m.owner \in Readers
    /\ snapGen <= writeGen
    /\ m.pc \notin {"free", "start"} => snapGen <= m.built /\ m.built <= writeGen
    /\ m.pc = "stamp" => snapshot = m.snap

\* Weights are there when they were asked for.
WantsOK ==
    /\ \A p \in Readers : r[p].pc # "idle" /\ r[p].want => wants
    /\ m.want => wants
    /\ m.pc \in {"pend", "patch"} /\ m.want => snapshot.weighted
    /\ m.pc \in {"drain", "prune", "store", "stamp"} /\ m.want => m.snap.weighted
    /\ \A p \in Readers : r[p].pc = "done" /\ r[p].want => r[p].got.weighted

\* A build is exact until the next generation.
BuildOK ==
    /\ m.owner = "rebuild" /\ m.pc \in {"prune", "store", "stamp"}
    /\ m.built = writeGen /\ w.pc = "idle"
    => m.snap = BuildSnapshot(db, m.snap.weighted)

\* A call runs to its end before the next one.
Active(p) == r[p].pc \notin {"idle", "done", "failed"}
SingleOK ==
    load.threads = "single" =>
        /\ m.owner # None \/ (\E p \in Readers : r[p].pc # "idle") => w.pc = "idle"
        /\ m.owner # None => \A p \in Readers : r[p].pc = "idle" \/ m.owner = p
        /\ \A p, q \in Readers : r[p].pc # "idle" /\ r[q].pc # "idle" => p = q
        /\ \A p \in Readers : r[p].pc # "idle" => r[p].from = db /\ r[p].seen = writeGen
        /\ m.pc \notin {"free", "start"} => m.built = writeGen

BaseInv ==
    /\ TypesOK /\ StorageOK /\ WriterOK /\ PendingOK /\ MutexOK
    /\ WantsOK /\ BuildOK /\ SingleOK

-----------------------------------------------------------------------------
(* The invariant of behaviours without an overrun *)

\* Who reads what during a pass never sees storage shrink.
Tame == load.threads = "single" \/ load.ops \subseteq Additive

\* The storage a reader began with, or the published one, of generation gen,
\* is in every snapshot of that generation or a later one.
CoversWith(snap, change, s) ==
    /\ s.nodes \subseteq snap.nodes \cup change.nodes
    /\ \A e \in s.edges : InRows(snap, e) \/ \E a \in change.edges : SameEdge(a, e)

ClaimOK(gen, s) ==
    /\ gen <= snapGen => Covers(snapshot, s)
    /\ m.pc = "patch" /\ gen <= m.built => CoversWith(snapshot, m.change, s)
    /\ m.pc \in {"drain", "prune", "store", "stamp"} /\ gen <= m.built => Covers(m.snap, s)

\* Additions never take anything away.
GrowsOK ==
    load.ops \subseteq Additive =>
        /\ Within(published, Settled) /\ ~w.change.full
        /\ \A p \in Readers : Active(p) => Within(r[p].from, published)

\* A patch has taken the first batches, as far as the snapshot lacks them.
PatchOK ==
    /\ m.pc \in {"patch", "drain"} =>
         /\ m.applied <= Len(pending)
         /\ \A b \in After(m.applied) : b.tag >= m.built
         /\ load.threads = "single" => After(m.applied) = {}
    /\ m.pc = "patch" =>
         /\ \A b \in Owed(snapGen) :
              \/ b \in After(m.applied)
              \/ /\ ~b.change.full
                 /\ b.change.nodes \subseteq m.change.nodes
                 /\ b.change.edges \subseteq m.change.edges
                 /\ b.change.updated => m.change.updated
         /\ ~m.change.full
         /\ m.applied = 0 => m.change.nodes = {} /\ m.change.edges = {}
         /\ \A n \in m.change.nodes : \E b \in Owed(snapGen) : n \in b.change.nodes
         /\ \A a \in m.change.edges :
              /\ \E b \in Owed(snapGen) : a \in b.change.edges
              /\ InStore(db, a) => {a.src, a.dst} \subseteq snapshot.nodes \cup m.change.nodes

\* A row with its weight is what storage has, or had before the commit that
\* is yet to be recorded.
Current(x) == x \in db.edges \/ (w.pc = "record" /\ x \in published.edges)

\* A removal that is yet to be recorded.
Deleting == w.pc = "record" /\ w.change.full

\* Nothing is in the snapshot that storage does not have, and nothing that
\* would be added again.
Exact(snap, bs) ==
    /\ snap.nodes \subseteq Due.nodes /\ snap.twice = {}
    /\ \A b \in bs : b.change.nodes \subseteq Due.nodes
    /\ \A x \in snap.rows :
         /\ InStore(Due, x)
         /\ ~snap.weighted => x.w = None
         /\ \A b \in bs : \A a \in b.change.edges : a.id # x.id

\* The snapshot, with the batches it lacks, is storage.
PairOK(snap, bs) ==
    /\ Reached(snap, bs, Due)
    /\ HasFull(bs) \/ Deleting \/ \A x \in snap.rows : InStore(db, x)
    /\ Tame /\ snap.weighted /\ ~HasUpdate(bs) => \A x \in snap.rows : Current(x)
    /\ load.threads = "single" => HasFull(bs) \/ Deleting \/ Exact(snap, bs)

PairsOK ==
    /\ m.pc \notin {"store", "stamp"} => PairOK(snapshot, Owed(snapGen))
    /\ m.pc = "drain" => PairOK(m.snap, After(m.applied))
    /\ m.pc \in {"prune", "store", "stamp"} => PairOK(m.snap, Owed(m.built))

ClaimsOK ==
    Tame =>
        /\ ClaimOK(writeGen, published)
        /\ \A p \in Readers : Active(p) => ClaimOK(r[p].seen, r[p].from)

\* Rows with weights are no older than what is published.
NowOK(snap) == Tame /\ snap.weighted => snap.rows \subseteq published.edges \cup db.edges
NowsOK ==
    /\ snapGen = writeGen => NowOK(snapshot)
    /\ m.pc = "patch" /\ m.built = writeGen /\ ~m.change.updated => NowOK(snapshot)
    /\ m.pc \in {"drain", "prune", "store", "stamp"} /\ m.built = writeGen => NowOK(m.snap)

ReadersOK ==
    \A p \in Readers :
        /\ Active(p) => r[p].seen <= writeGen /\ Closed(r[p].from)
        /\ r[p].pc = "load" => r[p].seen <= snapGen
        /\ r[p].pc = "refresh" /\ m.pc # "start" => r[p].seen <= m.built
        /\ Tame /\ r[p].pc = "done" => Covers(r[p].got, r[p].from)

CoverInv == GrowsOK /\ PatchOK /\ PairsOK /\ ClaimsOK /\ NowsOK /\ ReadersOK

-----------------------------------------------------------------------------
(* The list of pending changes *)

\* A batch is added at the end.
LEMMA ElemsAppend ==
  ASSUME NEW S, NEW s \in Seq(S), NEW e \in S
  PROVE  /\ Append(s, e) \in Seq(S) /\ Len(Append(s, e)) = Len(s) + 1
         /\ Elems(Append(s, e)) = Elems(s) \cup {e}
         /\ \A k \in Nat : k <= Len(s) =>
              {Append(s, e)[i] : i \in {j \in DOMAIN Append(s, e) : j > k}}
                = {s[i] : i \in {j \in DOMAIN s : j > k}} \cup {e}
  <1> DEFINE t == Append(s, e)
  <1>1. /\ t \in Seq(S) /\ Len(t) = Len(s) + 1 /\ Len(s) \in Nat
        /\ DOMAIN t = 1..(Len(s) + 1) /\ DOMAIN s = 1..Len(s)
        /\ \A i \in 1..Len(s) : t[i] = s[i]
        /\ t[Len(s) + 1] = e
    OBVIOUS
  <1> HIDE DEF t
  <1>2. ASSUME NEW k \in Nat, k <= Len(s)
        PROVE  {t[i] : i \in {j \in DOMAIN t : j > k}} = {s[i] : i \in {j \in DOMAIN s : j > k}} \cup {e}
    <2>1. \A i \in DOMAIN t : i \in DOMAIN s \/ i = Len(s) + 1
      BY <1>1
    <2>2. Len(s) + 1 \in DOMAIN t /\ Len(s) + 1 > k /\ \A i \in DOMAIN s : i \in DOMAIN t
      BY <1>1, <1>2
    <2> QED
      BY <1>1, <2>1, <2>2
  <1>3. Elems(t) = Elems(s) \cup {e}
    <2>1. \A i \in DOMAIN t : i \in DOMAIN s \/ i = Len(s) + 1
      BY <1>1
    <2>2. Len(s) + 1 \in DOMAIN t /\ \A i \in DOMAIN s : i \in DOMAIN t
      BY <1>1
    <2> QED
      BY <1>1, <2>1, <2>2 DEF Elems
  <1> QED
    BY <1>1, <1>2, <1>3 DEF t

\* A list of one batch.
LEMMA ElemsOne ==
  ASSUME NEW S, NEW e \in S
  PROVE  <<e>> \in Seq(S) /\ Len(<<e>>) = 1 /\ Elems(<<e>>) = {e}
  BY DEF Elems

\* prune_below retains exactly the batches with a tag that is not below.
LEMMA ElemsPruned ==
  ASSUME NEW s \in Seq(Batch), NEW gen \in Nat
  PROVE  /\ PruneBelow(s, gen) \in Seq(Batch)
         /\ Elems(PruneBelow(s, gen)) = {b \in Elems(s) : b.tag >= gen}
  <1> DEFINE kept == {i \in DOMAIN s : s[i].tag >= gen}
             upto(i) == {k \in kept : k <= i}
             rank(i) == Cardinality(upto(i))
             n == Cardinality(kept)
             pick(j) == CHOOSE i \in kept : rank(i) = j
             t == [j \in 1..n |-> s[pick(j)]]
             f == [i \in kept |-> rank(i)]
  <1>1. DOMAIN s = 1..Len(s) /\ Len(s) \in Nat
    OBVIOUS
  <1>2. IsFiniteSet(kept) /\ n \in Nat
    <2>1. IsFiniteSet(1..Len(s))
      BY <1>1, FS_Interval
    <2>2. kept \in SUBSET (1..Len(s))
      BY <1>1
    <2>3. IsFiniteSet(kept)
      BY <2>1, <2>2, FS_Subset
    <2> QED
      BY <2>3, FS_CardinalityType
  <1>3. ASSUME NEW i \in kept PROVE rank(i) \in 1..n
    <2>1. upto(i) \in SUBSET kept /\ i \in upto(i)
      BY <1>1
    <2>2. IsFiniteSet(upto(i)) /\ rank(i) <= n
      BY <1>2, <2>1, FS_Subset
    <2>3. rank(i) \in Nat /\ rank(i) # 0
      BY <2>1, <2>2, FS_CardinalityType, FS_EmptySet
    <2> QED
      BY <1>2, <2>2, <2>3
  <1>4. ASSUME NEW i \in kept, NEW k \in kept, i < k PROVE rank(i) # rank(k)
    <2>1. upto(i) \in SUBSET upto(k) /\ k \in upto(k) /\ k \notin upto(i)
      BY <1>1, <1>4
    <2>2. upto(k) \in SUBSET kept
      OBVIOUS
    <2>3. IsFiniteSet(upto(k))
      BY <1>2, <2>2, FS_Subset
    <2> QED
      BY <2>1, <2>3, FS_Subset
  <1>5. f \in Injection(kept, 1..n)
    <2>1. f \in [kept -> 1..n]
      BY <1>3
    <2>2. ASSUME NEW i \in kept, NEW k \in kept, f[i] = f[k] PROVE i = k
      <3>1. rank(i) = rank(k)
        BY <2>2
      <3>2. i \in Nat /\ k \in Nat
        BY <1>1
      <3>3. i = k \/ i < k \/ k < i
        BY <3>2
      <3> HIDE DEF rank, kept
      <3> QED
        BY <1>4, <3>1, <3>3
    <2> QED
      BY <2>1, <2>2 DEF Injection, IsInjective
  <1>6. Cardinality(1..n) = n /\ IsFiniteSet(1..n)
    BY <1>2, FS_Interval
  <1>7. f \in Surjection(kept, 1..n)
    <2> HIDE DEF f, n, kept
    <2> QED
      BY <1>5, <1>6, FS_Injection DEF n
  <1>8. ASSUME NEW j \in 1..n PROVE pick(j) \in kept /\ rank(pick(j)) = j
    <2>1. \E i \in kept : f[i] = j
      BY <1>7 DEF Surjection
    <2>2. \E i \in kept : rank(i) = j
      BY <2>1
    <2> HIDE DEF rank, kept
    <2> QED
      BY <2>2
  <1>9. ASSUME NEW i \in kept PROVE pick(rank(i)) = i
    <2> DEFINE k == pick(rank(i))
    <2>1. k \in kept /\ rank(k) = rank(i)
      BY <1>3, <1>8
    <2> HIDE DEF k
    <2>2. f[k] = f[i]
      BY <2>1
    <2>3. k = i
      BY <1>5, <2>1, <2>2 DEF Injection, IsInjective
    <2> QED
      BY <2>3 DEF k
  <1>10. PruneBelow(s, gen) = t
    BY DEF PruneBelow
  <1> HIDE DEF pick, rank, n
  <1>11. t \in Seq(Batch) /\ DOMAIN t = 1..n
    <2>1. \A j \in 1..n : s[pick(j)] \in Batch
      BY <1>1, <1>8, ElementOfSeq
    <2> QED
      BY <1>2, <2>1, IsASeq
  <1>12. Elems(t) = {b \in Elems(s) : b.tag >= gen}
    <2>1. ASSUME NEW j \in 1..n PROVE t[j] \in Elems(s) /\ t[j].tag >= gen
      BY <1>8 DEF Elems
    <2>2. ASSUME NEW b \in Elems(s), b.tag >= gen PROVE b \in Elems(t)
      <3>1. PICK i \in DOMAIN s : b = s[i]
        BY DEF Elems
      <3>2. i \in kept
        BY <2>2, <3>1
      <3>3. rank(i) \in 1..n /\ t[rank(i)] = b
        BY <1>3, <1>9, <3>1, <3>2
      <3> QED
        BY <1>11, <3>3 DEF Elems
    <2> QED
      BY <1>11, <2>1, <2>2 DEF Elems
  <1> QED
    BY <1>10, <1>11, <1>12

\* drain_applied drops the first batches.
LEMMA ElemsDrained ==
  ASSUME NEW s \in Seq(Batch), NEW k \in Nat, k <= Len(s)
  PROVE  /\ DrainApplied(s, k) \in Seq(Batch)
         /\ Elems(DrainApplied(s, k)) = {s[i] : i \in {j \in DOMAIN s : j > k}}
  <1> DEFINE t == SubSeq(s, 1 + k, Len(s))
  <1>1. DrainApplied(s, k) = t
    <2>1. (IF k < Len(s) THEN k ELSE Len(s)) = k
      OBVIOUS
    <2> QED
      BY <2>1, Zenon DEF DrainApplied
  <1>2. /\ t \in Seq(Batch) /\ Len(t) = Len(s) - k
        /\ \A j \in 1..Len(t) : t[j] = s[k + j]
        /\ DOMAIN t = 1..Len(t) /\ DOMAIN s = 1..Len(s) /\ Len(s) \in Nat /\ Len(t) \in Nat
    OBVIOUS
  <1> HIDE DEF t
  <1>3. ASSUME NEW j \in DOMAIN t PROVE k + j \in DOMAIN s /\ k + j > k
    BY <1>2
  <1>4. ASSUME NEW i \in DOMAIN s, i > k PROVE i - k \in DOMAIN t /\ k + (i - k) = i
    BY <1>2, <1>4
  <1>5. ASSUME NEW i \in DOMAIN s, i > k PROVE s[i] \in Elems(t)
    BY <1>2, <1>4, <1>5 DEF Elems
  <1>6. ASSUME NEW j \in DOMAIN t PROVE t[j] \in {s[i] : i \in {l \in DOMAIN s : l > k}}
    BY <1>2, <1>3
  <1> QED
    BY <1>1, <1>2, <1>5, <1>6 DEF Elems

\* Whatever it is told to drop, what is left are batches of the list.
LEMMA DrainedType ==
  ASSUME NEW s \in Seq(Batch), NEW k \in Nat
  PROVE  /\ DrainApplied(s, k) \in Seq(Batch)
         /\ Elems(DrainApplied(s, k)) \subseteq Elems(s)
  <1>1. CASE k <= Len(s)
    <2>1. {s[i] : i \in {j \in DOMAIN s : j > k}} \subseteq Elems(s)
      BY DEF Elems
    <2> QED
      BY <1>1, <2>1, ElemsDrained
  <1>2. CASE ~(k <= Len(s))
    <2>1. (IF k < Len(s) THEN k ELSE Len(s)) = Len(s) /\ Len(s) \in Nat
      BY <1>2
    <2>2. DrainApplied(s, k) = SubSeq(s, 1 + Len(s), Len(s))
      BY <2>1, Zenon DEF DrainApplied
    <2>3. SubSeq(s, 1 + Len(s), Len(s)) = << >>
      BY <2>1, SubSeqEmpty
    <2>4. << >> \in Seq(Batch) /\ Elems(<< >>) = {}
      BY DEF Elems
    <2> QED
      BY <2>2, <2>3, <2>4
  <1> QED
    BY <1>1, <1>2

-----------------------------------------------------------------------------
(* What a commit is *)

\* A commit allocates fresh ids, keeps the tables consistent, and publishes a
\* change that names what it added and admits what it took away or rewrote.
CommitStep ==
    /\ w.pc = "idle" /\ MayStart
    /\ w'.pc = "record" /\ w'.change \in CsrChange /\ w'.count \in Nat \ {0}
    /\ w' \in [pc: {"idle", "record", "advance"}, change: CsrChange, count: Nat]
    /\ db' \in Storage /\ writes' \in Nat
    /\ nextNode' \in Nat /\ nextEdge' \in Nat
    /\ nextNode <= nextNode' /\ nextEdge <= nextEdge'
    /\ \A n \in db'.nodes : n < nextNode'
    /\ \A e \in db'.edges : e.id < nextEdge'
    /\ \A e, f \in db'.edges : e.id = f.id => e = f
    /\ Closed(db')
    /\ \A n \in w'.change.nodes : nextNode <= n /\ n \in db'.nodes
    /\ db'.nodes \subseteq db.nodes \cup w'.change.nodes
    /\ \A a \in w'.change.edges : nextEdge <= a.id /\ InStore(db', a)
    /\ \A e \in db'.edges : InStore(db, e) \/ \E a \in w'.change.edges : SameEdge(a, e)
    /\ w'.change.full \/ (db.nodes \subseteq db'.nodes /\ \A e \in db.edges : InStore(db', e))
    /\ w'.change.full \/ w'.change.updated \/ db.edges \subseteq db'.edges
    /\ load.ops \subseteq Additive => ~w'.change.full
    /\ UNCHANGED <<cache, m, r, published, load>>

\* An edge of one record is the edge of another with the same fields.
LEMMA InStoreSelf ==
  ASSUME NEW s \in Storage, NEW e \in s.edges
  PROVE  InStore(s, e)
  BY DEF InStore, SameEdge

\* The parts of a change have their types.
LEMMA ChangeTypes ==
  /\ NoChange \in CsrChange /\ FullChange \in CsrChange /\ EdgesUpdated \in CsrChange
  /\ FullChange.nodes = {} /\ FullChange.edges = {} /\ FullChange.full = TRUE
  /\ EdgesUpdated.nodes = {} /\ EdgesUpdated.edges = {} /\ EdgesUpdated.full = FALSE /\ EdgesUpdated.updated = TRUE
  /\ NoChange.nodes = {} /\ NoChange.edges = {} /\ NoChange.full = FALSE /\ NoChange.updated = FALSE
  BY DEF NoChange, FullChange, EdgesUpdated, CsrChange

\* The part of a commit that all of them share.
LEMMA CommitTypes ==
  ASSUME BaseInv, NEW newDb \in Storage, NEW change \in CsrChange, NEW count \in Nat \ {0},
         Commit(newDb, change, count)
  PROVE  /\ w.pc = "idle" /\ MayStart
         /\ w'.pc = "record" /\ w'.change = change /\ w'.count = count
         /\ w' \in [pc: {"idle", "record", "advance"}, change: CsrChange, count: Nat]
         /\ db' = newDb /\ writes' \in Nat
         /\ UNCHANGED <<cache, m, r, published, load>>
  BY DEF Commit, BaseInv, TypesOK

\* add_node commits a node with an id above every other.
LEMMA AddNodeCommits == ASSUME BaseInv, AddNode PROVE CommitStep
  <1> DEFINE newDb == [db EXCEPT !.nodes = @ \cup {nextNode}]
             change == [NoChange EXCEPT !.nodes = {nextNode}]
  <1>1. nextNode \in NodeId /\ nextNode' = nextNode + 1 /\ nextEdge' = nextEdge /\ Commit(newDb, change, 1)
    BY DEF AddNode
  <1>2. db \in Storage /\ nextNode \in Nat /\ nextEdge \in Nat
    BY DEF BaseInv, TypesOK
  <1>3. newDb \in Storage /\ newDb.nodes = db.nodes \cup {nextNode} /\ newDb.edges = db.edges
    BY <1>1, <1>2 DEF Storage
  <1>4. change \in CsrChange /\ change.nodes = {nextNode} /\ change.edges = {} /\ change.full = FALSE
    BY <1>1 DEF NoChange, CsrChange
  <1> HIDE DEF newDb, change
  <1>5. /\ w.pc = "idle" /\ MayStart
        /\ w'.pc = "record" /\ w'.change = change /\ w'.count = 1
        /\ w' \in [pc: {"idle", "record", "advance"}, change: CsrChange, count: Nat]
        /\ db' = newDb /\ writes' \in Nat
        /\ UNCHANGED <<cache, m, r, published, load>>
    BY <1>1, <1>3, <1>4, CommitTypes
  <1>6. \A e \in db.edges : InStore(db, e)
    BY <1>2, InStoreSelf
  <1>7. Closed(newDb)
    BY <1>3 DEF Closed, BaseInv, StorageOK
  <1>8. \A n \in newDb.nodes : n < nextNode'
    BY <1>1, <1>2, <1>3 DEF BaseInv, StorageOK, Storage, NodeId
  <1>9. \A e \in db.edges : InStore(newDb, e)
    BY <1>3, <1>6 DEF InStore
  <1> QED
    BY <1>1, <1>2, <1>3, <1>4, <1>5, <1>6, <1>7, <1>8, <1>9 DEF CommitStep, BaseInv, StorageOK

\* The commit of a new edge, alone or with the node it leads to.
LEMMA EdgeCommits ==
  ASSUME BaseInv, NEW s \in NodeId, NEW d \in NodeId, NEW wt \in Weights,
         NEW newDb \in Storage, NEW change \in CsrChange, NEW count \in Nat \ {0},
         Commit(newDb, change, count),
         nextEdge \in EdgeId, nextEdge' = nextEdge + 1,
         nextNode' \in Nat, nextNode <= nextNode',
         \A n \in change.nodes : nextNode <= n /\ n < nextNode',
         newDb.nodes = db.nodes \cup change.nodes, newDb.edges = db.edges \cup {NewEdge(s, d, wt)},
         s \in newDb.nodes, d \in newDb.nodes,
         change.edges = {[id |-> nextEdge, src |-> s, dst |-> d]},
         change.full = FALSE
  PROVE  CommitStep
  <1> DEFINE ne == NewEdge(s, d, wt)
             ae == [id |-> nextEdge, src |-> s, dst |-> d]
  <1>1. db \in Storage /\ nextNode \in Nat /\ nextEdge \in Nat
    BY DEF BaseInv, TypesOK
  <1>2. /\ w.pc = "idle" /\ MayStart
        /\ w'.pc = "record" /\ w'.change = change /\ w'.count = count
        /\ w' \in [pc: {"idle", "record", "advance"}, change: CsrChange, count: Nat]
        /\ db' = newDb /\ writes' \in Nat
        /\ UNCHANGED <<cache, m, r, published, load>>
    BY CommitTypes
  <1>3. ne.id = nextEdge /\ ne.src = s /\ ne.dst = d /\ ae.id = nextEdge /\ ae.src = s /\ ae.dst = d
    BY DEF NewEdge
  <1> HIDE DEF ne, ae
  <1>4. newDb.edges = db.edges \cup {ne} /\ change.edges = {ae}
    BY DEF ne, ae
  <1>5. \A e \in db.edges : e.id < nextEdge /\ e.id \in Nat /\ InStore(db, e)
    BY <1>1, InStoreSelf DEF BaseInv, StorageOK, Storage, Edge, EdgeId
  <1>6. \A e \in newDb.edges : e.id < nextEdge'
    BY <1>1, <1>3, <1>4, <1>5
  <1>7. \A e, f \in newDb.edges : e.id = f.id => e = f
    BY <1>1, <1>3, <1>4, <1>5 DEF BaseInv, StorageOK
  <1>8. \A n \in newDb.nodes : n < nextNode'
    BY <1>1 DEF BaseInv, StorageOK, Storage, NodeId
  <1>9. Closed(newDb)
    BY <1>3, <1>4 DEF Closed, BaseInv, StorageOK
  <1>10. \A e \in db.edges : InStore(newDb, e)
    BY <1>4, <1>5 DEF InStore
  <1>11. SameEdge(ae, ne) /\ InStore(newDb, ae)
    BY <1>3, <1>4 DEF InStore, SameEdge
  <1>12. \A e \in newDb.edges : InStore(db, e) \/ \E a \in change.edges : SameEdge(a, e)
    BY <1>4, <1>5, <1>11
  <1>13. nextEdge <= nextEdge' /\ nextEdge' \in Nat
    BY <1>1
  <1> QED
    BY <1>1, <1>2, <1>3, <1>4, <1>6, <1>7, <1>8, <1>9, <1>10, <1>11, <1>12, <1>13 DEF CommitStep

\* add_edge commits one record between nodes that exist.
LEMMA AddEdgeCommits ==
  ASSUME BaseInv, NEW s \in NodeId, NEW d \in NodeId, NEW wt \in Weights, AddEdge(s, d, wt)
  PROVE  CommitStep
  <1> DEFINE newDb == [db EXCEPT !.edges = @ \cup {NewEdge(s, d, wt)}]
             change == [NoChange EXCEPT !.edges = {[id |-> nextEdge, src |-> s, dst |-> d]}]
  <1>1. /\ nextEdge \in EdgeId /\ nextEdge' = nextEdge + 1 /\ nextNode' = nextNode
        /\ s \in db.nodes /\ d \in db.nodes /\ Commit(newDb, change, 1)
    BY DEF AddEdge
  <1>2. db \in Storage /\ nextNode \in Nat
    BY DEF BaseInv, TypesOK
  <1>3. newDb \in Storage /\ newDb.nodes = db.nodes /\ newDb.edges = db.edges \cup {NewEdge(s, d, wt)}
    BY <1>1, <1>2 DEF Storage, NewEdge, Edge
  <1>4. /\ change \in CsrChange /\ change.nodes = {} /\ change.full = FALSE
        /\ change.edges = {[id |-> nextEdge, src |-> s, dst |-> d]}
    <2> DEFINE ae == [id |-> nextEdge, src |-> s, dst |-> d]
    <2>1. ae \in AddedEdge
      BY <1>1 DEF AddedEdge
    <2> HIDE DEF ae
    <2>2. change = [NoChange EXCEPT !.edges = {ae}]
      BY DEF ae
    <2> HIDE DEF change
    <2>3. change \in CsrChange /\ change.nodes = {} /\ change.full = FALSE /\ change.edges = {ae}
      BY <2>1, <2>2 DEF NoChange, CsrChange
    <2> QED
      BY <2>3 DEF ae
  <1> HIDE DEF newDb, change
  <1>5. nextNode' \in Nat /\ nextNode <= nextNode' /\ 1 \in Nat \ {0}
    BY <1>1, <1>2
  <1>6. /\ s \in newDb.nodes /\ d \in newDb.nodes /\ newDb.nodes = db.nodes \cup change.nodes
        /\ \A n \in change.nodes : nextNode <= n /\ n < nextNode'
    BY <1>1, <1>3, <1>4
  <1> QED
    BY <1>1, <1>3, <1>4, <1>5, <1>6, EdgeCommits

\* A batch commits a node and an edge to it in one transaction.
LEMMA BatchCommits ==
  ASSUME BaseInv, NEW s \in NodeId, NEW wt \in Weights, Batch2(s, wt)
  PROVE  CommitStep
  <1> DEFINE newDb == [nodes |-> db.nodes \cup {nextNode}, edges |-> db.edges \cup {NewEdge(s, nextNode, wt)}]
             change == [NoChange EXCEPT !.nodes = {nextNode}, !.edges = {[id |-> nextEdge, src |-> s, dst |-> nextNode]}]
  <1>1. /\ nextNode \in NodeId /\ nextEdge \in EdgeId /\ nextNode' = nextNode + 1 /\ nextEdge' = nextEdge + 1
        /\ s \in db.nodes /\ Commit(newDb, change, 2)
    BY DEF Batch2
  <1>2. db \in Storage /\ nextNode \in Nat
    BY DEF BaseInv, TypesOK
  <1>3. newDb \in Storage /\ newDb.nodes = db.nodes \cup {nextNode} /\ newDb.edges = db.edges \cup {NewEdge(s, nextNode, wt)}
    BY <1>1, <1>2 DEF Storage, NewEdge, Edge
  <1>4. /\ change \in CsrChange /\ change.nodes = {nextNode} /\ change.full = FALSE
        /\ change.edges = {[id |-> nextEdge, src |-> s, dst |-> nextNode]}
    <2> DEFINE ae == [id |-> nextEdge, src |-> s, dst |-> nextNode]
    <2>1. ae \in AddedEdge
      BY <1>1 DEF AddedEdge
    <2> HIDE DEF ae
    <2>2. change = [NoChange EXCEPT !.nodes = {nextNode}, !.edges = {ae}]
      BY DEF ae
    <2> HIDE DEF change
    <2>3. change \in CsrChange /\ change.nodes = {nextNode} /\ change.full = FALSE /\ change.edges = {ae}
      BY <1>1, <2>1, <2>2 DEF NoChange, CsrChange
    <2> QED
      BY <2>3 DEF ae
  <1> HIDE DEF newDb, change
  <1>5. nextNode' \in Nat /\ nextNode <= nextNode' /\ 2 \in Nat \ {0}
    BY <1>1, <1>2
  <1>6. s \in newDb.nodes /\ nextNode \in newDb.nodes /\ newDb.nodes = db.nodes \cup change.nodes
    BY <1>1, <1>3, <1>4
  <1>7. \A n \in change.nodes : nextNode <= n /\ n < nextNode'
    BY <1>1, <1>2, <1>4
  <1> QED
    BY <1>1, <1>3, <1>4, <1>5, <1>6, <1>7, EdgeCommits

\* A commit that adds nothing: it rewrites records, keeps them, or removes.
LEMMA OtherCommits ==
  ASSUME BaseInv, NEW newDb \in Storage, NEW change \in CsrChange,
         Commit(newDb, change, 1), UNCHANGED <<nextNode, nextEdge>>,
         change.nodes = {}, change.edges = {},
         newDb.nodes \subseteq db.nodes, \A e \in newDb.edges : InStore(db, e),
         \A e, f \in newDb.edges : e.id = f.id => e = f, Closed(newDb),
         change.full \/ (db.nodes \subseteq newDb.nodes /\ \A e \in db.edges : InStore(newDb, e)),
         change.full \/ change.updated \/ db.edges \subseteq newDb.edges,
         load.ops \subseteq Additive => ~change.full
  PROVE  CommitStep
  <1>1. db \in Storage /\ nextNode \in Nat /\ nextEdge \in Nat
    BY DEF BaseInv, TypesOK
  <1>2. /\ w.pc = "idle" /\ MayStart
        /\ w'.pc = "record" /\ w'.change = change /\ w'.count = 1
        /\ w' \in [pc: {"idle", "record", "advance"}, change: CsrChange, count: Nat]
        /\ db' = newDb /\ writes' \in Nat
        /\ UNCHANGED <<cache, m, r, published, load>>
    BY CommitTypes
  <1>3. \A e \in newDb.edges : e.id < nextEdge
    BY DEF InStore, SameEdge, BaseInv, StorageOK
  <1>4. \A n \in newDb.nodes : n < nextNode
    BY DEF BaseInv, StorageOK
  <1> QED
    BY <1>1, <1>2, <1>3, <1>4 DEF CommitStep

\* update_edge keeps the endpoints and marks the change as an update.
LEMMA UpdateEdgeCommits ==
  ASSUME BaseInv, NEW e \in db.edges, NEW wt \in Weights, UpdateEdge(e, wt)
  PROVE  CommitStep
  <1> DEFINE f == [e EXCEPT !.w = wt]
             newDb == [db EXCEPT !.edges = (@ \ {e}) \cup {f}]
  <1>1. Commit(newDb, EdgesUpdated, 1) /\ UNCHANGED <<nextNode, nextEdge>>
    BY DEF UpdateEdge
  <1>2. db \in Storage /\ e \in Edge
    BY DEF BaseInv, TypesOK, Storage
  <1>3. f \in Edge /\ f.id = e.id /\ f.src = e.src /\ f.dst = e.dst
    BY <1>2 DEF Edge
  <1> HIDE DEF f
  <1>4. newDb \in Storage /\ newDb.nodes = db.nodes /\ newDb.edges = (db.edges \ {e}) \cup {f}
    BY <1>2, <1>3 DEF Storage
  <1> HIDE DEF newDb
  <1>5. \A x \in newDb.edges : InStore(db, x)
    BY <1>2, <1>3, <1>4, InStoreSelf DEF InStore, SameEdge
  <1>6. \A x \in db.edges : InStore(newDb, x)
    BY <1>3, <1>4 DEF InStore, SameEdge
  <1>7. \A x, y \in newDb.edges : x.id = y.id => x = y
    BY <1>3, <1>4 DEF BaseInv, StorageOK
  <1>8. Closed(newDb)
    BY <1>3, <1>4 DEF Closed, BaseInv, StorageOK
  <1> QED
    BY <1>1, <1>4, <1>5, <1>6, <1>7, <1>8, ChangeTypes, OtherCommits

\* update_node leaves what a snapshot shows as it was.
LEMMA UpdateNodeCommits == ASSUME BaseInv, UpdateNode PROVE CommitStep
  <1>1. Commit(db, NoChange, 1) /\ UNCHANGED <<nextNode, nextEdge>>
    BY DEF UpdateNode
  <1>2. db \in Storage
    BY DEF BaseInv, TypesOK
  <1>3. \A x \in db.edges : InStore(db, x)
    BY <1>2, InStoreSelf
  <1> QED
    BY <1>1, <1>2, <1>3, ChangeTypes, OtherCommits DEF BaseInv, StorageOK

\* delete_edge takes a record away and marks the change as full.
LEMMA DeleteEdgeCommits ==
  ASSUME BaseInv, NEW e \in db.edges, DeleteEdge(e)
  PROVE  CommitStep
  <1> DEFINE newDb == [db EXCEPT !.edges = @ \ {e}]
  <1>1. Commit(newDb, FullChange, 1) /\ UNCHANGED <<nextNode, nextEdge>> /\ ~(load.ops \subseteq Additive)
    BY DEF DeleteEdge, Additive
  <1>2. db \in Storage
    BY DEF BaseInv, TypesOK
  <1>3. newDb \in Storage /\ newDb.nodes = db.nodes /\ newDb.edges = db.edges \ {e}
    BY <1>2 DEF Storage
  <1> HIDE DEF newDb
  <1>4. \A x \in newDb.edges : InStore(db, x)
    BY <1>2, <1>3, InStoreSelf
  <1>5. Closed(newDb)
    BY <1>3 DEF Closed, BaseInv, StorageOK
  <1>6. \A x, y \in newDb.edges : x.id = y.id => x = y
    BY <1>3 DEF BaseInv, StorageOK
  <1> QED
    BY <1>1, <1>3, <1>4, <1>5, <1>6, ChangeTypes, OtherCommits

\* delete_node takes its edges with it and marks the change as full.
LEMMA DeleteNodeCommits ==
  ASSUME BaseInv, NEW n \in db.nodes, DeleteNode(n)
  PROVE  CommitStep
  <1> DEFINE newDb == [nodes |-> db.nodes \ {n}, edges |-> {e \in db.edges : e.src # n /\ e.dst # n}]
  <1>1. Commit(newDb, FullChange, 1) /\ UNCHANGED <<nextNode, nextEdge>> /\ ~(load.ops \subseteq Additive)
    BY DEF DeleteNode, Additive
  <1>2. db \in Storage
    BY DEF BaseInv, TypesOK
  <1>3. /\ newDb \in Storage /\ newDb.nodes = db.nodes \ {n}
        /\ newDb.edges = {e \in db.edges : e.src # n /\ e.dst # n}
    BY <1>2 DEF Storage
  <1> HIDE DEF newDb
  <1>4. \A x \in newDb.edges : InStore(db, x)
    BY <1>2, <1>3, InStoreSelf
  <1>5. Closed(newDb)
    BY <1>3 DEF Closed, BaseInv, StorageOK
  <1>6. \A x, y \in newDb.edges : x.id = y.id => x = y
    BY <1>3 DEF BaseInv, StorageOK
  <1> QED
    BY <1>1, <1>3, <1>4, <1>5, <1>6, ChangeTypes, OtherCommits

\* Every write of the model is such a commit.
LEMMA WriterCommits == ASSUME BaseInv, WriterNext PROVE CommitStep
  BY AddNodeCommits, AddEdgeCommits, BatchCommits, UpdateEdgeCommits, UpdateNodeCommits,
     DeleteEdgeCommits, DeleteNodeCommits DEF WriterNext

-----------------------------------------------------------------------------
(* The invariant of every behaviour is inductive *)

PassPc == {"free", "start", "pend", "patch", "build", "drain", "prune", "store", "stamp"}
ReaderPc == {"idle", "compare", "load", "lock", "refresh", "done", "failed"}

\* A step that leaves the tables and the writer alone keeps what is said of
\* them.
LEMMA KeepsTables ==
  ASSUME BaseInv, UNCHANGED <<db, nextNode, nextEdge, published, w, pending, writeGen>>
  PROVE  StorageOK' /\ WriterOK' /\ PendingOK'
  BY DEF BaseInv, StorageOK, WriterOK, PendingOK, Recorded, Elems, Closed, InStore, Settled

\* A step of the writer leaves what is said of the mutex and of weights.
LEMMA KeepsPass ==
  ASSUME BaseInv, UNCHANGED <<m, r, snapGen, snapshot, writeGen, wants>>
  PROVE  MutexOK' /\ WantsOK'
  BY DEF BaseInv, MutexOK, WantsOK

\* A commit keeps the invariant.
LEMMA CommitBase == ASSUME BaseInv, CommitStep PROVE BaseInv'
  <1>1. UNCHANGED <<writeGen, snapGen, snapshot, pending, wants, m, r, published, load>>
    BY DEF CommitStep, cache
  <1>2. TypesOK'
    BY <1>1 DEF CommitStep, BaseInv, TypesOK
  <1>3. w.pc = "idle" /\ w'.pc = "record" /\ published = db
    BY DEF CommitStep, BaseInv, WriterOK
  <1>4. StorageOK'
    BY <1>1, <1>3 DEF CommitStep, BaseInv, StorageOK, Closed
  <1>5. \A a \in AddedEdge : InStore(db', a) => \A e \in db'.edges : a.id = e.id => SameEdge(a, e)
    BY DEF CommitStep, InStore, SameEdge
  <1>6. w'.change.edges \subseteq AddedEdge
    BY DEF CommitStep, CsrChange
  <1>7. \A a \in w'.change.edges : a.id < nextEdge'
    BY DEF CommitStep, InStore, SameEdge
  <1>8. WriterOK'
    <2>1. Closed(Settled)'
      <3> SUFFICES ASSUME NEW e \in Settled'.edges PROVE {e.src, e.dst} \subseteq Settled'.nodes
        BY DEF Closed
      <3>1. e \in db'.edges /\ \A a \in w'.change.edges : a.id # e.id
        BY DEF Settled
      <3>2. InStore(db, e)
        BY <3>1 DEF CommitStep, SameEdge
      <3>3. {e.src, e.dst} \subseteq db.nodes
        BY <3>2 DEF InStore, SameEdge, BaseInv, StorageOK, Closed
      <3>4. {e.src, e.dst} \subseteq db'.nodes
        BY <3>1 DEF CommitStep, Closed
      <3>5. \A n \in db.nodes : n \notin w'.change.nodes
        <4>1. \A n \in db.nodes : n < nextNode /\ n \in Nat
          BY DEF BaseInv, StorageOK, TypesOK, Storage, NodeId
        <4>2. nextNode \in Nat /\ \A n \in w'.change.nodes : nextNode <= n
          BY DEF BaseInv, TypesOK, CommitStep
        <4> QED
          BY <4>1, <4>2
      <3> QED
        BY <3>3, <3>4, <3>5 DEF Settled
    <2> QED
      BY <1>1, <1>3, <1>5, <1>6, <1>7, <2>1 DEF CommitStep, WriterOK, InStore
  <1>9. PendingOK'
    <2>1. Recorded' = Recorded /\ writeGen' = writeGen
      BY <1>1 DEF Recorded, Elems
    <2>2. \A b \in Recorded : b.tag <= writeGen /\ b.tag < writeGen
      BY <1>3 DEF BaseInv, PendingOK
    <2> SUFFICES ASSUME NEW b \in Recorded, NEW a \in b.change.edges
                 PROVE  /\ a.id < nextEdge'
                        /\ \A e \in db'.edges : a.id = e.id => SameEdge(a, e)
                        /\ InStore(db', a) \/ w'.change.full
                        /\ \A c \in w'.change.edges : a.id # c.id
      BY <1>3, <2>1, <2>2 DEF PendingOK
    <2>3. b \in Batch
      BY ElementOfSeq DEF BaseInv, TypesOK, Recorded, Elems
    <2>4. a \in AddedEdge
      BY <2>3 DEF Batch, CsrChange
    <2>5. a.id \in Nat /\ nextEdge \in Nat /\ a.id < nextEdge /\ InStore(db, a)
      BY <1>3, <2>4 DEF BaseInv, TypesOK, PendingOK, AddedEdge, EdgeId
    <2>6. \A c \in w'.change.edges : a.id # c.id
      BY <1>6, <2>5 DEF CommitStep, AddedEdge, EdgeId
    <2>7. a.id < nextEdge'
      BY <2>5 DEF CommitStep
    <2>8. InStore(db', a) \/ w'.change.full
      BY <2>5 DEF CommitStep, InStore, SameEdge
    <2>9. ASSUME NEW e \in db'.edges, a.id = e.id PROVE SameEdge(a, e)
      <3>1. InStore(db, e)
        BY <2>6, <2>9 DEF CommitStep, SameEdge
      <3>2. PICK f \in db.edges : SameEdge(e, f)
        BY <3>1 DEF InStore
      <3>3. SameEdge(a, f)
        BY <1>3, <2>9, <3>2 DEF BaseInv, PendingOK, SameEdge
      <3> QED
        BY <3>2, <3>3 DEF SameEdge
    <2> QED
      BY <2>6, <2>7, <2>8, <2>9
  <1>10. MutexOK' /\ WantsOK'
    BY <1>1, KeepsPass
  <1>11. BuildOK'
    BY <1>3 DEF BuildOK
  <1>12. SingleOK'
    <2> SUFFICES ASSUME load.threads = "single" PROVE SingleOK'
      BY <1>1 DEF SingleOK
    <2>1. m.owner = None /\ \A p \in Readers : r[p].pc = "idle"
      BY DEF CommitStep, MayStart
    <2>2. m.pc = "free"
      BY <2>1 DEF BaseInv, MutexOK
    <2> QED
      BY <1>1, <2>1, <2>2 DEF SingleOK
  <1> QED
    BY <1>2, <1>4, <1>8, <1>9, <1>10, <1>11, <1>12 DEF BaseInv

\* What record_change leaves in the list.
LEMMA RecordResult ==
  ASSUME BaseInv, RecordChange
  PROVE  /\ pending' \in Seq(Batch)
         /\ \/ w.change = NoChange /\ pending' = pending
            \/ /\ pending' = Append(pending, [tag |-> writeGen, change |-> w.change])
               /\ ~w.change.full
            \/ pending' = << [tag |-> writeGen, change |-> FullChange] >>
         /\ w.change.full => pending' = << [tag |-> writeGen, change |-> FullChange] >>
         /\ Recorded' \subseteq Recorded \cup {[tag |-> writeGen, change |-> w.change],
                                              [tag |-> writeGen, change |-> FullChange]}
  <1> DEFINE own == [tag |-> writeGen, change |-> w.change]
             full == [tag |-> writeGen, change |-> FullChange]
  <1>1. pending' = Record(pending, writeGen, w.change)
    BY DEF RecordChange
  <1>2. pending \in Seq(Batch) /\ w.change \in CsrChange /\ writeGen \in Nat
    BY DEF BaseInv, TypesOK
  <1>3. own \in Batch /\ full \in Batch
    BY <1>2, ChangeTypes DEF Batch
  <1>4. w.change.full => w.change # NoChange
    BY ChangeTypes
  <1>5. \/ w.change = NoChange /\ pending' = pending
        \/ pending' = Append(pending, own) /\ ~w.change.full
        \/ pending' = <<full>>
    BY <1>1 DEF Record
  <1>6. w.change.full => pending' = <<full>>
    BY <1>1, <1>4 DEF Record
  <1> HIDE DEF own, full
  <1>7. /\ Append(pending, own) \in Seq(Batch) /\ Elems(Append(pending, own)) = Elems(pending) \cup {own}
        /\ <<full>> \in Seq(Batch) /\ Elems(<<full>>) = {full}
    BY <1>2, <1>3, ElemsAppend, ElemsOne
  <1>8. pending' \in Seq(Batch) /\ Recorded' \subseteq Recorded \cup {own, full}
    BY <1>2, <1>5, <1>7 DEF Recorded
  <1> QED
    BY <1>5, <1>6, <1>8 DEF own, full

\* Recording a change keeps it: every batch has the tag of the generation
\* before the one the writer is about to publish.
LEMMA RecordBase == ASSUME BaseInv, RecordChange PROVE BaseInv'
  <1> DEFINE own == [tag |-> writeGen, change |-> w.change]
             full == [tag |-> writeGen, change |-> FullChange]
  <1>1. /\ UNCHANGED <<db, nextNode, nextEdge, writes, load, writeGen, snapGen, snapshot, wants, m, r, published>>
        /\ w.pc = "record"
    BY DEF RecordChange, store
  <1>2. w' = [w EXCEPT !.pc = "advance"]
    BY DEF RecordChange
  <1>3. w'.pc = "advance" /\ w'.change = w.change /\ w'.count = w.count
    BY <1>2 DEF BaseInv, TypesOK
  <1>4. pending' \in Seq(Batch) /\ Recorded' \subseteq Recorded \cup {own, full}
    BY RecordResult
  <1>5. w.change.full => pending' = <<full>>
    BY RecordResult
  <1>6. TypesOK'
    BY <1>1, <1>2, <1>4 DEF BaseInv, TypesOK
  <1>7. StorageOK'
    BY <1>1 DEF BaseInv, StorageOK, Closed
  <1>8. WriterOK'
    <2>1. Settled' = Settled
      BY <1>1, <1>3 DEF Settled
    <2> QED
      BY <1>1, <1>3, <2>1 DEF BaseInv, WriterOK, InStore, Closed
  <1>9. PendingOK'
    <2>1. own.tag = writeGen /\ own.change = w.change /\ full.tag = writeGen /\ full.change.edges = {}
      BY ChangeTypes
    <2>2. full \in Batch
      BY ChangeTypes DEF Batch, BaseInv, TypesOK
    <2> HIDE DEF own, full
    <2>3. w.change.full => Recorded' = {full}
      BY <1>5, <2>2, ElemsOne DEF Recorded
    <2>4. writeGen \in Nat /\ \A b \in Recorded : b.tag < writeGen /\ b.tag <= writeGen
      <3>1. \A b \in Recorded : b.tag < writeGen /\ b.tag <= writeGen
        BY <1>1 DEF BaseInv, PendingOK
      <3> QED
        BY <3>1 DEF BaseInv, TypesOK
    <2>5. ASSUME NEW b \in Recorded' PROVE b.tag <= writeGen
      BY <1>4, <2>1, <2>4
    <2>6. ASSUME NEW b \in Recorded', NEW a \in b.change.edges
          PROVE  /\ a.id < nextEdge /\ InStore(db, a)
                 /\ \A e \in db.edges : a.id = e.id => SameEdge(a, e)
      <3>1. b \in Recorded \/ b = own
        BY <1>4, <2>1, <2>6
      <3>2. CASE b = own
        BY <2>1, <2>3, <2>6, <3>2 DEF BaseInv, WriterOK
      <3>3. CASE b \in Recorded
        <4>1. ~w.change.full
          BY <2>1, <2>3, <2>6
        <4> QED
          BY <3>3, <4>1 DEF BaseInv, PendingOK
      <3> QED
        BY <3>1, <3>2, <3>3
    <2> QED
      BY <1>1, <1>3, <2>5, <2>6 DEF PendingOK, InStore
  <1>10. MutexOK' /\ WantsOK'
    BY <1>1, KeepsPass
  <1>11. BuildOK'
    BY <1>3 DEF BuildOK
  <1>12. SingleOK'
    BY <1>1, <1>3 DEF BaseInv, SingleOK
  <1> QED
    BY <1>6, <1>7, <1>8, <1>9, <1>10, <1>11, <1>12 DEF BaseInv

\* So does the next generation: what was recorded is below it.
LEMMA AdvanceBase == ASSUME BaseInv, AdvanceWriteGen PROVE BaseInv'
  <1>1. /\ UNCHANGED <<db, nextNode, nextEdge, writes, load, snapGen, snapshot, pending, wants, m, r>>
        /\ w.pc = "advance" /\ published' = db /\ w' = IdleWriter /\ writeGen' = writeGen + w.count
    BY DEF AdvanceWriteGen, store
  <1>2. w'.pc = "idle" /\ w'.change = NoChange /\ NoChange.edges = {}
    BY <1>1, ChangeTypes DEF IdleWriter
  <1>3. writeGen' \in Nat \ {0} /\ writeGen < writeGen' /\ writeGen \in Nat
    BY <1>1 DEF BaseInv, TypesOK, WriterOK
  <1>4. TypesOK'
    <2>1. IdleWriter \in [pc: {"idle", "record", "advance"}, change: CsrChange, count: Nat]
      BY ChangeTypes DEF IdleWriter
    <2> QED
      BY <1>1, <1>3, <2>1 DEF BaseInv, TypesOK
  <1>5. StorageOK'
    BY <1>1 DEF BaseInv, StorageOK, Closed
  <1>6. WriterOK'
    <2>1. NoChange.nodes = {}
      BY ChangeTypes
    <2>2. Closed(Settled)'
      BY <1>1, <1>2, <2>1 DEF Settled, Closed, BaseInv, StorageOK
    <2> QED
      BY <1>1, <1>2, <2>1, <2>2 DEF WriterOK
  <1>7. PendingOK'
    <2>1. Recorded' = Recorded
      BY <1>1 DEF Recorded, Elems
    <2>2. \A b \in Recorded : b.tag <= writeGen /\ b.tag \in Nat
      <3>1. \A b \in Recorded : b \in Batch
        BY ElementOfSeq DEF BaseInv, TypesOK, Recorded, Elems
      <3> QED
        BY <3>1 DEF BaseInv, PendingOK, Batch
    <2>3. \A b \in Recorded : b.tag < writeGen' /\ b.tag <= writeGen'
      BY <1>3, <2>2
    <2> QED
      BY <1>1, <1>2, <2>1, <2>3 DEF BaseInv, PendingOK, InStore
  <1>8. MutexOK'
    <2>1. snapGen \in Nat /\ m.built \in Nat
      BY DEF BaseInv, TypesOK
    <2>2. snapGen <= writeGen' /\ (m.built <= writeGen => m.built <= writeGen')
      BY <1>3, <2>1 DEF BaseInv, MutexOK
    <2> QED
      BY <1>1, <2>2 DEF BaseInv, MutexOK
  <1>9. WantsOK'
    BY <1>1 DEF BaseInv, WantsOK
  <1>10. BuildOK'
    <2>1. m.pc \in {"prune", "store", "stamp"} => m.built <= writeGen /\ m.built \in Nat
      BY DEF BaseInv, MutexOK, TypesOK
    <2> QED
      BY <1>1, <1>3, <2>1 DEF BuildOK
  <1>11. SingleOK'
    <2> SUFFICES ASSUME load.threads = "single" PROVE SingleOK'
      BY <1>1 DEF SingleOK
    <2>1. m.owner = None /\ \A p \in Readers : r[p].pc = "idle"
      BY <1>1 DEF BaseInv, SingleOK
    <2>2. m.pc = "free"
      BY <2>1 DEF BaseInv, MutexOK
    <2> QED
      BY <1>1, <2>1, <2>2 DEF SingleOK
  <1> QED
    BY <1>4, <1>5, <1>6, <1>7, <1>8, <1>9, <1>10, <1>11 DEF BaseInv

\* What the types say of a pass and of a reader.
LEMMA PassTypes ==
  ASSUME TypesOK
  PROVE  /\ m \in [owner: Readers \cup {"rebuild", None}, pc: PassPc, want: BOOLEAN, built: Nat,
                   change: CsrChange, applied: Nat, snap: Snapshot]
         /\ \A p \in Readers : r[p] \in [pc: ReaderPc, want: BOOLEAN, seen: Nat, from: Storage, got: Snapshot]
         /\ DOMAIN r = Readers
  BY DEF TypesOK, PassPc, ReaderPc

\* The merge of the batches a snapshot lacks is a change.
LEMMA MergedType ==
  ASSUME NEW s \in Seq(Batch), NEW gen \in Nat
  PROVE  /\ Merged(s, gen) \in CsrChange /\ Merged(s, gen).full = FALSE
         /\ Merged(s, gen).nodes = UNION {b.change.nodes : b \in {x \in Elems(s) : x.tag >= gen}}
         /\ Merged(s, gen).edges = UNION {b.change.edges : b \in {x \in Elems(s) : x.tag >= gen}}
         /\ Merged(s, gen).updated <=> \E b \in {x \in Elems(s) : x.tag >= gen} : b.change.updated
  <1> DEFINE some == {s[i].change : i \in Lacking(s, gen)}
             lack == {x \in Elems(s) : x.tag >= gen}
  <1> DEFINE ns == UNION {c.nodes : c \in some}
             es == UNION {c.edges : c \in some}
             up == \E c \in some : c.updated
  <1>1. Merged(s, gen) = [nodes |-> ns, edges |-> es, updated |-> up, full |-> FALSE] /\ up \in BOOLEAN
    BY DEF Merged
  <1>2. some = {b.change : b \in lack}
    BY DEF Lacking, Elems
  <1>3. \A b \in lack : b.change \in CsrChange
    <2> SUFFICES ASSUME NEW i \in DOMAIN s PROVE s[i].change \in CsrChange
      BY DEF Elems
    <2>1. s[i] \in Batch
      OBVIOUS
    <2> QED
      BY <2>1 DEF Batch
  <1> HIDE DEF some, lack
  <1>4. ns = UNION {b.change.nodes : b \in lack} /\ es = UNION {b.change.edges : b \in lack}
    BY <1>2
  <1>5. up <=> \E b \in lack : b.change.updated
    BY <1>2
  <1>6. \A b \in lack : b.change.nodes \subseteq NodeId /\ b.change.edges \subseteq AddedEdge
    BY <1>3 DEF CsrChange
  <1>7. ns \subseteq NodeId /\ es \subseteq AddedEdge
    BY <1>4, <1>6
  <1> HIDE DEF ns, es, up
  <1>8. /\ Merged(s, gen) \in CsrChange /\ Merged(s, gen).nodes = ns /\ Merged(s, gen).edges = es
        /\ Merged(s, gen).full = FALSE /\ Merged(s, gen).updated = up
    BY <1>1, <1>7 DEF CsrChange
  <1> QED
    BY <1>4, <1>5, <1>8 DEF lack

\* Building and patching give snapshots.
LEMMA BuildType ==
  ASSUME NEW s \in Storage, NEW weighted \in BOOLEAN
  PROVE  /\ BuildSnapshot(s, weighted) \in Snapshot
         /\ BuildSnapshot(s, weighted).weighted = weighted
  <1>1. \A e \in s.edges : AsRow(e, weighted) \in Row
    BY DEF Storage, Edge, Row, AsRow
  <1>2. {AsRow(e, weighted) : e \in {x \in s.edges : x.src \in s.nodes /\ x.dst \in s.nodes}} \in SUBSET Row
    BY <1>1
  <1> QED
    BY <1>2 DEF BuildSnapshot, Snapshot, Storage

\* The weight looked up for an edge is a weight.
LEMMA WeightType == ASSUME NEW s \in Storage, NEW id PROVE WeightOfEdge(s, id) \in Weights
  <1>1. CASE \E e \in s.edges : e.id = id
    <2> DEFINE f == CHOOSE e \in s.edges : e.id = id
    <2>1. f \in s.edges
      BY <1>1
    <2>2. f.w \in Weights
      BY <2>1 DEF Storage, Edge
    <2> QED
      BY <1>1, <2>2 DEF WeightOfEdge
  <1>2. CASE ~\E e \in s.edges : e.id = id
    BY <1>2, CsrAssumption DEF WeightOfEdge
  <1> QED
    BY <1>1, <1>2

\* The entry with_additions makes of an added edge.
EntryOf(snap, e, s) ==
    [id |-> e.id, src |-> e.src, dst |-> e.dst, w |-> IF snap.weighted THEN WeightOfEdge(s, e.id) ELSE None]

\* The edges it adds.
Adds(snap, change) ==
    {e \in change.edges : e.src \in snap.nodes \cup change.nodes /\ e.dst \in snap.nodes \cup change.nodes}

\* A patched snapshot is a snapshot.
LEMMA PatchType ==
  ASSUME NEW snap \in Snapshot, NEW change \in CsrChange, NEW s \in Storage
  PROVE  /\ WithAdditions(snap, change, s) \in Snapshot
         /\ WithAdditions(snap, change, s).nodes = snap.nodes \cup change.nodes
         /\ WithAdditions(snap, change, s).rows = snap.rows \cup {EntryOf(snap, e, s) : e \in Adds(snap, change)}
         /\ WithAdditions(snap, change, s).twice =
              snap.twice \cup {id \in EdgeId : /\ \E e \in Adds(snap, change) : e.id = id
                                               /\ \E x \in snap.rows : x.id = id}
         /\ WithAdditions(snap, change, s).weighted = snap.weighted
  <1> DEFINE new == WithAdditions(snap, change, s)
  <1>1. /\ new = [nodes |-> snap.nodes \cup change.nodes,
                  rows |-> snap.rows \cup {EntryOf(snap, e, s) : e \in Adds(snap, change)},
                  twice |-> snap.twice \cup {id \in EdgeId : /\ \E e \in Adds(snap, change) : e.id = id
                                                             /\ \E x \in snap.rows : x.id = id},
                  weighted |-> snap.weighted]
    BY DEF WithAdditions, EntryOf, Adds
  <1>2. \A e \in Adds(snap, change) : EntryOf(snap, e, s) \in Row
    <2> SUFFICES ASSUME NEW e \in Adds(snap, change) PROVE EntryOf(snap, e, s) \in Row
      OBVIOUS
    <2>1. e \in AddedEdge
      BY DEF Adds, CsrChange
    <2>2. (IF snap.weighted THEN WeightOfEdge(s, e.id) ELSE None) \in Weights \cup {None}
      BY WeightType
    <2> QED
      BY <2>1, <2>2 DEF EntryOf, AddedEdge, Row
  <1> HIDE DEF new
  <1>3. new \in Snapshot
    BY <1>1, <1>2 DEF Snapshot, CsrChange
  <1> QED
    BY <1>1, <1>3 DEF new

\* What the mutex and a change hold when nobody is at work has its type.
LEMMA IdleTypes ==
  /\ EmptySnapshot \in Snapshot
  /\ Idle \in [owner: Readers \cup {"rebuild", None}, pc: PassPc, want: BOOLEAN, built: Nat,
               change: CsrChange, applied: Nat, snap: Snapshot]
  /\ Idle.owner = None /\ Idle.pc = "free" /\ Idle.want = FALSE
  /\ IdleReader \in [pc: ReaderPc, want: BOOLEAN, seen: Nat, from: Storage, got: Snapshot]
  /\ IdleReader.pc = "idle"
  <1>1. EmptySnapshot \in Snapshot
    BY DEF EmptySnapshot, Snapshot
  <1>2. [nodes |-> {}, edges |-> {}] \in Storage
    BY DEF Storage
  <1> QED
    BY <1>1, <1>2, ChangeTypes DEF Idle, IdleReader, PassPc, ReaderPc

\* A step of the pass within the mutex keeps the invariant of every behaviour
\* when it keeps the owner and the generations in order.
LEMMA WithinPass ==
  ASSUME BaseInv,
         UNCHANGED <<db, nextNode, nextEdge, writes, load, writeGen, snapGen, pending, wants, w, r, published>>,
         m.owner # None, m'.owner = m.owner, m'.want = m.want, m'.pc \in PassPc \ {"free", "start"},
         m' \in [owner: Readers \cup {"rebuild", None}, pc: PassPc, want: BOOLEAN, built: Nat,
                 change: CsrChange, applied: Nat, snap: Snapshot],
         snapshot' \in Snapshot,
         m'.pc \in {"pend", "patch", "drain"} => m.owner \in Readers,
         snapGen <= m'.built, m'.built <= writeGen,
         load.threads = "single" => m'.built = writeGen,
         m'.pc = "stamp" => snapshot' = m'.snap,
         m'.pc \in {"pend", "patch"} /\ m.want => snapshot'.weighted,
         m'.pc \in {"drain", "prune", "store", "stamp"} /\ m.want => m'.snap.weighted,
         BuildOK'
  PROVE  BaseInv'
  <1>1. StorageOK' /\ WriterOK' /\ PendingOK'
    BY KeepsTables
  <1>2. TypesOK'
    BY DEF BaseInv, TypesOK, PassPc
  <1>3. m'.pc # "free" /\ m'.pc # "start" /\ m.pc # "free"
    BY DEF BaseInv, MutexOK
  <1>4. MutexOK'
    BY <1>3 DEF BaseInv, MutexOK
  <1>5. WantsOK'
    BY DEF BaseInv, WantsOK
  <1>6. SingleOK'
    <2> SUFFICES ASSUME load.threads = "single" PROVE SingleOK'
      BY DEF SingleOK
    <2> QED
      BY DEF BaseInv, SingleOK
  <1> QED
    BY <1>1, <1>2, <1>4, <1>5, <1>6 DEF BaseInv

\* A pass captures the generation before it reads anything.
LEMMA MStartBase == ASSUME BaseInv, MStart PROVE BaseInv'
  <1> DEFINE to == IF /\ m.owner \in Readers
                      /\ snapGen > 0
                      /\ m.want => snapshot.weighted
                   THEN "pend" ELSE "build"
  <1>1. /\ m.pc = "start" /\ m' = [m EXCEPT !.built = writeGen, !.pc = to]
        /\ UNCHANGED <<db, nextNode, nextEdge, writes, load, writeGen, snapGen, snapshot, pending, wants, w, r, published>>
    BY DEF MStart, store, cache
  <1>2. to \in {"pend", "build"} /\ (to = "pend" => m.owner \in Readers /\ (m.want => snapshot.weighted))
    OBVIOUS
  <1> HIDE DEF to
  <1>3. /\ m \in [owner: Readers \cup {"rebuild", None}, pc: PassPc, want: BOOLEAN, built: Nat,
                  change: CsrChange, applied: Nat, snap: Snapshot]
        /\ writeGen \in Nat /\ snapshot \in Snapshot
    BY PassTypes DEF BaseInv, TypesOK
  <1>4. /\ m'.owner = m.owner /\ m'.want = m.want /\ m'.pc = to /\ m'.built = writeGen
        /\ m' \in [owner: Readers \cup {"rebuild", None}, pc: PassPc, want: BOOLEAN, built: Nat,
                   change: CsrChange, applied: Nat, snap: Snapshot]
    BY <1>1, <1>2, <1>3 DEF PassPc
  <1>5. m.owner # None /\ snapGen <= writeGen
    BY <1>1 DEF BaseInv, MutexOK
  <1>6. BuildOK'
    BY <1>2, <1>4 DEF BuildOK
  <1> QED
    BY <1>1, <1>2, <1>3, <1>4, <1>5, <1>6, WithinPass DEF PassPc

\* Reading the list decides between a patch and a build.
LEMMA PendingApplicableBase == ASSUME BaseInv, PendingApplicable PROVE BaseInv'
  <1> DEFINE c == Merged(pending, snapGen)
             T == [owner: Readers \cup {"rebuild", None}, pc: PassPc, want: BOOLEAN, built: Nat,
                   change: CsrChange, applied: Nat, snap: Snapshot]
  <1>1. /\ m.pc = "pend"
        /\ \/ m' = [m EXCEPT !.pc = "build"]
           \/ m' = [m EXCEPT !.pc = "patch", !.change = c, !.applied = Len(pending)]
        /\ UNCHANGED <<db, nextNode, nextEdge, writes, load, writeGen, snapGen, snapshot, pending, wants, w, r, published>>
    BY DEF PendingApplicable, store, cache
  <1>2. pending \in Seq(Batch) /\ snapGen \in Nat /\ snapshot \in Snapshot /\ writeGen \in Nat
    BY DEF BaseInv, TypesOK
  <1>3. c \in CsrChange /\ Len(pending) \in Nat
    <2>1. Merged(pending, snapGen) \in CsrChange
      BY <1>2, MergedType
    <2> QED
      BY <1>2, <2>1
  <1> HIDE DEF c
  <1>4. m \in T
    BY PassTypes DEF BaseInv
  <1>5. m' \in T /\ m'.owner = m.owner /\ m'.want = m.want /\ m'.pc \in {"build", "patch"} /\ m'.built = m.built
    BY <1>1, <1>3, <1>4 DEF PassPc
  <1>6. /\ m.owner # None /\ m.owner \in Readers /\ snapGen <= m.built /\ m.built <= writeGen
        /\ m.want => snapshot.weighted
    BY <1>1 DEF BaseInv, MutexOK, WantsOK
  <1>7. load.threads = "single" => m.built = writeGen
    BY <1>1 DEF BaseInv, SingleOK
  <1>8. BuildOK'
    BY <1>5 DEF BuildOK
  <1> QED
    BY <1>1, <1>2, <1>5, <1>6, <1>7, <1>8, WithinPass DEF PassPc

\* A patch has weights when the pass was asked for them.
LEMMA PatchBase == ASSUME BaseInv, Patch PROVE BaseInv'
  <1> DEFINE new == WithAdditions(snapshot, m.change, db)
             T == [owner: Readers \cup {"rebuild", None}, pc: PassPc, want: BOOLEAN, built: Nat,
                   change: CsrChange, applied: Nat, snap: Snapshot]
  <1>1. /\ m.pc = "patch"
        /\ \/ m' = [m EXCEPT !.pc = "build"]
           \/ m' = [m EXCEPT !.pc = "drain", !.snap = new]
        /\ UNCHANGED <<db, nextNode, nextEdge, writes, load, writeGen, snapGen, snapshot, pending, wants, w, r, published>>
    BY DEF Patch, store, cache
  <1>2. m \in T /\ snapshot \in Snapshot /\ db \in Storage
    BY PassTypes DEF BaseInv, TypesOK
  <1>3. m.change \in CsrChange
    BY <1>2
  <1>4. new \in Snapshot /\ new.weighted = snapshot.weighted
    BY <1>2, <1>3, PatchType
  <1> HIDE DEF new
  <1>5. /\ m' \in T /\ m'.owner = m.owner /\ m'.want = m.want /\ m'.pc \in {"build", "drain"} /\ m'.built = m.built
        /\ m'.pc = "drain" => m'.snap = new
    BY <1>1, <1>2, <1>4 DEF PassPc
  <1>6. /\ m.owner # None /\ m.owner \in Readers /\ snapGen <= m.built /\ m.built <= writeGen
        /\ m.want => snapshot.weighted
    BY <1>1 DEF BaseInv, MutexOK, WantsOK
  <1>7. load.threads = "single" => m.built = writeGen
    BY <1>1 DEF BaseInv, SingleOK
  <1>8. BuildOK'
    BY <1>5 DEF BuildOK
  <1> QED
    BY <1>1, <1>2, <1>4, <1>5, <1>6, <1>7, <1>8, WithinPass DEF PassPc

\* A build reads storage, so it is exact if nothing is in flight.
LEMMA BuildBase == ASSUME BaseInv, Build PROVE BaseInv'
  <1> DEFINE new == BuildSnapshot(db, wants)
             T == [owner: Readers \cup {"rebuild", None}, pc: PassPc, want: BOOLEAN, built: Nat,
                   change: CsrChange, applied: Nat, snap: Snapshot]
  <1>1. /\ m.pc = "build" /\ m' = [m EXCEPT !.pc = "prune", !.snap = new]
        /\ UNCHANGED <<db, nextNode, nextEdge, writes, load, writeGen, snapGen, snapshot, pending, wants, w, r, published>>
    BY DEF Build, store, cache
  <1>2. m \in T /\ snapshot \in Snapshot /\ db \in Storage /\ wants \in BOOLEAN
    BY PassTypes DEF BaseInv, TypesOK
  <1>3. new \in Snapshot /\ new.weighted = wants
    BY <1>2, BuildType
  <1>4. new = BuildSnapshot(db, new.weighted)
    BY <1>3
  <1> HIDE DEF new
  <1>5. /\ m' \in T /\ m'.owner = m.owner /\ m'.want = m.want /\ m'.pc = "prune" /\ m'.built = m.built
        /\ m'.snap = new
    BY <1>1, <1>2, <1>3 DEF PassPc
  <1>6. /\ m.owner # None /\ snapGen <= m.built /\ m.built <= writeGen
        /\ m.want => wants
    BY <1>1 DEF BaseInv, MutexOK, WantsOK
  <1>7. load.threads = "single" => m.built = writeGen
    BY <1>1 DEF BaseInv, SingleOK
  <1>8. BuildOK'
    BY <1>1, <1>4, <1>5 DEF BuildOK
  <1> QED
    BY <1>1, <1>2, <1>3, <1>5, <1>6, <1>7, <1>8, WithinPass DEF PassPc

\* Draining and pruning only take batches out of the list.
LEMMA ShrinkBase ==
  ASSUME BaseInv, m.pc \in {"drain", "prune"}, m' = [m EXCEPT !.pc = "store"],
         pending' \in Seq(Batch), Recorded' \subseteq Recorded,
         UNCHANGED <<db, nextNode, nextEdge, writes, load, writeGen, snapGen, snapshot, wants, w, r, published>>
  PROVE  BaseInv'
  <1> DEFINE T == [owner: Readers \cup {"rebuild", None}, pc: PassPc, want: BOOLEAN, built: Nat,
                   change: CsrChange, applied: Nat, snap: Snapshot]
  <1>1. m \in T
    BY PassTypes DEF BaseInv
  <1>2. /\ m' \in T /\ m'.owner = m.owner /\ m'.want = m.want /\ m'.pc = "store" /\ m'.built = m.built
        /\ m'.snap = m.snap
    BY <1>1 DEF PassPc
  <1>3. TypesOK'
    BY <1>2 DEF BaseInv, TypesOK, PassPc
  <1>4. StorageOK' /\ WriterOK'
    BY DEF BaseInv, StorageOK, WriterOK, Closed, InStore, Settled
  <1>5. PendingOK'
    BY DEF BaseInv, PendingOK, InStore
  <1>6. MutexOK'
    BY <1>2 DEF BaseInv, MutexOK
  <1>7. WantsOK'
    BY <1>2 DEF BaseInv, WantsOK
  <1>8. BuildOK'
    <2>1. m.owner = "rebuild" => m.pc = "prune"
      BY CsrAssumption DEF BaseInv, MutexOK
    <2> QED
      BY <1>2, <2>1 DEF BaseInv, BuildOK
  <1>9. SingleOK'
    BY <1>2 DEF BaseInv, SingleOK
  <1> QED
    BY <1>3, <1>4, <1>5, <1>6, <1>7, <1>8, <1>9 DEF BaseInv

\* Draining drops the batches that were applied.
LEMMA DrainResult ==
  ASSUME BaseInv, Drain
  PROVE  pending' \in Seq(Batch) /\ Recorded' \subseteq Recorded
  <1> DEFINE t == DrainApplied(pending, m.applied)
  <1>1. pending' = PruneBelow(t, m.built)
    BY DEF Drain
  <1>2. pending \in Seq(Batch) /\ m.applied \in Nat /\ m.built \in Nat
    BY DEF BaseInv, TypesOK
  <1>3. t \in Seq(Batch) /\ Elems(t) \subseteq Elems(pending)
    BY <1>2, DrainedType
  <1> HIDE DEF t
  <1> QED
    BY <1>1, <1>2, <1>3, ElemsPruned DEF Recorded

\* Dropping the applied batches keeps the invariant.
LEMMA DrainBase == ASSUME BaseInv, Drain PROVE BaseInv'
  <1>1. /\ m.pc = "drain" /\ m' = [m EXCEPT !.pc = "store"]
        /\ UNCHANGED <<db, nextNode, nextEdge, writes, load, writeGen, snapGen, snapshot, wants, w, r, published>>
    BY DEF Drain, store
  <1> QED
    BY <1>1, DrainResult, ShrinkBase

\* Pruning drops batches below the captured generation.
LEMMA PruneResult ==
  ASSUME BaseInv, Prune
  PROVE  pending' \in Seq(Batch) /\ Recorded' = {b \in Recorded : b.tag >= m.built}
  <1>1. pending' = PruneBelow(pending, m.built)
    BY DEF Prune
  <1>2. pending \in Seq(Batch) /\ m.built \in Nat
    BY DEF BaseInv, TypesOK
  <1> QED
    BY <1>1, <1>2, ElemsPruned DEF Recorded

\* Dropping those batches keeps it, too.
LEMMA PruneBase == ASSUME BaseInv, Prune PROVE BaseInv'
  <1>1. /\ m.pc = "prune" /\ m' = [m EXCEPT !.pc = "store"]
        /\ UNCHANGED <<db, nextNode, nextEdge, writes, load, writeGen, snapGen, snapshot, wants, w, r, published>>
    BY DEF Prune, store
  <1>2. Recorded' \subseteq Recorded
    BY PruneResult
  <1> QED
    BY <1>1, <1>2, PruneResult, ShrinkBase

\* The pointer is stored before the stamp: in between they differ.
LEMMA StoreBase == ASSUME BaseInv, StoreSnapshot PROVE BaseInv'
  <1> DEFINE T == [owner: Readers \cup {"rebuild", None}, pc: PassPc, want: BOOLEAN, built: Nat,
                   change: CsrChange, applied: Nat, snap: Snapshot]
  <1>1. /\ m.pc = "store" /\ m' = [m EXCEPT !.pc = "stamp"] /\ snapshot' = m.snap
        /\ UNCHANGED <<db, nextNode, nextEdge, writes, load, writeGen, snapGen, pending, wants, w, r, published>>
    BY DEF StoreSnapshot, store
  <1>2. m \in T
    BY PassTypes DEF BaseInv
  <1>3. /\ m' \in T /\ m'.owner = m.owner /\ m'.want = m.want /\ m'.pc = "stamp" /\ m'.built = m.built
        /\ m'.snap = m.snap /\ m.snap \in Snapshot
    BY <1>1, <1>2 DEF PassPc
  <1>4. /\ m.owner # None /\ snapGen <= m.built /\ m.built <= writeGen
        /\ m.want => m.snap.weighted
    BY <1>1 DEF BaseInv, MutexOK, WantsOK
  <1>5. load.threads = "single" => m.built = writeGen
    BY <1>1 DEF BaseInv, SingleOK
  <1>6. BuildOK'
    BY <1>1, <1>3 DEF BaseInv, BuildOK
  <1> QED
    BY <1>1, <1>3, <1>4, <1>5, <1>6, WithinPass DEF PassPc

PassType == [owner: Readers \cup {"rebuild", None}, pc: PassPc, want: BOOLEAN, built: Nat,
             change: CsrChange, applied: Nat, snap: Snapshot]
ReaderType == [pc: ReaderPc, want: BOOLEAN, seen: Nat, from: Storage, got: Snapshot]

\* A step of a reader that does not hold the mutex.
LEMMA ReaderMoves ==
  ASSUME BaseInv, NEW p \in Readers, NEW rec \in ReaderType, r' = [r EXCEPT ![p] = rec],
         UNCHANGED <<db, nextNode, nextEdge, writes, load, writeGen, snapGen, snapshot, pending, w, m, published>>,
         wants' \in BOOLEAN, wants => wants',
         r[p].pc # "refresh", rec.pc # "refresh",
         rec.pc # "idle" /\ rec.want => wants',
         rec.pc = "done" /\ rec.want => rec.got.weighted,
         load.threads = "single" /\ rec.pc # "idle" =>
             /\ rec.from = db /\ rec.seen = writeGen /\ w.pc = "idle" /\ m.owner = None
             /\ \A q \in Readers : q # p => r[q].pc = "idle"
  PROVE  BaseInv'
  <1>1. r \in [Readers -> ReaderType]
    BY DEF BaseInv, TypesOK, ReaderType, ReaderPc
  <1>2. r'[p] = rec /\ \A q \in Readers : q # p => r'[q] = r[q]
    BY <1>1
  <1>3. StorageOK' /\ WriterOK' /\ PendingOK'
    BY KeepsTables
  <1>4. TypesOK'
    <2>1. r' \in [Readers -> ReaderType]
      BY <1>1
    <2> QED
      BY <2>1 DEF BaseInv, TypesOK, ReaderType, ReaderPc
  <1>5. m.owner # p
    BY DEF BaseInv, MutexOK
  <1>6. MutexOK'
    BY <1>2, <1>5 DEF BaseInv, MutexOK
  <1>7. WantsOK'
    BY <1>2 DEF BaseInv, WantsOK
  <1>8. BuildOK'
    BY DEF BaseInv, BuildOK
  <1>9. SingleOK'
    <2> SUFFICES ASSUME load.threads = "single" PROVE SingleOK'
      BY DEF SingleOK
    <2>1. CASE rec.pc = "idle"
      BY <1>2, <1>5, <2>1 DEF BaseInv, SingleOK
    <2>2. CASE rec.pc # "idle"
      <3>1. m.pc = "free"
        BY <2>2 DEF BaseInv, MutexOK
      <3> QED
        BY <1>2, <2>2, <3>1 DEF SingleOK
    <2> QED
      BY <2>1, <2>2
  <1> QED
    BY <1>3, <1>4, <1>6, <1>7, <1>8, <1>9 DEF BaseInv

\* What holds of a reader that is waiting or on its way.
LEMMA ReaderAlone ==
  ASSUME BaseInv, NEW p \in Readers, r[p].pc \notin {"idle", "refresh"}
  PROVE  /\ r[p].want => wants
         /\ load.threads = "single" =>
              /\ r[p].from = db /\ r[p].seen = writeGen /\ w.pc = "idle" /\ m.owner = None
              /\ \A q \in Readers : q # p => r[q].pc = "idle"
  <1>1. m.owner # p
    BY DEF BaseInv, MutexOK
  <1> QED
    BY <1>1 DEF BaseInv, WantsOK, SingleOK

\* A call begins: it raises the request for weights before it compares.
LEMMA GateBase == ASSUME BaseInv, NEW p \in Readers, NEW want \in BOOLEAN, Gate(p, want) PROVE BaseInv'
  <1> DEFINE rec == [pc |-> "compare", want |-> want, seen |-> writeGen, from |-> published, got |-> EmptySnapshot]
  <1>1. /\ r[p].pc = "idle" /\ MayStart /\ wants' = (wants \/ want) /\ r' = [r EXCEPT ![p] = rec]
        /\ UNCHANGED <<db, nextNode, nextEdge, writes, load, writeGen, snapGen, snapshot, pending, w, m, published>>
    BY DEF Gate, store
  <1>2. wants \in BOOLEAN /\ wants' \in BOOLEAN /\ writeGen \in Nat /\ published \in Storage
    BY <1>1 DEF BaseInv, TypesOK
  <1>3. /\ rec \in ReaderType /\ rec.pc = "compare" /\ rec.want = want /\ rec.from = published /\ rec.seen = writeGen
    BY <1>2, IdleTypes DEF ReaderType, ReaderPc
  <1> HIDE DEF rec
  <1>4. load.threads = "single" => w.pc = "idle" /\ m.owner = None /\ \A q \in Readers : r[q].pc = "idle"
    BY <1>1 DEF MayStart
  <1>5. w.pc = "idle" => published = db
    BY DEF BaseInv, WriterOK
  <1>6. (wants => wants') /\ (want => wants')
    BY <1>1
  <1> QED
    BY <1>1, <1>2, <1>3, <1>4, <1>5, <1>6, ReaderMoves

\* A reader compares the generations without a lock.
LEMMA CompareBase == ASSUME BaseInv, NEW p \in Readers, Compare(p) PROVE BaseInv'
  <1> DEFINE to == IF r[p].seen = snapGen THEN "load" ELSE "lock"
             rec == [r[p] EXCEPT !.pc = to]
  <1>1. /\ r[p].pc = "compare" /\ r' = [r EXCEPT ![p].pc = to]
        /\ UNCHANGED <<db, nextNode, nextEdge, writes, load, writeGen, snapGen, snapshot, pending, wants, w, m, published>>
    BY DEF Compare, store, cache
  <1>2. to \in {"load", "lock"}
    OBVIOUS
  <1> HIDE DEF to
  <1>3. r[p] \in ReaderType /\ wants \in BOOLEAN
    BY PassTypes DEF BaseInv, TypesOK, ReaderType
  <1>4. /\ rec \in ReaderType /\ rec.pc = to /\ rec.want = r[p].want /\ rec.from = r[p].from /\ rec.seen = r[p].seen
        /\ r' = [r EXCEPT ![p] = rec]
    BY <1>1, <1>2, <1>3 DEF ReaderType, ReaderPc
  <1> HIDE DEF rec
  <1> QED
    BY <1>1, <1>2, <1>3, <1>4, ReaderAlone, ReaderMoves

\* A reader loads the pointer, and checks it for weights.
LEMMA LoadBase == ASSUME BaseInv, NEW p \in Readers, Load(p) PROVE BaseInv'
  <1> DEFINE rec == IF r[p].want /\ ~snapshot.weighted THEN [r[p] EXCEPT !.pc = "lock"]
                    ELSE [r[p] EXCEPT !.pc = "done", !.got = snapshot]
  <1>1. /\ r[p].pc = "load" /\ r' = [r EXCEPT ![p] = rec]
        /\ UNCHANGED <<db, nextNode, nextEdge, writes, load, writeGen, snapGen, snapshot, pending, wants, w, m, published>>
    BY DEF Load, store, cache
  <1>2. r[p] \in ReaderType /\ wants \in BOOLEAN /\ snapshot \in Snapshot
    BY PassTypes DEF BaseInv, TypesOK, ReaderType
  <1>3. /\ rec \in ReaderType /\ rec.pc \in {"lock", "done"} /\ rec.want = r[p].want /\ rec.from = r[p].from
        /\ rec.seen = r[p].seen /\ (rec.pc = "done" /\ rec.want => rec.got.weighted)
    BY <1>2 DEF ReaderType, ReaderPc
  <1> HIDE DEF rec
  <1> QED
    BY <1>1, <1>2, <1>3, ReaderAlone, ReaderMoves

\* A call ends.
LEMMA ReturnBase == ASSUME BaseInv, NEW p \in Readers, Return(p) PROVE BaseInv'
  <1>1. /\ r[p].pc \in {"done", "failed"} /\ r' = [r EXCEPT ![p] = IdleReader]
        /\ UNCHANGED <<db, nextNode, nextEdge, writes, load, writeGen, snapGen, snapshot, pending, wants, w, m, published>>
    BY DEF Return, store, cache
  <1>2. wants \in BOOLEAN
    BY DEF BaseInv, TypesOK
  <1>3. IdleReader \in ReaderType /\ IdleReader.pc = "idle"
    BY IdleTypes DEF ReaderType
  <1> QED
    BY <1>1, <1>2, <1>3, ReaderMoves

\* A reader takes the mutex when nobody holds it.
LEMMA LockBase == ASSUME BaseInv, NEW p \in Readers, Lock(p) PROVE BaseInv'
  <1>1. /\ r[p].pc = "lock" /\ m.owner = None
        /\ UNCHANGED <<db, nextNode, nextEdge, writes, load, writeGen, snapGen, snapshot, pending, wants, w, published>>
    BY DEF Lock, store, cache
  <1>2. r[p] \in ReaderType /\ wants \in BOOLEAN /\ snapshot \in Snapshot /\ r \in [Readers -> ReaderType]
    BY PassTypes DEF BaseInv, TypesOK, ReaderType, ReaderPc
  <1>3. CASE Stale \/ (r[p].want /\ ~snapshot.weighted)
    <2> DEFINE rec == [r[p] EXCEPT !.pc = "refresh"]
    <2>1. m' = [Idle EXCEPT !.owner = p, !.pc = "start", !.want = r[p].want] /\ r' = [r EXCEPT ![p].pc = "refresh"]
      BY <1>3 DEF Lock
    <2>2. m' \in PassType /\ m'.owner = p /\ m'.pc = "start" /\ m'.want = r[p].want
      BY <1>2, <2>1, IdleTypes DEF PassType, PassPc, ReaderType
    <2>3. /\ rec \in ReaderType /\ rec.pc = "refresh" /\ rec.want = r[p].want /\ rec.from = r[p].from
          /\ rec.seen = r[p].seen /\ r' = [r EXCEPT ![p] = rec]
      BY <1>2, <2>1 DEF ReaderType, ReaderPc
    <2> HIDE DEF rec
    <2>4. r'[p] = rec /\ \A q \in Readers : q # p => r'[q] = r[q]
      BY <1>2, <2>3
    <2>5. StorageOK' /\ WriterOK' /\ PendingOK'
      BY <1>1, KeepsTables
    <2>6. TypesOK'
      <3>1. r' \in [Readers -> ReaderType]
        BY <1>2, <2>3
      <3> QED
        BY <1>1, <2>2, <3>1 DEF BaseInv, TypesOK, ReaderType, ReaderPc, PassType, PassPc
    <2>7. p # None /\ p # "rebuild"
      BY CsrAssumption
    <2>8. MutexOK'
      <3>1. \A q \in Readers : r'[q].pc = "refresh" <=> m'.owner = q
        <4>1. \A q \in Readers : r[q].pc # "refresh"
          BY <1>1, CsrAssumption DEF BaseInv, MutexOK
        <4> QED
          BY <2>2, <2>3, <2>4, <4>1
      <3>2. r'[p].want = m'.want /\ snapGen <= writeGen
        BY <2>2, <2>3, <2>4 DEF BaseInv, MutexOK
      <3> QED
        BY <1>1, <2>2, <2>7, <3>1, <3>2 DEF MutexOK
    <2>9. WantsOK'
      <3>1. r[p].want => wants
        BY <1>1, ReaderAlone
      <3> QED
        BY <1>1, <2>2, <2>3, <2>4, <3>1 DEF BaseInv, WantsOK
    <2>10. BuildOK'
      BY <2>2 DEF BuildOK
    <2>11. SingleOK'
      <3> SUFFICES ASSUME load.threads = "single" PROVE SingleOK'
        BY <1>1 DEF SingleOK
      <3>1. r[p].from = db /\ r[p].seen = writeGen /\ w.pc = "idle" /\ \A q \in Readers : q # p => r[q].pc = "idle"
        BY <1>1, ReaderAlone
      <3> QED
        BY <1>1, <2>2, <2>3, <2>4, <3>1 DEF SingleOK
    <2> QED
      BY <2>5, <2>6, <2>8, <2>9, <2>10, <2>11 DEF BaseInv
  <1>4. CASE ~(Stale \/ (r[p].want /\ ~snapshot.weighted))
    <2> DEFINE rec == IF r[p].want THEN [r[p] EXCEPT !.pc = "done", !.got = snapshot] ELSE [r[p] EXCEPT !.pc = "load"]
    <2>1. m' = m /\ r' = [r EXCEPT ![p] = rec]
      BY <1>4 DEF Lock
    <2>2. /\ rec \in ReaderType /\ rec.pc \in {"load", "done"} /\ rec.want = r[p].want /\ rec.from = r[p].from
          /\ rec.seen = r[p].seen /\ (rec.pc = "done" /\ rec.want => rec.got.weighted)
      BY <1>2, <1>4 DEF ReaderType, ReaderPc
    <2> HIDE DEF rec
    <2> QED
      BY <1>1, <1>2, <2>1, <2>2, ReaderAlone, ReaderMoves
  <1> QED
    BY <1>3, <1>4

\* The mutex is released, and the owner's call goes on or ends.
LEMMA ReleaseBase ==
  ASSUME BaseInv, m.owner # None, m' = Idle, NEW rec \in ReaderType,
         r' = IF m.owner \in Readers THEN [r EXCEPT ![m.owner] = rec] ELSE r,
         UNCHANGED <<db, nextNode, nextEdge, writes, load, writeGen, snapshot, pending, wants, w, published>>,
         snapGen' \in Nat, snapGen' <= writeGen,
         rec.pc \in {"load", "done", "failed"},
         m.owner \in Readers => /\ rec.want = r[m.owner].want /\ rec.from = r[m.owner].from
                                /\ rec.seen = r[m.owner].seen,
         m.owner \in Readers /\ rec.pc = "done" /\ rec.want => rec.got.weighted
  PROVE  BaseInv'
  <1>1. r \in [Readers -> ReaderType]
    BY DEF BaseInv, TypesOK, ReaderType, ReaderPc
  <1>2. \A q \in Readers : r'[q] = IF q = m.owner THEN rec ELSE r[q]
    BY <1>1
  <1>3. m' \in PassType /\ m'.owner = None /\ m'.pc = "free" /\ m'.want = FALSE
    BY IdleTypes DEF PassType
  <1>4. StorageOK' /\ WriterOK' /\ PendingOK'
    BY KeepsTables
  <1>5. TypesOK'
    <2>1. r' \in [Readers -> ReaderType]
      BY <1>1
    <2> QED
      BY <1>3, <2>1 DEF BaseInv, TypesOK, ReaderType, ReaderPc, PassType, PassPc
  <1>6. None \notin Readers
    BY CsrAssumption
  <1>7. MutexOK'
    BY <1>2, <1>3, <1>6 DEF BaseInv, MutexOK
  <1>8. WantsOK'
    <2>1. ASSUME NEW q \in Readers, r'[q].pc # "idle", r'[q].want PROVE wants
      <3>1. m.owner = q => r[q].pc = "refresh"
        BY DEF BaseInv, MutexOK
      <3> QED
        BY <1>2, <2>1, <3>1 DEF BaseInv, WantsOK
    <2>2. ASSUME NEW q \in Readers, r'[q].pc = "done", r'[q].want PROVE r'[q].got.weighted
      BY <1>2, <2>2 DEF BaseInv, WantsOK
    <2> QED
      BY <1>3, <2>1, <2>2 DEF WantsOK
  <1>9. BuildOK'
    BY <1>3 DEF BuildOK
  <1>10. SingleOK'
    <2> SUFFICES ASSUME load.threads = "single" PROVE SingleOK'
      BY DEF SingleOK
    <2>1. w.pc = "idle" /\ \A q \in Readers : r[q].pc = "idle" \/ m.owner = q
      BY DEF BaseInv, SingleOK
    <2>2. \A q \in Readers : m.owner = q => r[q].from = db /\ r[q].seen = writeGen
      BY DEF BaseInv, SingleOK, MutexOK
    <2> QED
      BY <1>2, <1>3, <2>1, <2>2 DEF SingleOK
  <1> QED
    BY <1>4, <1>5, <1>7, <1>8, <1>9, <1>10 DEF BaseInv

\* The stamp is the captured generation, and releases the mutex.
LEMMA StampBase == ASSUME BaseInv, Stamp PROVE BaseInv'
  <1> DEFINE o == r[m.owner]
             rec == IF m.owner \notin Readers THEN [IdleReader EXCEPT !.pc = "failed"]
                    ELSE IF o.want THEN [o EXCEPT !.pc = "done", !.got = m.snap]
                         ELSE [o EXCEPT !.pc = "load"]
  <1>1. /\ m.pc = "stamp" /\ snapGen' = m.built /\ m' = Idle
        /\ UNCHANGED <<db, nextNode, nextEdge, writes, load, writeGen, snapshot, pending, wants, w, published>>
    BY DEF Stamp, store
  <1>2. m.snap \in Snapshot /\ m.built \in Nat /\ (m.owner \in Readers => o \in ReaderType) /\ r \in [Readers -> ReaderType]
    BY PassTypes DEF BaseInv, TypesOK, ReaderType, ReaderPc
  <1>3. r' = IF m.owner \in Readers THEN [r EXCEPT ![m.owner] = rec] ELSE r
    BY <1>2 DEF Stamp, ReaderType
  <1>4. m.owner # None /\ m.built <= writeGen /\ (m.owner \in Readers => m.want = o.want) /\ (m.want => m.snap.weighted)
    BY <1>1 DEF BaseInv, MutexOK, WantsOK
  <1>5. /\ rec \in ReaderType /\ rec.pc \in {"load", "done", "failed"}
        /\ m.owner \in Readers => rec.want = o.want /\ rec.from = o.from /\ rec.seen = o.seen
        /\ m.owner \in Readers /\ rec.pc = "done" /\ rec.want => rec.got.weighted
    <2>1. IdleReader \in ReaderType
      BY IdleTypes DEF ReaderType
    <2> HIDE DEF o
    <2> QED
      BY <1>2, <1>4, <2>1 DEF ReaderType, ReaderPc
  <1> HIDE DEF rec
  <1> QED
    BY <1>1, <1>2, <1>3, <1>4, <1>5, ReleaseBase

\* A failed build releases the mutex and leaves the snapshot alone.
LEMMA BuildFailsBase == ASSUME BaseInv, BuildFails PROVE BaseInv'
  <1> DEFINE o == r[m.owner]
             rec == IF m.owner \notin Readers THEN [IdleReader EXCEPT !.pc = "failed"]
                    ELSE [o EXCEPT !.pc = "failed"]
  <1>1. /\ m.pc \in {"build", "patch"} /\ m' = Idle
        /\ UNCHANGED <<db, nextNode, nextEdge, writes, load, writeGen, snapGen, snapshot, pending, wants, w, published>>
    BY DEF BuildFails, store, cache
  <1>2. (m.owner \in Readers => o \in ReaderType) /\ r \in [Readers -> ReaderType] /\ snapGen \in Nat
    BY PassTypes DEF BaseInv, TypesOK, ReaderType, ReaderPc
  <1>3. r' = IF m.owner \in Readers THEN [r EXCEPT ![m.owner] = rec] ELSE r
    BY <1>2 DEF BuildFails, ReaderType
  <1>4. m.owner # None /\ snapGen <= writeGen
    BY <1>1 DEF BaseInv, MutexOK
  <1>5. /\ rec \in ReaderType /\ rec.pc = "failed"
        /\ m.owner \in Readers => rec.want = o.want /\ rec.from = o.from /\ rec.seen = o.seen
    <2>1. IdleReader \in ReaderType
      BY IdleTypes DEF ReaderType
    <2> HIDE DEF o
    <2> QED
      BY <1>2, <2>1 DEF ReaderType, ReaderPc
  <1> HIDE DEF rec
  <1> QED
    BY <1>1, <1>2, <1>3, <1>4, <1>5, ReleaseBase

\* A rebuild takes the mutex; it has no reader to answer.
LEMMA BeginRebuildBase == ASSUME BaseInv, BeginRebuild PROVE BaseInv'
  <1>1. /\ m.owner = None /\ MayStart /\ m' = [Idle EXCEPT !.owner = "rebuild", !.pc = "start"]
        /\ UNCHANGED <<db, nextNode, nextEdge, writes, load, writeGen, snapGen, snapshot, pending, wants, w, r, published>>
    BY DEF BeginRebuild, store, cache
  <1>2. m' \in PassType /\ m'.owner = "rebuild" /\ m'.pc = "start" /\ m'.want = FALSE
    BY <1>1, IdleTypes DEF PassType, PassPc
  <1>3. StorageOK' /\ WriterOK' /\ PendingOK'
    BY <1>1, KeepsTables
  <1>4. TypesOK'
    BY <1>1, <1>2 DEF BaseInv, TypesOK, PassType, PassPc
  <1>5. MutexOK'
    BY <1>1, <1>2, CsrAssumption DEF BaseInv, MutexOK
  <1>6. WantsOK'
    BY <1>1, <1>2 DEF BaseInv, WantsOK
  <1>7. BuildOK'
    BY <1>2 DEF BuildOK
  <1>8. SingleOK'
    BY <1>1, <1>2 DEF MayStart, SingleOK
  <1> QED
    BY <1>3, <1>4, <1>5, <1>6, <1>7, <1>8 DEF BaseInv

\* The first state.
LEMMA InitBase == ASSUME Init PROVE BaseInv
  <1>1. db \in Storage /\ db.nodes = {} /\ db.edges = {} /\ published = db
    BY DEF Init, Storage
  <1>2. pending \in Seq(Batch) /\ Recorded = {}
    BY DEF Init, Recorded, Elems
  <1>3. IdleWriter \in [pc: {"idle", "record", "advance"}, change: CsrChange, count: Nat]
    BY ChangeTypes DEF IdleWriter
  <1>4. r \in [Readers -> ReaderType] /\ \A p \in Readers : r[p].pc = "idle"
    BY IdleTypes DEF Init, ReaderType
  <1>5. m \in PassType /\ m.owner = None /\ m.pc = "free" /\ m.want = FALSE
    BY IdleTypes DEF Init, PassType
  <1>6. w.pc = "idle" /\ w.change = NoChange
    BY DEF Init, IdleWriter
  <1>7. TypesOK
    <2>0. nextNode = 1 /\ nextEdge = 1 /\ writeGen = 1 /\ snapGen = 0 /\ writes = 0 /\ wants \in BOOLEAN /\ load \in Workloads
      BY Zenon DEF Init
    <2>1. /\ nextNode \in Nat /\ nextEdge \in Nat /\ writes \in Nat /\ writeGen \in Nat \ {0}
          /\ snapGen \in Nat /\ wants \in BOOLEAN /\ load \in Workloads
      BY <2>0
    <2>2. snapshot = EmptySnapshot /\ w = IdleWriter
      BY DEF Init
    <2>3. snapshot \in Snapshot /\ w \in [pc: {"idle", "record", "advance"}, change: CsrChange, count: Nat]
      BY <1>3, <2>2, IdleTypes
    <2> QED
      BY <1>1, <1>2, <1>4, <1>5, <2>1, <2>3 DEF TypesOK, ReaderType, ReaderPc, PassType, PassPc
  <1>8. StorageOK /\ WriterOK /\ PendingOK
    BY <1>1, <1>2, <1>6, ChangeTypes DEF StorageOK, WriterOK, PendingOK, Closed, Settled
  <1>9. MutexOK
    BY <1>4, <1>5, CsrAssumption DEF Init, MutexOK
  <1>10. WantsOK /\ BuildOK /\ SingleOK
    BY <1>4, <1>5, <1>6 DEF WantsOK, BuildOK, SingleOK
  <1> QED
    BY <1>7, <1>8, <1>9, <1>10 DEF BaseInv

\* Steps that change nothing.
LEMMA StutterBase == ASSUME BaseInv, UNCHANGED vars PROVE BaseInv'
  <1>1. /\ UNCHANGED <<db, nextNode, nextEdge, writes, load, writeGen, snapGen, snapshot, pending, wants>>
        /\ UNCHANGED <<w, m, r, published>>
    BY DEF vars, store, cache
  <1>2. StorageOK' /\ WriterOK' /\ PendingOK' /\ MutexOK' /\ WantsOK'
    BY <1>1, KeepsTables, KeepsPass
  <1> QED
    BY <1>1, <1>2 DEF BaseInv, TypesOK, BuildOK, SingleOK

\* Every step keeps the invariant of every behaviour.
LEMMA BaseStep == ASSUME BaseInv, [Next]_vars PROVE BaseInv'
  <1>1. CASE WriterNext
    BY <1>1, WriterCommits, CommitBase
  <1>2. CASE WriterStep
    BY <1>2, RecordBase, AdvanceBase DEF WriterStep
  <1>3. CASE MaintenanceStep
    BY <1>3, MStartBase, PendingApplicableBase, PatchBase, BuildBase, DrainBase, PruneBase, StoreBase, StampBase
       DEF MaintenanceStep
  <1>4. CASE BuildFails \/ BeginRebuild
    BY <1>4, BuildFailsBase, BeginRebuildBase
  <1>5. CASE \E p \in Readers : ReaderStep(p) \/ (\E want \in BOOLEAN : Gate(p, want))
    BY <1>5, CompareBase, LoadBase, LockBase, ReturnBase, GateBase DEF ReaderStep
  <1>6. CASE UNCHANGED vars
    BY <1>6, StutterBase
  <1> QED
    BY <1>1, <1>2, <1>3, <1>4, <1>5, <1>6 DEF Next

\* The invariant of every behaviour holds in every behaviour.
THEOREM Invariance == Spec => []BaseInv
  BY InitBase, BaseStep, PTL DEF Spec

\* A rebuild that is about to be stamped with the current generation, no write
\* being in flight, has stored exactly what storage holds: the generation was
\* read before the scan (rebuild_csr), and a write since would have moved it.
THEOREM RebuildExact == Spec => []FullBuildExact
  <1>1. BaseInv => FullBuildExact
    BY DEF BaseInv, MutexOK, BuildOK, FullBuildExact
  <1> QED
    BY <1>1, Invariance, PTL

-----------------------------------------------------------------------------
(* The invariant of behaviours without an overrun: storage and snapshots *)

\* To be the same record is an equivalence.
LEMMA SameEdgeFacts ==
  /\ \A x, y : SameEdge(x, y) => SameEdge(y, x)
  /\ \A x, y, z : SameEdge(x, y) /\ SameEdge(y, z) => SameEdge(x, z)
  /\ \A x : SameEdge(x, x)
  BY DEF SameEdge

\* To lie within is reflexive and transitive.
LEMMA WithinFacts ==
  /\ \A s, t, u : Within(s, t) /\ Within(t, u) => Within(s, u)
  /\ \A s : Within(s, s)
  BY SameEdgeFacts DEF Within, InStore

\* What is in storage is in the larger storage.
LEMMA InStoreWithin ==
  ASSUME NEW s, NEW t, Within(s, t), NEW x, InStore(s, x)
  PROVE  InStore(t, x)
  BY SameEdgeFacts DEF Within, InStore

\* What reaches a storage reaches any storage within it.
LEMMA ReachedWithin ==
  ASSUME NEW snap, NEW bs, NEW s, NEW t, Within(s, t), Reached(snap, bs, t)
  PROVE  Reached(snap, bs, s)
  <1> SUFFICES ASSUME ~HasFull(bs) PROVE Reached(snap, bs, s)
    BY DEF Reached
  <1>1. \A n \in s.nodes : n \in snap.nodes \/ \E b \in bs : n \in b.change.nodes
    BY DEF Reached, Within
  <1>2. ASSUME NEW e \in s.edges
        PROVE  InRows(snap, e) \/ \E b \in bs : \E a \in b.change.edges : SameEdge(a, e)
    <2>1. PICK f \in t.edges : SameEdge(e, f)
      BY DEF Within, InStore
    <2>2. InRows(snap, f) \/ \E b \in bs : \E a \in b.change.edges : SameEdge(a, f)
      BY DEF Reached
    <2> QED
      BY <2>1, <2>2, SameEdgeFacts DEF InRows
  <1> QED
    BY <1>1, <1>2 DEF Reached

\* Storage without what is being added is within storage.
LEMMA SettledWithin == Within(Settled, db) /\ Within(Due, db)
  BY SameEdgeFacts DEF Within, InStore, Settled, Due

\* Nothing is being added: storage is settled.
LEMMA SettledQuiet ==
  ASSUME TypesOK, w.change.nodes = {}, w.change.edges = {}
  PROVE  Settled = db /\ Due = db
  <1>1. db = [nodes |-> db.nodes, edges |-> db.edges]
    BY DEF TypesOK, Storage
  <1>2. db.nodes \ w.change.nodes = db.nodes
    OBVIOUS
  <1>3. {e \in db.edges : \A a \in w.change.edges : a.id # e.id} = db.edges
    OBVIOUS
  <1> QED
    BY <1>1, <1>2, <1>3 DEF Settled, Due

\* A commit leaves the rest of storage where it was, unless it removes.
LEMMA CommitSettled ==
  ASSUME BaseInv, CommitStep
  PROVE  /\ Due = db /\ Settled = db /\ Due' = Settled' /\ Within(Settled', db)
         /\ ~w'.change.full => Within(db, Settled') /\ db.nodes \subseteq Settled'.nodes
  <1>1. w.pc = "idle" /\ w.change = NoChange /\ w'.pc = "record"
    BY DEF BaseInv, WriterOK, CommitStep
  <1>2. Due = db /\ Settled = db
    BY <1>1, SettledQuiet, ChangeTypes DEF BaseInv
  <1>3. Due' = Settled'
    BY <1>1 DEF Due
  <1>4. Within(Settled', db)
    <2>1. Settled'.nodes \subseteq db.nodes
      BY DEF CommitStep, Settled
    <2>2. \A e \in Settled'.edges : InStore(db, e)
      BY SameEdgeFacts DEF CommitStep, Settled, SameEdge
    <2> QED
      BY <2>1, <2>2 DEF Within
  <1>5. ASSUME ~w'.change.full PROVE Within(db, Settled')
    <2>1. \A n \in db.nodes : n \in db'.nodes /\ n \notin w'.change.nodes
      <3>1. \A n \in db.nodes : n < nextNode /\ n \in Nat
        BY DEF BaseInv, StorageOK, TypesOK, Storage, NodeId
      <3>2. nextNode \in Nat /\ \A n \in w'.change.nodes : nextNode <= n
        BY DEF BaseInv, TypesOK, CommitStep
      <3>3. db.nodes \subseteq db'.nodes
        BY <1>5 DEF CommitStep
      <3> QED
        BY <3>1, <3>2, <3>3
    <2>2. ASSUME NEW e \in db.edges PROVE InStore(Settled', e)
      <3>1. PICK f \in db'.edges : SameEdge(e, f)
        BY <1>5 DEF CommitStep, InStore
      <3>2. e.id < nextEdge /\ e.id \in Nat /\ nextEdge \in Nat
        BY DEF BaseInv, StorageOK, TypesOK, Storage, Edge, EdgeId
      <3>3. \A a \in w'.change.edges : a.id # f.id
        BY <3>1, <3>2 DEF CommitStep, SameEdge
      <3> QED
        BY <3>1, <3>3 DEF InStore, Settled
    <2> QED
      BY <2>1, <2>2 DEF Within, Settled
  <1> QED
    BY <1>2, <1>3, <1>4, <1>5 DEF Within

\* A snapshot with its batches stays what it is over a commit: what is added
\* is not due yet.
LEMMA PairCommit ==
  ASSUME BaseInv, CommitStep, NEW snap, NEW bs, PairOK(snap, bs)
  PROVE  PairOK(snap, bs)'
  <1>1. w.pc = "idle" /\ w'.pc = "record" /\ published = db /\ UNCHANGED <<published, load>> /\ ~Deleting
    BY DEF BaseInv, WriterOK, CommitStep, Deleting
  <1>2. /\ Due = db /\ Within(Due', db)
        /\ ~w'.change.full => Within(db, Due') /\ db.nodes \subseteq Due'.nodes
    BY CommitSettled
  <1>3. Reached(snap, bs, Due)' 
    BY <1>2, ReachedWithin DEF PairOK
  <1>4. (HasFull(bs) \/ Deleting \/ \A x \in snap.rows : InStore(db, x))'
    <2> SUFFICES ASSUME ~HasFull(bs), ~w'.change.full PROVE \A x \in snap.rows : InStore(db', x)
      BY <1>1 DEF Deleting, HasFull, InStore
    <2>1. \A x \in snap.rows : InStore(db, x)
      BY <1>1 DEF PairOK
    <2>2. Within(db, db')
      BY DEF CommitStep, Within
    <2> QED
      BY <2>1, <2>2, InStoreWithin
  <1>5. (Tame /\ snap.weighted /\ ~HasUpdate(bs) => \A x \in snap.rows : Current(x))'
    BY <1>1 DEF PairOK, Tame, HasUpdate, Current
  <1>6. (load.threads = "single" => HasFull(bs) \/ Deleting \/ Exact(snap, bs))'
    <2> SUFFICES ASSUME load.threads = "single", ~HasFull(bs), ~w'.change.full PROVE Exact(snap, bs)'
      BY <1>1 DEF Deleting, HasFull, Exact
    <2>1. Exact(snap, bs)
      BY <1>1 DEF PairOK
    <2>2. \A x : InStore(db, x) => InStore(Due', x)
      BY <1>2, InStoreWithin
    <2> QED
      BY <1>2, <2>1, <2>2 DEF Exact
  <1> QED
    BY <1>3, <1>4, <1>5, <1>6 DEF PairOK

\* Nothing else changes what is said of a snapshot and its batches.
LEMMA PairSame ==
  ASSUME NEW snap, NEW bs, PairOK(snap, bs), UNCHANGED <<db, w, published, load>>
  PROVE  PairOK(snap, bs)'
  <1>1. Due' = Due /\ (Deleting' <=> Deleting) /\ (Tame' <=> Tame)
    BY DEF Due, Settled, Deleting, Tame
  <1>2. \A x : Current(x)' <=> Current(x)
    BY DEF Current
  <1>3. (HasFull(bs)' <=> HasFull(bs)) /\ (HasUpdate(bs)' <=> HasUpdate(bs))
    BY DEF HasFull, HasUpdate
  <1>4. \A x : InStore(db', x) <=> InStore(db, x)
    OBVIOUS
  <1>5. Reached(snap, bs, Due)' 
    BY <1>1, <1>3 DEF PairOK, Reached, InRows
  <1>6. Exact(snap, bs)' <=> Exact(snap, bs)
    BY <1>1 DEF Exact
  <1> QED
    BY <1>1, <1>2, <1>3, <1>4, <1>5, <1>6 DEF PairOK

\* A full marker accounts for everything.
LEMMA PairFull ==
  ASSUME NEW snap, NEW bs, HasFull(bs)
  PROVE  PairOK(snap, bs)'
  BY DEF PairOK, HasFull, HasUpdate, Reached

\* The recorded change joins the batches, and what it added is due.
LEMMA PairRecord ==
  ASSUME BaseInv, RecordChange, ~w.change.full, NEW snap, NEW bs, PairOK(snap, bs), NEW bs2,
         \/ w.change = NoChange /\ bs2 = bs
         \/ bs2 = bs \cup {[tag |-> writeGen, change |-> w.change]}
  PROVE  PairOK(snap, bs2)'
  <1> DEFINE own == [tag |-> writeGen, change |-> w.change]
  <1>1. w.pc = "record" /\ UNCHANGED <<db, published, load>> /\ ~Deleting
    BY DEF RecordChange, store, Deleting
  <1>2. w'.pc = "advance"
    BY DEF RecordChange, BaseInv, TypesOK
  <1>3. Due = Settled /\ Due' = db
    BY <1>1, <1>2 DEF Due
  <1>4. own.change = w.change
    OBVIOUS
  <1>5. \A n \in db.nodes : n \in Settled.nodes \/ n \in w.change.nodes
    BY DEF Settled
  <1>6. \A e \in db.edges : e \in Settled.edges \/ \E a \in w.change.edges : SameEdge(a, e)
    BY DEF Settled, BaseInv, WriterOK
  <1>7. Within(Settled, db)
    BY SettledWithin
  <1> HIDE DEF own
  <1>8. bs2 = bs \/ bs2 = bs \cup {own}
    BY DEF own
  <1>9. (w.change.nodes = {} /\ w.change.edges = {} /\ ~w.change.updated) \/ own \in bs2
    BY <1>8, ChangeTypes DEF own
  <1>10. HasFull(bs2) <=> HasFull(bs)
    BY <1>4, <1>8 DEF HasFull
  <1>11. Reached(snap, bs2, Due)'
    <2> SUFFICES ASSUME ~HasFull(bs) PROVE Reached(snap, bs2, db)
      BY <1>1, <1>3, <1>10 DEF Reached, HasFull, InRows
    <2>1. Reached(snap, bs, Settled)
      BY <1>3 DEF PairOK
    <2>2. \A n \in db.nodes : n \in snap.nodes \/ \E b \in bs2 : n \in b.change.nodes
      BY <1>4, <1>5, <1>8, <1>9, <2>1 DEF Reached
    <2>3. \A e \in db.edges : InRows(snap, e) \/ \E b \in bs2 : \E a \in b.change.edges : SameEdge(a, e)
      BY <1>4, <1>6, <1>8, <1>9, <2>1 DEF Reached
    <2> QED
      BY <2>2, <2>3 DEF Reached
  <1>12. (HasFull(bs2) \/ Deleting \/ \A x \in snap.rows : InStore(db, x))'
    BY <1>1, <1>10 DEF PairOK, HasFull, InStore
  <1>13. (Tame /\ snap.weighted /\ ~HasUpdate(bs2) => \A x \in snap.rows : Current(x))'
    <2> SUFFICES ASSUME Tame, snap.weighted, ~HasUpdate(bs2), NEW x \in snap.rows PROVE x \in db.edges
      BY <1>1, <1>2 DEF Tame, HasUpdate, Current
    <2>1. ~HasUpdate(bs) /\ ~w.change.updated
      BY <1>4, <1>8, <1>9 DEF HasUpdate
    <2>2. published.edges \subseteq db.edges
      BY <2>1 DEF BaseInv, WriterOK
    <2> QED
      BY <2>1, <2>2 DEF PairOK, Current
  <1>14. (load.threads = "single" => HasFull(bs2) \/ Deleting \/ Exact(snap, bs2))'
    <2> SUFFICES ASSUME load.threads = "single", ~HasFull(bs) PROVE Exact(snap, bs2)'
      BY <1>1, <1>10 DEF HasFull
    <2>1. Exact(snap, bs)
      BY <1>1 DEF PairOK
    <2>2. Settled.nodes \subseteq db.nodes /\ w.change.nodes \subseteq db.nodes
      BY DEF Settled, BaseInv, WriterOK
    <2>3. \A x : InStore(Settled, x) => InStore(db, x)
      BY <1>7, InStoreWithin
    <2>4. \A x : InStore(Settled, x) => \A a \in w.change.edges : a.id # x.id
      BY DEF InStore, Settled, SameEdge
    <2>5. \A b \in bs2 : b.change.nodes \subseteq db.nodes
      BY <1>3, <1>4, <1>8, <2>1, <2>2 DEF Exact
    <2>6. \A x \in snap.rows : \A b \in bs2 : \A a \in b.change.edges : a.id # x.id
      BY <1>3, <1>4, <1>8, <2>1, <2>4 DEF Exact
    <2>7. snap.nodes \subseteq db.nodes /\ snap.twice = {}
      BY <1>3, <2>1, <2>2 DEF Exact
    <2>8. \A x \in snap.rows : InStore(db, x) /\ (~snap.weighted => x.w = None)
      BY <1>3, <2>1, <2>3 DEF Exact
    <2> QED
      BY <1>1, <1>3, <2>5, <2>6, <2>7, <2>8 DEF Exact
  <1> QED
    BY <1>11, <1>12, <1>13, <1>14 DEF PairOK

\* A new generation publishes what is in storage and recorded.
LEMMA PairAdvance ==
  ASSUME BaseInv, AdvanceWriteGen, NEW snap, NEW bs, PairOK(snap, bs)
  PROVE  PairOK(snap, bs)'
  <1>1. w.pc = "advance" /\ w'.pc = "idle" /\ UNCHANGED <<db, load>>
    BY DEF AdvanceWriteGen, store, IdleWriter
  <1>2. Due = db /\ Due' = db
    BY <1>1 DEF Due
  <1>3. ~Deleting /\ ~Deleting' /\ (Tame' <=> Tame)
    BY <1>1 DEF Deleting, Tame
  <1>4. \A x : Current(x)' <=> Current(x)
    BY <1>1 DEF Current
  <1>5. (HasFull(bs)' <=> HasFull(bs)) /\ (HasUpdate(bs)' <=> HasUpdate(bs))
    BY DEF HasFull, HasUpdate
  <1>6. Reached(snap, bs, Due)'
    BY <1>2, <1>5 DEF PairOK, Reached, InRows
  <1>7. Exact(snap, bs)' <=> Exact(snap, bs)
    BY <1>2 DEF Exact
  <1> QED
    BY <1>1, <1>3, <1>4, <1>5, <1>6, <1>7 DEF PairOK

\* With a pass under way on a target without threads, no write is in flight.
LEMMA SinglePass ==
  ASSUME BaseInv, m.owner # None, load.threads = "single"
  PROVE  /\ w.pc = "idle" /\ published = db /\ Due = db /\ ~Deleting
         /\ Owed(writeGen) = {}
  <1>1. w.pc = "idle"
    BY DEF BaseInv, SingleOK
  <1>2. published = db /\ Due = db /\ ~Deleting
    BY <1>1 DEF BaseInv, WriterOK, Due, Deleting
  <1>3. \A b \in Recorded : b.tag < writeGen /\ b.tag \in Nat /\ writeGen \in Nat
    <2>1. \A b \in Recorded : b \in Batch
      BY ElementOfSeq DEF BaseInv, TypesOK, Recorded, Elems
    <2>2. \A b \in Recorded : b.tag \in Nat
      BY <2>1 DEF Batch
    <2>3. \A b \in Recorded : b.tag < writeGen
      BY <1>1 DEF BaseInv, PendingOK
    <2>4. writeGen \in Nat
      BY DEF BaseInv, TypesOK
    <2> QED
      BY <2>2, <2>3, <2>4
  <1>4. Owed(writeGen) = {}
    BY <1>3 DEF Owed
  <1> QED
    BY <1>1, <1>2, <1>4

\* What a build holds.
LEMMA BuildHolds ==
  ASSUME BaseInv, NEW weighted \in BOOLEAN
  PROVE  LET new == BuildSnapshot(db, weighted)
         IN  /\ new.nodes = db.nodes /\ new.twice = {} /\ new.weighted = weighted
             /\ \A e \in db.edges : InRows(new, e)
             /\ \A x \in new.rows : InStore(db, x)
             /\ weighted => \A x \in new.rows : x \in db.edges
             /\ ~weighted => \A x \in new.rows : x.w = None
  <1> DEFINE new == BuildSnapshot(db, weighted)
  <1>1. db \in Storage /\ Closed(db)
    BY DEF BaseInv, TypesOK, StorageOK
  <1>2. {x \in db.edges : x.src \in db.nodes /\ x.dst \in db.nodes} = db.edges
    BY <1>1 DEF Closed
  <1>3. new = [nodes |-> db.nodes, rows |-> {AsRow(e, weighted) : e \in db.edges}, twice |-> {}, weighted |-> weighted]
    BY <1>2 DEF BuildSnapshot
  <1>4. \A e \in db.edges : SameEdge(AsRow(e, weighted), e)
    BY DEF AsRow, SameEdge
  <1>5. weighted => \A e \in db.edges : AsRow(e, weighted) = e
    <2> SUFFICES ASSUME weighted, NEW e \in db.edges PROVE AsRow(e, weighted) = e
      OBVIOUS
    <2>1. e \in Edge
      BY <1>1 DEF Storage
    <2>2. e = [id |-> e.id, src |-> e.src, dst |-> e.dst, w |-> e.w]
      BY <2>1 DEF Edge
    <2> QED
      BY <2>2 DEF AsRow
  <1>6. ~weighted => \A e \in db.edges : AsRow(e, weighted).w = None
    BY DEF AsRow
  <1> HIDE DEF new
  <1>7. new.rows = {AsRow(e, weighted) : e \in db.edges}
    BY <1>3
  <1> QED
    BY <1>3, <1>4, <1>5, <1>6, <1>7 DEF InRows, InStore, new

\* A build pairs with whatever is recorded from the captured generation on.
LEMMA PairBuild ==
  ASSUME BaseInv, m.pc = "build"
  PROVE  PairOK(BuildSnapshot(db, wants), Owed(m.built))
  <1> DEFINE new == BuildSnapshot(db, wants)
             bs == Owed(m.built)
  <1>0. wants \in BOOLEAN /\ m.owner # None
    BY DEF BaseInv, TypesOK, MutexOK
  <1>1. /\ new.nodes = db.nodes /\ new.twice = {} /\ new.weighted = wants
        /\ \A e \in db.edges : InRows(new, e)
        /\ \A x \in new.rows : InStore(db, x)
        /\ wants => \A x \in new.rows : x \in db.edges
        /\ ~wants => \A x \in new.rows : x.w = None
    BY <1>0, BuildHolds
  <1> HIDE DEF new
  <1>2. Reached(new, bs, db)
    BY <1>1 DEF Reached
  <1>3. Reached(new, bs, Due)
    BY <1>2, SettledWithin, ReachedWithin
  <1>4. load.threads = "single" => Exact(new, bs)
    <2> SUFFICES ASSUME load.threads = "single" PROVE Exact(new, bs)
      OBVIOUS
    <2>1. m.built = writeGen
      BY DEF BaseInv, SingleOK
    <2>2. bs = {} /\ Due = db
      BY <1>0, <2>1, SinglePass
    <2> QED
      BY <1>1, <2>2 DEF Exact
  <1> HIDE DEF bs
  <1>5. new.weighted => \A x \in new.rows : Current(x)
    BY <1>1 DEF Current
  <1> QED
    BY <1>1, <1>3, <1>4, <1>5 DEF PairOK, new, bs

-----------------------------------------------------------------------------
(* The invariant of behaviours without an overrun: the patch *)

\* The weight of an edge that has a record is the record's.
LEMMA WeightFound ==
  ASSUME BaseInv, NEW e \in db.edges
  PROVE  WeightOfEdge(db, e.id) = e.w
  <1> DEFINE f == CHOOSE x \in db.edges : x.id = e.id
  <1>1. f \in db.edges /\ f.id = e.id
    OBVIOUS
  <1>2. f = e
    BY <1>1 DEF BaseInv, StorageOK
  <1> QED
    BY <1>2 DEF WeightOfEdge

\* Batches recorded since the pass began are ones the snapshot lacks.
LEMMA AfterOwed ==
  ASSUME BaseInv, PatchOK, m.pc \in {"patch", "drain"}
  PROVE  After(m.applied) \subseteq Owed(snapGen)
  <1> SUFFICES ASSUME NEW b \in After(m.applied) PROVE b \in Owed(snapGen)
    OBVIOUS
  <1>1. b \in Recorded /\ b.tag >= m.built
    BY DEF After, Recorded, Elems, PatchOK
  <1>2. b \in Batch
    BY <1>1, ElementOfSeq DEF BaseInv, TypesOK, Recorded, Elems
  <1>3. b.tag \in Nat /\ m.built \in Nat /\ snapGen \in Nat /\ snapGen <= m.built
    BY <1>2 DEF Batch, BaseInv, TypesOK, MutexOK
  <1> QED
    BY <1>1, <1>3 DEF Owed

\* What a patch is made of: if no full marker came since, none was there, and
\* every edge it adds is in storage, unless a removal is being committed.
LEMMA PatchFacts ==
  ASSUME BaseInv, CoverInv, m.pc = "patch"
  PROVE  /\ HasFull(Owed(snapGen)) => HasFull(After(m.applied))
         /\ HasUpdate(Owed(snapGen)) => HasUpdate(After(m.applied)) \/ m.change.updated
         /\ \A a \in m.change.edges : InStore(db, a) \/ Deleting
         /\ Tame => ~Deleting
         /\ PairOK(snapshot, Owed(snapGen))
  <1>1. \A b \in Owed(snapGen) :
          \/ b \in After(m.applied)
          \/ /\ ~b.change.full
             /\ b.change.updated => m.change.updated
    BY DEF CoverInv, PatchOK
  <1>2. ASSUME NEW a \in m.change.edges PROVE InStore(db, a) \/ Deleting
    <2>1. PICK b \in Owed(snapGen) : a \in b.change.edges
      BY DEF CoverInv, PatchOK
    <2>2. b \in Recorded
      BY DEF Owed
    <2> QED
      BY <2>1, <2>2 DEF BaseInv, PendingOK, Deleting
  <1>3. ASSUME Tame PROVE ~Deleting
    <2>1. CASE load.ops \subseteq Additive
      BY <2>1 DEF CoverInv, GrowsOK, Deleting
    <2>2. CASE load.threads = "single"
      <3>1. m.owner # None
        BY DEF BaseInv, MutexOK
      <3> QED
        BY <2>2, <3>1, SinglePass
    <2> QED
      BY <1>3, <2>1, <2>2 DEF Tame
  <1>4. PairOK(snapshot, Owed(snapGen))
    BY DEF CoverInv, PairsOK
  <1> QED
    BY <1>1, <1>2, <1>3, <1>4 DEF HasFull, HasUpdate

\* The rows of the patched snapshot.
LEMMA PatchRows ==
  ASSUME BaseInv, CoverInv, m.pc = "patch"
  PROVE  LET new == WithAdditions(snapshot, m.change, db)
         IN  /\ new.nodes = snapshot.nodes \cup m.change.nodes /\ new.weighted = snapshot.weighted
             /\ snapshot.rows \subseteq new.rows
             /\ \A a \in m.change.edges : a.src \in new.nodes /\ a.dst \in new.nodes => InRows(new, a)
             /\ \A x \in new.rows : x \in snapshot.rows \/
                  \E a \in m.change.edges :
                     /\ SameEdge(x, a) /\ (~snapshot.weighted => x.w = None)
                     /\ snapshot.weighted /\ InStore(db, a) => x \in db.edges
  <1> DEFINE new == WithAdditions(snapshot, m.change, db)
  <1>1. snapshot \in Snapshot /\ m.change \in CsrChange /\ db \in Storage
    BY DEF BaseInv, TypesOK
  <1>2. /\ new.nodes = snapshot.nodes \cup m.change.nodes /\ new.weighted = snapshot.weighted
        /\ new.rows = snapshot.rows \cup {EntryOf(snapshot, e, db) : e \in Adds(snapshot, m.change)}
    BY <1>1, PatchType
  <1> HIDE DEF new
  <1>3. \A a \in m.change.edges : SameEdge(EntryOf(snapshot, a, db), a)
    BY DEF EntryOf, SameEdge
  <1>4. \A a \in m.change.edges : a.src \in new.nodes /\ a.dst \in new.nodes => a \in Adds(snapshot, m.change)
    BY <1>2 DEF Adds
  <1>5. \A a \in m.change.edges : a.src \in new.nodes /\ a.dst \in new.nodes => InRows(new, a)
    BY <1>2, <1>3, <1>4 DEF InRows
  <1>6. ASSUME NEW a \in m.change.edges, snapshot.weighted, InStore(db, a)
        PROVE  EntryOf(snapshot, a, db) \in db.edges
    <2>1. PICK e \in db.edges : SameEdge(a, e)
      BY <1>6 DEF InStore
    <2>2. e \in Edge
      BY <1>1 DEF Storage
    <2>3. e = [id |-> e.id, src |-> e.src, dst |-> e.dst, w |-> e.w]
      BY <2>2 DEF Edge
    <2>4. WeightOfEdge(db, e.id) = e.w
      BY WeightFound
    <2>5. EntryOf(snapshot, a, db) = e
      BY <1>6, <2>1, <2>3, <2>4 DEF EntryOf, SameEdge
    <2> QED
      BY <2>5
  <1>7. ASSUME NEW a \in m.change.edges, ~snapshot.weighted
        PROVE  EntryOf(snapshot, a, db).w = None
    BY <1>7 DEF EntryOf
  <1>8. \A x \in new.rows : x \in snapshot.rows \/
          \E a \in m.change.edges :
             /\ SameEdge(x, a) /\ (~snapshot.weighted => x.w = None)
             /\ snapshot.weighted /\ InStore(db, a) => x \in db.edges
    BY <1>2, <1>3, <1>6, <1>7 DEF Adds
  <1> QED
    BY <1>2, <1>5, <1>8 DEF new

\* The patched snapshot, with the batches recorded since, is storage.
LEMMA PairPatch ==
  ASSUME BaseInv, CoverInv, m.pc = "patch", ~CannotAdd(snapshot, m.change)
  PROVE  PairOK(WithAdditions(snapshot, m.change, db), After(m.applied))
  <1> DEFINE new == WithAdditions(snapshot, m.change, db)
             bs == After(m.applied)
             old == Owed(snapGen)
  <1>1. /\ new.nodes = snapshot.nodes \cup m.change.nodes /\ new.weighted = snapshot.weighted
        /\ snapshot.rows \subseteq new.rows
        /\ \A a \in m.change.edges : a.src \in new.nodes /\ a.dst \in new.nodes => InRows(new, a)
        /\ \A x \in new.rows : x \in snapshot.rows \/
             \E a \in m.change.edges :
                /\ SameEdge(x, a) /\ (~snapshot.weighted => x.w = None)
                /\ snapshot.weighted /\ InStore(db, a) => x \in db.edges
    BY PatchRows
  <1>2. new.twice = snapshot.twice \cup {id \in EdgeId : /\ \E e \in Adds(snapshot, m.change) : e.id = id
                                                         /\ \E x \in snapshot.rows : x.id = id}
    <2>1. snapshot \in Snapshot /\ m.change \in CsrChange /\ db \in Storage
      BY DEF BaseInv, TypesOK
    <2> QED
      BY <2>1, PatchType
  <1>3. /\ HasFull(old) => HasFull(bs)
        /\ HasUpdate(old) => HasUpdate(bs) \/ m.change.updated
        /\ \A a \in m.change.edges : InStore(db, a) \/ Deleting
        /\ Tame => ~Deleting
        /\ PairOK(snapshot, old)
    BY PatchFacts
  <1>4. /\ \A b \in old : \/ b \in bs
                          \/ /\ b.change.nodes \subseteq m.change.nodes
                             /\ b.change.edges \subseteq m.change.edges
        /\ \A n \in m.change.nodes : \E b \in old : n \in b.change.nodes
        /\ \A a \in m.change.edges :
              /\ \E b \in old : a \in b.change.edges
              /\ InStore(db, a) => {a.src, a.dst} \subseteq snapshot.nodes \cup m.change.nodes
    BY DEF CoverInv, PatchOK
  <1>5. bs \subseteq old
    BY AfterOwed DEF CoverInv
  <1>6. m.owner # None /\ (load.threads = "single" => bs = {})
    BY DEF BaseInv, MutexOK, CoverInv, PatchOK
  <1> HIDE DEF new, bs, old
  <1>7. Reached(new, bs, Due)
    <2> SUFFICES ASSUME ~HasFull(bs) PROVE Reached(new, bs, Due)
      BY DEF Reached
    <2>1. Reached(snapshot, old, Due) /\ ~HasFull(old)
      BY <1>3 DEF PairOK
    <2>2. \A n \in Due.nodes : n \in new.nodes \/ \E b \in bs : n \in b.change.nodes
      BY <1>1, <1>4, <2>1 DEF Reached
    <2>3. ASSUME NEW e \in Due.edges
          PROVE  InRows(new, e) \/ \E b \in bs : \E a \in b.change.edges : SameEdge(a, e)
      <3>1. CASE InRows(snapshot, e)
        BY <1>1, <3>1 DEF InRows
      <3>2. CASE \E b \in old : \E a \in b.change.edges : SameEdge(a, e)
        <4>1. PICK b \in old : \E a \in b.change.edges : SameEdge(a, e)
          BY <3>2
        <4>2. PICK a \in b.change.edges : SameEdge(a, e)
          BY <4>1
        <4>3. CASE b \in bs
          BY <4>2, <4>3
        <4>4. CASE b \notin bs
          <5>1. a \in m.change.edges
            BY <1>4, <4>4
          <5>2. InStore(db, a)
            <6>1. e \in db.edges
              BY DEF Due, Settled
            <6> QED
              BY <4>2, <6>1 DEF InStore
          <5>3. InRows(new, a)
            BY <1>1, <1>4, <5>1, <5>2
          <5> QED
            BY <4>2, <5>3, SameEdgeFacts DEF InRows
        <4> QED
          BY <4>3, <4>4
      <3> QED
        BY <2>1, <3>1, <3>2 DEF Reached
    <2> QED
      BY <2>2, <2>3 DEF Reached
  <1>8. HasFull(bs) \/ Deleting \/ \A x \in new.rows : InStore(db, x)
    <2> SUFFICES ASSUME ~HasFull(bs), ~Deleting, NEW x \in new.rows PROVE InStore(db, x)
      OBVIOUS
    <2>1. \A y \in snapshot.rows : InStore(db, y)
      BY <1>3 DEF PairOK
    <2>2. \A a \in m.change.edges : InStore(db, a)
      BY <1>3
    <2> QED
      BY <1>1, <2>1, <2>2, SameEdgeFacts DEF InStore
  <1>9. Tame /\ new.weighted /\ ~HasUpdate(bs) => \A x \in new.rows : Current(x)
    <2> SUFFICES ASSUME Tame, new.weighted, ~HasUpdate(bs), NEW x \in new.rows PROVE Current(x)
      OBVIOUS
    <2>1. snapshot.weighted /\ ~m.change.updated
      BY <1>1 DEF CannotAdd
    <2>2. \A y \in snapshot.rows : Current(y)
      BY <1>3, <2>1 DEF PairOK
    <2>3. \A a \in m.change.edges : InStore(db, a)
      BY <1>3
    <2> QED
      BY <1>1, <2>1, <2>2, <2>3 DEF Current
  <1>10. load.threads = "single" => HasFull(bs) \/ Deleting \/ Exact(new, bs)
    <2> SUFFICES ASSUME load.threads = "single", ~HasFull(bs) PROVE Exact(new, bs)
      OBVIOUS
    <2>1. Due = db /\ ~Deleting /\ bs = {}
      BY <1>6, SinglePass
    <2>2. Exact(snapshot, old)
      BY <1>3, <2>1 DEF PairOK
    <2>3. new.nodes \subseteq Due.nodes
      BY <1>1, <1>4, <2>2 DEF Exact
    <2>4. new.twice = {}
      <3>1. \A a \in Adds(snapshot, m.change) : \A x \in snapshot.rows : a.id # x.id
        BY <1>4, <2>2 DEF Exact, Adds
      <3> QED
        BY <1>2, <2>2, <3>1 DEF Exact
    <2>5. \A x \in new.rows : InStore(Due, x)
      BY <1>8, <2>1
    <2>6. \A x \in new.rows : ~new.weighted => x.w = None
      BY <1>1, <2>2 DEF Exact
    <2> QED
      BY <2>1, <2>3, <2>4, <2>5, <2>6 DEF Exact
  <1> QED
    BY <1>7, <1>8, <1>9, <1>10 DEF PairOK, new, bs

\* What was promised to a reader, or published, is in the patched snapshot.
LEMMA ClaimPatch ==
  ASSUME BaseInv, CoverInv, m.pc = "patch", NEW s, Closed(s), CoversWith(snapshot, m.change, s)
  PROVE  Covers(WithAdditions(snapshot, m.change, db), s)
  <1> DEFINE new == WithAdditions(snapshot, m.change, db)
  <1>1. /\ new.nodes = snapshot.nodes \cup m.change.nodes
        /\ snapshot.rows \subseteq new.rows
        /\ \A a \in m.change.edges : a.src \in new.nodes /\ a.dst \in new.nodes => InRows(new, a)
    BY PatchRows
  <1> HIDE DEF new
  <1>2. s.nodes \subseteq new.nodes
    BY <1>1 DEF CoversWith
  <1>3. ASSUME NEW e \in s.edges PROVE InRows(new, e)
    <2>1. CASE InRows(snapshot, e)
      BY <1>1, <2>1 DEF InRows
    <2>2. CASE \E a \in m.change.edges : SameEdge(a, e)
      <3>1. PICK a \in m.change.edges : SameEdge(a, e)
        BY <2>2
      <3>2. a.src \in new.nodes /\ a.dst \in new.nodes
        BY <1>2, <3>1 DEF Closed, SameEdge
      <3> QED
        BY <1>1, <3>1, <3>2, SameEdgeFacts DEF InRows
    <2> QED
      BY <2>1, <2>2 DEF CoversWith
  <1> QED
    BY <1>2, <1>3 DEF Covers, InRows, new

\* Its weights are no older than what is published.
LEMMA NowPatch ==
  ASSUME BaseInv, CoverInv, m.pc = "patch", ~CannotAdd(snapshot, m.change), m.built = writeGen
  PROVE  NowOK(WithAdditions(snapshot, m.change, db))
  <1> DEFINE new == WithAdditions(snapshot, m.change, db)
  <1>1. /\ new.weighted = snapshot.weighted
        /\ \A x \in new.rows : x \in snapshot.rows \/
             \E a \in m.change.edges : snapshot.weighted /\ InStore(db, a) => x \in db.edges
    BY PatchRows
  <1> HIDE DEF new
  <1> SUFFICES ASSUME Tame, snapshot.weighted PROVE new.rows \subseteq published.edges \cup db.edges
    BY <1>1 DEF NowOK, new
  <1>2. \A a \in m.change.edges : InStore(db, a)
    BY PatchFacts
  <1>3. ~m.change.updated
    BY DEF CannotAdd
  <1>4. snapshot.rows \subseteq published.edges \cup db.edges
    BY <1>3 DEF CoverInv, NowsOK, NowOK
  <1> QED
    BY <1>1, <1>2, <1>4

-----------------------------------------------------------------------------
(* The invariant of behaviours without an overrun: the steps *)

\* What a claim of a reader, or of the published storage, is about.
LEMMA ClaimWithin ==
  ASSUME BaseInv, CoverInv, Tame, m.owner # None
  PROVE  /\ Within(published, Due)
         /\ \A p \in Readers : Active(p) => Within(r[p].from, Due)
  <1>1. CASE load.threads = "single"
    <2>1. Due = db /\ published = db
      BY <1>1, SinglePass
    <2>2. \A p \in Readers : Active(p) => r[p].from = db
      BY <1>1 DEF BaseInv, SingleOK, Active
    <2> QED
      BY <2>1, <2>2, WithinFacts
  <1>2. CASE load.ops \subseteq Additive
    <2>1. Within(published, Settled) /\ \A p \in Readers : Active(p) => Within(r[p].from, published)
      BY <1>2 DEF CoverInv, GrowsOK
    <2>2. Within(Settled, Due)
      BY SettledWithin, WithinFacts DEF Due
    <2> QED
      BY <2>1, <2>2, WithinFacts
  <1> QED
    BY <1>1, <1>2 DEF Tame

\* A claim depends on the pass and the snapshot only.
LEMMA ClaimSame ==
  ASSUME NEW gen, NEW s, ClaimOK(gen, s), UNCHANGED <<snapshot, snapGen, m>>
  PROVE  ClaimOK(gen, s)'
  BY DEF ClaimOK, Covers, CoversWith, InRows

\* Within a mutex step that does not patch, build or install.
LEMMA ClaimQuiet ==
  ASSUME NEW gen, NEW s, ClaimOK(gen, s), UNCHANGED <<snapshot, snapGen>>,
         m'.pc \in {"free", "start", "pend", "build"}
  PROVE  ClaimOK(gen, s)'
  BY DEF ClaimOK, Covers, InRows

\* The claims after a step that keeps the readers and what is published.
LEMMA ClaimsStep ==
  ASSUME CoverInv, UNCHANGED <<r, published, writeGen, load>>,
         Tame => /\ ClaimOK(writeGen, published) => ClaimOK(writeGen, published)'
                 /\ \A p \in Readers : Active(p) /\ ClaimOK(r[p].seen, r[p].from) => ClaimOK(r[p].seen, r[p].from)'
  PROVE  ClaimsOK'
  <1>1. Tame' => Tame
    BY DEF Tame
  <1>2. \A p \in Readers : Active(p)' => Active(p)
    BY DEF Active
  <1> SUFFICES ASSUME Tame PROVE ClaimOK(writeGen, published)' /\ \A p \in Readers : Active(p) => ClaimOK(r[p].seen, r[p].from)'
    BY <1>1, <1>2 DEF ClaimsOK
  <1> QED
    BY DEF CoverInv, ClaimsOK

\* A commit: its change is in flight until it is recorded, and Due leaves
\* it out until then.
LEMMA CommitCover == ASSUME BaseInv, CoverInv, CommitStep PROVE CoverInv'
  <1>1. UNCHANGED <<writeGen, snapGen, snapshot, pending, wants, m, r, published, load>>
    BY DEF CommitStep, cache
  <1>2. w.pc = "idle" /\ published = db /\ w'.pc = "record"
    BY DEF CommitStep, BaseInv, WriterOK
  <1>3. GrowsOK'
    <2> SUFFICES ASSUME load.ops \subseteq Additive PROVE GrowsOK'
      BY <1>1 DEF GrowsOK
    <2>1. ~w'.change.full
      BY DEF CommitStep
    <2>2. Within(published, Settled)'
      BY <1>1, <1>2, <2>1, CommitSettled
    <2> QED
      BY <1>1, <2>1, <2>2 DEF CoverInv, GrowsOK, Active
  <1>4. After(m.applied)' = After(m.applied) /\ Owed(snapGen)' = Owed(snapGen) /\ Owed(m.built)' = Owed(m.built)
    BY <1>1 DEF After, Owed, Recorded, Elems
  <1>5. PatchOK'
    <2>1. ASSUME m.pc = "patch", NEW a \in m.change.edges, InStore(db', a)
          PROVE  InStore(db, a)
      <3>1. PICK b \in Owed(snapGen) : a \in b.change.edges
        BY <2>1 DEF CoverInv, PatchOK
      <3>2. b \in Recorded
        BY DEF Owed
      <3>3. a.id < nextEdge /\ nextEdge \in Nat /\ a.id \in Nat
        <4>1. m.change \in CsrChange /\ nextEdge \in Nat
          BY DEF BaseInv, TypesOK
        <4>2. a.id \in Nat
          BY <4>1 DEF CsrChange, AddedEdge, EdgeId
        <4> QED
          BY <3>1, <3>2, <4>1, <4>2 DEF BaseInv, PendingOK
      <3>4. PICK e \in db'.edges : SameEdge(a, e)
        BY <2>1 DEF InStore
      <3>5. InStore(db, e)
        BY <3>3, <3>4 DEF CommitStep, SameEdge
      <3> QED
        BY <3>4, <3>5, SameEdgeFacts DEF InStore
    <2> QED
      BY <1>1, <1>4, <2>1 DEF CoverInv, PatchOK
  <1>6. PairsOK'
    <2>1. \A snap, bs : PairOK(snap, bs) => PairOK(snap, bs)'
      BY PairCommit
    <2> QED
      BY <1>1, <1>4, <2>1 DEF CoverInv, PairsOK
  <1>7. ClaimsOK'
    <2>1. ClaimOK(writeGen, published) => ClaimOK(writeGen, published)'
      BY <1>1, ClaimSame
    <2>2. \A p \in Readers : ClaimOK(r[p].seen, r[p].from) => ClaimOK(r[p].seen, r[p].from)'
      BY <1>1, ClaimSame
    <2> QED
      BY <1>1, <2>1, <2>2, ClaimsStep
  <1>8. NowsOK'
    <2>1. \A snap : NowOK(snap) => NowOK(snap)'
      BY <1>1, <1>2 DEF NowOK, Tame
    <2> QED
      BY <1>1, <2>1 DEF CoverInv, NowsOK
  <1>9. ReadersOK'
    BY <1>1 DEF CoverInv, ReadersOK, Active, Tame, Closed, Covers
  <1> QED
    BY <1>3, <1>5, <1>6, <1>7, <1>8, <1>9 DEF CoverInv

\* The next generation publishes storage: only then may a reader claim it.
LEMMA AdvanceCover == ASSUME BaseInv, CoverInv, AdvanceWriteGen PROVE CoverInv'
  <1>1. /\ UNCHANGED <<db, nextNode, nextEdge, writes, load, snapGen, snapshot, pending, wants, m, r>>
        /\ w.pc = "advance" /\ published' = db /\ w' = IdleWriter /\ writeGen' = writeGen + w.count
    BY DEF AdvanceWriteGen, store
  <1>2. w'.pc = "idle" /\ w'.change = NoChange
    BY <1>1 DEF IdleWriter
  <1>3. writeGen' \in Nat /\ writeGen < writeGen' /\ writeGen \in Nat /\ snapGen < writeGen' /\ snapGen \in Nat
    BY <1>1 DEF BaseInv, TypesOK, WriterOK, MutexOK
  <1>4. m.built \in Nat /\ (m.pc \notin {"free", "start"} => m.built < writeGen')
    BY <1>3 DEF BaseInv, TypesOK, MutexOK
  <1>5. Settled' = db
    <2>1. TypesOK'
      BY AdvanceBase DEF BaseInv
    <2>2. (w.change.nodes = {})' /\ (w.change.edges = {})'
      BY <1>2, ChangeTypes
    <2>3. db = [nodes |-> db.nodes, edges |-> db.edges]
      BY DEF BaseInv, TypesOK, Storage
    <2>4. db.nodes \ w'.change.nodes = db.nodes /\ {e \in db.edges : \A a \in w'.change.edges : a.id # e.id} = db.edges
      BY <2>2
    <2> QED
      BY <1>1, <2>3, <2>4 DEF Settled
  <1>6. GrowsOK'
    <2> SUFFICES ASSUME load.ops \subseteq Additive PROVE GrowsOK'
      BY <1>1 DEF GrowsOK
    <2>1. Within(published, db)
      BY SettledWithin, WithinFacts DEF CoverInv, GrowsOK
    <2>2. Within(published, Settled)' /\ ~w'.change.full
      BY <1>1, <1>2, <1>5, WithinFacts, ChangeTypes
    <2>3. \A p \in Readers : Active(p) => Within(r[p].from, db)
      BY <2>1, WithinFacts DEF CoverInv, GrowsOK
    <2> QED
      BY <1>1, <2>2, <2>3 DEF GrowsOK, Active
  <1>7. After(m.applied)' = After(m.applied) /\ Owed(snapGen)' = Owed(snapGen) /\ Owed(m.built)' = Owed(m.built)
    BY <1>1 DEF After, Owed, Recorded, Elems
  <1>8. PatchOK'
    BY <1>1, <1>7 DEF CoverInv, PatchOK
  <1>9. PairsOK'
    <2>1. \A snap, bs : PairOK(snap, bs) => PairOK(snap, bs)'
      BY PairAdvance
    <2> QED
      BY <1>1, <1>7, <2>1 DEF CoverInv, PairsOK
  <1>10. ClaimsOK'
    <2> SUFFICES ASSUME Tame PROVE ClaimsOK'
      BY <1>1 DEF ClaimsOK, Tame
    <2>1. ClaimOK(writeGen, published)'
      BY <1>1, <1>3, <1>4 DEF ClaimOK
    <2>2. \A p \in Readers : Active(p) => ClaimOK(r[p].seen, r[p].from)
      BY DEF CoverInv, ClaimsOK
    <2>3. \A p \in Readers : ClaimOK(r[p].seen, r[p].from) => ClaimOK(r[p].seen, r[p].from)'
      BY <1>1, ClaimSame
    <2> QED
      BY <1>1, <2>1, <2>2, <2>3 DEF ClaimsOK, Active
  <1>11. NowsOK'
    BY <1>1, <1>3, <1>4 DEF NowsOK
  <1>12. ReadersOK'
    <2>1. \A p \in Readers : r[p].seen \in Nat
      BY PassTypes DEF BaseInv
    <2>2. \A p \in Readers : r[p].seen <= writeGen => r[p].seen <= writeGen'
      BY <1>3, <2>1
    <2> QED
      BY <1>1, <2>2 DEF CoverInv, ReadersOK, Active, Tame, Closed, Covers
  <1> QED
    BY <1>6, <1>8, <1>9, <1>10, <1>11, <1>12 DEF CoverInv

\* What a record does to the batches that a snapshot lacks.
LEMMA RecordLists ==
  ASSUME BaseInv, RecordChange
  PROVE  \/ /\ w.change = NoChange
            /\ \A gen : Owed(gen)' = Owed(gen)
            /\ \A k : After(k)' = After(k)
            /\ Len(pending)' = Len(pending)
         \/ /\ ~w.change.full
            /\ \A gen \in Nat : gen <= writeGen => Owed(gen)' = Owed(gen) \cup {[tag |-> writeGen, change |-> w.change]}
            /\ \A k \in Nat : k <= Len(pending) => After(k)' = After(k) \cup {[tag |-> writeGen, change |-> w.change]}
            /\ Len(pending)' = Len(pending) + 1
         \/ /\ \A gen \in Nat : gen <= writeGen => Owed(gen)' = {[tag |-> writeGen, change |-> FullChange]}
            /\ After(0)' = {[tag |-> writeGen, change |-> FullChange]}
            /\ Len(pending)' = 1
            /\ \E i \in DOMAIN pending' : pending'[i].change.full
  <1> DEFINE own == [tag |-> writeGen, change |-> w.change]
             full == [tag |-> writeGen, change |-> FullChange]
  <1>1. pending \in Seq(Batch) /\ writeGen \in Nat /\ w.change \in CsrChange
    BY DEF BaseInv, TypesOK
  <1>2. own \in Batch /\ full \in Batch /\ own.tag = writeGen /\ full.tag = writeGen /\ full.change.full = TRUE
    BY <1>1, ChangeTypes DEF Batch
  <1>3. \/ w.change = NoChange /\ pending' = pending
        \/ pending' = Append(pending, own) /\ ~w.change.full
        \/ pending' = <<full>>
    BY RecordResult
  <1> HIDE DEF own, full
  <1>4. CASE w.change = NoChange /\ pending' = pending
    <2>1. (\A gen : Owed(gen)' = Owed(gen)) /\ (\A k : After(k)' = After(k)) /\ Len(pending)' = Len(pending)
      BY <1>4 DEF Owed, Recorded, Elems, After
    <2> QED
      BY <1>4, <2>1
  <1>5. CASE pending' = Append(pending, own) /\ ~w.change.full
    <2>1. /\ Elems(Append(pending, own)) = Elems(pending) \cup {own}
          /\ Len(Append(pending, own)) = Len(pending) + 1
          /\ \A k \in Nat : k <= Len(pending) =>
              {Append(pending, own)[i] : i \in {j \in DOMAIN Append(pending, own) : j > k}}
                = {pending[i] : i \in {j \in DOMAIN pending : j > k}} \cup {own}
      BY <1>1, <1>2, ElemsAppend
    <2>2. Recorded' = Recorded \cup {own}
      BY <1>5, <2>1 DEF Recorded
    <2>3. Len(pending)' = Len(pending) + 1 /\ \A k \in Nat : k <= Len(pending) => After(k)' = After(k) \cup {own}
      BY <1>5, <2>1 DEF After
    <2>4. ASSUME NEW gen \in Nat, gen <= writeGen PROVE Owed(gen)' = Owed(gen) \cup {own}
      <3>1. own.tag >= gen
        BY <1>1, <1>2, <2>4
      <3> QED
        BY <2>2, <3>1 DEF Owed
    <2> QED
      BY <1>5, <2>3, <2>4 DEF own
  <1>6. CASE pending' = <<full>>
    <2>1. Recorded' = {full} /\ Len(pending)' = 1
      BY <1>2, <1>6, ElemsOne DEF Recorded
    <2>2. ASSUME NEW gen \in Nat, gen <= writeGen PROVE Owed(gen)' = {full}
      <3>1. full.tag >= gen
        BY <1>1, <1>2, <2>2
      <3> QED
        BY <2>1, <3>1 DEF Owed
    <2>3. After(0)' = {full}
      <3>1. pending' \in Seq(Batch) /\ DOMAIN pending' = {1} /\ pending'[1] = full
        BY <1>2, <1>6
      <3> QED
        BY <3>1 DEF After
    <2>4. \E i \in DOMAIN pending' : pending'[i].change.full
      BY <1>2, <1>6
    <2> QED
      BY <2>1, <2>2, <2>3, <2>4 DEF full
  <1> QED
    BY <1>3, <1>4, <1>5, <1>6

\* A record that only adds batches, or leaves them.
LEMMA RecordMore ==
  ASSUME BaseInv, CoverInv, RecordChange, ~w.change.full, NEW own,
         own = [tag |-> writeGen, change |-> w.change],
         \A gen \in Nat : gen <= writeGen =>
             \/ w.change = NoChange /\ Owed(gen)' = Owed(gen)
             \/ Owed(gen)' = Owed(gen) \cup {own},
         \A k \in Nat : k <= Len(pending) =>
             \/ w.change = NoChange /\ After(k)' = After(k)
             \/ After(k)' = After(k) \cup {own},
         Len(pending)' >= Len(pending)
  PROVE  PatchOK' /\ PairsOK'
  <1>1. /\ UNCHANGED <<db, load, writeGen, snapGen, snapshot, m>>
        /\ w.pc = "record"
    BY DEF RecordChange, store
  <1>2. /\ snapGen \in Nat /\ snapGen <= writeGen /\ writeGen \in Nat /\ m.built \in Nat
        /\ m.pc \notin {"free", "start"} => m.built <= writeGen
    BY DEF BaseInv, TypesOK, MutexOK
  <1>3. m.applied \in Nat /\ (m.pc \in {"patch", "drain"} => m.applied <= Len(pending)) /\ Len(pending) \in Nat
    BY DEF BaseInv, TypesOK, CoverInv, PatchOK
  <1>4. \/ w.change = NoChange /\ Owed(snapGen)' = Owed(snapGen)
        \/ Owed(snapGen)' = Owed(snapGen) \cup {own}
    BY <1>1, <1>2
  <1>5. m.pc \notin {"free", "start"} =>
          \/ w.change = NoChange /\ Owed(m.built)' = Owed(m.built)
          \/ Owed(m.built)' = Owed(m.built) \cup {own}
    BY <1>1, <1>2
  <1>6. m.pc \in {"patch", "drain"} =>
          \/ w.change = NoChange /\ After(m.applied)' = After(m.applied)
          \/ After(m.applied)' = After(m.applied) \cup {own}
    BY <1>1, <1>3
  <1>7. \A snap, bs, bs2 :
          /\ PairOK(snap, bs)
          /\ \/ w.change = NoChange /\ bs2 = bs
             \/ bs2 = bs \cup {own}
          => PairOK(snap, bs2)'
    BY PairRecord
  <1>8. PairsOK'
    <2>1. m.pc \notin {"store", "stamp"} => PairOK(snapshot, Owed(snapGen))'
      <3>1. PICK bs2 : bs2 = Owed(snapGen)'
        OBVIOUS
      <3>2. m.pc \notin {"store", "stamp"} => PairOK(snapshot, Owed(snapGen))
        BY DEF CoverInv, PairsOK
      <3> QED
        BY <1>1, <1>4, <1>7, <3>1, <3>2
    <2>2. m.pc = "drain" => PairOK(m.snap, After(m.applied))'
      <3>1. m.pc = "drain" => PairOK(m.snap, After(m.applied))
        BY DEF CoverInv, PairsOK
      <3> QED
        BY <1>1, <1>6, <1>7, <3>1
    <2>3. m.pc \in {"prune", "store", "stamp"} => PairOK(m.snap, Owed(m.built))'
      <3>1. m.pc \in {"prune", "store", "stamp"} => PairOK(m.snap, Owed(m.built))
        BY DEF CoverInv, PairsOK
      <3> QED
        BY <1>1, <1>5, <1>7, <3>1
    <2> QED
      BY <1>1, <2>1, <2>2, <2>3 DEF PairsOK
  <1>9. PatchOK'
    <2> SUFFICES ASSUME m.pc \in {"patch", "drain"} PROVE PatchOK'
      BY <1>1 DEF PatchOK
    <2>1. load.threads # "single"
      <3>1. m.owner # None
        BY DEF BaseInv, MutexOK
      <3> QED
        BY <1>1, <3>1, SinglePass
    <2>2. m.applied <= Len(pending)'
      BY <1>3
    <2>3. \A b \in After(m.applied)' : b.tag >= m.built
      <3>1. own.tag = writeGen
        OBVIOUS
      <3>2. own.tag >= m.built
        BY <1>2, <3>1
      <3> QED
        BY <1>6, <3>2 DEF CoverInv, PatchOK
    <2>4. CASE m.pc = "drain"
      BY <1>1, <2>1, <2>2, <2>3, <2>4 DEF PatchOK
    <2>5. CASE m.pc = "patch"
      <3>1. \A b \in Owed(snapGen)' :
              \/ b \in After(m.applied)'
              \/ /\ ~b.change.full
                 /\ b.change.nodes \subseteq m.change.nodes
                 /\ b.change.edges \subseteq m.change.edges
                 /\ b.change.updated => m.change.updated
        <4>1. w.change = NoChange \/ own \in After(m.applied)'
          BY <1>6
        <4>2. After(m.applied) \subseteq After(m.applied)'
          BY <1>6
        <4>3. own.change = w.change
          OBVIOUS
        <4>4. \A b \in Owed(snapGen) :
                \/ b \in After(m.applied)
                \/ /\ ~b.change.full
                   /\ b.change.nodes \subseteq m.change.nodes
                   /\ b.change.edges \subseteq m.change.edges
                   /\ b.change.updated => m.change.updated
          BY <2>5 DEF CoverInv, PatchOK
        <4>5. NoChange.nodes = {} /\ NoChange.edges = {} /\ ~NoChange.full /\ ~NoChange.updated
          BY ChangeTypes
        <4> QED
          BY <1>4, <4>1, <4>2, <4>3, <4>4, <4>5
      <3>2. Owed(snapGen) \subseteq Owed(snapGen)'
        BY <1>4
      <3> QED
        BY <1>1, <2>1, <2>2, <2>3, <2>5, <3>1, <3>2 DEF CoverInv, PatchOK
    <2> QED
      BY <2>4, <2>5
  <1> QED
    BY <1>8, <1>9

\* A full marker takes the place of the batches; no patch has counted any.
LEMMA RecordMarker ==
  ASSUME BaseInv, CoverInv, RecordChange, ~Overrun, NEW full,
         full = [tag |-> writeGen, change |-> FullChange],
         \A gen \in Nat : gen <= writeGen => Owed(gen)' = {full},
         After(0)' = {full}, Len(pending)' = 1,
         \E i \in DOMAIN pending' : pending'[i].change.full
  PROVE  PatchOK' /\ PairsOK'
  <1>1. /\ UNCHANGED <<db, load, writeGen, snapGen, snapshot, m>>
        /\ w.pc = "record"
    BY DEF RecordChange, store
  <1>2. w'.pc = "advance" /\ w' # w
    BY <1>1 DEF RecordChange, BaseInv, TypesOK
  <1>3. /\ snapGen \in Nat /\ snapGen <= writeGen /\ writeGen \in Nat /\ m.built \in Nat /\ m.applied \in Nat
        /\ m.pc \notin {"free", "start"} => m.built <= writeGen
    BY DEF BaseInv, TypesOK, MutexOK
  <1>4. m.pc \in {"patch", "drain"} => m.applied = 0
    BY <1>1, <1>2, <1>3 DEF Overrun
  <1>5. Owed(snapGen)' = {full} /\ (m.pc \notin {"free", "start"} => Owed(m.built)' = {full})
    BY <1>1, <1>3
  <1>6. m.pc \in {"patch", "drain"} => After(m.applied)' = {full}
    BY <1>1, <1>4
  <1>7. full.tag = writeGen /\ full.change = FullChange
    OBVIOUS
  <1>8. HasFull({full})
    BY <1>7, ChangeTypes DEF HasFull
  <1>9. \A snap : PairOK(snap, {full})'
    BY <1>8, PairFull
  <1>10. PairsOK'
    BY <1>1, <1>5, <1>6, <1>9 DEF PairsOK
  <1>11. PatchOK'
    <2> SUFFICES ASSUME m.pc \in {"patch", "drain"} PROVE PatchOK'
      BY <1>1 DEF PatchOK
    <2>1. load.threads # "single"
      <3>1. m.owner # None
        BY DEF BaseInv, MutexOK
      <3> QED
        BY <1>1, <3>1, SinglePass
    <2>2. m.applied = 0 /\ m.applied <= Len(pending)' /\ After(m.applied)' = {full}
      BY <1>4, <1>6
    <2>3. full.tag >= m.built
      BY <1>3, <1>7
    <2>4. m.pc = "patch" => m.change.nodes = {} /\ m.change.edges = {} /\ ~m.change.full
      BY <2>2 DEF CoverInv, PatchOK
    <2> QED
      BY <1>1, <1>5, <2>1, <2>2, <2>3, <2>4 DEF PatchOK
  <1> QED
    BY <1>10, <1>11

\* Recording a change: the batch owes the snapshot what Due gains, and a
\* full marker may stand for everything unless it overruns a patch.
LEMMA RecordCover == ASSUME BaseInv, CoverInv, RecordChange, ~Overrun PROVE CoverInv'
  <1>1. /\ UNCHANGED <<db, nextNode, nextEdge, writes, load, writeGen, snapGen, snapshot, wants, m, r, published>>
        /\ w.pc = "record"
    BY DEF RecordChange, store
  <1>2. w'.pc = "advance" /\ w'.change = w.change
    BY <1>1 DEF RecordChange, BaseInv, TypesOK
  <1>3. Settled' = Settled
    BY <1>1, <1>2 DEF Settled
  <1>4. GrowsOK'
    BY <1>1, <1>2, <1>3 DEF CoverInv, GrowsOK, Active
  <1>5. PatchOK' /\ PairsOK'
    <2>1. NoChange.full = FALSE /\ Len(pending) \in Nat
      BY ChangeTypes DEF BaseInv, TypesOK
    <2>2. CASE w.change = NoChange /\ (\A gen : Owed(gen)' = Owed(gen)) /\ (\A k : After(k)' = After(k))
               /\ Len(pending)' = Len(pending)
      <3>1. ~w.change.full /\ Len(pending)' >= Len(pending)
        BY <2>1, <2>2
      <3> QED
        BY <2>2, <3>1, RecordMore
    <2>3. CASE /\ ~w.change.full
               /\ \A gen \in Nat : gen <= writeGen => Owed(gen)' = Owed(gen) \cup {[tag |-> writeGen, change |-> w.change]}
               /\ \A k \in Nat : k <= Len(pending) => After(k)' = After(k) \cup {[tag |-> writeGen, change |-> w.change]}
               /\ Len(pending)' = Len(pending) + 1
      <3>1. Len(pending)' >= Len(pending)
        BY <2>1, <2>3
      <3> QED
        BY <2>3, <3>1, RecordMore
    <2>4. CASE /\ \A gen \in Nat : gen <= writeGen => Owed(gen)' = {[tag |-> writeGen, change |-> FullChange]}
               /\ After(0)' = {[tag |-> writeGen, change |-> FullChange]}
               /\ Len(pending)' = 1
               /\ \E i \in DOMAIN pending' : pending'[i].change.full
      BY <2>4, RecordMarker
    <2> QED
      BY <2>2, <2>3, <2>4, RecordLists
  <1>6. ClaimsOK'
    <2>1. ClaimOK(writeGen, published) => ClaimOK(writeGen, published)'
      BY <1>1, ClaimSame
    <2>2. \A p \in Readers : ClaimOK(r[p].seen, r[p].from) => ClaimOK(r[p].seen, r[p].from)'
      BY <1>1, ClaimSame
    <2> QED
      BY <1>1, <2>1, <2>2, ClaimsStep
  <1>7. NowsOK'
    BY <1>1 DEF CoverInv, NowsOK, NowOK, Tame
  <1>8. ReadersOK'
    BY <1>1 DEF CoverInv, ReadersOK, Active, Tame, Closed, Covers
  <1> QED
    BY <1>4, <1>5, <1>6, <1>7, <1>8 DEF CoverInv

\* Storage and the writer are left alone: so is what is said of them, and of
\* any snapshot with any batches.
LEMMA KeepsStorage ==
  ASSUME CoverInv, UNCHANGED <<db, w, published, load>>
  PROVE  /\ \A snap, bs : PairOK(snap, bs) => PairOK(snap, bs)'
         /\ \A snap : NowOK(snap) => NowOK(snap)'
         /\ UNCHANGED r => GrowsOK'
  <1>1. Settled' = Settled
    BY DEF Settled
  <1>2. \A snap, bs : PairOK(snap, bs) => PairOK(snap, bs)'
    BY PairSame
  <1>3. \A snap : NowOK(snap) => NowOK(snap)'
    BY DEF NowOK, Tame
  <1>4. UNCHANGED r => GrowsOK'
    BY <1>1 DEF CoverInv, GrowsOK, Active
  <1> QED
    BY <1>2, <1>3, <1>4

\* A step of the mutex that computes nothing yet.
LEMMA QuietPass ==
  ASSUME BaseInv, CoverInv,
         UNCHANGED <<db, load, writeGen, snapGen, snapshot, pending, w, r, published>>,
         m.pc \notin {"store", "stamp"}, m'.pc \in {"start", "pend", "build"},
         m'.pc \in {"pend", "build"} =>
             \A p \in Readers : r[p].pc = "refresh" => r[p].seen <= m'.built
  PROVE  CoverInv'
  <1>1. GrowsOK'
    BY KeepsStorage
  <1>2. PatchOK'
    BY DEF PatchOK
  <1>3. PairsOK'
    <2>1. Owed(snapGen)' = Owed(snapGen)
      BY DEF Owed, Recorded, Elems
    <2>2. PairOK(snapshot, Owed(snapGen))
      BY DEF CoverInv, PairsOK
    <2>3. PairOK(snapshot, Owed(snapGen))'
      BY <2>1, <2>2, KeepsStorage
    <2> QED
      BY <2>3 DEF PairsOK
  <1>4. ClaimsOK'
    <2>1. ClaimOK(writeGen, published) => ClaimOK(writeGen, published)'
      BY ClaimQuiet
    <2>2. \A p \in Readers : ClaimOK(r[p].seen, r[p].from) => ClaimOK(r[p].seen, r[p].from)'
      BY ClaimQuiet
    <2> QED
      BY <2>1, <2>2, ClaimsStep
  <1>5. NowsOK'
    BY KeepsStorage DEF CoverInv, NowsOK
  <1>6. ReadersOK'
    BY DEF CoverInv, ReadersOK, Active, Tame, Closed, Covers
  <1> QED
    BY <1>1, <1>2, <1>3, <1>4, <1>5, <1>6 DEF CoverInv

\* The start of a pass: no later generation than the captured one is claimed.
LEMMA MStartCover == ASSUME BaseInv, CoverInv, MStart PROVE CoverInv'
  <1>1. /\ m.pc = "start"
        /\ UNCHANGED <<db, load, writeGen, snapGen, snapshot, pending, w, r, published>>
    BY DEF MStart, store, cache
  <1>2. m'.pc \in {"pend", "build"} /\ m'.built = writeGen
    BY DEF MStart, BaseInv, TypesOK
  <1>3. \A p \in Readers : r[p].pc = "refresh" => r[p].seen <= writeGen
    BY DEF CoverInv, ReadersOK, Active
  <1> QED
    BY <1>1, <1>2, <1>3, QuietPass

\* A pass that turns to a full build promises nothing yet.
LEMMA ToBuildCover ==
  ASSUME BaseInv, CoverInv, m.pc \in {"pend", "patch"}, m' = [m EXCEPT !.pc = "build"],
         UNCHANGED <<db, load, writeGen, snapGen, snapshot, pending, w, r, published>>
  PROVE  CoverInv'
  <1>1. m'.pc = "build" /\ m'.built = m.built
    BY DEF BaseInv, TypesOK
  <1>2. \A p \in Readers : r[p].pc = "refresh" => r[p].seen <= m.built
    BY DEF CoverInv, ReadersOK
  <1> QED
    BY <1>1, <1>2, QuietPass

\* A rebuild begins with a full build.
LEMMA BeginRebuildCover == ASSUME BaseInv, CoverInv, BeginRebuild PROVE CoverInv'
  <1>1. /\ m.owner = None
        /\ UNCHANGED <<db, load, writeGen, snapGen, snapshot, pending, w, r, published>>
    BY DEF BeginRebuild, store, cache
  <1>2. m'.pc = "start"
    BY IdleTypes DEF BeginRebuild, PassType
  <1>3. m.pc = "free"
    BY <1>1 DEF BaseInv, MutexOK
  <1> QED
    BY <1>1, <1>2, <1>3, QuietPass

\* The list is read in one hold: the batches a patch counts are the ones
\* whose changes it takes.
LEMMA PendingApplicableCover == ASSUME BaseInv, CoverInv, PendingApplicable PROVE CoverInv'
  <1>1. /\ m.pc = "pend"
        /\ UNCHANGED <<db, load, writeGen, snapGen, snapshot, pending, w, r, published>>
    BY DEF PendingApplicable, store, cache
  <1>2. CASE NeedsFull(pending, snapGen)
    BY <1>1, <1>2, ToBuildCover DEF PendingApplicable
  <1>3. CASE ~NeedsFull(pending, snapGen)
    <2> DEFINE c == Merged(pending, snapGen)
               old == Owed(snapGen)
    <2>1. m' = [m EXCEPT !.pc = "patch", !.change = c, !.applied = Len(pending)]
      BY <1>3 DEF PendingApplicable
    <2>2. pending \in Seq(Batch) /\ snapGen \in Nat
      BY DEF BaseInv, TypesOK
    <2>3. /\ c.full = FALSE
          /\ c.nodes = UNION {b.change.nodes : b \in old}
          /\ c.edges = UNION {b.change.edges : b \in old}
          /\ c.updated <=> \E b \in old : b.change.updated
      BY <2>2, MergedType DEF Owed, Recorded
    <2>4. ~HasFull(old)
      BY <1>3 DEF NeedsFull, Lacking, HasFull, Owed, Recorded, Elems
    <2> HIDE DEF c
    <2>5. m'.pc = "patch" /\ m'.change = c /\ m'.applied = Len(pending) /\ m'.built = m.built
      BY <2>1 DEF BaseInv, TypesOK
    <2>6. m.owner # None /\ PairOK(snapshot, old)
      BY <1>1 DEF BaseInv, MutexOK, CoverInv, PairsOK
    <2>7. old' = old
      BY <1>1 DEF Owed, Recorded, Elems
    <2>8. After(m.applied)' = {}
      <3>1. DOMAIN pending = 1..Len(pending) /\ Len(pending) \in Nat
        BY <2>2
      <3>2. {j \in DOMAIN pending : j > Len(pending)} = {}
        BY <3>1
      <3> QED
        BY <1>1, <2>5, <3>2 DEF After
    <2>9. \A n \in Due.nodes : n \in snapshot.nodes \cup c.nodes
      BY <2>3, <2>4, <2>6 DEF PairOK, Reached
    <2>10. \A e \in Due.edges : InRows(snapshot, e) \/ \E a \in c.edges : SameEdge(a, e)
      BY <2>3, <2>4, <2>6 DEF PairOK, Reached
    <2>11. ASSUME NEW a \in c.edges, InStore(db, a)
           PROVE  {a.src, a.dst} \subseteq snapshot.nodes \cup c.nodes
      <3>1. PICK b \in old : a \in b.change.edges
        BY <2>3
      <3>2. b \in Recorded
        BY DEF Owed
      <3>3. PICK e \in db.edges : SameEdge(a, e)
        BY <2>11 DEF InStore
      <3>4. e \in Due.edges
        BY <3>1, <3>2, <3>3 DEF Due, Settled, BaseInv, PendingOK, SameEdge
      <3>5. Closed(Due)
        BY DEF Due, BaseInv, StorageOK, WriterOK
      <3>6. e.src \in Due.nodes /\ e.dst \in Due.nodes
        BY <3>4, <3>5 DEF Closed
      <3> QED
        BY <2>9, <3>3, <3>6 DEF SameEdge
    <2>12. Len(pending) = 0 => c.nodes = {} /\ c.edges = {}
      <3>1. Len(pending) = 0 => old = {}
        BY <2>2 DEF Owed, Recorded, Elems
      <3> QED
        BY <2>3, <3>1
    <2>13. PatchOK'
      <3>1. \A b \in old : /\ ~b.change.full
                           /\ b.change.nodes \subseteq c.nodes
                           /\ b.change.edges \subseteq c.edges
                           /\ b.change.updated => c.updated
        BY <2>3, <2>4 DEF HasFull
      <3>2. /\ \A n \in c.nodes : \E b \in old : n \in b.change.nodes
            /\ \A a \in c.edges : \E b \in old : a \in b.change.edges
        BY <2>3
      <3>3. Len(pending) \in Nat /\ Len(pending) <= Len(pending)
        BY <2>2
      <3> QED
        BY <1>1, <2>3, <2>5, <2>7, <2>8, <2>11, <2>12, <3>1, <3>2, <3>3 DEF PatchOK
    <2>14. PairsOK'
      <3>1. PairOK(snapshot, Owed(snapGen))'
        BY <1>1, <2>6, <2>7, KeepsStorage
      <3> QED
        BY <2>5, <3>1 DEF PairsOK
    <2>15. ASSUME NEW s, Within(s, Due) PROVE CoversWith(snapshot, c, s)
      <3>1. s.nodes \subseteq snapshot.nodes \cup c.nodes
        BY <2>9, <2>15 DEF Within
      <3>2. ASSUME NEW e \in s.edges PROVE InRows(snapshot, e) \/ \E a \in c.edges : SameEdge(a, e)
        <4>1. PICK f \in Due.edges : SameEdge(e, f)
          BY <2>15 DEF Within, InStore
        <4>2. InRows(snapshot, f) \/ \E a \in c.edges : SameEdge(a, f)
          BY <2>10
        <4> QED
          BY <4>1, <4>2, SameEdgeFacts DEF InRows
      <3> QED
        BY <3>1, <3>2 DEF CoversWith
    <2>16. ASSUME NEW gen, NEW s, ClaimOK(gen, s), Within(s, Due) PROVE ClaimOK(gen, s)'
      <3>1. CoversWith(snapshot, c, s)
        BY <2>15, <2>16
      <3>2. CoversWith(snapshot, m.change, s)'
        BY <1>1, <2>5, <3>1 DEF CoversWith, InRows
      <3>3. (gen <= snapGen => Covers(snapshot, s))'
        BY <1>1, <2>16 DEF ClaimOK, Covers
      <3> QED
        BY <2>5, <3>2, <3>3 DEF ClaimOK
    <2>17. ClaimsOK'
      <3>1. Tame => Within(published, Due) /\ \A p \in Readers : Active(p) => Within(r[p].from, Due)
        BY <2>6, ClaimWithin
      <3>2. Tame => /\ ClaimOK(writeGen, published) => ClaimOK(writeGen, published)'
                    /\ \A p \in Readers : Active(p) /\ ClaimOK(r[p].seen, r[p].from) => ClaimOK(r[p].seen, r[p].from)'
        BY <1>1, <2>16, <3>1
      <3> QED
        BY <1>1, <3>2, ClaimsStep
    <2>18. NowsOK'
      <3>1. ASSUME ~c.updated PROVE NowOK(snapshot)
        <4>1. ~HasUpdate(old)
          BY <2>3, <2>4, <3>1 DEF HasFull, HasUpdate
        <4> QED
          BY <2>6, <4>1 DEF PairOK, Current, NowOK
      <3>2. ~c.updated => NowOK(snapshot)'
        BY <1>1, <3>1, KeepsStorage
      <3>3. (snapGen = writeGen => NowOK(snapshot))'
        BY <1>1, KeepsStorage DEF CoverInv, NowsOK
      <3> QED
        BY <2>5, <3>2, <3>3 DEF NowsOK
    <2>19. ReadersOK'
      BY <1>1, <2>5 DEF CoverInv, ReadersOK, Active, Tame, Closed, Covers
    <2>20. GrowsOK'
      BY <1>1, KeepsStorage
    <2> QED
      BY <2>13, <2>14, <2>17, <2>18, <2>19, <2>20 DEF CoverInv
  <1> QED
    BY <1>2, <1>3

\* A snapshot has been computed, by a patch or a build.
LEMMA ComputedCover ==
  ASSUME BaseInv, CoverInv,
         UNCHANGED <<db, load, writeGen, snapGen, snapshot, pending, w, r, published>>,
         m.pc \in {"patch", "build"}, NEW new, m'.snap = new,
         m'.built = m.built, m'.applied = m.applied,
         \/ m.pc = "patch" /\ m'.pc = "drain" /\ PairOK(new, After(m.applied))
         \/ m'.pc = "prune" /\ PairOK(new, Owed(m.built)),
         Tame => /\ m.built >= writeGen => Covers(new, published)
                 /\ \A p \in Readers : Active(p) /\ r[p].seen <= m.built => Covers(new, r[p].from),
         m.built = writeGen => NowOK(new)
  PROVE  CoverInv'
  <1>1. GrowsOK'
    BY KeepsStorage
  <1>2. Owed(snapGen)' = Owed(snapGen) /\ Owed(m.built)' = Owed(m.built) /\ After(m.applied)' = After(m.applied)
    BY DEF Owed, Recorded, Elems, After
  <1>3. PatchOK'
    BY <1>2 DEF CoverInv, PatchOK
  <1>4. PairsOK'
    <2>1. PairOK(snapshot, Owed(snapGen))
      BY DEF CoverInv, PairsOK
    <2>2. PairOK(snapshot, Owed(snapGen))'
      BY <1>2, <2>1, KeepsStorage
    <2>3. m'.pc = "drain" => PairOK(m.snap, After(m.applied))'
      BY <1>2, KeepsStorage
    <2>4. m'.pc \in {"prune", "store", "stamp"} => PairOK(m.snap, Owed(m.built))'
      BY <1>2, KeepsStorage
    <2> QED
      BY <2>2, <2>3, <2>4 DEF PairsOK
  <1>5. ASSUME NEW gen, NEW s, ClaimOK(gen, s), gen <= m.built => Covers(new, s)
        PROVE  ClaimOK(gen, s)'
    <2>1. (gen <= snapGen => Covers(snapshot, s))'
      BY <1>5 DEF ClaimOK, Covers
    <2>2. (gen <= m.built => Covers(m.snap, s))'
      BY <1>5 DEF Covers
    <2> QED
      BY <2>1, <2>2 DEF ClaimOK
  <1>6. ClaimsOK'
    <2>0. m.built \in Nat /\ writeGen \in Nat
      BY DEF BaseInv, TypesOK
    <2>1. Tame /\ ClaimOK(writeGen, published) => ClaimOK(writeGen, published)'
      BY <1>5, <2>0
    <2>2. \A p \in Readers : Tame /\ Active(p) /\ ClaimOK(r[p].seen, r[p].from) => ClaimOK(r[p].seen, r[p].from)'
      BY <1>5
    <2> QED
      BY <2>1, <2>2, ClaimsStep
  <1>7. NowsOK'
    <2>1. m.built = writeGen => NowOK(m.snap)'
      BY KeepsStorage
    <2> QED
      BY <2>1, KeepsStorage DEF CoverInv, NowsOK
  <1>8. ReadersOK'
    BY DEF CoverInv, ReadersOK, Active, Tame, Closed, Covers
  <1> QED
    BY <1>1, <1>3, <1>4, <1>6, <1>7, <1>8 DEF CoverInv

\* The patched snapshot pairs with the batches recorded after those taken.
LEMMA PatchCover == ASSUME BaseInv, CoverInv, Patch PROVE CoverInv'
  <1> DEFINE new == WithAdditions(snapshot, m.change, db)
  <1>1. /\ m.pc = "patch"
        /\ UNCHANGED <<db, load, writeGen, snapGen, snapshot, pending, w, r, published>>
    BY DEF Patch, store, cache
  <1>2. CASE CannotAdd(snapshot, m.change)
    BY <1>1, <1>2, ToBuildCover DEF Patch
  <1>3. CASE ~CannotAdd(snapshot, m.change)
    <2>1. m' = [m EXCEPT !.pc = "drain", !.snap = new]
      BY <1>3 DEF Patch
    <2>2. PairOK(new, After(m.applied))
      BY <1>1, <1>3, PairPatch
    <2>3. m.built = writeGen => NowOK(new)
      BY <1>1, <1>3, NowPatch
    <2>4. \A s : Closed(s) /\ CoversWith(snapshot, m.change, s) => Covers(new, s)
      BY <1>1, ClaimPatch
    <2> HIDE DEF new
    <2>5. m'.pc = "drain" /\ m'.snap = new /\ m'.built = m.built /\ m'.applied = m.applied
      BY <2>1 DEF BaseInv, TypesOK
    <2>6. ASSUME Tame, m.built >= writeGen PROVE Covers(new, published)
      <3>1. Closed(published) /\ m.built \in Nat /\ writeGen \in Nat
        BY DEF BaseInv, StorageOK, TypesOK
      <3>2. ClaimOK(writeGen, published)
        BY <2>6 DEF CoverInv, ClaimsOK
      <3>3. CoversWith(snapshot, m.change, published)
        BY <1>1, <2>6, <3>1, <3>2 DEF ClaimOK
      <3> QED
        BY <2>4, <3>1, <3>3
    <2>7. ASSUME Tame, NEW p \in Readers, Active(p), r[p].seen <= m.built PROVE Covers(new, r[p].from)
      <3>1. Closed(r[p].from) /\ ClaimOK(r[p].seen, r[p].from)
        BY <2>7 DEF CoverInv, ReadersOK, ClaimsOK
      <3>2. CoversWith(snapshot, m.change, r[p].from)
        BY <1>1, <2>7, <3>1 DEF ClaimOK
      <3> QED
        BY <2>4, <3>1, <3>2
    <2> QED
      BY <1>1, <2>2, <2>3, <2>5, <2>6, <2>7, ComputedCover
  <1> QED
    BY <1>2, <1>3

\* The built snapshot pairs with the batches its generation owes.
LEMMA BuildCover == ASSUME BaseInv, CoverInv, Build PROVE CoverInv'
  <1> DEFINE new == BuildSnapshot(db, wants)
  <1>1. /\ m.pc = "build" /\ m' = [m EXCEPT !.pc = "prune", !.snap = new]
        /\ UNCHANGED <<db, load, writeGen, snapGen, snapshot, pending, w, r, published>>
    BY DEF Build, store, cache
  <1>2. PairOK(new, Owed(m.built))
    BY <1>1, PairBuild
  <1>3. wants \in BOOLEAN /\ m.owner # None
    BY <1>1 DEF BaseInv, TypesOK, MutexOK
  <1>4. /\ new.nodes = db.nodes /\ new.weighted = wants
        /\ \A e \in db.edges : InRows(new, e)
        /\ wants => \A x \in new.rows : x \in db.edges
    BY <1>3, BuildHolds
  <1> HIDE DEF new
  <1>5. m'.pc = "prune" /\ m'.snap = new /\ m'.built = m.built /\ m'.applied = m.applied
    BY <1>1 DEF BaseInv, TypesOK
  <1>6. ASSUME NEW s, Within(s, Due) PROVE Covers(new, s)
    <2>1. Within(s, db)
      BY <1>6, SettledWithin, WithinFacts
    <2>2. s.nodes \subseteq new.nodes
      BY <1>4, <2>1 DEF Within
    <2>3. \A e \in s.edges : InRows(new, e)
      BY <1>4, <2>1, SameEdgeFacts DEF Within, InStore, InRows
    <2> QED
      BY <2>2, <2>3 DEF Covers, InRows
  <1>7. Tame => Within(published, Due) /\ \A p \in Readers : Active(p) => Within(r[p].from, Due)
    BY <1>3, ClaimWithin
  <1>8. Tame => Covers(new, published) /\ \A p \in Readers : Active(p) => Covers(new, r[p].from)
    BY <1>6, <1>7
  <1>9. NowOK(new)
    BY <1>4 DEF NowOK
  <1> QED
    BY <1>1, <1>2, <1>5, <1>8, <1>9, ComputedCover

\* What was computed is about to be installed with the batches it lacks.
LEMMA DrainCover == ASSUME BaseInv, CoverInv, Drain PROVE CoverInv'
  <1>1. /\ m.pc = "drain" /\ m' = [m EXCEPT !.pc = "store"]
        /\ pending' = PruneBelow(DrainApplied(pending, m.applied), m.built)
        /\ UNCHANGED <<db, load, writeGen, snapGen, snapshot, w, r, published>>
    BY DEF Drain, store
  <1>2. m'.pc = "store" /\ m'.built = m.built /\ m'.snap = m.snap
    BY <1>1 DEF BaseInv, TypesOK
  <1>3. Owed(m.built)' = After(m.applied)
    <2>1. pending \in Seq(Batch) /\ m.applied \in Nat /\ m.built \in Nat
      BY DEF BaseInv, TypesOK
    <2>2. m.applied <= Len(pending) /\ \A b \in After(m.applied) : b.tag >= m.built
      BY <1>1 DEF CoverInv, PatchOK
    <2>3. /\ DrainApplied(pending, m.applied) \in Seq(Batch)
          /\ Elems(DrainApplied(pending, m.applied)) = After(m.applied)
      BY <2>1, <2>2, ElemsDrained DEF After
    <2>4. Recorded' = {b \in After(m.applied) : b.tag >= m.built}
      BY <1>1, <2>1, <2>3, ElemsPruned DEF Recorded
    <2> QED
      BY <1>2, <2>2, <2>4 DEF Owed
  <1>4. PairsOK'
    <2>1. PairOK(m.snap, After(m.applied))
      BY <1>1 DEF CoverInv, PairsOK
    <2>2. PairOK(m.snap, Owed(m.built))'
      BY <1>1, <1>2, <1>3, <2>1, KeepsStorage
    <2> QED
      BY <1>2, <2>2 DEF PairsOK
  <1>5. GrowsOK' /\ PatchOK'
    BY <1>1, <1>2, KeepsStorage DEF PatchOK
  <1>6. \A gen, s : ClaimOK(gen, s) => ClaimOK(gen, s)'
    BY <1>1, <1>2 DEF ClaimOK, Covers
  <1>7. ClaimsOK'
    BY <1>1, <1>6, ClaimsStep
  <1>8. NowsOK'
    BY <1>1, <1>2, KeepsStorage DEF CoverInv, NowsOK
  <1>9. ReadersOK'
    BY <1>1, <1>2 DEF CoverInv, ReadersOK, Active, Tame, Closed, Covers
  <1> QED
    BY <1>4, <1>5, <1>7, <1>8, <1>9 DEF CoverInv

\* Pruning drops only what the built snapshot has.
LEMMA PruneCover == ASSUME BaseInv, CoverInv, Prune PROVE CoverInv'
  <1>1. /\ m.pc = "prune" /\ m' = [m EXCEPT !.pc = "store"]
        /\ UNCHANGED <<db, load, writeGen, snapGen, snapshot, w, r, published>>
    BY DEF Prune, store
  <1>2. m'.pc = "store" /\ m'.built = m.built /\ m'.snap = m.snap
    BY <1>1 DEF BaseInv, TypesOK
  <1>3. Owed(m.built)' = Owed(m.built)
    BY <1>2, PruneResult DEF Owed
  <1>4. PairsOK'
    <2>1. PairOK(m.snap, Owed(m.built))
      BY <1>1 DEF CoverInv, PairsOK
    <2>2. PairOK(m.snap, Owed(m.built))'
      BY <1>1, <1>2, <1>3, <2>1, KeepsStorage
    <2> QED
      BY <1>2, <2>2 DEF PairsOK
  <1>5. GrowsOK' /\ PatchOK'
    BY <1>1, <1>2, KeepsStorage DEF PatchOK
  <1>6. \A gen, s : ClaimOK(gen, s) => ClaimOK(gen, s)'
    BY <1>1, <1>2 DEF ClaimOK, Covers
  <1>7. ClaimsOK'
    BY <1>1, <1>6, ClaimsStep
  <1>8. NowsOK'
    BY <1>1, <1>2, KeepsStorage DEF CoverInv, NowsOK
  <1>9. ReadersOK'
    BY <1>1, <1>2 DEF CoverInv, ReadersOK, Active, Tame, Closed, Covers
  <1> QED
    BY <1>4, <1>5, <1>7, <1>8, <1>9 DEF CoverInv

\* Between pointer and stamp the new snapshot serves the old claims.
LEMMA StoreCover == ASSUME BaseInv, CoverInv, StoreSnapshot PROVE CoverInv'
  <1>1. /\ m.pc = "store" /\ m' = [m EXCEPT !.pc = "stamp"] /\ snapshot' = m.snap
        /\ UNCHANGED <<db, load, writeGen, snapGen, pending, w, r, published>>
    BY DEF StoreSnapshot, store
  <1>2. m'.pc = "stamp" /\ m'.built = m.built /\ m'.snap = m.snap
    BY <1>1 DEF BaseInv, TypesOK
  <1>3. snapGen \in Nat /\ m.built \in Nat /\ writeGen \in Nat /\ snapGen <= m.built /\ m.built <= writeGen
    BY <1>1 DEF BaseInv, TypesOK, MutexOK
  <1>4. Owed(m.built)' = Owed(m.built)
    BY <1>1, <1>2 DEF Owed, Recorded, Elems
  <1>5. PairsOK'
    <2>1. PairOK(m.snap, Owed(m.built))
      BY <1>1 DEF CoverInv, PairsOK
    <2>2. PairOK(m.snap, Owed(m.built))'
      BY <1>1, <1>2, <1>4, <2>1, KeepsStorage
    <2> QED
      BY <1>2, <2>2 DEF PairsOK
  <1>6. GrowsOK' /\ PatchOK'
    BY <1>1, <1>2, KeepsStorage DEF PatchOK
  <1>7. \A gen \in Nat : \A s : ClaimOK(gen, s) => ClaimOK(gen, s)'
    <2> SUFFICES ASSUME NEW gen \in Nat, NEW s, ClaimOK(gen, s) PROVE ClaimOK(gen, s)'
      OBVIOUS
    <2>1. gen <= m.built => Covers(m.snap, s)
      BY <1>1 DEF ClaimOK
    <2>2. gen <= snapGen => gen <= m.built
      BY <1>3
    <2> QED
      BY <1>1, <1>2, <2>1, <2>2 DEF ClaimOK, Covers
  <1>8. ClaimsOK'
    <2>1. \A p \in Readers : r[p].seen \in Nat
      BY PassTypes DEF BaseInv
    <2> QED
      BY <1>1, <1>3, <1>7, <2>1, ClaimsStep
  <1>9. NowsOK'
    <2>1. snapGen = writeGen => m.built = writeGen
      BY <1>3
    <2>2. m.built = writeGen => NowOK(m.snap)
      BY <1>1 DEF CoverInv, NowsOK
    <2> QED
      BY <1>1, <1>2, <2>1, <2>2, KeepsStorage DEF NowsOK
  <1>10. ReadersOK'
    BY <1>1, <1>2 DEF CoverInv, ReadersOK, Active, Tame, Closed, Covers
  <1> QED
    BY <1>5, <1>6, <1>8, <1>9, <1>10 DEF CoverInv

\* A reader moves, and may take the mutex or give it back with nothing done.
LEMMA ReadersCover ==
  ASSUME BaseInv, CoverInv, UNCHANGED <<db, load, writeGen, snapGen, snapshot, pending, w, published>>,
         m' = m \/ (m.pc \notin {"store", "stamp"} /\ m'.pc \in {"free", "start"}),
         \A q \in Readers : r'[q].pc = "refresh" => m'.pc = "start" \/ (m' = m /\ r'[q] = r[q]),
         \A q \in Readers :
            \/ r'[q] = r[q]
            \/ /\ r'[q].pc \notin {"idle", "done", "failed"} =>
                    /\ r'[q].seen <= writeGen /\ Closed(r'[q].from)
                    /\ load.ops \subseteq Additive => Within(r'[q].from, published)
                    /\ Tame => ClaimOK(r'[q].seen, r'[q].from)
               /\ r'[q].pc = "load" => r'[q].seen <= snapGen
               /\ Tame /\ r'[q].pc = "done" => Covers(r'[q].got, r'[q].from)
  PROVE  CoverInv'
  <1>1. GrowsOK'
    <2>1. Settled' = Settled
      BY DEF Settled
    <2> QED
      BY <2>1 DEF CoverInv, GrowsOK, Active
  <1>2. Owed(snapGen)' = Owed(snapGen) /\ (m' = m => Owed(m.built)' = Owed(m.built) /\ After(m.applied)' = After(m.applied))
    BY DEF Owed, Recorded, Elems, After
  <1>3. PatchOK'
    <2>1. CASE m' = m
      BY <1>2, <2>1 DEF CoverInv, PatchOK
    <2>2. CASE m'.pc \in {"free", "start"}
      BY <2>2 DEF PatchOK
    <2> QED
      BY <2>1, <2>2
  <1>4. PairsOK'
    <2>1. \A snap, bs : PairOK(snap, bs) => PairOK(snap, bs)'
      BY KeepsStorage
    <2>2. CASE m' = m
      BY <1>2, <2>1, <2>2 DEF CoverInv, PairsOK
    <2>3. CASE m.pc \notin {"store", "stamp"} /\ m'.pc \in {"free", "start"}
      BY <1>2, <2>1, <2>3 DEF CoverInv, PairsOK
    <2> QED
      BY <2>2, <2>3
  <1>5. \A gen, s : ClaimOK(gen, s) => ClaimOK(gen, s)'
    BY ClaimSame, ClaimQuiet
  <1>6. ClaimsOK'
    <2> SUFFICES ASSUME Tame PROVE ClaimsOK'
      BY DEF ClaimsOK, Tame
    <2>1. ClaimOK(writeGen, published)'
      BY <1>5 DEF CoverInv, ClaimsOK
    <2>2. ASSUME NEW q \in Readers, Active(q)' PROVE ClaimOK(r'[q].seen, r'[q].from)
      BY <2>2 DEF CoverInv, ClaimsOK, Active
    <2>3. \A q \in Readers : Active(q)' => ClaimOK(r[q].seen, r[q].from)'
      BY <1>5, <2>2
    <2> QED
      BY <2>1, <2>3 DEF ClaimsOK
  <1>7. NowsOK'
    BY KeepsStorage DEF CoverInv, NowsOK
  <1>8. ReadersOK'
    BY DEF CoverInv, ReadersOK, Active, Tame, Closed, Covers
  <1> QED
    BY <1>1, <1>3, <1>4, <1>6, <1>7, <1>8 DEF CoverInv

\* A failed build leaves snapshot, stamp and list as a pair.
LEMMA BuildFailsCover == ASSUME BaseInv, CoverInv, BuildFails PROVE CoverInv'
  <1>1. /\ m.pc \in {"build", "patch"} /\ m' = Idle
        /\ UNCHANGED <<db, load, writeGen, snapGen, snapshot, pending, w, published>>
    BY DEF BuildFails, store, cache
  <1>2. m'.pc = "free"
    BY <1>1, IdleTypes
  <1>3. r \in [Readers -> ReaderType]
    BY DEF BaseInv, TypesOK, ReaderType, ReaderPc
  <1>4. \A q \in Readers : q # m.owner => r'[q] = r[q]
    BY <1>3 DEF BuildFails
  <1>5. \A q \in Readers : q = m.owner => r'[q].pc = "failed"
    BY <1>3 DEF BuildFails, ReaderType
  <1>6. \A q \in Readers : r'[q].pc # "refresh"
    BY <1>4, <1>5 DEF BaseInv, MutexOK
  <1>7. \A q \in Readers : r'[q] = r[q] \/ r'[q].pc = "failed"
    BY <1>4, <1>5
  <1> QED
    BY <1>1, <1>2, <1>6, <1>7, ReadersCover

\* A call begins with the published storage and its generation.
LEMMA GateCover == ASSUME BaseInv, CoverInv, NEW p \in Readers, NEW want \in BOOLEAN, Gate(p, want) PROVE CoverInv'
  <1> DEFINE rec == [pc |-> "compare", want |-> want, seen |-> writeGen, from |-> published, got |-> EmptySnapshot]
  <1>1. /\ r' = [r EXCEPT ![p] = rec]
        /\ UNCHANGED <<db, load, writeGen, snapGen, snapshot, pending, w, m, published>>
    BY DEF Gate, store
  <1>2. r \in [Readers -> ReaderType] /\ writeGen \in Nat
    BY DEF BaseInv, TypesOK, ReaderType, ReaderPc
  <1>3. rec.pc = "compare" /\ rec.seen = writeGen /\ rec.from = published
    OBVIOUS
  <1> HIDE DEF rec
  <1>4. r'[p] = rec /\ \A q \in Readers : q # p => r'[q] = r[q]
    BY <1>1, <1>2
  <1>5. writeGen <= writeGen /\ Closed(published) /\ Within(published, published) /\ (Tame => ClaimOK(writeGen, published))
    BY <1>2, WithinFacts DEF BaseInv, StorageOK, CoverInv, ClaimsOK
  <1>6. \A q \in Readers : r'[q].pc = "refresh" => m' = m /\ r'[q] = r[q]
    BY <1>1, <1>3, <1>4
  <1> QED
    BY <1>1, <1>3, <1>4, <1>5, <1>6, ReadersCover

\* A reader on its way keeps what it began with.
LEMMA SameCall ==
  ASSUME BaseInv, CoverInv, NEW p \in Readers, Active(p)
  PROVE  /\ r[p].seen <= writeGen /\ Closed(r[p].from)
         /\ load.ops \subseteq Additive => Within(r[p].from, published)
         /\ Tame => ClaimOK(r[p].seen, r[p].from)
         /\ r[p].pc = "load" => r[p].seen <= snapGen
         /\ r[p].seen \in Nat /\ snapGen \in Nat
         /\ r[p] \in ReaderType /\ r \in [Readers -> ReaderType]
  <1>1. r \in [Readers -> ReaderType]
    BY DEF BaseInv, TypesOK, ReaderType, ReaderPc
  <1>2. r[p] \in ReaderType /\ snapGen \in Nat
    BY <1>1 DEF BaseInv, TypesOK
  <1>3. r[p].seen \in Nat
    BY <1>2 DEF ReaderType
  <1> QED
    BY <1>1, <1>2, <1>3 DEF CoverInv, GrowsOK, ClaimsOK, ReadersOK

\* A generation compared as current is at least the call's own.
LEMMA CompareCover == ASSUME BaseInv, CoverInv, NEW p \in Readers, Compare(p) PROVE CoverInv'
  <1> DEFINE to == IF r[p].seen = snapGen THEN "load" ELSE "lock"
  <1>1. /\ r[p].pc = "compare" /\ r' = [r EXCEPT ![p].pc = to]
        /\ UNCHANGED <<db, load, writeGen, snapGen, snapshot, pending, w, m, published>>
    BY DEF Compare, store, cache
  <1>2. to \in {"load", "lock"} /\ (to = "load" => r[p].seen = snapGen)
    OBVIOUS
  <1> HIDE DEF to
  <1>3. /\ r[p].seen <= writeGen /\ Closed(r[p].from)
        /\ load.ops \subseteq Additive => Within(r[p].from, published)
        /\ Tame => ClaimOK(r[p].seen, r[p].from)
        /\ r[p].seen \in Nat /\ snapGen \in Nat
        /\ r[p] \in ReaderType /\ r \in [Readers -> ReaderType]
    BY <1>1, SameCall DEF Active
  <1>4. /\ r'[p].pc = to /\ r'[p].seen = r[p].seen /\ r'[p].from = r[p].from
        /\ \A q \in Readers : q # p => r'[q] = r[q]
    BY <1>1, <1>3 DEF ReaderType
  <1>5. to = "load" => r[p].seen <= snapGen
    BY <1>2, <1>3
  <1>6. \A q \in Readers : r'[q].pc = "refresh" => m' = m /\ r'[q] = r[q]
    BY <1>1, <1>2, <1>4
  <1>7. r'[p].pc # "done"
    BY <1>2, <1>4
  <1> QED
    BY <1>1, <1>3, <1>4, <1>5, <1>6, <1>7, ReadersCover

\* The loaded pointer is at least as new as the stamp that was compared.
LEMMA LoadCover == ASSUME BaseInv, CoverInv, NEW p \in Readers, Load(p) PROVE CoverInv'
  <1> DEFINE rec == IF r[p].want /\ ~snapshot.weighted THEN [r[p] EXCEPT !.pc = "lock"]
                    ELSE [r[p] EXCEPT !.pc = "done", !.got = snapshot]
  <1>1. /\ r[p].pc = "load" /\ r' = [r EXCEPT ![p] = rec]
        /\ UNCHANGED <<db, load, writeGen, snapGen, snapshot, pending, w, m, published>>
    BY DEF Load, store, cache
  <1>2. /\ r[p].seen <= writeGen /\ Closed(r[p].from)
        /\ load.ops \subseteq Additive => Within(r[p].from, published)
        /\ Tame => ClaimOK(r[p].seen, r[p].from)
        /\ r[p].seen <= snapGen
        /\ r[p] \in ReaderType /\ r \in [Readers -> ReaderType]
    BY <1>1, SameCall DEF Active
  <1>3. /\ rec.pc \in {"lock", "done"} /\ rec.from = r[p].from
        /\ rec.seen = r[p].seen /\ (rec.pc = "done" => rec.got = snapshot)
    BY <1>2 DEF ReaderType
  <1> HIDE DEF rec
  <1>4. r'[p] = rec /\ \A q \in Readers : q # p => r'[q] = r[q]
    BY <1>1, <1>2
  <1>5. Tame => Covers(snapshot, r[p].from)
    BY <1>2 DEF ClaimOK
  <1>6. \A q \in Readers : r'[q].pc = "refresh" => m' = m /\ r'[q] = r[q]
    BY <1>1, <1>3, <1>4
  <1> QED
    BY <1>1, <1>2, <1>3, <1>4, <1>5, <1>6, ReadersCover

\* A call ends.
LEMMA ReturnCover == ASSUME BaseInv, CoverInv, NEW p \in Readers, Return(p) PROVE CoverInv'
  <1>1. /\ r' = [r EXCEPT ![p] = IdleReader]
        /\ UNCHANGED <<db, load, writeGen, snapGen, snapshot, pending, w, m, published>>
    BY DEF Return, store, cache
  <1>2. r \in [Readers -> ReaderType]
    BY DEF BaseInv, TypesOK, ReaderType, ReaderPc
  <1>3. r'[p].pc = "idle" /\ \A q \in Readers : q # p => r'[q] = r[q]
    BY <1>1, <1>2, IdleTypes
  <1>4. \A q \in Readers : r'[q].pc = "refresh" => m' = m /\ r'[q] = r[q]
    BY <1>1, <1>3
  <1>5. \A q \in Readers : r'[q] = r[q] \/ r'[q].pc = "idle"
    BY <1>3
  <1> QED
    BY <1>1, <1>4, <1>5, ReadersCover

\* A reader waits for the mutex: the pass it starts captures a generation
\* that is at least its own.
LEMMA LockCover == ASSUME BaseInv, CoverInv, NEW p \in Readers, Lock(p) PROVE CoverInv'
  <1>1. /\ r[p].pc = "lock" /\ m.owner = None
        /\ UNCHANGED <<db, load, writeGen, snapGen, snapshot, pending, w, published>>
    BY DEF Lock, store, cache
  <1>2. /\ r[p].seen <= writeGen /\ Closed(r[p].from)
        /\ load.ops \subseteq Additive => Within(r[p].from, published)
        /\ Tame => ClaimOK(r[p].seen, r[p].from)
        /\ r[p] \in ReaderType /\ r \in [Readers -> ReaderType]
    BY <1>1, SameCall DEF Active
  <1>3. m.pc = "free" /\ \A q \in Readers : r[q].pc # "refresh"
    BY <1>1, CsrAssumption DEF BaseInv, MutexOK
  <1>4. CASE Stale \/ (r[p].want /\ ~snapshot.weighted)
    <2>1. m' = [Idle EXCEPT !.owner = p, !.pc = "start", !.want = r[p].want] /\ r' = [r EXCEPT ![p].pc = "refresh"]
      BY <1>4 DEF Lock
    <2>2. m'.pc = "start"
      BY <2>1, IdleTypes
    <2>3. /\ r'[p].pc = "refresh" /\ r'[p].seen = r[p].seen /\ r'[p].from = r[p].from
          /\ \A q \in Readers : q # p => r'[q] = r[q]
      BY <1>2, <2>1 DEF ReaderType
    <2> QED
      BY <1>1, <1>2, <1>3, <2>2, <2>3, ReadersCover
  <1>5. CASE ~(Stale \/ (r[p].want /\ ~snapshot.weighted))
    <2> DEFINE rec == IF r[p].want THEN [r[p] EXCEPT !.pc = "done", !.got = snapshot] ELSE [r[p] EXCEPT !.pc = "load"]
    <2>1. m' = m /\ r' = [r EXCEPT ![p] = rec]
      BY <1>5 DEF Lock
    <2>2. /\ rec.pc \in {"load", "done"} /\ rec.from = r[p].from
          /\ rec.seen = r[p].seen /\ (rec.pc = "done" => rec.got = snapshot)
      BY <1>2 DEF ReaderType
    <2> HIDE DEF rec
    <2>3. r'[p] = rec /\ \A q \in Readers : q # p => r'[q] = r[q]
      BY <1>2, <2>1
    <2>4. r[p].seen <= snapGen
      BY <1>2, <1>5 DEF Stale
    <2>5. Tame => Covers(snapshot, r[p].from)
      BY <1>2, <2>4 DEF ClaimOK
    <2>6. \A q \in Readers : r'[q].pc # "refresh"
      BY <1>3, <2>2, <2>3
    <2> QED
      BY <1>1, <1>2, <2>1, <2>2, <2>3, <2>4, <2>5, <2>6, ReadersCover
  <1> QED
    BY <1>4, <1>5

\* The stamp makes the claims of the pass those of the snapshot.
LEMMA StampCover == ASSUME BaseInv, CoverInv, Stamp PROVE CoverInv'
  <1>1. /\ m.pc = "stamp" /\ snapGen' = m.built /\ m' = Idle
        /\ UNCHANGED <<db, load, writeGen, snapshot, pending, w, published>>
    BY DEF Stamp, store
  <1>2. m'.pc = "free"
    BY <1>1, IdleTypes
  <1>3. r \in [Readers -> ReaderType] /\ \A q \in Readers : r[q] \in ReaderType
    BY DEF BaseInv, TypesOK, ReaderType, ReaderPc
  <1>4. snapshot = m.snap /\ snapGen <= m.built /\ m.built <= writeGen /\ snapGen \in Nat /\ m.built \in Nat /\ writeGen \in Nat
    BY <1>1 DEF BaseInv, TypesOK, MutexOK
  <1>5. \A q \in Readers : q # m.owner => r'[q] = r[q]
    BY <1>3 DEF Stamp
  <1>6. \A q \in Readers : q = m.owner =>
          /\ r'[q].pc \in {"load", "done"} /\ r'[q].seen = r[q].seen /\ r'[q].from = r[q].from
          /\ r'[q].pc = "done" => r'[q].got = m.snap
    BY <1>3 DEF Stamp, ReaderType
  <1>7. \A q \in Readers : q = m.owner <=> r[q].pc = "refresh"
    BY DEF BaseInv, MutexOK
  <1>8. GrowsOK'
    <2>1. Settled' = Settled
      BY <1>1 DEF Settled
    <2>2. \A q \in Readers : Active(q)' => Active(q) /\ r'[q].from = r[q].from
      BY <1>5, <1>6, <1>7 DEF Active
    <2> QED
      BY <1>1, <2>1, <2>2 DEF CoverInv, GrowsOK
  <1>9. PatchOK'
    BY <1>2 DEF PatchOK
  <1>10. PairsOK'
    <2>1. PairOK(snapshot, Owed(m.built))
      BY <1>1, <1>4 DEF CoverInv, PairsOK
    <2>2. Owed(snapGen)' = Owed(m.built)
      BY <1>1 DEF Owed, Recorded, Elems
    <2>3. PairOK(snapshot, Owed(snapGen))'
      BY <1>1, <2>1, <2>2, KeepsStorage
    <2> QED
      BY <1>2, <2>3 DEF PairsOK
  <1>11. \A gen, s : ClaimOK(gen, s) => ClaimOK(gen, s)' /\ (gen <= m.built => Covers(snapshot, s))
    BY <1>1, <1>2, <1>4 DEF ClaimOK, Covers
  <1>12. ClaimsOK'
    <2> SUFFICES ASSUME Tame PROVE ClaimsOK'
      BY <1>1 DEF ClaimsOK, Tame
    <2>1. ClaimOK(writeGen, published)'
      BY <1>1, <1>11 DEF CoverInv, ClaimsOK
    <2>2. \A q \in Readers : Active(q)' => Active(q) /\ r'[q].from = r[q].from /\ r'[q].seen = r[q].seen
      BY <1>5, <1>6, <1>7 DEF Active
    <2>3. \A q \in Readers : Active(q)' => ClaimOK(r'[q].seen, r'[q].from)
      BY <2>2 DEF CoverInv, ClaimsOK
    <2>4. \A q \in Readers : Active(q)' => ClaimOK(r[q].seen, r[q].from)'
      BY <1>11, <2>3
    <2> QED
      BY <2>1, <2>4 DEF ClaimsOK
  <1>13. NowsOK'
    <2>1. m.built = writeGen => NowOK(snapshot)
      BY <1>1, <1>4 DEF CoverInv, NowsOK
    <2> QED
      BY <1>1, <1>2, <2>1, KeepsStorage DEF NowsOK
  <1>14. ReadersOK'
    <2> SUFFICES ASSUME NEW q \in Readers
                 PROVE  /\ Active(q)' => r'[q].seen <= writeGen /\ Closed(r'[q].from)
                        /\ r'[q].pc = "load" => r'[q].seen <= m.built
                        /\ r'[q].pc # "refresh"
                        /\ Tame /\ r'[q].pc = "done" => Covers(r'[q].got, r'[q].from)
      BY <1>1, <1>2 DEF ReadersOK, Active, Tame, Closed, Covers
    <2>1. CASE q # m.owner
      <3>1. r'[q] = r[q] /\ r[q].pc # "refresh" /\ r[q].seen \in Nat
        BY <1>3, <1>5, <1>7, <2>1 DEF ReaderType
      <3>2. r[q].seen <= snapGen => r[q].seen <= m.built
        BY <1>4, <3>1
      <3> QED
        BY <3>1, <3>2 DEF CoverInv, ReadersOK, Active
    <2>2. CASE q = m.owner
      <3>1. Active(q) /\ r[q].seen <= m.built
        BY <1>1, <1>7, <2>2 DEF CoverInv, ReadersOK, Active
      <3>2. Tame => Covers(m.snap, r[q].from)
        BY <1>4, <1>11, <3>1 DEF CoverInv, ClaimsOK
      <3> QED
        BY <1>6, <2>2, <3>1, <3>2 DEF CoverInv, ReadersOK
    <2> QED
      BY <2>1, <2>2
  <1> QED
    BY <1>8, <1>9, <1>10, <1>12, <1>13, <1>14 DEF CoverInv

\* The first state: an empty snapshot of an empty store.
LEMMA InitCover == ASSUME Init PROVE CoverInv
  <1>1. BaseInv
    BY InitBase
  <1>2. /\ db.nodes = {} /\ db.edges = {} /\ published = db /\ pending = << >> /\ snapshot = EmptySnapshot
        /\ w = IdleWriter /\ m = Idle /\ r = [p \in Readers |-> IdleReader]
    BY DEF Init
  <1>3. snapGen = 0 /\ writeGen = 1
    BY DEF Init
  <1>4. m.pc = "free" /\ w.pc = "idle" /\ w.change = NoChange /\ \A p \in Readers : r[p].pc = "idle"
    BY <1>2, IdleTypes DEF IdleWriter
  <1>5. Settled = db /\ Due = db
    BY <1>1, <1>4, SettledQuiet, ChangeTypes DEF BaseInv
  <1>6. Recorded = {} /\ \A gen : Owed(gen) = {}
    BY <1>2 DEF Recorded, Elems, Owed
  <1>7. snapshot.nodes = {} /\ snapshot.rows = {} /\ snapshot.twice = {}
    BY <1>2 DEF EmptySnapshot
  <1>8. PairOK(snapshot, {})
    BY <1>2, <1>5, <1>7 DEF PairOK, Reached, Exact
  <1>9. GrowsOK
    BY <1>2, <1>4, <1>5, WithinFacts, ChangeTypes DEF GrowsOK, Active
  <1>10. PatchOK /\ PairsOK
    BY <1>4, <1>6, <1>8 DEF PatchOK, PairsOK
  <1>11. ClaimsOK /\ NowsOK
    BY <1>3, <1>4 DEF ClaimsOK, ClaimOK, NowsOK, Active
  <1>12. ReadersOK
    BY <1>4 DEF ReadersOK, Active
  <1> QED
    BY <1>9, <1>10, <1>11, <1>12 DEF CoverInv

\* Steps that change nothing.
LEMMA StutterCover == ASSUME BaseInv, CoverInv, UNCHANGED vars PROVE CoverInv'
  <1>1. /\ UNCHANGED <<db, load, writeGen, snapGen, snapshot, pending, w, published>> /\ m' = m /\ r' = r
    BY DEF vars, store, cache
  <1> QED
    BY <1>1, ReadersCover

\* No step but the record of a change can overrun a patch.
LEMMA CoverStep == ASSUME BaseInv, CoverInv, [Next]_vars, [~Overrun]_vars PROVE CoverInv'
  <1>1. CASE UNCHANGED vars
    BY <1>1, StutterCover
  <1>2. CASE WriterNext
    BY <1>2, WriterCommits, CommitCover
  <1>3. CASE RecordChange
    <2>1. ~Overrun
      BY <1>1 DEF Overrun, vars
    <2> QED
      BY <1>3, <2>1, RecordCover
  <1>4. CASE AdvanceWriteGen
    BY <1>4, AdvanceCover
  <1>5. CASE MaintenanceStep
    BY <1>5, MStartCover, PendingApplicableCover, PatchCover, BuildCover, DrainCover, PruneCover, StoreCover,
       StampCover DEF MaintenanceStep
  <1>6. CASE BuildFails \/ BeginRebuild
    BY <1>6, BuildFailsCover, BeginRebuildCover
  <1>7. CASE \E p \in Readers : ReaderStep(p) \/ (\E want \in BOOLEAN : Gate(p, want))
    BY <1>7, CompareCover, LoadCover, LockCover, ReturnCover, GateCover DEF ReaderStep
  <1> QED
    BY <1>1, <1>2, <1>3, <1>4, <1>5, <1>6, <1>7 DEF Next, WriterStep

\* The workload is chosen once.
LEMMA LoadFixed == ASSUME BaseInv, [Next]_vars PROVE load' = load
  <1>1. CASE UNCHANGED vars
    BY <1>1 DEF vars, store
  <1>2. CASE WriterNext
    BY <1>2, WriterCommits DEF CommitStep
  <1>3. CASE WriterStep
    BY <1>3 DEF WriterStep, RecordChange, AdvanceWriteGen, store
  <1>4. CASE MaintenanceStep
    BY <1>4 DEF MaintenanceStep, MStart, PendingApplicable, Patch, Build, Drain, Prune, StoreSnapshot, Stamp, store
  <1>5. CASE BuildFails \/ BeginRebuild
    BY <1>5 DEF BuildFails, BeginRebuild, store
  <1>6. CASE \E p \in Readers : ReaderStep(p) \/ (\E want \in BOOLEAN : Gate(p, want))
    BY <1>6 DEF ReaderStep, Compare, Load, Lock, Return, Gate, store
  <1> QED
    BY <1>1, <1>2, <1>3, <1>4, <1>5, <1>6 DEF Next

-----------------------------------------------------------------------------
(* Theorems *)

\* On a target without threads, where a call runs to its end before the next
\* one starts, nothing is recorded during a patch: the strong invariant holds
\* in every behaviour.
THEOREM SingleInvariance == Spec => [](load.threads = "single" => CoverInv)
  <1> DEFINE I == BaseInv /\ (load.threads = "single" => CoverInv)
  <1>1. Init => I
    BY InitBase, InitCover
  <1>2. I /\ [Next]_vars => I'
    <2> SUFFICES ASSUME I, [Next]_vars PROVE I'
      OBVIOUS
    <2>1. BaseInv' /\ load' = load
      BY BaseStep, LoadFixed
    <2>2. load.threads = "single" => ~Overrun
      <3> SUFFICES ASSUME load.threads = "single", w.pc = "record" PROVE m.pc = "free"
        BY DEF Overrun
      <3> QED
        BY SinglePass DEF BaseInv, MutexOK
    <2> QED
      BY <2>1, <2>2, CoverStep
  <1> QED
    BY <1>1, <1>2, PTL DEF Spec

\* With threads it holds as long as no full marker overruns a patch.
THEOREM CalmInvariance == Spec /\ [][~Overrun]_vars => []CoverInv
  BY Invariance, InitCover, CoverStep, PTL DEF Spec

\* What the invariant means for a snapshot that is current.
LEMMA CurrentOwesNothing ==
  ASSUME BaseInv, w.pc = "idle", ~Stale
  PROVE  Owed(snapGen) = {} /\ Due = db /\ ~Deleting
  <1>1. \A b \in Recorded : b.tag < writeGen /\ b.tag \in Nat
    <2>1. \A b \in Recorded : b \in Batch
      BY ElementOfSeq DEF BaseInv, TypesOK, Recorded, Elems
    <2> QED
      BY <2>1 DEF Batch, BaseInv, PendingOK
  <1>2. writeGen \in Nat /\ snapGen = writeGen
    BY DEF BaseInv, TypesOK, Stale
  <1> QED
    BY <1>1, <1>2 DEF Owed, Due, Deleting

\* What the two invariants mean for readers and for a current snapshot.
LEMMA CoverPromises ==
  ASSUME BaseInv, CoverInv
  PROVE  /\ Tame => NoLostWrite /\ WeightsCurrent /\ ReadsItsPast
         /\ RemovalsReachSnapshot
  <1>1. writeGen \in Nat
    BY DEF BaseInv, TypesOK
  <1>2. Tame => NoLostWrite
    <2> SUFFICES ASSUME Tame, ~Stale PROVE Covers(snapshot, published)
      BY DEF NoLostWrite
    <2>1. writeGen <= snapGen
      BY <1>1 DEF Stale
    <2> QED
      BY <2>1 DEF CoverInv, ClaimsOK, ClaimOK
  <1>3. Tame => WeightsCurrent
    BY DEF CoverInv, NowsOK, NowOK, WeightsCurrent, Stale
  <1>4. Tame => ReadsItsPast
    BY DEF CoverInv, ReadersOK, BaseInv, WantsOK, ReadsItsPast
  <1>5. RemovalsReachSnapshot
    <2> SUFFICES ASSUME w.pc = "idle", m.owner = None, ~Stale, NEW x \in snapshot.rows PROVE InStore(db, x)
      BY DEF RemovalsReachSnapshot, InStore
    <2>1. m.pc = "free"
      BY DEF BaseInv, MutexOK
    <2>2. PairOK(snapshot, {}) /\ ~Deleting
      BY <2>1, CurrentOwesNothing DEF CoverInv, PairsOK
    <2> QED
      BY <2>2 DEF PairOK, HasFull
  <1> QED
    BY <1>2, <1>3, <1>4, <1>5

\* Without threads a current snapshot is what a build would make.
LEMMA CoverExact ==
  ASSUME BaseInv, load.threads = "single" => CoverInv
  PROVE  ExactWhenFresh
  <1> SUFFICES ASSUME load.threads = "single", w.pc = "idle", m.owner = None, ~Stale
               PROVE  snapshot = BuildSnapshot(db, snapshot.weighted)
    BY DEF ExactWhenFresh
  <1>1. m.pc = "free"
    BY DEF BaseInv, MutexOK
  <1>2. PairOK(snapshot, {}) /\ Due = db /\ ~Deleting /\ Tame
    BY <1>1, CurrentOwesNothing DEF CoverInv, PairsOK, Tame
  <1>3. Reached(snapshot, {}, db) /\ Exact(snapshot, {})
    BY <1>2 DEF PairOK, HasFull
  <1>4. snapshot.nodes = db.nodes /\ snapshot.twice = {}
    BY <1>2, <1>3 DEF Reached, Exact, HasFull
  <1>5. \A e \in db.edges : InRows(snapshot, e)
    BY <1>3 DEF Reached, HasFull
  <1>6. \A x \in snapshot.rows : InStore(db, x) /\ (~snapshot.weighted => x.w = None)
    BY <1>2, <1>3 DEF Exact
  <1>7. snapshot.weighted => \A x \in snapshot.rows : x \in db.edges
    BY <1>2 DEF PairOK, HasUpdate, Current
  <1>8. snapshot \in Snapshot /\ db \in Storage /\ Closed(db)
    BY DEF BaseInv, TypesOK, StorageOK
  <1>9. \A e \in db.edges : \A x \in snapshot.rows : SameEdge(x, e) => x = AsRow(e, snapshot.weighted)
    <2> SUFFICES ASSUME NEW e \in db.edges, NEW x \in snapshot.rows, SameEdge(x, e)
                 PROVE  x = AsRow(e, snapshot.weighted)
      OBVIOUS
    <2>1. x \in Row /\ e \in Edge
      BY <1>8 DEF Snapshot, Storage
    <2>2. x = [id |-> x.id, src |-> x.src, dst |-> x.dst, w |-> x.w]
      BY <2>1 DEF Row
    <2>3. x.id = e.id /\ x.src = e.src /\ x.dst = e.dst
      BY DEF SameEdge
    <2>4. x.w = IF snapshot.weighted THEN e.w ELSE None
      <3>1. CASE snapshot.weighted
        <4>1. x = e
          BY <1>7, <2>3, <3>1 DEF BaseInv, StorageOK
        <4> QED
          BY <3>1, <4>1
      <3>2. CASE ~snapshot.weighted
        BY <1>6, <3>2
      <3> QED
        BY <3>1, <3>2
    <2> QED
      BY <2>2, <2>3, <2>4 DEF AsRow
  <1>10. snapshot.rows = {AsRow(e, snapshot.weighted) : e \in db.edges}
    BY <1>5, <1>6, <1>9 DEF InRows, InStore
  <1>11. {x \in db.edges : x.src \in db.nodes /\ x.dst \in db.nodes} = db.edges
    BY <1>8 DEF Closed
  <1>12. BuildSnapshot(db, snapshot.weighted) =
           [nodes |-> db.nodes, rows |-> {AsRow(e, snapshot.weighted) : e \in db.edges},
            twice |-> {}, weighted |-> snapshot.weighted]
    BY <1>11 DEF BuildSnapshot
  <1>13. snapshot = [nodes |-> snapshot.nodes, rows |-> snapshot.rows, twice |-> snapshot.twice,
                     weighted |-> snapshot.weighted]
    BY <1>8 DEF Snapshot
  <1> QED
    BY <1>4, <1>10, <1>12, <1>13

\* On a target without threads a current snapshot is, between calls, exactly
\* what a full build would produce, after any mix of additions, updates and
\* removals, patches and rebuilds, and at any limit of the pending list.
THEOREM FreshIsExact == Spec => []ExactWhenFresh
  BY Invariance, SingleInvariance, CoverExact, PTL

\* There it also has every published write, its weights are those storage
\* has, and a reader is given what was published when its call began.
THEOREM SingleKeepsPromises ==
  Spec => [](load.threads = "single" => NoLostWrite /\ WeightsCurrent /\ ReadsItsPast)
  <1>1. BaseInv /\ (load.threads = "single" => CoverInv)
        => (load.threads = "single" => NoLostWrite /\ WeightsCurrent /\ ReadsItsPast)
    BY CoverPromises DEF Tame
  <1> QED
    BY <1>1, Invariance, SingleInvariance, PTL

\* With threads, and writes that only add or update, no published write is
\* missing from a current snapshot, however patches, rebuilds and writes
\* interleave, unless a full marker (the list at its limit) overran a patch.
THEOREM WritesReachSnapshot == Spec /\ [][~Overrun]_vars => [](Tame => NoLostWrite)
  <1>1. BaseInv /\ CoverInv => (Tame => NoLostWrite)
    BY CoverPromises
  <1> QED
    BY <1>1, Invariance, CalmInvariance, PTL

\* Under the same condition a current snapshot serves no weight that an edge
\* update has replaced and published.
THEOREM WeightsReachSnapshot == Spec /\ [][~Overrun]_vars => [](Tame => WeightsCurrent)
  <1>1. BaseInv /\ CoverInv => (Tame => WeightsCurrent)
    BY CoverPromises
  <1> QED
    BY <1>1, Invariance, CalmInvariance, PTL

\* And a reader, with weights or without, is given everything that had been
\* published when its gate began.
THEOREM ReadersSeeTheirPast == Spec /\ [][~Overrun]_vars => [](Tame => ReadsItsPast)
  <1>1. BaseInv /\ CoverInv => (Tame => ReadsItsPast)
    BY CoverPromises
  <1> QED
    BY <1>1, Invariance, CalmInvariance, PTL

\* Whatever is written: the marker lost to a patch is the only way a removed
\* edge survives in a current snapshot (install_incremental drains as many
\* batches as it applied, be they the same ones or not).
THEOREM OnlyAnOverrunKeepsRemoved == Spec /\ [][~Overrun]_vars => []RemovalsReachSnapshot
  <1>1. BaseInv /\ CoverInv => RemovalsReachSnapshot
    BY CoverPromises
  <1> QED
    BY <1>1, Invariance, CalmInvariance, PTL
=============================================================================
