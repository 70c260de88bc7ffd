------------------------ MODULE WriteStatementProofs ------------------------
(***************************************************************************)
(* The overlay of pending writes always tells what the open transaction    *)
(* holds, and SET, REMOVE, DELETE and WITH do to it what they mean, for    *)
(* every menu of clauses, every committed graph and pipelines of any       *)
(* length.                                                                 *)
(*                                                                         *)
(* The argument: the transaction's graph is the committed one corrected by *)
(* the overlay (Mirrors), every single write keeps it so, and so do the    *)
(* rows, items and hops a clause runs through one by one.  A write needs   *)
(* to know its target, so the rows bind only what the transaction has or   *)
(* has deleted (Rows).  What a clause makes of the graph is then read off  *)
(* row by row (RowsDone), since what it reads through the overlay is what  *)
(* the transaction holds.                                                  *)
(***************************************************************************)
EXTENDS WriteStatement, FiniteSetTheorems, WellFoundedInduction, TLAPS

\* What the executor's reads see of g through the overlay o: the overlay's
\* entry where there is one, else the committed record, nothing deleted.
MirrorsNodes(g, o) ==
  /\ Ids(g.nodes) = (Ids(db.nodes) \cup Ids(o.nodes)) \ o.gone
  /\ \A n \in Ids(g.nodes) : g.nodes[n] = IF n \in Ids(o.nodes) THEN o.nodes[n] ELSE db.nodes[n]
  /\ \A n \in o.gone : n \in Nat /\ n < g.nextN

MirrorsEdges(g, o) ==
  /\ Ids(g.edges) = (Ids(db.edges) \cup Ids(o.edges)) \ o.cut
  /\ \A e \in Ids(g.edges) : g.edges[e] = IF e \in Ids(o.edges) THEN o.edges[e] ELSE db.edges[e]
  /\ \A e \in o.cut : e \in Nat /\ e < g.nextE
  /\ \A e \in (Ids(db.edges) \cap Ids(o.edges)) \ o.cut :
       /\ o.edges[e].src = db.edges[e].src /\ o.edges[e].dst = db.edges[e].dst
       /\ o.edges[e].type = db.edges[e].type

Mirrors(g, o) == SoundGraph(g) /\ MirrorsNodes(g, o) /\ MirrorsEdges(g, o)

\* What a variable may be bound to: what the transaction has or had.
Refs(g, o) == {NodeRef(n) : n \in Ids(g.nodes) \cup o.gone} \cup
              {EdgeRef(e) : e \in Ids(g.edges) \cup o.cut}

Variables == UNION {PatternVars(c.pat) : c \in {d \in Menu : d.op \in {"match", "create", "merge"}}}

\* The rows that bind at least V.
Rows(g, o, V) == {r \in UNION {[W -> Refs(g, o)] : W \in SUBSET Variables} : V \subseteq DOMAIN r}

WriteInv ==
  phase = "open" => /\ Mirrors(txn, ov)
                    /\ rows \in Seq(Rows(txn, ov, scope))
                    /\ shared \in Rows(txn, ov, {})
                    /\ stmt = "create" => Len(rows) = 1

\* A step that goes on leaves graph and overlay in agreement and forgets no
\* id that a row may hold.
Keeps(s, t) == t.ok \in BOOLEAN /\ (t.ok => Mirrors(t.g, t.o) /\ Refs(s.g, s.o) \subseteq Refs(t.g, t.o))

-----------------------------------------------------------------------------
(***************************************************************************)
(* Counting up, sequences and rows.                                        *)
(***************************************************************************)

\* Induction along a sequence, over a set in place of a predicate.
LEMMA CountUp ==
  ASSUME NEW n \in Nat, NEW S, 0 \in S, \A i \in 0..n : i # n /\ i \in S => i + 1 \in S
  PROVE  0..n \subseteq S
<1> DEFINE B == {i \in Nat : i \in 0..n /\ i \notin S}
<1>1. SUFFICES ASSUME B # {} PROVE FALSE
  OBVIOUS
<1>2. PICK i \in B : \A j \in B : i <= j
  <2>1. B \subseteq Nat
    OBVIOUS
  <2> HIDE DEF B
  <2>2. PICK i \in B : \A j \in B : ~(<<j, i>> \in OpToRel(<, Nat))
    BY <1>1, <2>1, NatLessThanWellFounded, WFMin
  <2>3. ASSUME NEW j \in B, j < i PROVE FALSE
    <3>1. <<j, i>> \in Nat \X Nat
      BY <2>1
    <3>2. <<j, i>> \in OpToRel(<, Nat)
      BY <2>3, <3>1 DEF OpToRel
    <3> QED BY <2>2, <3>2
  <2> QED BY <2>1, <2>3
<1>3. i \in Nat /\ i # 0 /\ i - 1 \in 0..n /\ i - 1 # n /\ (i - 1) + 1 = i
  OBVIOUS
<1>4. i - 1 \in S
  BY <1>2, <1>3
<1> QED BY <1>2, <1>3, <1>4

\* An arbitrary order of a finite set lists its elements.
LEMMA ListsSet ==
  ASSUME NEW S, IsFiniteSet(S)
  PROVE  SetToSeq(S) \in Seq(S)
<1>1. Cardinality(S) \in Nat /\ ExistsBijection(1..Cardinality(S), S)
  BY FS_CardinalityType
<1>2. PICK f \in [1..Cardinality(S) -> S] : IsInjective(f)
  BY <1>1 DEF ExistsBijection, Bijection, Injection, IsInjective
<1>3. SetToSeq(S) \in [1..Cardinality(S) -> S]
  BY <1>2 DEF SetToSeq
<1> QED BY <1>1, <1>3

\* A row stays one when ids are added and fewer variables are asked for.
LEMMA RowsGrow ==
  ASSUME NEW g, NEW o, NEW h, NEW p, NEW V, NEW W, Refs(g, o) \subseteq Refs(h, p), W \subseteq V
  PROVE  /\ Rows(g, o, V) \subseteq Rows(h, p, W)
         /\ Seq(Rows(g, o, V)) \subseteq Seq(Rows(h, p, W))
<1>1. Rows(g, o, V) \subseteq Rows(h, p, W)
  <2>1. SUFFICES ASSUME NEW r \in Rows(g, o, V) PROVE r \in Rows(h, p, W)
    OBVIOUS
  <2>2. PICK X \in SUBSET Variables : r \in [X -> Refs(g, o)]
    BY <2>1 DEF Rows
  <2>3. r \in [X -> Refs(h, p)] /\ W \subseteq DOMAIN r
    BY <2>1, <2>2 DEF Rows
  <2> QED BY <2>3 DEF Rows
<1> HIDE DEF Rows
<1> QED BY <1>1

\* What a row binds.
LEMMA RowBinds ==
  ASSUME NEW g, NEW o, NEW V, NEW r \in Rows(g, o, V), NEW v \in DOMAIN r
  PROVE  /\ r[v] \in Refs(g, o)
         /\ r[v].kind = "node" => r[v].id \in Ids(g.nodes) \cup o.gone
         /\ r[v].kind = "edge" => r[v].id \in Ids(g.edges) \cup o.cut
         /\ r[v].kind \in {"node", "edge"}
<1>1. r[v] \in Refs(g, o)
  BY DEF Rows
<1> QED BY <1>1 DEF Refs, NodeRef, EdgeRef

\* A row with one more variable.
LEMMA RowWith ==
  ASSUME NEW g, NEW o, NEW V, NEW r \in Rows(g, o, V), NEW v \in Variables, NEW b \in Refs(g, o)
  PROVE  With(r, v, b) \in Rows(g, o, V \cup {v})
<1>1. PICK X \in SUBSET Variables : r \in [X -> Refs(g, o)] /\ V \subseteq X
  BY DEF Rows
<1>2. With(r, v, b) \in [X \cup {v} -> Refs(g, o)]
  BY <1>1 DEF With
<1> QED BY <1>1, <1>2 DEF Rows

\* Two rows joined.
LEMMA RowExtend ==
  ASSUME NEW g, NEW o, NEW V, NEW W, NEW r \in Rows(g, o, V), NEW m \in Rows(g, o, W)
  PROVE  Extend(r, m) \in Rows(g, o, V \cup W)
<1>1. PICK X \in SUBSET Variables : r \in [X -> Refs(g, o)] /\ V \subseteq X
  BY DEF Rows
<1>2. PICK Y \in SUBSET Variables : m \in [Y -> Refs(g, o)] /\ W \subseteq Y
  BY DEF Rows
<1>3. Extend(r, m) \in [X \cup Y -> Refs(g, o)]
  BY <1>1, <1>2 DEF Extend
<1> QED BY <1>1, <1>2, <1>3 DEF Rows

-----------------------------------------------------------------------------
(***************************************************************************)
(* Every single write keeps the overlay a mirror of the graph.             *)
(***************************************************************************)

\* A node put into the graph and into the overlay, new or not.
LEMMA NodeWritten ==
  ASSUME NEW g, NEW o, Mirrors(g, o), NEW n \in Nat, NEW next \in Nat, g.nextN <= next, n < next,
         n \notin o.gone, NEW labels, NEW x, x # Raised, NEW h, NEW p,
         h = Graph(With(g.nodes, n, Node(labels, x)), g.edges, next, g.nextE),
         p = RecordNode(o, n, labels, x)
  PROVE  /\ Mirrors(h, p) /\ Refs(g, o) \subseteq Refs(h, p)
         /\ n \in Ids(h.nodes) /\ NodeRef(n) \in Refs(h, p)
<1>1. /\ h.nodes = With(g.nodes, n, Node(labels, x)) /\ h.edges = g.edges
      /\ h.nextN = next /\ h.nextE = g.nextE
  BY DEF Graph
<1>2. /\ p.nodes = With(o.nodes, n, Node(labels, x)) /\ p.edges = o.edges
      /\ p.gone = o.gone /\ p.cut = o.cut
  BY DEF RecordNode, Overlay
<1>3. /\ Ids(h.nodes) = Ids(g.nodes) \cup {n} /\ h.nodes[n] = Node(labels, x)
      /\ \A m \in Ids(g.nodes) : m # n => h.nodes[m] = g.nodes[m]
  BY <1>1 DEF Ids, With
<1>4. /\ Ids(p.nodes) = Ids(o.nodes) \cup {n} /\ p.nodes[n] = Node(labels, x)
      /\ \A m \in Ids(o.nodes) : m # n => p.nodes[m] = o.nodes[m]
  BY <1>2 DEF Ids, With
<1>5. SoundGraph(h)
  <2>1. IsFiniteSet(Ids(h.nodes))
    BY <1>3, FS_AddElement DEF Mirrors, SoundGraph
  <2>2. WellStored(h)
    <3>1. h = Graph(h.nodes, h.edges, h.nextN, h.nextE)
      BY <1>1
    <3>2. ASSUME NEW m \in Ids(h.nodes)
          PROVE  h.nodes[m] = Node(h.nodes[m].labels, h.nodes[m].x) /\ h.nodes[m].x # Raised
      <4>1. CASE m = n
        BY <1>3, <4>1 DEF Node
      <4>2. CASE m # n
        BY <1>3, <4>2 DEF Mirrors, SoundGraph, WellStored
      <4> QED BY <4>1, <4>2
    <3> QED BY <1>1, <3>1, <3>2 DEF Mirrors, SoundGraph, WellStored
  <2> QED BY <1>1, <1>3, <2>1, <2>2 DEF Mirrors, SoundGraph
<1>6. MirrorsNodes(h, p)
  <2>1. Ids(h.nodes) = (Ids(db.nodes) \cup Ids(p.nodes)) \ p.gone
    BY <1>2, <1>3, <1>4 DEF Mirrors, MirrorsNodes
  <2>2. ASSUME NEW m \in Ids(h.nodes)
        PROVE  h.nodes[m] = IF m \in Ids(p.nodes) THEN p.nodes[m] ELSE db.nodes[m]
    BY <1>3, <1>4 DEF Mirrors, MirrorsNodes
  <2>3. \A m \in p.gone : m \in Nat /\ m < h.nextN
    BY <1>1, <1>2 DEF Mirrors, MirrorsNodes, SoundGraph
  <2> QED BY <2>1, <2>2, <2>3 DEF MirrorsNodes
<1>7. MirrorsEdges(h, p)
  BY <1>1, <1>2 DEF Mirrors, MirrorsEdges
<1>8. Refs(g, o) \subseteq Refs(h, p) /\ n \in Ids(h.nodes) /\ NodeRef(n) \in Refs(h, p)
  BY <1>1, <1>2, <1>3 DEF Refs
<1> QED BY <1>5, <1>6, <1>7, <1>8 DEF Mirrors

\* A node that is gone: only the overlay takes the entry, which nothing reads.
LEMMA GhostWritten ==
  ASSUME NEW g, NEW o, Mirrors(g, o), NEW n \in o.gone, NEW labels, NEW x, NEW p,
         p = RecordNode(o, n, labels, x)
  PROVE  Mirrors(g, p) /\ Refs(g, o) \subseteq Refs(g, p)
<1>1. /\ p.nodes = With(o.nodes, n, Node(labels, x)) /\ p.edges = o.edges
      /\ p.gone = o.gone /\ p.cut = o.cut
  BY DEF RecordNode, Overlay
<1>2. /\ Ids(p.nodes) = Ids(o.nodes) \cup {n}
      /\ \A m \in Ids(o.nodes) : m # n => p.nodes[m] = o.nodes[m]
  BY <1>1 DEF Ids, With
<1>3. MirrorsNodes(g, p)
  BY <1>1, <1>2 DEF Mirrors, MirrorsNodes
<1>4. MirrorsEdges(g, p)
  BY <1>1 DEF Mirrors, MirrorsEdges
<1> QED BY <1>1, <1>3, <1>4 DEF Mirrors, Refs

\* An edge put into the graph and into the overlay: new, or with other
\* properties than before.
LEMMA EdgeWritten ==
  ASSUME NEW g, NEW o, Mirrors(g, o), NEW e \in Nat, NEW next \in Nat, g.nextE <= next, e < next,
         e \notin o.cut, NEW src \in Ids(g.nodes), NEW dst \in Ids(g.nodes), NEW type,
         NEW x, x # Raised,
         e \in Ids(db.edges) =>
           db.edges[e].src = src /\ db.edges[e].dst = dst /\ db.edges[e].type = type,
         NEW h, NEW p,
         h = Graph(g.nodes, With(g.edges, e, Edge(src, dst, type, x)), g.nextN, next),
         p = RecordEdge(o, e, Edge(src, dst, type, x))
  PROVE  /\ Mirrors(h, p) /\ Refs(g, o) \subseteq Refs(h, p) /\ EdgeRef(e) \in Refs(h, p)
<1>1. /\ h.edges = With(g.edges, e, Edge(src, dst, type, x)) /\ h.nodes = g.nodes
      /\ h.nextN = g.nextN /\ h.nextE = next
  BY DEF Graph
<1>2. /\ p.edges = With(o.edges, e, Edge(src, dst, type, x)) /\ p.nodes = o.nodes
      /\ p.gone = o.gone /\ p.cut = o.cut
  BY DEF RecordEdge, Overlay
<1>3. /\ Ids(h.edges) = Ids(g.edges) \cup {e} /\ h.edges[e] = Edge(src, dst, type, x)
      /\ \A d \in Ids(g.edges) : d # e => h.edges[d] = g.edges[d]
  BY <1>1 DEF Ids, With
<1>4. /\ Ids(p.edges) = Ids(o.edges) \cup {e} /\ p.edges[e] = Edge(src, dst, type, x)
      /\ \A d \in Ids(o.edges) : d # e => p.edges[d] = o.edges[d]
  BY <1>2 DEF Ids, With
<1>5. h.edges[e].src = src /\ h.edges[e].dst = dst /\ h.edges[e].type = type
  BY <1>3 DEF Edge
<1>6. SoundGraph(h)
  <2>1. IsFiniteSet(Ids(h.edges))
    BY <1>3, FS_AddElement DEF Mirrors, SoundGraph
  <2>2. ASSUME NEW d \in Ids(h.edges)
        PROVE  d \in Nat /\ d < h.nextE /\ {h.edges[d].src, h.edges[d].dst} \subseteq Ids(h.nodes)
    BY <1>1, <1>3, <1>5 DEF Mirrors, SoundGraph
  <2>3. WellStored(h)
    <3>1. h = Graph(h.nodes, h.edges, h.nextN, h.nextE)
      BY <1>1
    <3>2. ASSUME NEW d \in Ids(h.edges) PROVE h.edges[d].x # Raised
      <4>1. CASE d = e
        BY <1>3, <4>1 DEF Edge
      <4>2. CASE d # e
        BY <1>3, <4>2 DEF Mirrors, SoundGraph, WellStored
      <4> QED BY <4>1, <4>2
    <3> QED BY <1>1, <3>1, <3>2 DEF Mirrors, SoundGraph, WellStored
  <2> QED BY <1>1, <2>1, <2>2, <2>3 DEF Mirrors, SoundGraph
<1>7. MirrorsEdges(h, p)
  <2>1. Ids(h.edges) = (Ids(db.edges) \cup Ids(p.edges)) \ p.cut
    BY <1>2, <1>3, <1>4 DEF Mirrors, MirrorsEdges
  <2>2. ASSUME NEW d \in Ids(h.edges)
        PROVE  h.edges[d] = IF d \in Ids(p.edges) THEN p.edges[d] ELSE db.edges[d]
    BY <1>3, <1>4 DEF Mirrors, MirrorsEdges
  <2>3. \A d \in p.cut : d \in Nat /\ d < h.nextE
    BY <1>1, <1>2 DEF Mirrors, MirrorsEdges, SoundGraph
  <2>4. ASSUME NEW d \in (Ids(db.edges) \cap Ids(p.edges)) \ p.cut
        PROVE  /\ p.edges[d].src = db.edges[d].src /\ p.edges[d].dst = db.edges[d].dst
               /\ p.edges[d].type = db.edges[d].type
    BY <1>2, <1>3, <1>4, <1>5 DEF Mirrors, MirrorsEdges
  <2> QED BY <2>1, <2>2, <2>3, <2>4 DEF MirrorsEdges
<1>8. MirrorsNodes(h, p)
  BY <1>1, <1>2 DEF Mirrors, MirrorsNodes
<1>9. Refs(g, o) \subseteq Refs(h, p) /\ EdgeRef(e) \in Refs(h, p)
  BY <1>1, <1>2, <1>3 DEF Refs
<1> QED BY <1>6, <1>7, <1>8, <1>9 DEF Mirrors

\* What the graph and the overlay know of a node or an edge agrees.
LEMMA KnownEnds ==
  ASSUME NEW g, NEW o, Mirrors(g, o), NEW e \in Ids(g.edges)
  PROVE  /\ e \in Nat /\ e < g.nextE /\ e \notin o.cut
         /\ g.edges[e].src \in Ids(g.nodes) /\ g.edges[e].dst \in Ids(g.nodes)
         /\ e \in Ids(o.edges) => o.edges[e] = g.edges[e]
         /\ e \in Ids(db.edges) => /\ db.edges[e].src = g.edges[e].src
                                   /\ db.edges[e].dst = g.edges[e].dst
                                   /\ db.edges[e].type = g.edges[e].type
<1>1. e \in Nat /\ e < g.nextE /\ g.edges[e].src \in Ids(g.nodes) /\ g.edges[e].dst \in Ids(g.nodes)
  BY DEF Mirrors, SoundGraph
<1>2. /\ e \notin o.cut /\ e \in Ids(db.edges) \cup Ids(o.edges)
      /\ g.edges[e] = IF e \in Ids(o.edges) THEN o.edges[e] ELSE db.edges[e]
  BY DEF Mirrors, MirrorsEdges
<1>3. e \in Ids(db.edges) /\ e \in Ids(o.edges) =>
        /\ o.edges[e].src = db.edges[e].src /\ o.edges[e].dst = db.edges[e].dst
        /\ o.edges[e].type = db.edges[e].type
  BY <1>2 DEF Mirrors, MirrorsEdges
<1> QED BY <1>1, <1>2, <1>3

\* Nodes and edges taken out of the graph and marked in the overlay: every
\* edge of a node that goes is among the edges that go.
LEMMA Deleted ==
  ASSUME NEW g, NEW o, Mirrors(g, o), NEW N, NEW E,
         \A n \in N : n \in Ids(g.nodes) \cup o.gone, \A e \in E : e \in Ids(g.edges) \cup o.cut,
         \A e \in Ids(g.edges) \ E : g.edges[e].src \notin N /\ g.edges[e].dst \notin N,
         NEW h, NEW p,
         h = Graph(Without(g.nodes, N), Without(g.edges, E), g.nextN, g.nextE),
         p = RecordDeletedNodes(RecordDeletedEdges(o, E), N)
  PROVE  Mirrors(h, p) /\ Refs(g, o) \subseteq Refs(h, p)
<1>1. /\ h.nodes = Without(g.nodes, N) /\ h.edges = Without(g.edges, E)
      /\ h.nextN = g.nextN /\ h.nextE = g.nextE
  BY DEF Graph
<1>2. /\ p.nodes = Without(o.nodes, N) /\ p.edges = Without(o.edges, E)
      /\ p.gone = o.gone \cup N /\ p.cut = o.cut \cup E
  BY DEF RecordDeletedNodes, RecordDeletedEdges, Overlay
<1>3. /\ Ids(h.nodes) = Ids(g.nodes) \ N /\ \A n \in Ids(h.nodes) : h.nodes[n] = g.nodes[n]
      /\ Ids(h.edges) = Ids(g.edges) \ E /\ \A e \in Ids(h.edges) : h.edges[e] = g.edges[e]
  BY <1>1 DEF Ids, Without
<1>4. /\ Ids(p.nodes) = Ids(o.nodes) \ N /\ \A n \in Ids(p.nodes) : p.nodes[n] = o.nodes[n]
      /\ Ids(p.edges) = Ids(o.edges) \ E /\ \A e \in Ids(p.edges) : p.edges[e] = o.edges[e]
  BY <1>2 DEF Ids, Without
<1>5. SoundGraph(h)
  <2>1. IsFiniteSet(Ids(h.nodes)) /\ IsFiniteSet(Ids(h.edges))
    BY <1>3, FS_Subset DEF Mirrors, SoundGraph
  <2>2. ASSUME NEW e \in Ids(h.edges)
        PROVE  e \in Nat /\ e < h.nextE /\ {h.edges[e].src, h.edges[e].dst} \subseteq Ids(h.nodes)
    BY <1>1, <1>3 DEF Mirrors, SoundGraph
  <2>3. WellStored(h)
    <3>1. h = Graph(h.nodes, h.edges, h.nextN, h.nextE)
      BY <1>1
    <3> QED BY <1>3, <3>1 DEF Mirrors, SoundGraph, WellStored
  <2> QED BY <1>1, <1>3, <2>1, <2>2, <2>3 DEF Mirrors, SoundGraph
<1>6. MirrorsNodes(h, p)
  <2>1. \A n \in p.gone : n \in Nat /\ n < h.nextN
    BY <1>1, <1>2 DEF Mirrors, MirrorsNodes, SoundGraph
  <2>2. Ids(h.nodes) = (Ids(db.nodes) \cup Ids(p.nodes)) \ p.gone
    BY <1>2, <1>3, <1>4 DEF Mirrors, MirrorsNodes
  <2>3. ASSUME NEW m \in Ids(h.nodes)
        PROVE  h.nodes[m] = IF m \in Ids(p.nodes) THEN p.nodes[m] ELSE db.nodes[m]
    BY <1>3, <1>4 DEF Mirrors, MirrorsNodes
  <2> QED BY <2>1, <2>2, <2>3 DEF MirrorsNodes
<1>7. MirrorsEdges(h, p)
  <2>1. \A e \in p.cut : e \in Nat /\ e < h.nextE
    BY <1>1, <1>2 DEF Mirrors, MirrorsEdges, SoundGraph
  <2>2. Ids(h.edges) = (Ids(db.edges) \cup Ids(p.edges)) \ p.cut
    BY <1>2, <1>3, <1>4 DEF Mirrors, MirrorsEdges
  <2>3. ASSUME NEW d \in Ids(h.edges)
        PROVE  h.edges[d] = IF d \in Ids(p.edges) THEN p.edges[d] ELSE db.edges[d]
    BY <1>3, <1>4 DEF Mirrors, MirrorsEdges
  <2>4. ASSUME NEW d \in (Ids(db.edges) \cap Ids(p.edges)) \ p.cut
        PROVE  /\ p.edges[d].src = db.edges[d].src /\ p.edges[d].dst = db.edges[d].dst
               /\ p.edges[d].type = db.edges[d].type
    BY <1>2, <1>4 DEF Mirrors, MirrorsEdges
  <2> QED BY <2>1, <2>2, <2>3, <2>4 DEF MirrorsEdges
<1>8. Refs(g, o) \subseteq Refs(h, p)
  BY <1>2, <1>3 DEF Refs
<1> QED BY <1>5, <1>6, <1>7, <1>8 DEF Mirrors

-----------------------------------------------------------------------------
(***************************************************************************)
(* SET and REMOVE.                                                         *)
(***************************************************************************)

\* A live node that is written again.
LEMMA NodeUpdated ==
  ASSUME NEW g, NEW o, Mirrors(g, o), NEW n \in Ids(g.nodes), NEW labels, NEW x, x # Raised, NEW h, NEW p,
         h = WithNode(g, n, labels, x), p = RecordNode(o, n, labels, x)
  PROVE  Mirrors(h, p) /\ Refs(g, o) \subseteq Refs(h, p)
<1>1. n \in Nat /\ n < g.nextN /\ g.nextN \in Nat /\ g.nextN <= g.nextN /\ n \notin o.gone
  BY DEF Mirrors, SoundGraph, MirrorsNodes
<1>2. h = Graph(With(g.nodes, n, Node(labels, x)), g.edges, g.nextN, g.nextE)
  BY DEF WithNode
<1> QED BY <1>1, <1>2, NodeWritten

\* What the overlay records of a live node's property and labels is what the
\* transaction has written (update_node_props, add_label, remove_label).
LEMMA PendingNode ==
  ASSUME NEW g, NEW o, Mirrors(g, o), NEW n \in Ids(g.nodes), NEW labels, NEW x, NEW l,
         NEW h, h = WithNode(g, n, labels, x)
  PROVE  /\ labels = g.nodes[n].labels => UpdateNodeProps(h, o, n, x) = RecordNode(o, n, labels, x)
         /\ labels = g.nodes[n].labels \cup {l} /\ x = g.nodes[n].x =>
              AddLabelPending(h, o, n, l) = RecordNode(o, n, labels, x)
         /\ labels = g.nodes[n].labels \ {l} /\ x = g.nodes[n].x =>
              RemoveLabelPending(h, o, n, l) = RecordNode(o, n, labels, x)
<1>1. n \in Ids(h.nodes) /\ h.nodes[n].labels = labels /\ h.nodes[n].x = x
  BY DEF WithNode, Graph, With, Node, Ids
<1>2. n \in Ids(o.nodes) => o.nodes[n] = g.nodes[n]
  BY DEF Mirrors, MirrorsNodes
<1>3. LabelsIn(h, n) = labels /\ PropIn(h, n) = x
  BY <1>1 DEF LabelsIn, PropIn
<1>4. CASE n \in Ids(o.nodes)
  BY <1>2, <1>4 DEF UpdateNodeProps, AddLabelPending, RemoveLabelPending, Entry
<1>5. CASE n \notin Ids(o.nodes)
  <2>1. Entry(h, o, n).labels = labels /\ Entry(h, o, n).x = x
    BY <1>3, <1>5 DEF Entry, Node
  <2>2. labels = g.nodes[n].labels \cup {l} => labels \cup {l} = labels
    OBVIOUS
  <2>3. labels = g.nodes[n].labels \ {l} => labels \ {l} = labels
    OBVIOUS
  <2> QED BY <1>3, <1>5, <2>1, <2>2, <2>3 DEF UpdateNodeProps, AddLabelPending, RemoveLabelPending
<1> QED BY <1>4, <1>5

\* A live edge whose property is written.
LEMMA EdgeUpdated ==
  ASSUME NEW g, NEW o, Mirrors(g, o), NEW e \in Ids(g.edges), NEW x, x # Raised, NEW h, NEW p,
         h = WithEdge(g, e, Edge(g.edges[e].src, g.edges[e].dst, g.edges[e].type, x)),
         p = UpdateEdgeProps(h, o, e, x)
  PROVE  Mirrors(h, p) /\ Refs(g, o) \subseteq Refs(h, p)
<1> DEFINE src == g.edges[e].src
           dst == g.edges[e].dst
           type == g.edges[e].type
<1>1. /\ e \in Nat /\ e < g.nextE /\ e \notin o.cut /\ src \in Ids(g.nodes) /\ dst \in Ids(g.nodes)
      /\ e \in Ids(o.edges) => o.edges[e] = g.edges[e]
      /\ e \in Ids(db.edges) => db.edges[e].src = src /\ db.edges[e].dst = dst /\ db.edges[e].type = type
  BY KnownEnds
<1>2. g.nextE \in Nat /\ g.nextE <= g.nextE
  BY DEF Mirrors, SoundGraph
<1>3. h.edges[e].src = src /\ h.edges[e].dst = dst /\ h.edges[e].type = type
  BY DEF WithEdge, Graph, With, Edge, Ids
<1>4. p = RecordEdge(o, e, Edge(src, dst, type, x))
  BY <1>1, <1>3 DEF UpdateEdgeProps
<1>5. h = Graph(g.nodes, With(g.edges, e, Edge(src, dst, type, x)), g.nextN, g.nextE)
  BY DEF WithEdge
<1> HIDE DEF src, dst, type
<1> QED BY <1>1, <1>2, <1>4, <1>5, EdgeWritten

\* A failed step keeps nothing to compare, and doing nothing keeps all.
LEMMA KeepsTrivially ==
  ASSUME NEW s, NEW t
  PROVE  /\ t = Failed(s) => Keeps(s, t)
         /\ s.ok = TRUE /\ Mirrors(s.g, s.o) => Keeps(s, s)
<1>1. t = Failed(s) => t.ok = FALSE
  BY DEF Failed, Step
<1> QED BY <1>1 DEF Keeps

\* A step that goes on.
LEMMA KeepsStep ==
  ASSUME NEW s, NEW g, NEW o, NEW out, NEW t, t = Step(TRUE, g, o, out),
         Mirrors(g, o), Refs(s.g, s.o) \subseteq Refs(g, o)
  PROVE  Keeps(s, t)
<1>1. t.ok = TRUE /\ t.g = g /\ t.o = o
  BY DEF Step
<1> QED BY <1>1 DEF Keeps

\* One SET item.
LEMMA SetItemKeeps ==
  ASSUME NEW s, s.ok = TRUE, Mirrors(s.g, s.o), NEW V, NEW row \in Rows(s.g, s.o, V),
         NEW it, it.var \in V
  PROVE  Keeps(s, ApplySetItem(s, row, it))
<1> DEFINE v == EvaluateExpr(s.o, row, it.x)
           id == row[it.var].id
           isN == row[it.var].kind = "node"
           keep == it.op = "merge" /\ it.x.k = "none"
           x == IF ~keep THEN v ELSE IF isN THEN s.g.nodes[id].x ELSE s.g.edges[id].x
           t == ApplySetItem(s, row, it)
<1>1. CASE it.op = "labels" /\ ~isN
  <2>1. t = s
    BY <1>1 DEF ApplySetItem
  <2> QED BY <2>1, KeepsTrivially
<1>2. CASE ~(it.op = "labels" /\ ~isN)
           /\ (v = Raised \/ id \notin (IF isN THEN Ids(s.g.nodes) ELSE Ids(s.g.edges)))
  <2>1. t = Failed(s)
    BY <1>2 DEF ApplySetItem
  <2> QED BY <2>1, KeepsTrivially
<1>3. CASE v # Raised /\ isN /\ id \in Ids(s.g.nodes) /\ it.op = "labels"
  <2> DEFINE L == s.g.nodes[id].labels \cup {it.label}
             y == s.g.nodes[id].x
             g == WithNode(s.g, id, L, y)
             o == AddLabelPending(g, s.o, id, it.label)
  <2>1. t = Step(TRUE, g, o, s.out)
    BY <1>3 DEF ApplySetItem
  <2>2. o = RecordNode(s.o, id, L, y)
    BY <1>3, PendingNode
  <2>3. g = WithNode(s.g, id, L, y) /\ y # Raised
    BY <1>3 DEF Mirrors, SoundGraph, WellStored
  <2> HIDE DEF g, o, id, L, y
  <2>4. Mirrors(g, o) /\ Refs(s.g, s.o) \subseteq Refs(g, o)
    BY <1>3, <2>2, <2>3, NodeUpdated
  <2> QED BY <2>1, <2>4, KeepsStep
<1>4. CASE v # Raised /\ isN /\ id \in Ids(s.g.nodes) /\ it.op # "labels"
  <2> DEFINE L == s.g.nodes[id].labels
             g == WithNode(s.g, id, L, x)
             o == UpdateNodeProps(g, s.o, id, x)
  <2>1. t = Step(TRUE, g, o, s.out)
    BY <1>4 DEF ApplySetItem
  <2>5. x # Raised
    BY <1>4 DEF Mirrors, SoundGraph, WellStored
  <2> HIDE DEF x
  <2>2. o = RecordNode(s.o, id, L, x)
    BY SMTT(60), <1>4, PendingNode
  <2>3. g = WithNode(s.g, id, L, x)
    OBVIOUS
  <2> HIDE DEF g, o, id, L
  <2>4. Mirrors(g, o) /\ Refs(s.g, s.o) \subseteq Refs(g, o)
    BY <1>4, <2>2, <2>3, <2>5, NodeUpdated
  <2> QED BY <2>1, <2>4, KeepsStep
<1>5. CASE v # Raised /\ ~isN /\ id \in Ids(s.g.edges) /\ it.op # "labels"
  <2> DEFINE old == s.g.edges[id]
             g == WithEdge(s.g, id, Edge(old.src, old.dst, old.type, x))
             o == UpdateEdgeProps(g, s.o, id, x)
  <2>1. t = Step(TRUE, g, o, s.out)
    BY <1>5 DEF ApplySetItem
  <2>4. x # Raised /\ id \in Ids(s.g.edges)
    BY <1>5 DEF Mirrors, SoundGraph, WellStored
  <2> HIDE DEF x
  <2>2. g = WithEdge(s.g, id, Edge(s.g.edges[id].src, s.g.edges[id].dst, s.g.edges[id].type, x))
        /\ o = UpdateEdgeProps(g, s.o, id, x)
    OBVIOUS
  <2> HIDE DEF g, o, id
  <2>3. Mirrors(g, o) /\ Refs(s.g, s.o) \subseteq Refs(g, o)
    BY SMTT(60), <2>2, <2>4, EdgeUpdated
  <2> QED BY <2>1, <2>3, KeepsStep
<1> QED BY <1>1, <1>2, <1>3, <1>4, <1>5

\* One REMOVE item.
LEMMA RemoveItemKeeps ==
  ASSUME NEW s, s.ok = TRUE, Mirrors(s.g, s.o), NEW V, NEW row \in Rows(s.g, s.o, V),
         NEW it, it.var \in V
  PROVE  Keeps(s, ApplyRemoveItem(s, row, it))
<1> DEFINE id == row[it.var].id
           isN == row[it.var].kind = "node"
           x == Null
           t == ApplyRemoveItem(s, row, it)
<1>1. CASE it.op = "labels" /\ ~isN
  <2>1. t = s
    BY <1>1 DEF ApplyRemoveItem
  <2> QED BY <2>1, KeepsTrivially
<1>2. CASE it.op # "labels" /\ id \notin (IF isN THEN Ids(s.g.nodes) ELSE Ids(s.g.edges))
  <2>1. t = Failed(s)
    BY <1>2 DEF ApplyRemoveItem
  <2> QED BY <2>1, KeepsTrivially
<1>3. CASE isN /\ it.op = "labels" /\ id \in Ids(s.g.nodes)
  <2> DEFINE L == s.g.nodes[id].labels \ {it.label}
             y == s.g.nodes[id].x
             g == WithNode(s.g, id, L, y)
             o == RemoveLabelPending(g, s.o, id, it.label)
  <2>1. t = Step(TRUE, g, o, s.out)
    BY <1>3 DEF ApplyRemoveItem
  <2>2. o = RecordNode(s.o, id, L, y)
    BY SMTT(60), <1>3, PendingNode
  <2>3. g = WithNode(s.g, id, L, y) /\ y # Raised
    BY <1>3 DEF Mirrors, SoundGraph, WellStored
  <2> HIDE DEF g, o, id, L, y
  <2>4. Mirrors(g, o) /\ Refs(s.g, s.o) \subseteq Refs(g, o)
    BY <1>3, <2>2, <2>3, NodeUpdated
  <2> QED BY <2>1, <2>4, KeepsStep
<1>4. CASE isN /\ it.op = "labels" /\ id \notin Ids(s.g.nodes)
  <2> DEFINE o == RemoveLabelPending(s.g, s.o, id, it.label)
  <2>1. t = Step(TRUE, s.g, o, s.out)
    BY <1>4 DEF ApplyRemoveItem
  <2>2. id \in s.o.gone
    <3>1. it.var \in DOMAIN row
      BY DEF Rows
    <3> QED BY <1>4, <3>1, RowBinds
  <2>3. Mirrors(s.g, o) /\ Refs(s.g, s.o) \subseteq Refs(s.g, o)
    BY <2>2, GhostWritten DEF RemoveLabelPending
  <2> HIDE DEF o
  <2> QED BY <2>1, <2>3, KeepsStep
<1>5. CASE isN /\ it.op # "labels" /\ id \in Ids(s.g.nodes)
  <2> DEFINE L == s.g.nodes[id].labels
             g == WithNode(s.g, id, L, x)
             o == UpdateNodeProps(g, s.o, id, x)
  <2>1. t = Step(TRUE, g, o, s.out)
    BY <1>5 DEF ApplyRemoveItem
  <2>5. x # Raised
    BY WriteAssumption
  <2> HIDE DEF x
  <2>2. o = RecordNode(s.o, id, L, x)
    BY SMTT(60), <1>5, PendingNode
  <2>3. g = WithNode(s.g, id, L, x)
    OBVIOUS
  <2> HIDE DEF g, o, id, L
  <2>4. Mirrors(g, o) /\ Refs(s.g, s.o) \subseteq Refs(g, o)
    BY <1>5, <2>2, <2>3, <2>5, NodeUpdated
  <2> QED BY <2>1, <2>4, KeepsStep
<1>6. CASE ~isN /\ it.op # "labels" /\ id \in Ids(s.g.edges)
  <2> DEFINE old == s.g.edges[id]
             g == WithEdge(s.g, id, Edge(old.src, old.dst, old.type, x))
             o == UpdateEdgeProps(g, s.o, id, x)
  <2>1. t = Step(TRUE, g, o, s.out)
    BY <1>6 DEF ApplyRemoveItem
  <2>5. x # Raised
    BY WriteAssumption
  <2> HIDE DEF x
  <2>2. g = WithEdge(s.g, id, Edge(s.g.edges[id].src, s.g.edges[id].dst, s.g.edges[id].type, x))
        /\ o = UpdateEdgeProps(g, s.o, id, x)
    OBVIOUS
  <2>3. id \in Ids(s.g.edges)
    BY <1>6
  <2> HIDE DEF g, o, id
  <2>4. Mirrors(g, o) /\ Refs(s.g, s.o) \subseteq Refs(g, o)
    BY <2>2, <2>3, <2>5, EdgeUpdated
  <2> QED BY <2>1, <2>4, KeepsStep
<1> QED BY <1>1, <1>2, <1>3, <1>4, <1>5, <1>6

-----------------------------------------------------------------------------
(***************************************************************************)
(* Items and rows one after the other.                                     *)
(***************************************************************************)

\* The recursion of ApplyItems.
ItemsTrace(op, s, row, items, base, n, f) ==
  f = [i \in 0..n |-> IF i = 0 THEN base
                      ELSE ApplyItem(op, f[i-1], row, items[i])]

ItemsRun(op, s, row, items, f) ==
  /\ f[0] = s
  /\ \A i \in 1..Len(items) : f[i] = ApplyItem(op, f[i-1], row, items[i])
  /\ ApplyItems(op, s, row, items) = f[Len(items)]

\* The values of the recursion exist, and ApplyItems is the last of them.
LEMMA ItemsRuns ==
  ASSUME NEW op, NEW s, NEW row, NEW items, Len(items) \in Nat
  PROVE  \E f : ItemsRun(op, s, row, items, f)
<1> DEFINE n == Len(items)
           base == s
           S == {k \in 0..n : \E f : ItemsTrace(op, s, row, items, base, k, f)}
<1> HIDE DEF base
<1>1. 0 \in S
  <2> DEFINE f == [i \in 0..0 |-> base]
  <2>1. f = [i \in 0..0 |-> IF i = 0 THEN base
                            ELSE ApplyItem(op, f[i-1], row, items[i])]
    OBVIOUS
  <2> HIDE DEF f
  <2>2. ItemsTrace(op, s, row, items, base, 0, f)
    BY <2>1 DEF ItemsTrace
  <2> QED BY <2>2
<1>2. ASSUME NEW k \in 0..n, k # n, k \in S PROVE k + 1 \in S
  <2>1. PICK f : ItemsTrace(op, s, row, items, base, k, f)
    BY <1>2
  <2> DEFINE h == [i \in 0..(k + 1) |-> IF i = 0 THEN base
                                        ELSE ApplyItem(op, f[i-1], row, items[i])]
  <2>2. \A i \in 0..k : h[i] = f[i]
    BY <2>1 DEF ItemsTrace
  <2>3. \A i \in 0..(k + 1) : i # 0 => h[i-1] = f[i-1]
    <3> HIDE DEF h
    <3>1. \A i \in 0..(k + 1) : i # 0 => i - 1 \in 0..k
      OBVIOUS
    <3> QED BY <2>2, <3>1
  <2>4. h = [i \in 0..(k + 1) |-> IF i = 0 THEN base
                                  ELSE ApplyItem(op, h[i-1], row, items[i])]
    BY <2>3
  <2> HIDE DEF h
  <2>5. ItemsTrace(op, s, row, items, base, k + 1, h)
    BY <2>4 DEF ItemsTrace
  <2>6. k + 1 \in 0..n
    BY <1>2
  <2> QED BY <2>5, <2>6
<1>3. n \in S
  <2> HIDE DEF S
  <2>1. 0..n \subseteq S
    BY <1>1, <1>2, CountUp
  <2> QED BY <2>1
<1> DEFINE f == CHOOSE f : ItemsTrace(op, s, row, items, base, n, f)
<1>4. ItemsTrace(op, s, row, items, base, n, f)
  BY <1>3
<1>5. ApplyItems(op, s, row, items) = f[n]
  BY DEF ApplyItems, ItemsTrace, base
<1> HIDE DEF f
<1>6. /\ f[0] = base
      /\ \A i \in 1..n : f[i] = ApplyItem(op, f[i-1], row, items[i])
  BY <1>4 DEF ItemsTrace
<1>7. ItemsRun(op, s, row, items, f)
  BY <1>5, <1>6 DEF ItemsRun, base
<1> QED BY <1>7

\* The recursion of UpdateRows.
UpdateTrace(op, s, rs, items, base, n, f) ==
  f = [i \in 0..n |-> IF i = 0 THEN base
                      ELSE ApplyItems(op, f[i-1], rs[i], items)]

UpdateRun(op, s, rs, items, f) ==
  /\ f[0] = s
  /\ \A i \in 1..Len(rs) : f[i] = ApplyItems(op, f[i-1], rs[i], items)
  /\ UpdateRows(op, s, rs, items) = f[Len(rs)]

\* The values of the recursion exist, and UpdateRows is the last of them.
LEMMA UpdateRuns ==
  ASSUME NEW op, NEW s, NEW rs, NEW items, Len(rs) \in Nat
  PROVE  \E f : UpdateRun(op, s, rs, items, f)
<1> DEFINE n == Len(rs)
           base == s
           S == {k \in 0..n : \E f : UpdateTrace(op, s, rs, items, base, k, f)}
<1> HIDE DEF base
<1>1. 0 \in S
  <2> DEFINE f == [i \in 0..0 |-> base]
  <2>1. f = [i \in 0..0 |-> IF i = 0 THEN base
                            ELSE ApplyItems(op, f[i-1], rs[i], items)]
    OBVIOUS
  <2> HIDE DEF f
  <2>2. UpdateTrace(op, s, rs, items, base, 0, f)
    BY <2>1 DEF UpdateTrace
  <2> QED BY <2>2
<1>2. ASSUME NEW k \in 0..n, k # n, k \in S PROVE k + 1 \in S
  <2>1. PICK f : UpdateTrace(op, s, rs, items, base, k, f)
    BY <1>2
  <2> DEFINE h == [i \in 0..(k + 1) |-> IF i = 0 THEN base
                                        ELSE ApplyItems(op, f[i-1], rs[i], items)]
  <2>2. \A i \in 0..k : h[i] = f[i]
    BY <2>1 DEF UpdateTrace
  <2>3. \A i \in 0..(k + 1) : i # 0 => h[i-1] = f[i-1]
    <3> HIDE DEF h
    <3>1. \A i \in 0..(k + 1) : i # 0 => i - 1 \in 0..k
      OBVIOUS
    <3> QED BY <2>2, <3>1
  <2>4. h = [i \in 0..(k + 1) |-> IF i = 0 THEN base
                                  ELSE ApplyItems(op, h[i-1], rs[i], items)]
    BY <2>3
  <2> HIDE DEF h
  <2>5. UpdateTrace(op, s, rs, items, base, k + 1, h)
    BY <2>4 DEF UpdateTrace
  <2>6. k + 1 \in 0..n
    BY <1>2
  <2> QED BY <2>5, <2>6
<1>3. n \in S
  <2> HIDE DEF S
  <2>1. 0..n \subseteq S
    BY <1>1, <1>2, CountUp
  <2> QED BY <2>1
<1> DEFINE f == CHOOSE f : UpdateTrace(op, s, rs, items, base, n, f)
<1>4. UpdateTrace(op, s, rs, items, base, n, f)
  BY <1>3
<1>5. UpdateRows(op, s, rs, items) = f[n]
  BY DEF UpdateRows, UpdateTrace, base
<1> HIDE DEF f
<1>6. /\ f[0] = base
      /\ \A i \in 1..n : f[i] = ApplyItems(op, f[i-1], rs[i], items)
  BY <1>4 DEF UpdateTrace
<1>7. UpdateRun(op, s, rs, items, f)
  BY <1>5, <1>6 DEF UpdateRun, base
<1> QED BY <1>7

\* Steps that keep agree step after step.
LEMMA KeepsOn ==
  ASSUME NEW s, NEW t, NEW u, Keeps(s, t), t.ok => Keeps(t, u), ~t.ok => u = t
  PROVE  Keeps(s, u)
BY DEF Keeps

\* All items of a row.
LEMMA ItemsKeep ==
  ASSUME NEW op \in {"set", "remove"}, NEW s, s.ok = TRUE, Mirrors(s.g, s.o),
         NEW V, NEW row \in Rows(s.g, s.o, V), NEW items, Names(items, V)
  PROVE  Keeps(s, ApplyItems(op, s, row, items))
<1>1. Len(items) \in Nat
  BY DEF Names
<1>2. PICK f : ItemsRun(op, s, row, items, f)
  BY <1>1, ItemsRuns
<1> DEFINE S == {i \in 0..Len(items) : Keeps(s, f[i])}
<1>3. 0 \in S
  <2>1. Keeps(s, s)
    BY KeepsTrivially
  <2>2. f[0] = s
    BY <1>2 DEF ItemsRun
  <2> QED BY <1>1, <2>1, <2>2
<1>4. ASSUME NEW i \in 0..Len(items), i # Len(items), i \in S PROVE i + 1 \in S
  <2>1. i + 1 \in 1..Len(items) /\ i + 1 \in 0..Len(items) /\ (i + 1) - 1 = i
    BY <1>1, <1>4
  <2>2. f[i + 1] = ApplyItem(op, f[i], row, items[i + 1])
    BY <1>2, <2>1 DEF ItemsRun
  <2>3. items[i + 1].var \in V
    BY <2>1 DEF Names
  <2> DEFINE t == f[i]
             u == f[i + 1]
  <2>4. Keeps(s, t)
    BY <1>4
  <2>5. ASSUME t.ok PROVE Keeps(t, u)
    <3>1. t.ok = TRUE /\ Mirrors(t.g, t.o) /\ Refs(s.g, s.o) \subseteq Refs(t.g, t.o)
      BY <2>4, <2>5 DEF Keeps
    <3>2. row \in Rows(t.g, t.o, V)
      BY <3>1, RowsGrow
    <3> HIDE DEF t
    <3>3. Keeps(t, ApplySetItem(t, row, items[i + 1])) /\ Keeps(t, ApplyRemoveItem(t, row, items[i + 1]))
      BY <2>3, <3>1, <3>2, SetItemKeeps, RemoveItemKeeps
    <3>4. u = ApplyItem(op, t, row, items[i + 1])
      BY <2>2 DEF t
    <3> QED BY <3>1, <3>3, <3>4 DEF ApplyItem
  <2>6. ~t.ok => u = t
    BY <2>2 DEF ApplyItem
  <2> HIDE DEF t, u
  <2>7. Keeps(s, u)
    BY <2>4, <2>5, <2>6, KeepsOn
  <2> QED BY <2>1, <2>7 DEF u
<1>5. Len(items) \in S
  <2> HIDE DEF S
  <2>1. 0..Len(items) \subseteq S
    BY <1>1, <1>3, <1>4, CountUp
  <2> QED BY <1>1, <2>1
<1> QED BY <1>2, <1>5 DEF ItemsRun

\* Items of a row after a failed step.
LEMMA ItemsStop ==
  ASSUME NEW op, NEW s, ~s.ok, NEW row, NEW items, Len(items) \in Nat
  PROVE  ApplyItems(op, s, row, items) = s
<1>1. PICK f : ItemsRun(op, s, row, items, f)
  BY ItemsRuns
<1> DEFINE S == {i \in 0..Len(items) : f[i] = s}
<1>2. 0 \in S
  BY <1>1 DEF ItemsRun
<1>3. ASSUME NEW i \in 0..Len(items), i # Len(items), i \in S PROVE i + 1 \in S
  <2>1. i + 1 \in 1..Len(items) /\ i + 1 \in 0..Len(items) /\ (i + 1) - 1 = i
    BY <1>3
  <2>2. f[i + 1] = ApplyItem(op, f[i], row, items[i + 1])
    BY <1>1, <2>1 DEF ItemsRun
  <2> QED BY <1>3, <2>1, <2>2 DEF ApplyItem
<1>4. Len(items) \in S
  <2> HIDE DEF S
  <2>1. 0..Len(items) \subseteq S
    BY <1>2, <1>3, CountUp
  <2> QED BY <2>1
<1> QED BY <1>1, <1>4 DEF ItemsRun

\* The items applied to all rows.
LEMMA UpdateKeeps ==
  ASSUME NEW op \in {"set", "remove"}, NEW s, s.ok = TRUE, Mirrors(s.g, s.o),
         NEW V, NEW rs \in Seq(Rows(s.g, s.o, V)), NEW items, Names(items, V)
  PROVE  Keeps(s, UpdateRows(op, s, rs, items))
<1>1. Len(rs) \in Nat /\ Len(items) \in Nat
  BY DEF Names
<1>2. PICK f : UpdateRun(op, s, rs, items, f)
  BY <1>1, UpdateRuns
<1> DEFINE S == {i \in 0..Len(rs) : Keeps(s, f[i])}
<1>3. 0 \in S
  <2>1. Keeps(s, s)
    BY KeepsTrivially
  <2>2. f[0] = s
    BY <1>2 DEF UpdateRun
  <2> QED BY <1>1, <2>1, <2>2
<1>4. ASSUME NEW i \in 0..Len(rs), i # Len(rs), i \in S PROVE i + 1 \in S
  <2>1. i + 1 \in 1..Len(rs) /\ i + 1 \in 0..Len(rs) /\ (i + 1) - 1 = i
    BY <1>1, <1>4
  <2> DEFINE t == f[i]
             u == f[i + 1]
             r == rs[i + 1]
  <2>2. u = ApplyItems(op, t, r, items)
    BY <1>2, <2>1 DEF UpdateRun
  <2>3. r \in Rows(s.g, s.o, V)
    BY <2>1
  <2>4. Keeps(s, t)
    BY <1>4
  <2> HIDE DEF t, u, r
  <2>5. ASSUME t.ok PROVE Keeps(t, u)
    <3>1. t.ok = TRUE /\ Mirrors(t.g, t.o) /\ Refs(s.g, s.o) \subseteq Refs(t.g, t.o)
      BY <2>4, <2>5 DEF Keeps
    <3>2. r \in Rows(t.g, t.o, V)
      BY <2>3, <3>1, RowsGrow
    <3> QED BY <2>2, <3>1, <3>2, ItemsKeep
  <2>6. ASSUME ~t.ok PROVE u = t
    <3>1. ApplyItems(op, t, r, items) = t
      BY <1>1, <2>6, ItemsStop
    <3> QED BY <2>2, <3>1
  <2>7. Keeps(s, u)
    BY <2>4, <2>5, <2>6, KeepsOn
  <2> QED BY <2>1, <2>7 DEF u
<1>5. Len(rs) \in S
  <2> HIDE DEF S
  <2>1. 0..Len(rs) \subseteq S
    BY <1>1, <1>3, <1>4, CountUp
  <2> QED BY <1>1, <2>1
<1> QED BY <1>2, <1>5 DEF UpdateRun

-----------------------------------------------------------------------------
(***************************************************************************)
(* CREATE: the nodes and edges of a pattern.                               *)
(***************************************************************************)

\* A placing that goes on keeps what a step keeps, and its row binds V.
Placed(s, t, V) == Keeps(s, t) /\ (t.ok => t.row \in Rows(t.g, t.o, V))

\* The variables of the first i hops of a pattern.
Seen(pat, i) == {pat.node.var} \cup UNION {{pat.hops[j].var, pat.hops[j].node.var} : j \in 1..i}

\* How the seen variables grow into those of the pattern.
LEMMA SeenGrows ==
  ASSUME NEW pat, pat.hops \in Seq(Range(pat.hops))
  PROVE  /\ Len(pat.hops) \in Nat
         /\ Seen(pat, 0) = {pat.node.var}
         /\ \A i \in 0..Len(pat.hops) : i # Len(pat.hops) =>
              Seen(pat, i + 1) = Seen(pat, i) \cup {pat.hops[i + 1].var, pat.hops[i + 1].node.var}
         /\ \A i \in 0..Len(pat.hops) : Seen(pat, i) \subseteq PatternVars(pat)
         /\ Seen(pat, Len(pat.hops)) = PatternVars(pat)
         /\ pat.node.var \in PatternVars(pat)
         /\ \A i \in 1..Len(pat.hops) : {pat.hops[i].var, pat.hops[i].node.var} \subseteq PatternVars(pat)
<1>1. Len(pat.hops) \in Nat /\ DOMAIN pat.hops = 1..Len(pat.hops)
  OBVIOUS
<1>2. Range(pat.hops) = {pat.hops[j] : j \in 1..Len(pat.hops)}
  BY <1>1 DEF Range
<1>3. Seen(pat, 0) = {pat.node.var}
  BY DEF Seen
<1>4. ASSUME NEW i \in 0..Len(pat.hops)
      PROVE  Seen(pat, i + 1) = Seen(pat, i) \cup {pat.hops[i + 1].var, pat.hops[i + 1].node.var}
  <2>1. 1..(i + 1) = (1..i) \cup {i + 1}
    BY <1>1
  <2> QED BY <2>1 DEF Seen
<1>5. Seen(pat, Len(pat.hops)) = PatternVars(pat)
  BY <1>2 DEF Seen, PatternVars
<1>6. \A i \in 0..Len(pat.hops) : Seen(pat, i) \subseteq Seen(pat, Len(pat.hops))
  BY <1>1 DEF Seen
<1>7. \A i \in 1..Len(pat.hops) : {pat.hops[i].var, pat.hops[i].node.var} \subseteq Seen(pat, Len(pat.hops))
  BY DEF Seen
<1>8. pat.node.var \in Seen(pat, Len(pat.hops))
  BY DEF Seen
<1> QED BY <1>1, <1>3, <1>4, <1>5, <1>6, <1>7, <1>8

\* The fields of a placing.
LEMMA PlaceIs ==
  ASSUME NEW ok, NEW g, NEW o, NEW row, NEW at, NEW t, t = Place(ok, g, o, row, at)
  PROVE  t.ok = ok /\ t.g = g /\ t.o = o /\ t.row = row /\ t.at = at
BY DEF Place

\* A placing that cannot go on.
LEMMA MisplacedKeeps ==
  ASSUME NEW s, NEW t, NEW u, u = Misplaced(t), NEW V
  PROVE  Placed(s, u, V)
<1>1. u.ok = FALSE
  BY DEF Misplaced, Place
<1> QED BY <1>1 DEF Placed, Keeps

\* A node bound before or created.
LEMMA NodePlaced ==
  ASSUME NEW t, t.ok = TRUE, Mirrors(t.g, t.o), NEW V, t.row \in Rows(t.g, t.o, V),
         NEW np, np.var \in Variables, NEW merging
  PROVE  Placed(t, PlaceNode(t, np, merging), V \cup {np.var})
<1> DEFINE x == EvaluateExpr(t.o, t.row, np.x)
           n == t.g.nextN
           u == PlaceNode(t, np, merging)
<1>1. CASE BoundNode(t.row, np.var)
  <2> DEFINE at == t.row[np.var].id
  <2>1. u = Place(t.ok, t.g, t.o, t.row, at)
    BY <1>1 DEF PlaceNode
  <2> HIDE DEF at, u
  <2>2. u.ok = TRUE /\ u.g = t.g /\ u.o = t.o /\ u.row = t.row
    BY <2>1, PlaceIs
  <2>3. t.row \in Rows(t.g, t.o, V \cup {np.var})
    BY <1>1 DEF Rows, BoundNode
  <2> QED BY <2>2, <2>3 DEF Placed, Keeps, u
<1>2. CASE ~BoundNode(t.row, np.var) /\ BadProperty(x, np.x, merging)
  <2>1. u = Misplaced(t)
    BY <1>2 DEF PlaceNode
  <2> QED BY <2>1, MisplacedKeeps
<1>3. CASE ~BoundNode(t.row, np.var) /\ ~BadProperty(x, np.x, merging)
  <2> DEFINE L == LabelSet(np.label)
             g == Graph(With(t.g.nodes, n, Node(L, x)), t.g.edges, n + 1, t.g.nextE)
             o == RecordNode(t.o, n, L, x)
             row == With(t.row, np.var, NodeRef(n))
  <2>1. u = Place(t.ok, g, o, row, n)
    BY <1>3 DEF PlaceNode
  <2>2. n \in Nat /\ n + 1 \in Nat /\ t.g.nextN <= n + 1 /\ n < n + 1 /\ n \notin t.o.gone
    BY DEF Mirrors, SoundGraph, MirrorsNodes
  <2>3. g = Graph(With(t.g.nodes, n, Node(L, x)), t.g.edges, n + 1, t.g.nextE) /\ o = RecordNode(t.o, n, L, x)
    OBVIOUS
  <2>8. x # Raised
    BY <1>3 DEF BadProperty
  <2> HIDE DEF g, o, L, x, n, u
  <2>4. Mirrors(g, o) /\ Refs(t.g, t.o) \subseteq Refs(g, o) /\ NodeRef(n) \in Refs(g, o)
    BY <2>2, <2>3, <2>8, NodeWritten
  <2>5. t.row \in Rows(g, o, V)
    BY <2>4, RowsGrow
  <2>6. row \in Rows(g, o, V \cup {np.var})
    BY <2>4, <2>5, RowWith
  <2> HIDE DEF row
  <2>7. u.ok = TRUE /\ u.g = g /\ u.o = o /\ u.row = row
    BY <2>1, PlaceIs
  <2> QED BY <2>4, <2>6, <2>7 DEF Placed, Keeps, u
<1> QED BY <1>1, <1>2, <1>3

\* The edge of a hop.
LEMMA EdgePlaced ==
  ASSUME NEW t, t.ok = TRUE, Mirrors(t.g, t.o), NEW V, t.row \in Rows(t.g, t.o, V),
         NEW a, NEW h, h.var \in Variables, NEW merging
  PROVE  Placed(t, PlaceEdge(t, a, h, merging), V \cup {h.var})
<1> DEFINE x == EvaluateExpr(t.o, t.row, h.x)
           e == t.g.nextE
           src == IF h.incoming THEN t.at ELSE a
           dst == IF h.incoming THEN a ELSE t.at
           edge == Edge(src, dst, h.type, x)
           u == PlaceEdge(t, a, h, merging)
<1>1. CASE BadProperty(x, h.x, merging) \/ ~({a, t.at} \subseteq Ids(t.g.nodes))
  <2>1. u = Misplaced(t)
    BY <1>1 DEF PlaceEdge
  <2> QED BY <2>1, MisplacedKeeps
<1>2. CASE ~(BadProperty(x, h.x, merging) \/ ~({a, t.at} \subseteq Ids(t.g.nodes)))
  <2> DEFINE g == Graph(t.g.nodes, With(t.g.edges, e, edge), t.g.nextN, e + 1)
             o == RecordEdge(t.o, e, edge)
             row == With(t.row, h.var, EdgeRef(e))
  <2>1. u = Place(TRUE, g, o, row, t.at)
    BY <1>2 DEF PlaceEdge
  <2>2. e \in Nat /\ e + 1 \in Nat /\ t.g.nextE <= e + 1 /\ e < e + 1 /\ e \notin t.o.cut
    BY DEF Mirrors, SoundGraph, MirrorsEdges
  <2>3. e \notin Ids(db.edges)
    <3>1. e \notin Ids(t.g.edges)
      BY <2>2 DEF Mirrors, SoundGraph
    <3> QED BY <2>2, <3>1 DEF Mirrors, MirrorsEdges
  <2>4. src \in Ids(t.g.nodes) /\ dst \in Ids(t.g.nodes)
    BY <1>2
  <2>5. /\ g = Graph(t.g.nodes, With(t.g.edges, e, Edge(src, dst, h.type, x)), t.g.nextN, e + 1)
        /\ o = RecordEdge(t.o, e, Edge(src, dst, h.type, x))
    OBVIOUS
  <2>10. x # Raised
    BY <1>2 DEF BadProperty
  <2> HIDE DEF g, o, e, x, src, dst, edge, u
  <2>6. Mirrors(g, o) /\ Refs(t.g, t.o) \subseteq Refs(g, o) /\ EdgeRef(e) \in Refs(g, o)
    BY <2>2, <2>3, <2>4, <2>5, <2>10, EdgeWritten
  <2>7. t.row \in Rows(g, o, V)
    BY <2>6, RowsGrow
  <2>8. row \in Rows(g, o, V \cup {h.var})
    BY <2>6, <2>7, RowWith
  <2> HIDE DEF row
  <2>9. u.ok = TRUE /\ u.g = g /\ u.o = o /\ u.row = row
    BY <2>1 DEF Place
  <2> QED BY <2>6, <2>8, <2>9 DEF Placed, Keeps, u
<1> QED BY <1>1, <1>2

\* A hop: its far node, then its edge.
LEMMA HopPlaced ==
  ASSUME NEW t, t.ok = TRUE, Mirrors(t.g, t.o), NEW V, t.row \in Rows(t.g, t.o, V),
         NEW h, h.var \in Variables, h.node.var \in Variables, NEW merging
  PROVE  Placed(t, PlaceHop(t, h, merging), V \cup {h.var, h.node.var})
<1> DEFINE u == PlaceNode(t, h.node, merging)
           w == PlaceEdge(u, t.at, h, merging)
<1>1. PlaceHop(t, h, merging) = w
  BY DEF PlaceHop
<1>2. Placed(t, u, V \cup {h.node.var})
  BY NodePlaced
<1>3. CASE ~u.ok
  <2>1. w = Misplaced(u)
    BY <1>3 DEF PlaceEdge
  <2> QED BY <1>1, <2>1, MisplacedKeeps
<1>4. CASE u.ok
  <2> HIDE DEF u, w
  <2>1. /\ u.ok = TRUE /\ Mirrors(u.g, u.o) /\ Refs(t.g, t.o) \subseteq Refs(u.g, u.o)
        /\ u.row \in Rows(u.g, u.o, V \cup {h.node.var})
    BY <1>2, <1>4 DEF Placed, Keeps
  <2>2. Placed(u, w, (V \cup {h.node.var}) \cup {h.var})
    BY <2>1, EdgePlaced DEF w
  <2>3. (V \cup {h.node.var}) \cup {h.var} = V \cup {h.var, h.node.var}
    OBVIOUS
  <2>4. Placed(u, w, V \cup {h.var, h.node.var})
    BY <2>2, <2>3
  <2>5. Placed(t, w, V \cup {h.var, h.node.var})
    BY <2>1, <2>4 DEF Placed, Keeps
  <2> QED BY <1>1, <2>5
<1> QED BY <1>3, <1>4

\* The recursion of CreatePattern.
CreateTrace(s, row, pat, merging, base, n, f) ==
  f = [i \in 0..n |-> IF i = 0 THEN base
                      ELSE PlaceHop(f[i-1], pat.hops[i], merging)]

CreateRun(s, row, pat, merging, f) ==
  /\ f[0] = PlaceNode(Place(TRUE, s.g, s.o, row, 0), pat.node, merging)
  /\ \A i \in 1..Len(pat.hops) : f[i] = PlaceHop(f[i-1], pat.hops[i], merging)
  /\ CreatePattern(s, row, pat, merging) = f[Len(pat.hops)]

\* The values of the recursion exist, and CreatePattern is the last of them.
LEMMA CreateRuns ==
  ASSUME NEW s, NEW row, NEW pat, NEW merging, Len(pat.hops) \in Nat
  PROVE  \E f : CreateRun(s, row, pat, merging, f)
<1> DEFINE n == Len(pat.hops)
           base == PlaceNode(Place(TRUE, s.g, s.o, row, 0), pat.node, merging)
           S == {k \in 0..n : \E f : CreateTrace(s, row, pat, merging, base, k, f)}
<1> HIDE DEF base
<1>1. 0 \in S
  <2> DEFINE f == [i \in 0..0 |-> base]
  <2>1. f = [i \in 0..0 |-> IF i = 0 THEN base
                            ELSE PlaceHop(f[i-1], pat.hops[i], merging)]
    OBVIOUS
  <2> HIDE DEF f
  <2>2. CreateTrace(s, row, pat, merging, base, 0, f)
    BY <2>1 DEF CreateTrace
  <2> QED BY <2>2
<1>2. ASSUME NEW k \in 0..n, k # n, k \in S PROVE k + 1 \in S
  <2>1. PICK f : CreateTrace(s, row, pat, merging, base, k, f)
    BY <1>2
  <2> DEFINE h == [i \in 0..(k + 1) |-> IF i = 0 THEN base
                                        ELSE PlaceHop(f[i-1], pat.hops[i], merging)]
  <2>2. \A i \in 0..k : h[i] = f[i]
    BY <2>1 DEF CreateTrace
  <2>3. \A i \in 0..(k + 1) : i # 0 => h[i-1] = f[i-1]
    <3> HIDE DEF h
    <3>1. \A i \in 0..(k + 1) : i # 0 => i - 1 \in 0..k
      OBVIOUS
    <3> QED BY <2>2, <3>1
  <2>4. h = [i \in 0..(k + 1) |-> IF i = 0 THEN base
                                  ELSE PlaceHop(h[i-1], pat.hops[i], merging)]
    BY <2>3
  <2> HIDE DEF h
  <2>5. CreateTrace(s, row, pat, merging, base, k + 1, h)
    BY <2>4 DEF CreateTrace
  <2>6. k + 1 \in 0..n
    BY <1>2
  <2> QED BY <2>5, <2>6
<1>3. n \in S
  <2> HIDE DEF S
  <2>1. 0..n \subseteq S
    BY <1>1, <1>2, CountUp
  <2> QED BY <2>1
<1> DEFINE f == CHOOSE f : CreateTrace(s, row, pat, merging, base, n, f)
<1>4. CreateTrace(s, row, pat, merging, base, n, f)
  BY <1>3
<1>5. CreatePattern(s, row, pat, merging) = f[n]
  BY DEF CreatePattern, CreateTrace, base
<1> HIDE DEF f
<1>6. /\ f[0] = base
      /\ \A i \in 1..n : f[i] = PlaceHop(f[i-1], pat.hops[i], merging)
  BY <1>4 DEF CreateTrace
<1>7. CreateRun(s, row, pat, merging, f)
  BY <1>5, <1>6 DEF CreateRun, base
<1> QED BY <1>7

\* The whole pattern.
LEMMA PatternPlaced ==
  ASSUME NEW s, Mirrors(s.g, s.o), NEW V, NEW row \in Rows(s.g, s.o, V), NEW pat,
         pat.hops \in Seq(Range(pat.hops)), PatternVars(pat) \subseteq Variables, NEW merging
  PROVE  Placed(s, CreatePattern(s, row, pat, merging), V \cup PatternVars(pat))
<1> DEFINE n == Len(pat.hops)
<1>1. n \in Nat /\ Seen(pat, n) = PatternVars(pat)
  BY SeenGrows
<1>2. PICK f : CreateRun(s, row, pat, merging, f)
  BY <1>1, CreateRuns
<1> DEFINE S == {i \in 0..n : Placed(s, f[i], V \cup Seen(pat, i))}
<1>3. 0 \in S
  <2> DEFINE t == Place(TRUE, s.g, s.o, row, 0)
  <2>1. f[0] = PlaceNode(t, pat.node, merging)
    BY <1>2 DEF CreateRun
  <2>2. t.ok = TRUE /\ t.g = s.g /\ t.o = s.o /\ t.row = row
    BY DEF Place
  <2>3. pat.node.var \in Variables
    BY SeenGrows
  <2> HIDE DEF t
  <2>4. Placed(t, f[0], V \cup {pat.node.var})
    <3>1. t.ok = TRUE /\ Mirrors(t.g, t.o) /\ t.row \in Rows(t.g, t.o, V)
      BY <2>2
    <3>2. Placed(t, PlaceNode(t, pat.node, merging), V \cup {pat.node.var})
      BY <2>3, <3>1, NodePlaced
    <3> QED BY <2>1, <3>2
  <2>5. Placed(s, f[0], V \cup Seen(pat, 0))
    BY <2>2, <2>4, SeenGrows DEF Placed, Keeps
  <2> QED BY <1>1, <2>5
<1>4. ASSUME NEW i \in 0..n, i # n, i \in S PROVE i + 1 \in S
  <2>1. i + 1 \in 1..n /\ i + 1 \in 0..n /\ (i + 1) - 1 = i
    BY <1>1, <1>4
  <2> DEFINE t == f[i]
             u == f[i + 1]
             h == pat.hops[i + 1]
             W == V \cup Seen(pat, i)
  <2>2. u = PlaceHop(t, h, merging)
    BY <1>2, <2>1 DEF CreateRun
  <2>3. Placed(s, t, W)
    BY <1>4
  <2>4. W \cup {h.var, h.node.var} = V \cup Seen(pat, i + 1) /\ h.var \in Variables /\ h.node.var \in Variables
    BY <1>4, <2>1, SeenGrows
  <2> HIDE DEF t, u, h, W
  <2>5. CASE ~t.ok
    <3>1. u = t
      BY <2>2, <2>5 DEF PlaceHop
    <3>2. Placed(s, u, V \cup Seen(pat, i + 1))
      BY <2>3, <2>5, <3>1 DEF Placed
    <3> QED BY <2>1, <3>2 DEF u
  <2>6. CASE t.ok
    <3>1. t.ok = TRUE /\ Mirrors(t.g, t.o) /\ Refs(s.g, s.o) \subseteq Refs(t.g, t.o) /\ t.row \in Rows(t.g, t.o, W)
      BY <2>3, <2>6 DEF Placed, Keeps
    <3>2. Placed(t, u, W \cup {h.var, h.node.var})
      BY <2>2, <2>4, <3>1, HopPlaced
    <3>3. Placed(s, u, V \cup Seen(pat, i + 1))
      BY <2>4, <3>1, <3>2 DEF Placed, Keeps
    <3> QED BY <2>1, <3>3 DEF u
  <2> QED BY <2>5, <2>6
<1>5. n \in S
  <2> HIDE DEF S
  <2>1. 0..n \subseteq S
    BY <1>1, <1>3, <1>4, CountUp
  <2> QED BY <1>1, <2>1
<1>6. CreatePattern(s, row, pat, merging) = f[n]
  BY <1>2 DEF CreateRun
<1> QED BY <1>1, <1>5, <1>6

-----------------------------------------------------------------------------
(***************************************************************************)
(* What the reads answer.                                                  *)
(***************************************************************************)

\* The property of a live node and of a live edge.
LEMMA PropsRead ==
  ASSUME NEW g, NEW o, Mirrors(g, o)
  PROVE  /\ \A n \in Ids(g.nodes) : /\ NodeProps(o, n) = g.nodes[n].x
                                    /\ EvalNodeProp(o, n) = g.nodes[n].x
                                    /\ NodeLabelsOverlay(o, n) = g.nodes[n].labels
         /\ \A e \in Ids(g.edges) : EvalEdgeProp(o, e) = g.edges[e].x
         /\ \A n \in Ids(db.nodes) \ Ids(g.nodes) : EvalNodeProp(o, n) = Raised
         /\ \A e \in Ids(db.edges) \ Ids(g.edges) : EvalEdgeProp(o, e) = Raised
<1>1. ASSUME NEW n \in Ids(g.nodes)
      PROVE  /\ NodeProps(o, n) = g.nodes[n].x /\ EvalNodeProp(o, n) = g.nodes[n].x
             /\ NodeLabelsOverlay(o, n) = g.nodes[n].labels
  <2>1. /\ n \in Ids(db.nodes) \cup Ids(o.nodes) /\ n \notin o.gone
        /\ g.nodes[n] = IF n \in Ids(o.nodes) THEN o.nodes[n] ELSE db.nodes[n]
    BY DEF Mirrors, MirrorsNodes
  <2>2. CASE n \in Ids(o.nodes)
    BY <2>1, <2>2 DEF NodeProps, EvalNodeProp, NodeLabelsOverlay
  <2>3. CASE n \notin Ids(o.nodes)
    BY <2>1, <2>3 DEF NodeProps, EvalNodeProp, NodeLabelsOverlay, LabelsIn
  <2> QED BY <2>2, <2>3
<1>2. ASSUME NEW e \in Ids(g.edges) PROVE EvalEdgeProp(o, e) = g.edges[e].x
  <2>1. /\ e \in Ids(db.edges) \cup Ids(o.edges) /\ e \notin o.cut
        /\ g.edges[e] = IF e \in Ids(o.edges) THEN o.edges[e] ELSE db.edges[e]
    BY DEF Mirrors, MirrorsEdges
  <2> QED BY <2>1 DEF EvalEdgeProp
<1>3. \A n \in Ids(db.nodes) \ Ids(g.nodes) : EvalNodeProp(o, n) = Raised
  BY DEF Mirrors, MirrorsNodes, EvalNodeProp
<1>4. \A e \in Ids(db.edges) \ Ids(g.edges) : EvalEdgeProp(o, e) = Raised
  BY DEF Mirrors, MirrorsEdges, EvalEdgeProp
<1> QED BY <1>1, <1>2, <1>3, <1>4

\* A committed candidate set, corrected by the overlay: it only has to hold
\* the right nodes among those the overlay has no entry of.
LEMMA ScanCorrected ==
  ASSUME NEW g, NEW o, Mirrors(g, o), NEW l, NEW C, NEW n,
         n \in C => n \in CommittedWithLabel(l)
  PROVE  /\ n \in OverlayScan(o, C, l) => n \in Ids(g.nodes) /\ Carries(g.nodes[n].labels, l)
         /\ n \in Ids(g.nodes) /\ Carries(g.nodes[n].labels, l) /\ (n \in Ids(o.nodes) \/ n \in C) =>
              n \in OverlayScan(o, C, l)
<1>1. /\ n \in Ids(g.nodes) <=> (n \in Ids(db.nodes) \/ n \in Ids(o.nodes)) /\ n \notin o.gone
      /\ n \in Ids(g.nodes) => g.nodes[n] = IF n \in Ids(o.nodes) THEN o.nodes[n] ELSE db.nodes[n]
  BY DEF Mirrors, MirrorsNodes
<1>2. n \in CommittedWithLabel(l) <=> n \in Ids(db.nodes) /\ Carries(db.nodes[n].labels, l)
  BY DEF CommittedWithLabel
<1>3. n \in PendingNodesWithLabel(o, l) <=>
        n \in Ids(o.nodes) /\ n \notin o.gone /\ Carries(o.nodes[n].labels, l)
  BY DEF PendingNodesWithLabel
<1>4. /\ n \in o.gone => OverlayNodeHasLabel(o, n, l) = "no"
      /\ n \notin o.gone /\ n \in Ids(o.nodes) /\ Carries(o.nodes[n].labels, l) =>
           OverlayNodeHasLabel(o, n, l) = "yes"
      /\ n \notin o.gone /\ n \in Ids(o.nodes) /\ ~Carries(o.nodes[n].labels, l) =>
           OverlayNodeHasLabel(o, n, l) = "no"
      /\ n \notin o.gone /\ n \notin Ids(o.nodes) => OverlayNodeHasLabel(o, n, l) = "unknown"
  BY DEF OverlayNodeHasLabel
<1>5. n \in OverlayScan(o, C, l) <=>
        (n \in C /\ OverlayNodeHasLabel(o, n, l) # "no") \/ n \in PendingNodesWithLabel(o, l)
  BY DEF OverlayScan
<1> HIDE DEF Mirrors
<1>6. CASE n \in o.gone
  BY <1>1, <1>3, <1>4, <1>5, <1>6
<1>7. CASE n \notin o.gone /\ n \in Ids(o.nodes)
  BY <1>1, <1>3, <1>4, <1>5, <1>7
<1>8. CASE n \notin o.gone /\ n \notin Ids(o.nodes)
  BY <1>1, <1>2, <1>3, <1>4, <1>5, <1>8
<1> QED BY <1>6, <1>7, <1>8

\* Label scans and index lookups.
LEMMA ScansRead ==
  ASSUME NEW g, NEW o, Mirrors(g, o), NEW l, NEW v
  PROVE  /\ LabelScan(o, l) = {n \in Ids(g.nodes) : Carries(g.nodes[n].labels, l)}
         /\ IndexScan(o, l, v) = {n \in Ids(g.nodes) : Carries(g.nodes[n].labels, l) /\ g.nodes[n].x = v}
<1>1. ASSUME NEW n
      PROVE  n \in LabelScan(o, l) <=> n \in Ids(g.nodes) /\ Carries(g.nodes[n].labels, l)
  <2> DEFINE C == CommittedWithLabel(l)
  <2>1. n \in Ids(g.nodes) /\ Carries(g.nodes[n].labels, l) => n \in Ids(o.nodes) \/ n \in C
    BY DEF Mirrors, MirrorsNodes, CommittedWithLabel
  <2>2. n \in C => n \in CommittedWithLabel(l)
    OBVIOUS
  <2> HIDE DEF C
  <2>3. /\ n \in OverlayScan(o, C, l) => n \in Ids(g.nodes) /\ Carries(g.nodes[n].labels, l)
        /\ n \in Ids(g.nodes) /\ Carries(g.nodes[n].labels, l) /\ (n \in Ids(o.nodes) \/ n \in C) =>
             n \in OverlayScan(o, C, l)
    BY <2>2, ScanCorrected
  <2> QED BY <2>1, <2>3 DEF LabelScan, C
<1>2. ASSUME NEW n
      PROVE  n \in IndexScan(o, l, v) <=>
               n \in Ids(g.nodes) /\ Carries(g.nodes[n].labels, l) /\ g.nodes[n].x = v
  <2> DEFINE C == {m \in CommittedWithLabel(l) : db.nodes[m].x = v}
  <2>1. n \in Ids(g.nodes) /\ Carries(g.nodes[n].labels, l) /\ g.nodes[n].x = v =>
          n \in Ids(o.nodes) \/ n \in C
    BY DEF Mirrors, MirrorsNodes, CommittedWithLabel
  <2>2. n \in C => n \in CommittedWithLabel(l)
    OBVIOUS
  <2>3. n \in IndexScan(o, l, v) <=> n \in OverlayScan(o, C, l) /\ NodeProps(o, n) = v
    BY DEF IndexScan
  <2> HIDE DEF C
  <2>4. /\ n \in OverlayScan(o, C, l) => n \in Ids(g.nodes) /\ Carries(g.nodes[n].labels, l)
        /\ n \in Ids(g.nodes) /\ Carries(g.nodes[n].labels, l) /\ (n \in Ids(o.nodes) \/ n \in C) =>
             n \in OverlayScan(o, C, l)
    BY <2>2, ScanCorrected
  <2>5. n \in Ids(g.nodes) => NodeProps(o, n) = g.nodes[n].x
    BY PropsRead
  <2> QED BY <2>1, <2>3, <2>4, <2>5
<1> QED BY <1>1, <1>2

\* Expansions.
LEMMA ExpandsRead ==
  ASSUME NEW g, NEW o, Mirrors(g, o), NEW n, NEW type, NEW incoming
  PROVE  ExpandMultiType(o, n, type, incoming) =
           {<<e, OtherEnd(g.edges[e], incoming)>> :
              e \in {d \in Ids(g.edges) : EndsAt(g.edges[d], n, incoming) /\ g.edges[d].type = type}}
<1> DEFINE A == {e \in Ids(db.edges) \ o.cut : EndsAt(db.edges[e], n, incoming) /\ db.edges[e].type = type}
           B == {e \in Ids(o.edges) \ o.cut : EndsAt(o.edges[e], n, incoming) /\ o.edges[e].type = type}
           D == {d \in Ids(g.edges) : EndsAt(g.edges[d], n, incoming) /\ g.edges[d].type = type}
<1>1. ASSUME NEW e \in (Ids(db.edges) \cup Ids(o.edges)) \ o.cut
      PROVE  /\ e \in Ids(g.edges)
             /\ e \in Ids(o.edges) => o.edges[e] = g.edges[e]
             /\ e \in Ids(db.edges) => /\ db.edges[e].src = g.edges[e].src
                                       /\ db.edges[e].dst = g.edges[e].dst
                                       /\ db.edges[e].type = g.edges[e].type
  <2>1. e \in Ids(g.edges)
    BY DEF Mirrors, MirrorsEdges
  <2> QED BY <2>1, KnownEnds
<1>2. Ids(g.edges) = (Ids(db.edges) \cup Ids(o.edges)) \ o.cut
  BY DEF Mirrors, MirrorsEdges
<1>3. ASSUME NEW e \in Ids(db.edges) \ o.cut
      PROVE  /\ EndsAt(db.edges[e], n, incoming) <=> EndsAt(g.edges[e], n, incoming)
             /\ OtherEnd(db.edges[e], incoming) = OtherEnd(g.edges[e], incoming)
             /\ db.edges[e].type = g.edges[e].type
  BY <1>1 DEF EndsAt, OtherEnd
<1>4. ASSUME NEW e \in Ids(o.edges) \ o.cut PROVE o.edges[e] = g.edges[e]
  BY <1>1
<1>5. D = A \cup B
  BY <1>2, <1>3, <1>4
<1>6. \A e \in A : <<e, OtherEnd(db.edges[e], incoming)>> = <<e, OtherEnd(g.edges[e], incoming)>>
  BY <1>3
<1>7. \A e \in B : <<e, OtherEnd(o.edges[e], incoming)>> = <<e, OtherEnd(g.edges[e], incoming)>>
  BY <1>4
<1>8. ExpandMultiType(o, n, type, incoming) =
        {<<e, OtherEnd(db.edges[e], incoming)>> : e \in A} \cup
        {<<e, OtherEnd(o.edges[e], incoming)>> : e \in B}
  BY DEF ExpandMultiType
<1> HIDE DEF A, B, D
<1>9. ExpandMultiType(o, n, type, incoming) = {<<e, OtherEnd(g.edges[e], incoming)>> : e \in D}
  BY <1>5, <1>6, <1>7, <1>8
<1> QED BY <1>9 DEF D

\* The overlay is exact wherever it mirrors the transaction.
LEMMA ReadsExact ==
  ASSUME phase = "open" => Mirrors(txn, ov)
  PROVE  OverlayExact
<1>1. SUFFICES ASSUME phase = "open" PROVE OverlayExact
  BY DEF OverlayExact
<1>2. Mirrors(txn, ov)
  BY <1>1
<1>3. ASSUME NEW l \in Labels \cup {"any"}
      PROVE  /\ LabelScan(ov, l) = {n \in Ids(txn.nodes) : Carries(txn.nodes[n].labels, l)}
             /\ \A v \in {0, 1} : IndexScan(ov, l, v) =
                  {n \in Ids(txn.nodes) : Carries(txn.nodes[n].labels, l) /\ txn.nodes[n].x = v}
  BY <1>2, ScansRead
<1>4. ASSUME NEW n \in 1..(txn.nextN - 1), NEW type \in Types, NEW incoming \in BOOLEAN
      PROVE  ExpandMultiType(ov, n, type, incoming) =
               {<<e, OtherEnd(txn.edges[e], incoming)>> :
                  e \in {d \in Ids(txn.edges) : EndsAt(txn.edges[d], n, incoming)
                                                /\ txn.edges[d].type = type}}
  BY <1>2, ExpandsRead
<1>5. /\ \A n \in Ids(txn.nodes) : /\ EvalNodeProp(ov, n) = txn.nodes[n].x
                                   /\ NodeLabelsOverlay(ov, n) = txn.nodes[n].labels
      /\ \A e \in Ids(txn.edges) : EvalEdgeProp(ov, e) = txn.edges[e].x
      /\ \A n \in Ids(db.nodes) \ Ids(txn.nodes) : EvalNodeProp(ov, n) = Raised
      /\ \A e \in Ids(db.edges) \ Ids(txn.edges) : EvalEdgeProp(ov, e) = Raised
  BY <1>2, PropsRead
<1> QED BY <1>3, <1>4, <1>5 DEF OverlayExact
-----------------------------------------------------------------------------
(***************************************************************************)
(* MATCH: finitely many matches, each binding what the transaction has.    *)
(***************************************************************************)

Matches(g, o, V, ps) == IsFiniteSet(ps) /\ \A p \in ps : p.bind \in Rows(g, o, V)

\* The image of a finite set under a function.
LEMMA ImageFinite ==
  ASSUME NEW S, IsFiniteSet(S), NEW f
  PROVE  IsFiniteSet({f[x] : x \in S})
<1> DEFINE T == {f[x] : x \in S}
           F == [x \in S |-> f[x]]
<1>1. F \in Surjection(S, T)
  BY DEF Surjection
<1> HIDE DEF F, T
<1>2. IsFiniteSet(T)
  BY <1>1, FS_Surjection
<1> QED BY <1>2 DEF T

\* A row of one node.
LEMMA SeedRow ==
  ASSUME NEW g, NEW o, NEW v \in Variables, NEW b \in Refs(g, o)
  PROVE  [u \in {v} |-> b] \in Rows(g, o, {v})
<1>1. {v} \in SUBSET Variables /\ [u \in {v} |-> b] \in [{v} -> Refs(g, o)]
  OBVIOUS
<1> QED BY <1>1 DEF Rows

\* The matches of a pattern's first node.
LEMMA SeedsMatch ==
  ASSUME NEW g, NEW o, NEW v \in Variables, NEW N, IsFiniteSet(N), \A n \in N : NodeRef(n) \in Refs(g, o)
  PROVE  Matches(g, o, {v}, Seeds(v, N))
<1> DEFINE F == [n \in N |-> [bind |-> [u \in {v} |-> NodeRef(n)], at |-> n, edges |-> <<>>]]
<1>1. Seeds(v, N) = {F[n] : n \in N}
  BY DEF Seeds
<1>2. ASSUME NEW n \in N PROVE F[n].bind \in Rows(g, o, {v})
  <2>1. F[n].bind = [u \in {v} |-> NodeRef(n)]
    OBVIOUS
  <2>2. NodeRef(n) \in Refs(g, o)
    OBVIOUS
  <2>3. [u \in {v} |-> NodeRef(n)] \in Rows(g, o, {v})
    BY <2>2, SeedRow
  <2> QED BY <2>1, <2>3
<1> HIDE DEF F
<1>3. IsFiniteSet({F[n] : n \in N})
  BY ImageFinite
<1> QED BY <1>1, <1>2, <1>3 DEF Matches

\* Matches that are one live edge longer.
LEMMA HopMatches ==
  ASSUME NEW g, NEW o, Mirrors(g, o), NEW V, NEW ps, Matches(g, o, V, ps),
         NEW h, h.var \in Variables, h.node.var \in Variables, NEW qs,
         \A q \in qs : \E p \in ps, e \in Ids(g.edges) :
                         q = Grown(p, h, e, OtherEnd(g.edges[e], h.incoming))
  PROVE  Matches(g, o, V \cup {h.var, h.node.var}, qs)
<1> DEFINE far(e) == OtherEnd(g.edges[e], h.incoming)
           F == [z \in ps \X Ids(g.edges) |-> Grown(z[1], h, z[2], far(z[2]))]
           T == {F[z] : z \in ps \X Ids(g.edges)}
<1>1. IsFiniteSet(qs)
  <2>1. IsFiniteSet(ps \X Ids(g.edges))
    BY FS_Product DEF Matches, Mirrors, SoundGraph
  <2>2. qs \subseteq T
    <3>1. \A p \in ps, e \in Ids(g.edges) : F[<<p, e>>] = Grown(p, h, e, far(e)) /\ <<p, e>> \in ps \X Ids(g.edges)
      OBVIOUS
    <3>2. SUFFICES ASSUME NEW q \in qs PROVE \E z \in ps \X Ids(g.edges) : q = F[z]
      OBVIOUS
    <3>3. PICK p \in ps, e \in Ids(g.edges) : q = Grown(p, h, e, far(e))
      OBVIOUS
    <3> HIDE DEF F, far
    <3>4. q = F[<<p, e>>] /\ <<p, e>> \in ps \X Ids(g.edges)
      BY <3>1, <3>3
    <3> QED BY <3>4
  <2> HIDE DEF F
  <2>3. IsFiniteSet(T)
    BY <2>1, ImageFinite
  <2> HIDE DEF T
  <2> QED BY <2>2, <2>3, FS_Subset
<1>2. ASSUME NEW q \in qs PROVE q.bind \in Rows(g, o, V \cup {h.var, h.node.var})
  <2>1. PICK p \in ps, e \in Ids(g.edges) : q = Grown(p, h, e, far(e))
    OBVIOUS
  <2>2. q.bind = With(With(p.bind, h.var, EdgeRef(e)), h.node.var, NodeRef(far(e)))
    BY <2>1 DEF Grown
  <2>3. far(e) \in Ids(g.nodes)
    BY KnownEnds DEF OtherEnd
  <2>4. EdgeRef(e) \in Refs(g, o) /\ NodeRef(far(e)) \in Refs(g, o)
    BY <2>3 DEF Refs
  <2> HIDE DEF far
  <2> DEFINE r == With(p.bind, h.var, EdgeRef(e))
             W == V \cup {h.var}
  <2>5. p.bind \in Rows(g, o, V)
    BY DEF Matches
  <2>6. r \in Rows(g, o, W)
    BY <2>4, <2>5, RowWith
  <2>7. W \cup {h.node.var} = V \cup {h.var, h.node.var}
    OBVIOUS
  <2> HIDE DEF W, r
  <2>8. With(r, h.node.var, NodeRef(far(e))) \in Rows(g, o, W \cup {h.node.var})
    BY <2>4, <2>6, RowWith
  <2> QED BY <2>2, <2>7, <2>8 DEF r
<1> QED BY <1>1, <1>2 DEF Matches

\* One hop of a MATCH follows live edges only.
LEMMA ExpandMatches ==
  ASSUME NEW g, NEW o, Mirrors(g, o), NEW V, NEW ps, Matches(g, o, V, ps),
         NEW h, h.var \in Variables, h.node.var \in Variables
  PROVE  Matches(g, o, V \cup {h.var, h.node.var}, ExpandHop(o, ps, h))
<1>1. ASSUME NEW q \in ExpandHop(o, ps, h)
      PROVE  \E p \in ps, e \in Ids(g.edges) : q = Grown(p, h, e, OtherEnd(g.edges[e], h.incoming))
  <2>1. PICK p \in ps : \E x \in ExpandMultiType(o, p.at, h.type, h.incoming) : q = Grown(p, h, x[1], x[2])
    BY DEF ExpandHop
  <2>2. PICK x \in ExpandMultiType(o, p.at, h.type, h.incoming) : q = Grown(p, h, x[1], x[2])
    BY <2>1
  <2>3. PICK e \in Ids(g.edges) : x = <<e, OtherEnd(g.edges[e], h.incoming)>>
    BY ExpandsRead
  <2>4. x[1] = e /\ x[2] = OtherEnd(g.edges[e], h.incoming)
    BY <2>3
  <2> QED BY <2>2, <2>4
<1> QED BY <1>1, HopMatches

\* The recursion of MatchPattern.
MatchTrace(o, pat, base, n, f) ==
  f = [i \in 0..n |-> IF i = 0 THEN base
                      ELSE ExpandHop(o, f[i-1], pat.hops[i])]

MatchRun(o, pat, f) ==
  /\ f[0] = Seeds(pat.node.var, SeedScan(o, pat.node))
  /\ \A i \in 1..Len(pat.hops) : f[i] = ExpandHop(o, f[i-1], pat.hops[i])
  /\ MatchPattern(o, pat) = f[Len(pat.hops)]

\* The values of the recursion exist, and MatchPattern is the last of them.
LEMMA MatchRuns ==
  ASSUME NEW o, NEW pat, Len(pat.hops) \in Nat
  PROVE  \E f : MatchRun(o, pat, f)
<1> DEFINE n == Len(pat.hops)
           base == Seeds(pat.node.var, SeedScan(o, pat.node))
           S == {k \in 0..n : \E f : MatchTrace(o, pat, base, k, f)}
<1> HIDE DEF base
<1>1. 0 \in S
  <2> DEFINE f == [i \in 0..0 |-> base]
  <2>1. f = [i \in 0..0 |-> IF i = 0 THEN base
                            ELSE ExpandHop(o, f[i-1], pat.hops[i])]
    OBVIOUS
  <2> HIDE DEF f
  <2>2. MatchTrace(o, pat, base, 0, f)
    BY <2>1 DEF MatchTrace
  <2> QED BY <2>2
<1>2. ASSUME NEW k \in 0..n, k # n, k \in S PROVE k + 1 \in S
  <2>1. PICK f : MatchTrace(o, pat, base, k, f)
    BY <1>2
  <2> DEFINE h == [i \in 0..(k + 1) |-> IF i = 0 THEN base
                                        ELSE ExpandHop(o, f[i-1], pat.hops[i])]
  <2>2. \A i \in 0..k : h[i] = f[i]
    BY <2>1 DEF MatchTrace
  <2>3. \A i \in 0..(k + 1) : i # 0 => h[i-1] = f[i-1]
    <3> HIDE DEF h
    <3>1. \A i \in 0..(k + 1) : i # 0 => i - 1 \in 0..k
      OBVIOUS
    <3> QED BY <2>2, <3>1
  <2>4. h = [i \in 0..(k + 1) |-> IF i = 0 THEN base
                                  ELSE ExpandHop(o, h[i-1], pat.hops[i])]
    BY <2>3
  <2> HIDE DEF h
  <2>5. MatchTrace(o, pat, base, k + 1, h)
    BY <2>4 DEF MatchTrace
  <2>6. k + 1 \in 0..n
    BY <1>2
  <2> QED BY <2>5, <2>6
<1>3. n \in S
  <2> HIDE DEF S
  <2>1. 0..n \subseteq S
    BY <1>1, <1>2, CountUp
  <2> QED BY <2>1
<1> DEFINE f == CHOOSE f : MatchTrace(o, pat, base, n, f)
<1>4. MatchTrace(o, pat, base, n, f)
  BY <1>3
<1>5. MatchPattern(o, pat) = f[n]
  BY DEF MatchPattern, MatchTrace, base
<1> HIDE DEF f
<1>6. /\ f[0] = base
      /\ \A i \in 1..n : f[i] = ExpandHop(o, f[i-1], pat.hops[i])
  BY <1>4 DEF MatchTrace
<1>7. MatchRun(o, pat, f)
  BY <1>5, <1>6 DEF MatchRun, base
<1> QED BY <1>7

\* The matches of a whole pattern.
LEMMA PatternMatches ==
  ASSUME NEW g, NEW o, Mirrors(g, o), NEW pat, pat.hops \in Seq(Range(pat.hops)),
         PatternVars(pat) \subseteq Variables
  PROVE  Matches(g, o, PatternVars(pat), MatchPattern(o, pat))
<1> DEFINE n == Len(pat.hops)
<1>1. n \in Nat /\ Seen(pat, n) = PatternVars(pat)
  BY SeenGrows
<1>2. PICK f : MatchRun(o, pat, f)
  BY <1>1, MatchRuns
<1> DEFINE S == {i \in 0..n : Matches(g, o, Seen(pat, i), f[i])}
<1>3. 0 \in S
  <2> DEFINE N == SeedScan(o, pat.node)
  <2>1. N \subseteq Ids(g.nodes)
    BY ScansRead DEF SeedScan
  <2>2. IsFiniteSet(N)
    BY <2>1, FS_Subset DEF Mirrors, SoundGraph
  <2>3. \A m \in N : NodeRef(m) \in Refs(g, o)
    BY <2>1 DEF Refs
  <2>4. pat.node.var \in Variables /\ Seen(pat, 0) = {pat.node.var}
    BY SeenGrows
  <2>5. f[0] = Seeds(pat.node.var, N)
    BY <1>2 DEF MatchRun
  <2> HIDE DEF N
  <2>6. Matches(g, o, {pat.node.var}, Seeds(pat.node.var, N))
    BY <2>2, <2>3, <2>4, SeedsMatch
  <2>7. Matches(g, o, Seen(pat, 0), f[0])
    BY <2>4, <2>5, <2>6
  <2> QED BY <1>1, <2>7
<1>4. ASSUME NEW i \in 0..n, i # n, i \in S PROVE i + 1 \in S
  <2>1. i + 1 \in 1..n /\ i + 1 \in 0..n /\ (i + 1) - 1 = i
    BY <1>1, <1>4
  <2> DEFINE ps == f[i]
             h == pat.hops[i + 1]
             W == Seen(pat, i)
  <2>2. f[i + 1] = ExpandHop(o, ps, h)
    BY <1>2, <2>1 DEF MatchRun
  <2>3. Matches(g, o, W, ps)
    BY <1>4
  <2>4. W \cup {h.var, h.node.var} = Seen(pat, i + 1) /\ h.var \in Variables /\ h.node.var \in Variables
    BY <1>4, <2>1, SeenGrows
  <2> HIDE DEF ps, h, W
  <2>5. Matches(g, o, W \cup {h.var, h.node.var}, ExpandHop(o, ps, h))
    BY <2>3, <2>4, ExpandMatches
  <2>6. Matches(g, o, Seen(pat, i + 1), f[i + 1])
    BY <2>2, <2>4, <2>5
  <2> QED BY <2>1, <2>6
<1>5. n \in S
  <2> HIDE DEF S
  <2>1. 0..n \subseteq S
    BY <1>1, <1>3, <1>4, CountUp
  <2> QED BY <1>1, <2>1
<1>6. MatchPattern(o, pat) = f[n]
  BY <1>2 DEF MatchRun
<1> QED BY <1>1, <1>5, <1>6

\* A function on an initial segment is a sequence.
LEMMA Listing ==
  ASSUME NEW R, NEW n \in Nat, NEW f \in [1..n -> R]
  PROVE  f \in Seq(R)
OBVIOUS

\* A row extended by every match that agrees with it.
LEMMA RowExtended ==
  ASSUME NEW g, NEW o, NEW V, NEW W, NEW row \in Rows(g, o, V), NEW ps, Matches(g, o, W, ps)
  PROVE  ExtendRow(row, ps) \in Seq(Rows(g, o, V \cup W))
<1> DEFINE s == SetToSeq(ps)
<1>1. s \in Seq(ps)
  BY ListsSet DEF Matches
<1> HIDE DEF s
<1>2. Len(s) \in Nat /\ \A k \in 1..Len(s) : s[k] \in ps
  BY <1>1
<1>3. ASSUME NEW k \in 1..Len(s) PROVE Extend(row, s[k].bind) \in Rows(g, o, V \cup W)
  <2>1. s[k].bind \in Rows(g, o, W)
    BY <1>2 DEF Matches
  <2> QED BY <2>1, RowExtend
<1>4. ExtendRow(row, ps) = [k \in 1..Len(s) |-> Extend(row, s[k].bind)]
  BY DEF ExtendRow, s
<1>5. [k \in 1..Len(s) |-> Extend(row, s[k].bind)] \in [1..Len(s) -> Rows(g, o, V \cup W)]
  BY <1>3
<1>6. ExtendRow(row, ps) \in [1..Len(s) -> Rows(g, o, V \cup W)]
  BY <1>4, <1>5
<1> QED BY <1>2, <1>6, Listing

\* The recursion of JoinRows.
JoinTrace(rs, matches, base, n, f) ==
  f = [i \in 0..n |-> IF i = 0 THEN base
                      ELSE f[i-1] \o ExtendRow(rs[i], {p \in matches : Agree(rs[i], p.bind)})]

JoinRun(rs, matches, f) ==
  /\ f[0] = <<>>
  /\ \A i \in 1..Len(rs) : f[i] = f[i-1] \o ExtendRow(rs[i], {p \in matches : Agree(rs[i], p.bind)})
  /\ JoinRows(rs, matches) = f[Len(rs)]

\* The values of the recursion exist, and JoinRows is the last of them.
LEMMA JoinRuns ==
  ASSUME NEW rs, NEW matches, Len(rs) \in Nat
  PROVE  \E f : JoinRun(rs, matches, f)
<1> DEFINE n == Len(rs)
           base == <<>>
           S == {k \in 0..n : \E f : JoinTrace(rs, matches, base, k, f)}
<1> HIDE DEF base
<1>1. 0 \in S
  <2> DEFINE f == [i \in 0..0 |-> base]
  <2>1. f = [i \in 0..0 |-> IF i = 0 THEN base
                            ELSE f[i-1] \o ExtendRow(rs[i], {p \in matches : Agree(rs[i], p.bind)})]
    OBVIOUS
  <2> HIDE DEF f
  <2>2. JoinTrace(rs, matches, base, 0, f)
    BY <2>1 DEF JoinTrace
  <2> QED BY <2>2
<1>2. ASSUME NEW k \in 0..n, k # n, k \in S PROVE k + 1 \in S
  <2>1. PICK f : JoinTrace(rs, matches, base, k, f)
    BY <1>2
  <2> DEFINE h == [i \in 0..(k + 1) |-> IF i = 0 THEN base
                                        ELSE f[i-1] \o ExtendRow(rs[i], {p \in matches : Agree(rs[i], p.bind)})]
  <2>2. \A i \in 0..k : h[i] = f[i]
    BY <2>1 DEF JoinTrace
  <2>3. \A i \in 0..(k + 1) : i # 0 => h[i-1] = f[i-1]
    <3> HIDE DEF h
    <3>1. \A i \in 0..(k + 1) : i # 0 => i - 1 \in 0..k
      OBVIOUS
    <3> QED BY <2>2, <3>1
  <2>4. h = [i \in 0..(k + 1) |-> IF i = 0 THEN base
                                  ELSE h[i-1] \o ExtendRow(rs[i], {p \in matches : Agree(rs[i], p.bind)})]
    BY <2>3
  <2> HIDE DEF h
  <2>5. JoinTrace(rs, matches, base, k + 1, h)
    BY <2>4 DEF JoinTrace
  <2>6. k + 1 \in 0..n
    BY <1>2
  <2> QED BY <2>5, <2>6
<1>3. n \in S
  <2> HIDE DEF S
  <2>1. 0..n \subseteq S
    BY <1>1, <1>2, CountUp
  <2> QED BY <2>1
<1> DEFINE f == CHOOSE f : JoinTrace(rs, matches, base, n, f)
<1>4. JoinTrace(rs, matches, base, n, f)
  BY <1>3
<1>5. JoinRows(rs, matches) = f[n]
  BY DEF JoinRows, JoinTrace, base
<1> HIDE DEF f
<1>6. /\ f[0] = base
      /\ \A i \in 1..n : f[i] = f[i-1] \o ExtendRow(rs[i], {p \in matches : Agree(rs[i], p.bind)})
  BY <1>4 DEF JoinTrace
<1>7. JoinRun(rs, matches, f)
  BY <1>5, <1>6 DEF JoinRun, base
<1> QED BY <1>7

\* The rows of a MATCH clause.
LEMMA RowsJoined ==
  ASSUME NEW g, NEW o, NEW V, NEW W, NEW rs \in Seq(Rows(g, o, V)), NEW ps, Matches(g, o, W, ps)
  PROVE  JoinRows(rs, ps) \in Seq(Rows(g, o, V \cup W))
<1> DEFINE R == Rows(g, o, V \cup W)
<1>1. Len(rs) \in Nat
  OBVIOUS
<1>2. PICK f : JoinRun(rs, ps, f)
  BY <1>1, JoinRuns
<1> DEFINE S == {i \in 0..Len(rs) : f[i] \in Seq(R)}
<1>3. 0 \in S
  <2>1. f[0] = <<>>
    BY <1>2 DEF JoinRun
  <2>2. <<>> \in Seq(R)
    <3> HIDE DEF R
    <3> QED OBVIOUS
  <2> HIDE DEF R
  <2>3. f[0] \in Seq(R)
    BY <2>1, <2>2
  <2> QED BY <1>1, <2>3
<1>4. ASSUME NEW i \in 0..Len(rs), i # Len(rs), i \in S PROVE i + 1 \in S
  <2>1. i + 1 \in 1..Len(rs) /\ i + 1 \in 0..Len(rs) /\ (i + 1) - 1 = i
    BY <1>1, <1>4
  <2> DEFINE qs == {p \in ps : Agree(rs[i + 1], p.bind)}
             more == ExtendRow(rs[i + 1], qs)
  <2>2. f[i + 1] = f[i] \o more
    BY <1>2, <2>1 DEF JoinRun
  <2>3. Matches(g, o, W, qs)
    BY FS_Subset DEF Matches
  <2>4. rs[i + 1] \in Rows(g, o, V)
    BY <2>1
  <2> HIDE DEF qs
  <2>5. more \in Seq(R)
    BY <2>3, <2>4, RowExtended
  <2> HIDE DEF more, R
  <2>6. f[i + 1] \in Seq(R)
    BY <1>4, <2>2, <2>5
  <2> QED BY <2>1, <2>6
<1>5. Len(rs) \in S
  <2> HIDE DEF S
  <2>1. 0..Len(rs) \subseteq S
    BY <1>1, <1>3, <1>4, CountUp
  <2> QED BY <1>1, <2>1
<1> QED BY <1>2, <1>5 DEF JoinRun

-----------------------------------------------------------------------------
(***************************************************************************)
(* MERGE and CREATE, row by row.                                           *)
(***************************************************************************)

\* The recursion of MergeMatch.
MergeTrace(s, row, pat, base, n, f) ==
  f = [i \in 0..n |-> IF i = 0 THEN base
                      ELSE MergeHop(s, row, f[i-1], pat.hops[i])]

MergeRun(s, row, pat, f) ==
  /\ f[0] = MergeStart(s, row, pat.node)
  /\ \A i \in 1..Len(pat.hops) : f[i] = MergeHop(s, row, f[i-1], pat.hops[i])
  /\ MergeMatch(s, row, pat) = f[Len(pat.hops)]

\* The values of the recursion exist, and MergeMatch is the last of them.
LEMMA MergeRuns ==
  ASSUME NEW s, NEW row, NEW pat, Len(pat.hops) \in Nat
  PROVE  \E f : MergeRun(s, row, pat, f)
<1> DEFINE n == Len(pat.hops)
           base == MergeStart(s, row, pat.node)
           S == {k \in 0..n : \E f : MergeTrace(s, row, pat, base, k, f)}
<1> HIDE DEF base
<1>1. 0 \in S
  <2> DEFINE f == [i \in 0..0 |-> base]
  <2>1. f = [i \in 0..0 |-> IF i = 0 THEN base
                            ELSE MergeHop(s, row, f[i-1], pat.hops[i])]
    OBVIOUS
  <2> HIDE DEF f
  <2>2. MergeTrace(s, row, pat, base, 0, f)
    BY <2>1 DEF MergeTrace
  <2> QED BY <2>2
<1>2. ASSUME NEW k \in 0..n, k # n, k \in S PROVE k + 1 \in S
  <2>1. PICK f : MergeTrace(s, row, pat, base, k, f)
    BY <1>2
  <2> DEFINE h == [i \in 0..(k + 1) |-> IF i = 0 THEN base
                                        ELSE MergeHop(s, row, f[i-1], pat.hops[i])]
  <2>2. \A i \in 0..k : h[i] = f[i]
    BY <2>1 DEF MergeTrace
  <2>3. \A i \in 0..(k + 1) : i # 0 => h[i-1] = f[i-1]
    <3> HIDE DEF h
    <3>1. \A i \in 0..(k + 1) : i # 0 => i - 1 \in 0..k
      OBVIOUS
    <3> QED BY <2>2, <3>1
  <2>4. h = [i \in 0..(k + 1) |-> IF i = 0 THEN base
                                  ELSE MergeHop(s, row, h[i-1], pat.hops[i])]
    BY <2>3
  <2> HIDE DEF h
  <2>5. MergeTrace(s, row, pat, base, k + 1, h)
    BY <2>4 DEF MergeTrace
  <2>6. k + 1 \in 0..n
    BY <1>2
  <2> QED BY <2>5, <2>6
<1>3. n \in S
  <2> HIDE DEF S
  <2>1. 0..n \subseteq S
    BY <1>1, <1>2, CountUp
  <2> QED BY <2>1
<1> DEFINE f == CHOOSE f : MergeTrace(s, row, pat, base, n, f)
<1>4. MergeTrace(s, row, pat, base, n, f)
  BY <1>3
<1>5. MergeMatch(s, row, pat) = f[n]
  BY DEF MergeMatch, MergeTrace, base
<1> HIDE DEF f
<1>6. /\ f[0] = base
      /\ \A i \in 1..n : f[i] = MergeHop(s, row, f[i-1], pat.hops[i])
  BY <1>4 DEF MergeTrace
<1>7. MergeRun(s, row, pat, f)
  BY <1>5, <1>6 DEF MergeRun, base
<1> QED BY <1>7

\* The first node of a MERGE: the bound one, gone or not, or the fitting ones.
LEMMA MergeStarts ==
  ASSUME NEW s, Mirrors(s.g, s.o), NEW V, NEW row \in Rows(s.g, s.o, V), NEW np, np.var \in Variables
  PROVE  Matches(s.g, s.o, {np.var}, MergeStart(s, row, np).found)
<1> DEFINE x == EvaluateExpr(s.o, row, np.x)
           N == IF BoundNode(row, np.var) THEN {row[np.var].id}
                ELSE {n \in Ids(s.g.nodes) : NodeMatches(s.g, n, np, x)}
<1>1. MergeStart(s, row, np).found = Seeds(np.var, N)
  BY DEF MergeStart, Found
<1>2. IsFiniteSet(N) /\ \A n \in N : NodeRef(n) \in Refs(s.g, s.o)
  <2>1. CASE BoundNode(row, np.var)
    <3>1. row[np.var].id \in Ids(s.g.nodes) \cup s.o.gone
      BY <2>1, RowBinds DEF BoundNode
    <3>2. NodeRef(row[np.var].id) \in Refs(s.g, s.o)
      BY <3>1 DEF Refs
    <3>3. N = {row[np.var].id}
      BY <2>1
    <3> QED BY <3>2, <3>3, FS_Singleton
  <2>2. CASE ~BoundNode(row, np.var)
    <3>1. N \subseteq Ids(s.g.nodes)
      BY <2>2
    <3> HIDE DEF N
    <3>2. IsFiniteSet(N)
      BY <3>1, FS_Subset DEF Mirrors, SoundGraph
    <3> QED BY <3>1, <3>2 DEF Refs
  <2> QED BY <2>1, <2>2
<1> HIDE DEF N
<1> QED BY <1>1, <1>2, SeedsMatch

\* One hop of a MERGE.
LEMMA MergeHops ==
  ASSUME NEW s, Mirrors(s.g, s.o), NEW row, NEW V, NEW m, Matches(s.g, s.o, V, m.found),
         NEW h, h.var \in Variables, h.node.var \in Variables
  PROVE  Matches(s.g, s.o, V \cup {h.var, h.node.var}, MergeHop(s, row, m, h).found)
<1> DEFINE qs == MergeHop(s, row, m, h).found
<1>1. ASSUME NEW q \in qs
      PROVE  \E p \in m.found, e \in Ids(s.g.edges) : q = Grown(p, h, e, OtherEnd(s.g.edges[e], h.incoming))
  <2> DEFINE T == UNION {{Grown(p, h, e, OtherEnd(s.g.edges[e], h.incoming)) :
                           e \in {d \in Ids(s.g.edges) : MergeFits(s, row, p, h, d)}} : p \in m.found}
  <2>1. qs = {} \/ qs = T
    BY DEF MergeHop, Found
  <2>2. q \in T
    BY <1>1, <2>1
  <2> QED BY <2>2
<1> HIDE DEF qs
<1>2. Matches(s.g, s.o, V \cup {h.var, h.node.var}, qs)
  BY <1>1, HopMatches
<1> QED BY <1>2 DEF qs

\* What MERGE finds binds what the transaction has.
LEMMA MergeMatches ==
  ASSUME NEW s, Mirrors(s.g, s.o), NEW V, NEW row \in Rows(s.g, s.o, V), NEW pat,
         pat.hops \in Seq(Range(pat.hops)), PatternVars(pat) \subseteq Variables
  PROVE  Matches(s.g, s.o, PatternVars(pat), MergeMatch(s, row, pat).found)
<1> DEFINE n == Len(pat.hops)
<1>1. n \in Nat /\ Seen(pat, n) = PatternVars(pat)
  BY SeenGrows
<1>2. PICK f : MergeRun(s, row, pat, f)
  BY <1>1, MergeRuns
<1> DEFINE S == {i \in 0..n : Matches(s.g, s.o, Seen(pat, i), f[i].found)}
<1>3. 0 \in S
  <2>1. pat.node.var \in Variables /\ Seen(pat, 0) = {pat.node.var}
    BY SeenGrows
  <2>2. f[0] = MergeStart(s, row, pat.node)
    BY <1>2 DEF MergeRun
  <2>3. Matches(s.g, s.o, Seen(pat, 0), f[0].found)
    BY <2>1, <2>2, MergeStarts
  <2> QED BY <1>1, <2>3
<1>4. ASSUME NEW i \in 0..n, i # n, i \in S PROVE i + 1 \in S
  <2>1. i + 1 \in 1..n /\ i + 1 \in 0..n /\ (i + 1) - 1 = i
    BY <1>1, <1>4
  <2> DEFINE m == f[i]
             h == pat.hops[i + 1]
             W == Seen(pat, i)
  <2>2. f[i + 1] = MergeHop(s, row, m, h)
    BY <1>2, <2>1 DEF MergeRun
  <2>3. Matches(s.g, s.o, W, m.found)
    BY <1>4
  <2>4. W \cup {h.var, h.node.var} = Seen(pat, i + 1) /\ h.var \in Variables /\ h.node.var \in Variables
    BY <1>4, <2>1, SeenGrows
  <2> HIDE DEF m, h, W
  <2>5. Matches(s.g, s.o, W \cup {h.var, h.node.var}, MergeHop(s, row, m, h).found)
    BY <2>3, <2>4, MergeHops
  <2>6. Matches(s.g, s.o, Seen(pat, i + 1), f[i + 1].found)
    BY <2>2, <2>4, <2>5
  <2> QED BY <2>1, <2>6
<1>5. n \in S
  <2> HIDE DEF S
  <2>1. 0..n \subseteq S
    BY <1>1, <1>3, <1>4, CountUp
  <2> QED BY <1>1, <2>1
<1>6. MergeMatch(s, row, pat) = f[n]
  BY <1>2 DEF MergeRun
<1> QED BY <1>1, <1>5, <1>6

\* A step of CREATE or MERGE that goes on leaves rows that bind V.
Written(s, t, V) == Keeps(s, t) /\ (t.ok => t.out \in Seq(Rows(t.g, t.o, V)))

\* A clause that may write rows.
Writing(c, V) ==
  /\ c.op \in {"create", "merge"} /\ c.pat.hops \in Seq(Range(c.pat.hops))
  /\ PatternVars(c.pat) \subseteq Variables
  /\ c.op = "merge" => /\ Names(c.onMatch, V \cup PatternVars(c.pat))
                       /\ Names(c.onCreate, V \cup PatternVars(c.pat))

\* MERGE found the pattern.
LEMMA FoundWritten ==
  ASSUME NEW s, s.ok = TRUE, Mirrors(s.g, s.o), NEW V, s.out \in Seq(Rows(s.g, s.o, V)),
         NEW more \in Seq(Rows(s.g, s.o, V)), NEW c, Names(c.onMatch, V)
  PROVE  Written(s, MergeFound(s, more, c), V)
<1> DEFINE t == UpdateRows("set", s, more, c.onMatch)
           u == MergeFound(s, more, c)
<1>1. Keeps(s, t)
  BY UpdateKeeps
<1> HIDE DEF t
<1>2. u.ok = t.ok /\ u.g = t.g /\ u.o = t.o /\ u.out = s.out \o more
  BY DEF MergeFound, Step, t
<1> HIDE DEF u
<1>3. Keeps(s, u)
  BY <1>1, <1>2 DEF Keeps
<1>4. ASSUME u.ok PROVE u.out \in Seq(Rows(u.g, u.o, V))
  <2>1. Refs(s.g, s.o) \subseteq Refs(u.g, u.o)
    BY <1>3, <1>4 DEF Keeps
  <2> DEFINE R == Rows(s.g, s.o, V)
  <2>2. u.out \in Seq(R)
    <3>1. s.out \in Seq(R) /\ more \in Seq(R)
      OBVIOUS
    <3> HIDE DEF R
    <3> QED BY <1>2, <3>1
  <2> QED BY <2>1, <2>2, RowsGrow
<1> QED BY <1>3, <1>4 DEF Written, u

\* A row appended to the rows written so far.
LEMMA RowAppended ==
  ASSUME NEW s, NEW V, s.out \in Seq(Rows(s.g, s.o, V)), NEW t,
         Refs(s.g, s.o) \subseteq Refs(t.g, t.o), NEW row \in Rows(t.g, t.o, V)
  PROVE  Append(s.out, row) \in Seq(Rows(t.g, t.o, V)) /\ Len(Append(s.out, row)) = Len(s.out) + 1
<1> DEFINE R == Rows(t.g, t.o, V)
<1>1. s.out \in Seq(R) /\ row \in R
  BY RowsGrow
<1> HIDE DEF R
<1>2. Append(s.out, row) \in Seq(R) /\ Len(Append(s.out, row)) = Len(s.out) + 1
  BY <1>1
<1> QED BY <1>2 DEF R

\* MERGE created the pattern.
LEMMA CreatedWritten ==
  ASSUME NEW s, NEW V, s.out \in Seq(Rows(s.g, s.o, V)), NEW t, Placed(s, t, V),
         NEW c, Names(c.onCreate, V)
  PROVE  Written(s, MergeCreated(s, t, c), V)
<1> DEFINE w == Step(t.ok, t.g, t.o, s.out)
           u == ApplyItems("set", w, t.row, c.onCreate)
           z == MergeCreated(s, t, c)
<1>1. w.ok = t.ok /\ w.g = t.g /\ w.o = t.o
  BY DEF Step
<1>2. z = Step(u.ok, u.g, u.o, Append(s.out, t.row))
  BY DEF MergeCreated
<1>3. u = ApplyItems("set", w, t.row, c.onCreate)
  OBVIOUS
<1> HIDE DEF w, u, z
<1>4. z.ok = u.ok /\ z.g = u.g /\ z.o = u.o /\ z.out = Append(s.out, t.row)
  BY <1>2 DEF Step
<1>5. CASE ~t.ok
  <2>1. ~w.ok /\ Len(c.onCreate) \in Nat
    BY <1>1, <1>5 DEF Names
  <2>2. u = w
    BY <1>3, <2>1, ItemsStop
  <2>3. ~z.ok /\ z.ok \in BOOLEAN
    BY <1>1, <1>4, <1>5, <2>2 DEF Placed, Keeps
  <2> QED BY <2>3 DEF Written, Keeps, z
<1>6. CASE t.ok
  <2>1. /\ t.ok = TRUE /\ Mirrors(t.g, t.o) /\ Refs(s.g, s.o) \subseteq Refs(t.g, t.o)
        /\ t.row \in Rows(t.g, t.o, V)
    BY <1>6 DEF Placed, Keeps
  <2>2. w.ok = TRUE /\ Mirrors(w.g, w.o) /\ t.row \in Rows(w.g, w.o, V)
    BY <1>1, <2>1
  <2>3. Keeps(w, u)
    BY <1>3, <2>2, ItemsKeep
  <2>4. Keeps(s, z)
    BY <1>1, <1>4, <2>1, <2>3 DEF Keeps
  <2>5. ASSUME z.ok PROVE z.out \in Seq(Rows(z.g, z.o, V))
    <3>1. Refs(s.g, s.o) \subseteq Refs(z.g, z.o) /\ Refs(t.g, t.o) \subseteq Refs(z.g, z.o)
      BY <1>1, <1>4, <2>3, <2>4, <2>5 DEF Keeps
    <3>2. t.row \in Rows(z.g, z.o, V)
      BY <2>1, <3>1, RowsGrow
    <3> QED BY <1>4, <3>1, <3>2, RowAppended
  <2> QED BY <2>4, <2>5 DEF Written, z
<1> QED BY <1>5, <1>6

\* One row of a CREATE.
LEMMA CreateRowWritten ==
  ASSUME NEW s, Mirrors(s.g, s.o), NEW V, NEW row \in Rows(s.g, s.o, V),
         NEW c, Writing(c, V), s.out \in Seq(Rows(s.g, s.o, V \cup PatternVars(c.pat)))
  PROVE  /\ Written(s, CreateRow(s, row, c), V \cup PatternVars(c.pat))
         /\ Len(CreateRow(s, row, c).out) = Len(s.out) + 1
<1> DEFINE t == CreatePattern(s, row, c.pat, FALSE)
           z == CreateRow(s, row, c)
           W == V \cup PatternVars(c.pat)
<1>1. Placed(s, t, W)
  BY PatternPlaced DEF Writing
<1>2. z = Step(t.ok, t.g, t.o, Append(s.out, t.row))
  BY DEF CreateRow
<1> HIDE DEF t, z, W
<1>3. z.ok = t.ok /\ z.g = t.g /\ z.o = t.o /\ z.out = Append(s.out, t.row)
  BY <1>2 DEF Step
<1>4. Keeps(s, z)
  BY <1>1, <1>3 DEF Placed, Keeps
<1>5. ASSUME z.ok PROVE z.out \in Seq(Rows(z.g, z.o, W))
  <2>1. Refs(s.g, s.o) \subseteq Refs(z.g, z.o) /\ t.row \in Rows(z.g, z.o, W)
    BY <1>1, <1>3, <1>5 DEF Placed, Keeps
  <2>2. s.out \in Seq(Rows(s.g, s.o, W))
    BY DEF W
  <2> QED BY <1>3, <2>1, <2>2, RowAppended
<1>6. Len(z.out) = Len(s.out) + 1
  <2> DEFINE R == Rows(s.g, s.o, W)
  <2>1. s.out \in Seq(R)
    BY DEF W
  <2> HIDE DEF R
  <2>2. Len(Append(s.out, t.row)) = Len(s.out) + 1
    BY <2>1
  <2> QED BY <1>3, <2>2
<1>7. Written(s, z, W)
  BY <1>4, <1>5 DEF Written
<1> QED BY <1>6, <1>7 DEF z, W

\* One row of a MERGE.
LEMMA MergeRowWritten ==
  ASSUME NEW s, s.ok = TRUE, Mirrors(s.g, s.o), NEW V, NEW row \in Rows(s.g, s.o, V),
         NEW c, Writing(c, V), c.op = "merge",
         s.out \in Seq(Rows(s.g, s.o, V \cup PatternVars(c.pat)))
  PROVE  Written(s, MergeRow(s, row, c), V \cup PatternVars(c.pat))
<1> DEFINE m == MergeMatch(s, row, c.pat)
           W == V \cup PatternVars(c.pat)
           z == MergeRow(s, row, c)
<1>0. Names(c.onMatch, W) /\ Names(c.onCreate, W)
  BY DEF Writing
<1>1. CASE ~m.ok
  <2>1. z = Failed(s)
    BY <1>1 DEF MergeRow
  <2>2. z.ok = FALSE
    BY <2>1 DEF Failed, Step
  <2> QED BY <2>2 DEF Written, Keeps
<1>2. CASE m.ok /\ m.found # {}
  <2> DEFINE more == ExtendRow(row, m.found)
  <2>1. z = MergeFound(s, more, c)
    BY <1>2 DEF MergeRow
  <2>2. Matches(s.g, s.o, PatternVars(c.pat), m.found)
    BY MergeMatches DEF Writing
  <2> HIDE DEF m, z
  <2>3. more \in Seq(Rows(s.g, s.o, W))
    BY <2>2, RowExtended
  <2> HIDE DEF more, W
  <2>4. s.out \in Seq(Rows(s.g, s.o, W))
    BY DEF W
  <2>5. Written(s, z, W)
    BY <1>0, <2>1, <2>3, <2>4, FoundWritten
  <2> QED BY <2>5 DEF z, W
<1>3. CASE m.ok /\ m.found = {}
  <2> DEFINE t == CreatePattern(s, row, c.pat, TRUE)
  <2>1. z = MergeCreated(s, t, c)
    BY <1>3 DEF MergeRow
  <2>2. Placed(s, t, W)
    BY PatternPlaced DEF Writing
  <2> HIDE DEF t, z, W
  <2>3. s.out \in Seq(Rows(s.g, s.o, W))
    BY DEF W
  <2>4. Written(s, z, W)
    BY <1>0, <2>1, <2>2, <2>3, CreatedWritten
  <2> QED BY <2>4 DEF z, W
<1> QED BY <1>1, <1>2, <1>3

\* The recursion of WriteRows.
WriteTrace(c, s, rs, base, n, f) ==
  f = [i \in 0..n |-> IF i = 0 THEN base
                      ELSE WriteRow(c, f[i-1], rs[i])]

WriteRun(c, s, rs, f) ==
  /\ f[0] = s
  /\ \A i \in 1..Len(rs) : f[i] = WriteRow(c, f[i-1], rs[i])
  /\ WriteRows(c, s, rs) = f[Len(rs)]

\* The values of the recursion exist, and WriteRows is the last of them.
LEMMA WriteRuns ==
  ASSUME NEW c, NEW s, NEW rs, Len(rs) \in Nat
  PROVE  \E f : WriteRun(c, s, rs, f)
<1> DEFINE n == Len(rs)
           base == s
           S == {k \in 0..n : \E f : WriteTrace(c, s, rs, base, k, f)}
<1> HIDE DEF base
<1>1. 0 \in S
  <2> DEFINE f == [i \in 0..0 |-> base]
  <2>1. f = [i \in 0..0 |-> IF i = 0 THEN base
                            ELSE WriteRow(c, f[i-1], rs[i])]
    OBVIOUS
  <2> HIDE DEF f
  <2>2. WriteTrace(c, s, rs, base, 0, f)
    BY <2>1 DEF WriteTrace
  <2> QED BY <2>2
<1>2. ASSUME NEW k \in 0..n, k # n, k \in S PROVE k + 1 \in S
  <2>1. PICK f : WriteTrace(c, s, rs, base, k, f)
    BY <1>2
  <2> DEFINE h == [i \in 0..(k + 1) |-> IF i = 0 THEN base
                                        ELSE WriteRow(c, f[i-1], rs[i])]
  <2>2. \A i \in 0..k : h[i] = f[i]
    BY <2>1 DEF WriteTrace
  <2>3. \A i \in 0..(k + 1) : i # 0 => h[i-1] = f[i-1]
    <3> HIDE DEF h
    <3>1. \A i \in 0..(k + 1) : i # 0 => i - 1 \in 0..k
      OBVIOUS
    <3> QED BY <2>2, <3>1
  <2>4. h = [i \in 0..(k + 1) |-> IF i = 0 THEN base
                                  ELSE WriteRow(c, h[i-1], rs[i])]
    BY <2>3
  <2> HIDE DEF h
  <2>5. WriteTrace(c, s, rs, base, k + 1, h)
    BY <2>4 DEF WriteTrace
  <2>6. k + 1 \in 0..n
    BY <1>2
  <2> QED BY <2>5, <2>6
<1>3. n \in S
  <2> HIDE DEF S
  <2>1. 0..n \subseteq S
    BY <1>1, <1>2, CountUp
  <2> QED BY <2>1
<1> DEFINE f == CHOOSE f : WriteTrace(c, s, rs, base, n, f)
<1>4. WriteTrace(c, s, rs, base, n, f)
  BY <1>3
<1>5. WriteRows(c, s, rs) = f[n]
  BY DEF WriteRows, WriteTrace, base
<1> HIDE DEF f
<1>6. /\ f[0] = base
      /\ \A i \in 1..n : f[i] = WriteRow(c, f[i-1], rs[i])
  BY <1>4 DEF WriteTrace
<1>7. WriteRun(c, s, rs, f)
  BY <1>5, <1>6 DEF WriteRun, base
<1> QED BY <1>7

\* All rows of a clause: CREATE keeps their number.
WrittenAll(c, s, t, V, n) == Written(s, t, V) /\ (c.op = "create" /\ t.ok => Len(t.out) = n)

\* All rows of a CREATE or a MERGE.
LEMMA RowsWritten ==
  ASSUME NEW c, NEW V, Writing(c, V), NEW s, s.ok = TRUE, Mirrors(s.g, s.o),
         s.out \in Seq(Rows(s.g, s.o, V \cup PatternVars(c.pat))), Len(s.out) = 0,
         NEW rs \in Seq(Rows(s.g, s.o, V))
  PROVE  WrittenAll(c, s, WriteRows(c, s, rs), V \cup PatternVars(c.pat), Len(rs))
<1> DEFINE W == V \cup PatternVars(c.pat)
<1>1. Len(rs) \in Nat
  OBVIOUS
<1>2. PICK f : WriteRun(c, s, rs, f)
  BY <1>1, WriteRuns
<1> DEFINE S == {i \in 0..Len(rs) : Written(s, f[i], W) /\ (c.op = "create" /\ f[i].ok => Len(f[i].out) = i)}
<1>3. 0 \in S
  <2>1. f[0] = s
    BY <1>2 DEF WriteRun
  <2>2. s.out \in Seq(Rows(s.g, s.o, W)) /\ Len(s.out) = 0
    OBVIOUS
  <2> HIDE DEF W
  <2>3. Written(s, s, W)
    BY <2>2 DEF Written, Keeps
  <2>4. Written(s, f[0], W) /\ Len(f[0].out) = 0
    BY <2>1, <2>2, <2>3
  <2> QED BY <1>1, <2>4
<1>4. ASSUME NEW i \in 0..Len(rs), i # Len(rs), i \in S PROVE i + 1 \in S
  <2>1. i + 1 \in 1..Len(rs) /\ i + 1 \in 0..Len(rs) /\ (i + 1) - 1 = i
    BY <1>1, <1>4
  <2> DEFINE t == f[i]
             u == f[i + 1]
             r == rs[i + 1]
  <2>2. u = WriteRow(c, t, r)
    BY <1>2, <2>1 DEF WriteRun
  <2>3. r \in Rows(s.g, s.o, V)
    BY <2>1
  <2>4. Written(s, t, W) /\ (c.op = "create" /\ t.ok => Len(t.out) = i)
    BY <1>4
  <2> HIDE DEF t, u, r
  <2>5. CASE ~t.ok
    <3>1. u = t
      BY <2>2, <2>5 DEF WriteRow
    <3> QED BY <2>1, <2>4, <2>5, <3>1 DEF u
  <2>6. CASE t.ok
    <3>1. /\ t.ok = TRUE /\ Mirrors(t.g, t.o) /\ Refs(s.g, s.o) \subseteq Refs(t.g, t.o)
          /\ t.out \in Seq(Rows(t.g, t.o, W))
      BY <2>4, <2>6 DEF Written, Keeps
    <3>2. r \in Rows(t.g, t.o, V)
      BY <2>3, <3>1, RowsGrow
    <3>3. Written(t, u, W) /\ (c.op = "create" => Len(u.out) = Len(t.out) + 1)
      <4>1. CASE c.op = "create"
        <5>1. u = CreateRow(t, r, c)
          BY <2>2, <2>6, <4>1 DEF WriteRow
        <5> QED BY <3>1, <3>2, <5>1, CreateRowWritten
      <4>2. CASE c.op # "create"
        <5>1. u = MergeRow(t, r, c) /\ c.op = "merge"
          BY <2>2, <2>6, <4>2 DEF WriteRow, Writing
        <5> QED BY <3>1, <3>2, <4>2, <5>1, MergeRowWritten
      <4> QED BY <4>1, <4>2
    <3>4. Written(s, u, W)
      BY <3>1, <3>3 DEF Written, Keeps
    <3>5. c.op = "create" => Len(u.out) = i + 1
      BY <2>4, <2>6, <3>3
    <3> QED BY <2>1, <3>4, <3>5 DEF u
  <2> QED BY <2>5, <2>6
<1>5. Len(rs) \in S
  <2> HIDE DEF S
  <2>1. 0..Len(rs) \subseteq S
    BY <1>1, <1>3, <1>4, CountUp
  <2> QED BY <1>1, <2>1
<1>6. WriteRows(c, s, rs) = f[Len(rs)]
  BY <1>2 DEF WriteRun
<1> QED BY <1>5, <1>6 DEF WrittenAll

-----------------------------------------------------------------------------
(***************************************************************************)
(* DELETE, WITH, and every clause.                                         *)
(***************************************************************************)

\* DELETE: the listed entities, and the edges the listed nodes still have.
LEMMA DeleteKeeps ==
  ASSUME NEW s, s.ok = TRUE, Mirrors(s.g, s.o), NEW V, NEW rs \in Seq(Rows(s.g, s.o, V)),
         NEW targets, targets \subseteq V, NEW detach
  PROVE  Keeps(s, DeleteOverPaths(s, rs, targets, detach))
<1> DEFINE nodes == TargetIds(rs, targets, "node")
           edges == TargetIds(rs, targets, "edge")
           left  == Without(s.g.edges, edges)
           loose == UNION {Incident(left, n) : n \in nodes}
           E == edges \cup loose
           g == Graph(Without(s.g.nodes, nodes), Without(left, loose), s.g.nextN, s.g.nextE)
           o == RecordDeletedNodes(RecordDeletedEdges(s.o, E), nodes)
           t == DeleteOverPaths(s, rs, targets, detach)
<1>1. t = Failed(s) \/ t = Step(TRUE, g, o, s.out)
  BY DEF DeleteOverPaths
<1>2. ASSUME NEW i \in DOMAIN rs, NEW v \in targets
      PROVE  /\ rs[i][v].kind = "node" => rs[i][v].id \in Ids(s.g.nodes) \cup s.o.gone
             /\ rs[i][v].kind = "edge" => rs[i][v].id \in Ids(s.g.edges) \cup s.o.cut
  <2>1. rs[i] \in Rows(s.g, s.o, V)
    OBVIOUS
  <2>2. v \in DOMAIN rs[i]
    BY <2>1 DEF Rows
  <2> QED BY <2>1, <2>2, RowBinds
<1>3. \A n \in nodes : n \in Ids(s.g.nodes) \cup s.o.gone
  BY <1>2 DEF TargetIds
<1>4. \A e \in edges : e \in Ids(s.g.edges) \cup s.o.cut
  BY <1>2 DEF TargetIds
<1> HIDE DEF nodes, edges
<1>5. Ids(left) = Ids(s.g.edges) \ edges /\ \A e \in Ids(left) : left[e] = s.g.edges[e]
  BY DEF Ids, Without
<1>6. /\ loose \subseteq Ids(left)
      /\ \A e \in Ids(left) \ loose : left[e].src \notin nodes /\ left[e].dst \notin nodes
  <2> HIDE DEF left
  <2> QED BY DEF Incident
<1>7. Without(left, loose) = Without(s.g.edges, E)
  BY DEF Without, Ids
<1> HIDE DEF left, loose
<1>8. \A e \in E : e \in Ids(s.g.edges) \cup s.o.cut
  BY <1>4, <1>5, <1>6
<1>9. \A e \in Ids(s.g.edges) \ E : s.g.edges[e].src \notin nodes /\ s.g.edges[e].dst \notin nodes
  BY <1>5, <1>6
<1>10. g = Graph(Without(s.g.nodes, nodes), Without(s.g.edges, E), s.g.nextN, s.g.nextE)
       /\ o = RecordDeletedNodes(RecordDeletedEdges(s.o, E), nodes)
  BY <1>7
<1> HIDE DEF g, o, E, t
<1>11. Mirrors(g, o) /\ Refs(s.g, s.o) \subseteq Refs(g, o)
  BY <1>3, <1>8, <1>9, <1>10, Deleted
<1>12. Keeps(s, t)
  <2>1. CASE t = Failed(s)
    BY <2>1, KeepsTrivially
  <2>2. CASE t = Step(TRUE, g, o, s.out)
    BY <2>2, <1>11, KeepsStep
  <2> QED BY <1>1, <2>1, <2>2
<1> QED BY <1>12 DEF t

\* The values of a sequence are finitely many and of its element type.
LEMMA RangeFinite ==
  ASSUME NEW R, NEW s \in Seq(R)
  PROVE  IsFiniteSet(Range(s)) /\ Range(s) \subseteq R
<1>1. Len(s) \in Nat /\ DOMAIN s = 1..Len(s)
  OBVIOUS
<1>2. IsFiniteSet(DOMAIN s)
  BY <1>1, FS_Interval
<1>3. IsFiniteSet({s[i] : i \in DOMAIN s})
  BY <1>2, ImageFinite
<1> QED BY <1>3 DEF Range

\* WITH keeps rows of the kept variables.
LEMMA ProjectedRows ==
  ASSUME NEW g, NEW o, NEW V, rows \in Seq(Rows(g, o, V)), NEW c, c.keep \subseteq V
  PROVE  Projected(c) \in Seq(Rows(g, o, c.keep))
<1> DEFINE R == Rows(g, o, c.keep)
           kept == [i \in DOMAIN rows |-> [v \in c.keep |-> rows[i][v]]]
<1>1. Len(rows) \in Nat /\ DOMAIN rows = 1..Len(rows)
  OBVIOUS
<1>2. ASSUME NEW i \in DOMAIN rows PROVE [v \in c.keep |-> rows[i][v]] \in R
  <2>1. rows[i] \in Rows(g, o, V)
    OBVIOUS
  <2>2. PICK X \in SUBSET Variables : rows[i] \in [X -> Refs(g, o)] /\ V \subseteq X
    BY <2>1 DEF Rows
  <2>3. [v \in c.keep |-> rows[i][v]] \in [c.keep -> Refs(g, o)] /\ c.keep \in SUBSET Variables
    BY <2>2
  <2> QED BY <2>3 DEF Rows
<1>3. kept \in [1..Len(rows) -> R]
  BY <1>1, <1>2
<1> HIDE DEF R, kept
<1>4. kept \in Seq(R)
  BY <1>1, <1>3, Listing
<1>5. IsFiniteSet(Range(kept)) /\ Range(kept) \subseteq R
  BY <1>4, RangeFinite
<1>6. SetToSeq(Range(kept)) \in Seq(Range(kept))
  BY <1>5, ListsSet
<1>7. SetToSeq(Range(kept)) \in Seq(R)
  <2> DEFINE T == Range(kept)
             q == SetToSeq(T)
  <2>1. q \in Seq(T) /\ T \subseteq R
    BY <1>5, <1>6
  <2> HIDE DEF T, q
  <2>2. q \in Seq(R)
    BY <2>1
  <2> QED BY <2>2 DEF q, T
<1>8. Projected(c) = IF c.distinct THEN SetToSeq(Range(kept)) ELSE kept
  BY DEF Projected, kept
<1> QED BY <1>4, <1>7, <1>8 DEF R

\* What the assumption on the menu gives for a clause in scope.
LEMMA ClauseSound ==
  ASSUME NEW c \in Menu, c.needs \subseteq scope
  PROVE  /\ c.op \in {"match", "create", "merge"} =>
              c.pat.hops \in Seq(Range(c.pat.hops)) /\ PatternVars(c.pat) \subseteq Variables
         /\ c.op \in {"create", "merge"} => Writing(c, scope)
         /\ c.op \in {"set", "remove"} => Names(c.items, scope)
         /\ c.op = "delete" => c.targets \subseteq scope
         /\ c.op \notin {"match", "create", "merge", "set", "remove", "delete"} =>
              c.op = "with" /\ c.keep \subseteq scope
<1>1. SoundClause(c)
  BY WriteAssumption
<1>2. c.op \in {"match", "create", "merge"} => PatternVars(c.pat) \subseteq Variables
  BY DEF Variables
<1>3. CASE c.op \in {"match", "create"}
  BY <1>1, <1>2, <1>3 DEF SoundClause, Writing
<1>4. CASE c.op = "merge"
  <2>1. /\ c.pat.hops \in Seq(Range(c.pat.hops))
        /\ Names(c.onMatch, c.needs \cup PatternVars(c.pat))
        /\ Names(c.onCreate, c.needs \cup PatternVars(c.pat))
    BY <1>1, <1>4 DEF SoundClause
  <2>2. Names(c.onMatch, scope \cup PatternVars(c.pat)) /\ Names(c.onCreate, scope \cup PatternVars(c.pat))
    BY <2>1 DEF Names, SoundExpr
  <2> QED BY <1>2, <1>4, <2>1, <2>2 DEF Writing
<1>5. CASE c.op \in {"set", "remove"}
  <2>1. Names(c.items, c.needs)
    BY <1>1, <1>5 DEF SoundClause
  <2>2. Names(c.items, scope)
    BY <2>1 DEF Names, SoundExpr
  <2> QED BY <1>5, <2>2
<1>6. CASE c.op = "delete"
  BY <1>1, <1>6 DEF SoundClause
<1>7. CASE c.op \notin {"match", "create", "merge", "set", "remove", "delete"}
  BY <1>1, <1>7 DEF SoundClause
<1> QED BY <1>3, <1>4, <1>5, <1>6, <1>7

\* SET and REMOVE leave the rows as they are.
LEMMA ItemsOut ==
  ASSUME NEW op, NEW s, NEW row, NEW items, Len(items) \in Nat
  PROVE  ApplyItems(op, s, row, items).out = s.out
<1>1. PICK f : ItemsRun(op, s, row, items, f)
  BY ItemsRuns
<1> DEFINE S == {i \in 0..Len(items) : f[i].out = s.out}
<1>2. 0 \in S
  BY <1>1 DEF ItemsRun
<1>3. ASSUME NEW i \in 0..Len(items), i # Len(items), i \in S PROVE i + 1 \in S
  <2>1. i + 1 \in 1..Len(items) /\ i + 1 \in 0..Len(items) /\ (i + 1) - 1 = i
    BY <1>3
  <2> DEFINE t == f[i]
  <2>2. f[i + 1] = ApplyItem(op, t, row, items[i + 1])
    BY <1>1, <2>1 DEF ItemsRun
  <2> HIDE DEF t
  <2>3. ApplySetItem(t, row, items[i + 1]).out = t.out
    BY DEF ApplySetItem, Failed, Step
  <2>4. ApplyRemoveItem(t, row, items[i + 1]).out = t.out
    BY DEF ApplyRemoveItem, Failed, Step
  <2>5. ApplyItem(op, t, row, items[i + 1]).out = t.out
    BY <2>3, <2>4 DEF ApplyItem
  <2> QED BY <1>3, <2>1, <2>2, <2>5 DEF t
<1>4. Len(items) \in S
  <2> HIDE DEF S
  <2>1. 0..Len(items) \subseteq S
    BY <1>2, <1>3, CountUp
  <2> QED BY <2>1
<1> QED BY <1>1, <1>4 DEF ItemsRun

\* The same for all rows.
LEMMA UpdateOut ==
  ASSUME NEW op, NEW s, NEW rs, NEW items, Len(rs) \in Nat, Len(items) \in Nat
  PROVE  UpdateRows(op, s, rs, items).out = s.out
<1>1. PICK f : UpdateRun(op, s, rs, items, f)
  BY UpdateRuns
<1> DEFINE S == {i \in 0..Len(rs) : f[i].out = s.out}
<1>2. 0 \in S
  BY <1>1 DEF UpdateRun
<1>3. ASSUME NEW i \in 0..Len(rs), i # Len(rs), i \in S PROVE i + 1 \in S
  <2>1. i + 1 \in 1..Len(rs) /\ i + 1 \in 0..Len(rs) /\ (i + 1) - 1 = i
    BY <1>3
  <2> DEFINE t == f[i]
  <2>2. f[i + 1] = ApplyItems(op, t, rs[i + 1], items)
    BY <1>1, <2>1 DEF UpdateRun
  <2> HIDE DEF t
  <2>3. ApplyItems(op, t, rs[i + 1], items).out = t.out
    BY ItemsOut
  <2> QED BY <1>3, <2>1, <2>2, <2>3 DEF t
<1>4. Len(rs) \in S
  <2> HIDE DEF S
  <2>1. 0..Len(rs) \subseteq S
    BY <1>2, <1>3, CountUp
  <2> QED BY <2>1
<1> QED BY <1>1, <1>4 DEF UpdateRun

\* A step that changed no row.
LEMMA RowsKept ==
  ASSUME NEW s, NEW t, Keeps(s, t), NEW V, s.out \in Seq(Rows(s.g, s.o, V)), t.out = s.out
  PROVE  Written(s, t, V)
<1>1. t.ok => t.out \in Seq(Rows(t.g, t.o, V))
  BY RowsGrow DEF Keeps
<1> QED BY <1>1 DEF Written

\* Every clause, from a state where the overlay mirrors the transaction.
LEMMA ClauseWritten ==
  ASSUME NEW c \in Menu, c.needs \subseteq scope, Mirrors(txn, ov), rows \in Seq(Rows(txn, ov, scope))
  PROVE  /\ Written(Step(TRUE, txn, ov, rows), RunClause(c), ScopeAfter(c))
         /\ c.op = "create" /\ RunClause(c).ok => Len(RunClause(c).out) = Len(rows)
<1> DEFINE s == Step(TRUE, txn, ov, rows)
           b == Step(TRUE, txn, ov, <<>>)
           t == RunClause(c)
           W == ScopeAfter(c)
<1>1. s.ok = TRUE /\ s.g = txn /\ s.o = ov /\ s.out = rows
  BY DEF Step
<1>2. b.ok = TRUE /\ b.g = txn /\ b.o = ov /\ b.out = <<>>
  BY DEF Step
<1>3. CASE c.op = "match"
  <2> DEFINE out == MatchRows(ov, rows, c.pat)
             P == PatternVars(c.pat)
  <2>1. t = Step(TRUE, txn, ov, out) /\ W = scope \cup P
    BY <1>3 DEF RunClause, ScopeAfter
  <2>2. out \in Seq(Rows(txn, ov, scope \cup P))
    <3> DEFINE ps == MatchPattern(ov, c.pat)
    <3>1. Matches(txn, ov, P, ps)
      BY <1>3, ClauseSound, PatternMatches
    <3> HIDE DEF ps
    <3>2. JoinRows(rows, ps) \in Seq(Rows(txn, ov, scope \cup P))
      BY <3>1, RowsJoined
    <3>3. <<>> \in Seq(Rows(txn, ov, scope \cup P))
      <4> DEFINE R == Rows(txn, ov, scope \cup P)
      <4> HIDE DEF R
      <4>1. <<>> \in Seq(R)
        OBVIOUS
      <4> QED BY <4>1 DEF R
    <3> QED BY <3>2, <3>3 DEF MatchRows, ps
  <2> HIDE DEF out
  <2>3. t.ok = TRUE /\ t.g = txn /\ t.o = ov /\ t.out = out
    BY <2>1 DEF Step
  <2> HIDE DEF s, t, W, P
  <2>4. Written(s, t, W)
    BY <1>1, <2>1, <2>2, <2>3 DEF Written, Keeps
  <2> QED BY <1>3, <2>4 DEF s, t, W
<1>4. CASE c.op \in {"create", "merge"}
  <2> DEFINE P == PatternVars(c.pat)
  <2>1. t = WriteRows(c, b, rows) /\ W = scope \cup P
    BY <1>4 DEF RunClause, ScopeAfter
  <2>2. Writing(c, scope)
    BY <1>4, ClauseSound
  <2> HIDE DEF s, b, t, W
  <2>3. /\ b.ok = TRUE /\ Mirrors(b.g, b.o) /\ rows \in Seq(Rows(b.g, b.o, scope))
        /\ b.out \in Seq(Rows(b.g, b.o, scope \cup PatternVars(c.pat))) /\ Len(b.out) = 0
    <3> DEFINE R == Rows(b.g, b.o, scope \cup PatternVars(c.pat))
    <3> HIDE DEF R
    <3>1. b.out \in Seq(R) /\ Len(b.out) = 0
      BY <1>2
    <3> QED BY <1>2, <3>1 DEF R
  <2>4. /\ Written(b, t, scope \cup P)
        /\ c.op = "create" /\ t.ok => Len(t.out) = Len(rows)
    <3> DEFINE w == WriteRows(c, b, rows)
    <3>1. WrittenAll(c, b, w, scope \cup PatternVars(c.pat), Len(rows))
      BY <2>2, <2>3, RowsWritten
    <3> QED BY <2>1, <3>1 DEF WrittenAll
  <2>5. Written(s, t, W)
    BY <1>1, <1>2, <2>1, <2>4 DEF Written, Keeps
  <2> QED BY <2>4, <2>5 DEF s, t, W
<1>5. CASE c.op \in {"set", "remove"}
  <2>1. t = UpdateRows(c.op, s, rows, c.items) /\ W = scope
    BY <1>5 DEF RunClause, ScopeAfter
  <2>2. Names(c.items, scope) /\ Len(c.items) \in Nat /\ Len(rows) \in Nat
    BY <1>5, ClauseSound DEF Names
  <2> HIDE DEF s, t, W
  <2>3. s.ok = TRUE /\ Mirrors(s.g, s.o) /\ rows \in Seq(Rows(s.g, s.o, scope)) /\ s.out \in Seq(Rows(s.g, s.o, scope))
    BY <1>1
  <2>4. Keeps(s, t)
    BY <1>5, <2>1, <2>2, <2>3, UpdateKeeps
  <2>5. t.out = s.out
    BY <2>1, <2>2, UpdateOut
  <2>6. Written(s, t, W)
    BY <2>1, <2>3, <2>4, <2>5, RowsKept
  <2> QED BY <1>5, <2>6 DEF s, t, W
<1>6. CASE c.op = "delete"
  <2>1. t = DeleteOverPaths(s, rows, c.targets, c.detach) /\ W = scope
    BY <1>6 DEF RunClause, ScopeAfter
  <2>2. c.targets \subseteq scope
    BY <1>6, ClauseSound
  <2> HIDE DEF s, t, W
  <2>3. s.ok = TRUE /\ Mirrors(s.g, s.o) /\ rows \in Seq(Rows(s.g, s.o, scope)) /\ s.out \in Seq(Rows(s.g, s.o, scope))
    BY <1>1
  <2>4. Keeps(s, t)
    BY <2>1, <2>2, <2>3, DeleteKeeps
  <2>5. t.out = s.out
    BY <2>1 DEF DeleteOverPaths, Failed, Step
  <2>6. Written(s, t, W)
    BY <2>1, <2>3, <2>4, <2>5, RowsKept
  <2> QED BY <1>6, <2>6 DEF s, t, W
<1>7. CASE c.op \notin {"match", "create", "merge", "set", "remove", "delete"}
  <2> DEFINE out == Projected(c)
  <2>1. c.op = "with" /\ c.keep \subseteq scope
    BY <1>7, ClauseSound
  <2>2. t = Step(TRUE, txn, ov, out) /\ W = c.keep
    BY <2>1 DEF RunClause, ScopeAfter
  <2>3. out \in Seq(Rows(txn, ov, c.keep))
    BY <2>1, ProjectedRows
  <2> HIDE DEF out
  <2>4. t.ok = TRUE /\ t.g = txn /\ t.o = ov /\ t.out = out
    BY <2>2 DEF Step
  <2> HIDE DEF s, t, W
  <2>5. Written(s, t, W)
    BY <1>1, <2>2, <2>3, <2>4 DEF Written, Keeps
  <2> QED BY <1>7, <2>5 DEF s, t, W
<1> QED BY <1>3, <1>4, <1>5, <1>6, <1>7

-----------------------------------------------------------------------------
(***************************************************************************)
(* The invariant.                                                          *)
(***************************************************************************)

\* A row is one for the variables it binds.
LEMMA SingleRow ==
  ASSUME NEW g, NEW o, NEW V, NEW r \in Rows(g, o, V)
  PROVE  <<r>> \in Seq(Rows(g, o, DOMAIN r))
<1>1. r \in Rows(g, o, DOMAIN r)
  BY DEF Rows
<1> QED BY <1>1

\* A transaction that has written nothing.
LEMMA NothingWritten ==
  ASSUME SoundGraph(db), txn = db, ov = NoWrites
  PROVE  Mirrors(txn, ov)
<1>1. /\ Ids(ov.nodes) = {} /\ Ids(ov.edges) = {} /\ ov.gone = {} /\ ov.cut = {}
  BY DEF NoWrites, Overlay, Ids
<1>2. MirrorsNodes(txn, ov)
  BY <1>1 DEF MirrorsNodes
<1>3. MirrorsEdges(txn, ov)
  BY <1>1 DEF MirrorsEdges
<1> QED BY <1>2, <1>3 DEF Mirrors

\* A row exists in every state: the empty one.
LEMMA EmptyRows ==
  ASSUME NEW g, NEW o
  PROVE  EmptyRow \in Rows(g, o, {}) /\ <<EmptyRow>> \in Seq(Rows(g, o, {}))
<1>1. EmptyRow \in [{} -> Refs(g, o)] /\ {} \in SUBSET Variables
  BY DEF EmptyRow
<1>2. EmptyRow \in Rows(g, o, {})
  BY <1>1 DEF Rows
<1> QED BY <1>2

\* A pipeline starts with an overlay that mirrors the committed graph.
LEMMA InitWrites == Init => WriteInv
<1>1. SUFFICES ASSUME Init PROVE WriteInv
  OBVIOUS
<1>2. SoundGraph(db)
  BY <1>1, WriteAssumption DEF Init
<1>3. Mirrors(txn, ov)
  BY <1>1, <1>2, NothingWritten DEF Init
<1>4. rows \in Seq(Rows(txn, ov, scope)) /\ shared \in Rows(txn, ov, {})
  BY <1>1, EmptyRows DEF Init
<1> QED BY <1>1, <1>3, <1>4 DEF Init, WriteInv

\* A statement that begins.
LEMMA BeginWrites ==
  ASSUME WriteInv, NEW kind \in {"query", "create", "direct"}, Begin(kind)
  PROVE  WriteInv'
<1>1. Mirrors(txn, ov) /\ shared \in Rows(txn, ov, {})
  BY DEF Begin, WriteInv
<1> DEFINE r == IF kind = "create" THEN shared ELSE EmptyRow
<1>2. rows' = <<r>> /\ scope' = DOMAIN r /\ r \in Rows(txn, ov, {})
  BY <1>1, EmptyRows DEF Begin
<1> HIDE DEF r
<1>3. <<r>> \in Seq(Rows(txn, ov, DOMAIN r))
  BY <1>2, SingleRow
<1>4. Len(rows') = 1
  BY <1>2
<1>5. UNCHANGED <<db, txn, ov, shared>>
  BY DEF Begin
<1>6. /\ Mirrors(txn, ov)' /\ (rows \in Seq(Rows(txn, ov, scope)))'
      /\ (shared \in Rows(txn, ov, {}))'
  BY <1>1, <1>2, <1>3, <1>5 DEF Mirrors, MirrorsNodes, MirrorsEdges
<1> QED BY <1>4, <1>6 DEF WriteInv

\* A clause that runs, or fails and takes the transaction with it.
LEMMA ClauseWrites ==
  ASSUME WriteInv, NEW c \in Menu, Clause(c)
  PROVE  WriteInv'
<1>1. PICK s \in {RunClause(c)} :
        /\ phase' = IF s.ok THEN "open" ELSE "failed"
        /\ txn' = IF s.ok THEN s.g ELSE db
        /\ ov' = IF s.ok THEN s.o ELSE NoWrites
        /\ rows' = IF s.ok THEN s.out ELSE <<>>
        /\ scope' = IF s.ok THEN ScopeAfter(c) ELSE {}
        /\ shared' = IF s.ok /\ stmt = "create" THEN s.out[1] ELSE shared
  BY DEF Clause
<1>2. /\ Mirrors(txn, ov) /\ rows \in Seq(Rows(txn, ov, scope)) /\ shared \in Rows(txn, ov, {})
      /\ stmt = "create" => Len(rows) = 1
  BY DEF Clause, WriteInv
<1>3. c.needs \subseteq scope /\ UNCHANGED <<db, stmt>> /\ (stmt = "create" => c.op = "create")
  BY DEF Clause, Allowed
<1>4. CASE ~s.ok
  BY <1>1, <1>4 DEF WriteInv
<1>5. CASE s.ok
  <2> DEFINE b == Step(TRUE, txn, ov, rows)
             W == ScopeAfter(c)
  <2>1. Written(b, s, W) /\ (c.op = "create" => Len(s.out) = Len(rows))
    BY <1>1, <1>2, <1>3, <1>5, ClauseWritten
  <2>2. b.g = txn /\ b.o = ov
    BY DEF Step
  <2>3. txn' = s.g /\ ov' = s.o /\ rows' = s.out /\ scope' = W
    BY <1>1, <1>5
  <2> HIDE DEF b, W
  <2>4. /\ Mirrors(s.g, s.o) /\ Refs(txn, ov) \subseteq Refs(s.g, s.o)
        /\ s.out \in Seq(Rows(s.g, s.o, W))
    BY <1>5, <2>1, <2>2 DEF Written, Keeps
  <2>5. shared' \in Rows(s.g, s.o, {})
    <3>1. shared \in Rows(s.g, s.o, {})
      BY <1>2, <2>4, RowsGrow
    <3>2. ASSUME stmt = "create" PROVE s.out[1] \in Rows(s.g, s.o, {})
      <4>1. Len(s.out) = 1
        BY <1>2, <1>3, <2>1, <3>2
      <4>2. s.out[1] \in Rows(s.g, s.o, W)
        BY <2>4, <4>1
      <4> QED BY <4>2, RowsGrow
    <3> QED BY <1>1, <1>5, <3>1, <3>2
  <2>6. Mirrors(txn, ov)'
    BY <1>3, <2>3, <2>4 DEF Mirrors, MirrorsNodes, MirrorsEdges
  <2>7. (rows \in Seq(Rows(txn, ov, scope)))' /\ (shared \in Rows(txn, ov, {}))'
    BY <2>3, <2>4, <2>5
  <2>8. stmt' = "create" => Len(rows') = 1
    BY <1>2, <1>3, <2>1, <2>3
  <2> QED BY <2>6, <2>7, <2>8 DEF WriteInv
<1> QED BY <1>4, <1>5

\* No step of a pipeline lets the overlay and the transaction drift apart.
LEMMA NextWrites == WriteInv /\ [Next]_vars => WriteInv'
<1>1. SUFFICES ASSUME WriteInv, [Next]_vars PROVE WriteInv'
  OBVIOUS
<1>2. ASSUME NEW kind \in {"query", "create", "direct"}, Begin(kind) PROVE WriteInv'
  BY <1>1, <1>2, BeginWrites
<1>3. ASSUME NEW c \in Menu, Clause(c) PROVE WriteInv'
  BY <1>1, <1>3, ClauseWrites
<1>4. CASE EndStatement
  <2>1. Mirrors(txn, ov) /\ shared \in Rows(txn, ov, {}) /\ UNCHANGED <<db, txn, ov, shared>>
    BY <1>1, <1>4 DEF EndStatement, WriteInv
  <2>2. rows' = <<EmptyRow>> /\ scope' = {} /\ stmt' = "none"
    BY <1>4 DEF EndStatement
  <2>3. Mirrors(txn, ov)'
    BY <2>1 DEF Mirrors, MirrorsNodes, MirrorsEdges
  <2>4. (rows \in Seq(Rows(txn, ov, scope)))' /\ (shared \in Rows(txn, ov, {}))'
    BY <2>1, <2>2, EmptyRows
  <2> QED BY <2>2, <2>3, <2>4 DEF WriteInv
<1>5. CASE Commit
  BY <1>5 DEF Commit, WriteInv
<1>6. CASE UNCHANGED vars
  <2>1. UNCHANGED <<db, txn, ov, rows, scope, shared, stmt, phase>>
    BY <1>6 DEF vars
  <2>2. Mirrors(txn, ov) => Mirrors(txn, ov)'
    BY <2>1 DEF Mirrors, MirrorsNodes, MirrorsEdges
  <2> QED BY <1>1, <2>1, <2>2 DEF WriteInv
<1> QED BY <1>1, <1>2, <1>3, <1>4, <1>5, <1>6 DEF Next

\* In every state of an open pipeline the transaction's graph is the committed
\* one corrected by the overlay, and rows and shared bindings name only what
\* the transaction has or has deleted (exec/write.rs, exec/expr.rs).
THEOREM WriteInvariance == Spec => []WriteInv
<1> QED BY InitWrites, NextWrites, PTL DEF Spec

\* Every read through the committed graph and the overlay answers what the
\* open transaction holds, after any sequence of clauses and statements.
THEOREM OverlayAgreement == Spec => []OverlayExact
<1>1. WriteInv => OverlayExact
  BY ReadsExact DEF WriteInv
<1> QED BY <1>1, WriteInvariance, PTL

-----------------------------------------------------------------------------
(***************************************************************************)
(* What SET, REMOVE and DELETE do to the transaction's graph.              *)
(***************************************************************************)

\* Taking ids out of a graph, as a record and as an update of one.
LEMMA TakenOut ==
  ASSUME NEW g, g = Graph(g.nodes, g.edges, g.nextN, g.nextE), NEW S, NEW T
  PROVE  Graph(Without(g.nodes, S), Without(g.edges, T), g.nextN, g.nextE) =
           [g EXCEPT !.nodes = Without(@, S), !.edges = Without(@, T)]
<1> DEFINE N == Without(g.nodes, S)
           E == Without(g.edges, T)
<1> HIDE DEF N, E
<1>1. [g EXCEPT !.nodes = N] = Graph(N, g.edges, g.nextN, g.nextE)
  BY DEF Graph
<1>2. [Graph(N, g.edges, g.nextN, g.nextE) EXCEPT !.edges = E] = Graph(N, E, g.nextN, g.nextE)
  BY DEF Graph
<1>3. [g EXCEPT !.nodes = N, !.edges = E] = [[g EXCEPT !.nodes = N] EXCEPT !.edges = E]
  OBVIOUS
<1>4. Graph(N, E, g.nextN, g.nextE) = [g EXCEPT !.nodes = N, !.edges = E]
  BY <1>1, <1>2, <1>3
<1> QED BY <1>4 DEF N, E

\* DELETE takes out what it should, or refuses (delete_over_paths).
LEMMA DeleteMeans ==
  ASSUME Mirrors(txn, ov), NEW c, NEW s,
         s = DeleteOverPaths(Step(TRUE, txn, ov, rows), rows, c.targets, c.detach),
         phase' = (IF s.ok THEN "open" ELSE "failed"), txn' = (IF s.ok THEN s.g ELSE db),
         rows' = (IF s.ok THEN s.out ELSE <<>>)
  PROVE  DeleteRight(c)
<1> DEFINE b == Step(TRUE, txn, ov, rows)
           nodes == TargetIds(rows, c.targets, "node")
           edges == TargetIds(rows, c.targets, "edge")
           left == Without(txn.edges, edges)
           loose == UNION {Incident(left, n) : n \in nodes}
           hung == {e \in Ids(txn.edges) \ edges : \E n \in nodes : e \in Incident(txn.edges, n)}
           o == RecordDeletedNodes(RecordDeletedEdges(ov, edges \cup loose), nodes)
           g == Graph(Without(txn.nodes, nodes), Without(left, loose), txn.nextN, txn.nextE)
<1>1. b.g = txn /\ b.o = ov /\ b.out = rows
  BY DEF Step
<1>2. s = IF ~c.detach /\ loose # {} THEN Failed(b) ELSE Step(TRUE, g, o, rows)
  BY ZenonT(60), <1>1 DEF DeleteOverPaths
<1>3. loose = hung
  <2>1. Ids(left) = Ids(txn.edges) \ edges /\ \A e \in Ids(left) : left[e] = txn.edges[e]
    BY DEF Without, Ids
  <2> HIDE DEF left, nodes, edges
  <2> QED BY <2>1 DEF Incident
<1>4. CASE ~c.detach /\ loose # {}
  <2>1. s.ok = FALSE
    BY <1>2, <1>4 DEF Failed, Step
  <2> QED BY <1>3, <1>4, <2>1 DEF DeleteRight
<1>5. CASE ~(~c.detach /\ loose # {})
  <2>1. s.ok = TRUE /\ s.g = g /\ s.out = rows
    BY <1>2, <1>5 DEF Step
  <2>2. Without(left, loose) = Without(txn.edges, edges \cup loose)
    <3> HIDE DEF loose, edges
    <3>1. DOMAIN left = DOMAIN txn.edges \ edges /\ \A e \in DOMAIN left : left[e] = txn.edges[e]
      BY DEF Without
    <3>2. DOMAIN left \ loose = DOMAIN txn.edges \ (edges \cup loose)
      BY <3>1
    <3> HIDE DEF left
    <3> QED BY <3>1, <3>2 DEF Without
  <2>3. g = [txn EXCEPT !.nodes = Without(@, nodes), !.edges = Without(@, edges \cup hung)]
    <3>1. txn = Graph(txn.nodes, txn.edges, txn.nextN, txn.nextE)
      BY DEF Mirrors, SoundGraph, WellStored
    <3>2. g = Graph(Without(txn.nodes, nodes), Without(txn.edges, edges \cup hung), txn.nextN, txn.nextE)
      BY <1>3, <2>2
    <3> HIDE DEF g, nodes, edges, hung
    <3> QED BY <3>1, <3>2, TakenOut
  <2>4. c.detach \/ hung = {}
    BY <1>3, <1>5
  <2> HIDE DEF g
  <2>5. phase' = "open" /\ txn' = g /\ rows' = rows
    BY <2>1
  <2> QED BY <2>3, <2>4, <2>5 DEF DeleteRight
<1> QED BY <1>4, <1>5

\* An expression reads the transaction's value, and raises exactly when the
\* entity it reads is gone (evaluate_expr under the overlay).
LEMMA ExprRead ==
  ASSUME NEW g, NEW o, Mirrors(g, o), NEW V, NEW row \in Rows(g, o, V), NEW e, SoundExpr(e, V)
  PROVE  /\ EvaluateExpr(o, row, e) = Raised <=> e.k = "var" /\ ~Exists(g, row[e.var])
         /\ EvaluateExpr(o, row, e) # Raised => EvaluateExpr(o, row, e) = ValueIn(g, row, e)
<1>1. CASE e.k = "none"
  BY <1>1, WriteAssumption DEF EvaluateExpr, ValueIn
<1>2. CASE e.k = "lit"
  BY <1>2 DEF EvaluateExpr, ValueIn, SoundExpr
<1>3. CASE e.k = "var"
  <2> DEFINE r == row[e.var]
  <2>1. e.var \in DOMAIN row
    BY <1>3 DEF SoundExpr, Rows
  <2>2. /\ r.kind = "node" => r.id \in Ids(g.nodes) \cup o.gone
        /\ r.kind = "edge" => r.id \in Ids(g.edges) \cup o.cut
        /\ r.kind \in {"node", "edge"}
    BY <2>1, RowBinds
  <2>3. EvaluateExpr(o, row, e) = IF r.kind = "node" THEN EvalNodeProp(o, r.id) ELSE EvalEdgeProp(o, r.id)
    BY <1>3 DEF EvaluateExpr
  <2>4. ValueIn(g, row, e) = IF r.kind = "node" THEN g.nodes[r.id].x ELSE g.edges[r.id].x
    BY <1>3 DEF ValueIn
  <2>5. Exists(g, r) <=> r.id \in (IF r.kind = "node" THEN Ids(g.nodes) ELSE Ids(g.edges))
    BY DEF Exists
  <2> HIDE DEF r
  <2>6. \A n \in Ids(g.nodes) : EvalNodeProp(o, n) = g.nodes[n].x /\ g.nodes[n].x # Raised
    BY PropsRead DEF Mirrors, SoundGraph, WellStored
  <2>7. \A d \in Ids(g.edges) : EvalEdgeProp(o, d) = g.edges[d].x /\ g.edges[d].x # Raised
    BY PropsRead DEF Mirrors, SoundGraph, WellStored
  <2>8. \A n \in o.gone : EvalNodeProp(o, n) = Raised
    BY DEF EvalNodeProp
  <2>9. \A d \in o.cut : EvalEdgeProp(o, d) = Raised
    BY DEF EvalEdgeProp
  <2> QED BY <1>3, <2>2, <2>3, <2>4, <2>5, <2>6, <2>7, <2>8, <2>9 DEF r
<1> QED BY <1>1, <1>2, <1>3 DEF SoundExpr

\* What one item makes of a node's labels and of its property.
LabelsThen(op, it, labels) ==
  IF it.op # "labels" THEN labels ELSE IF op = "set" THEN labels \cup {it.label} ELSE labels \ {it.label}
PropThen(op, it, g, row, x) ==
  IF it.op = "labels" \/ (op = "set" /\ it.op = "merge" /\ it.x.k = "none") THEN x
  ELSE IF op = "remove" THEN Null ELSE ValueIn(g, row, it.x)

\* Why an item fails on a row.
Stuck(op, it, row, g) ==
  /\ it.op = "labels" => op = "set" /\ row[it.var].kind = "node"
  /\ \/ ~Exists(g, row[it.var])
     \/ op = "set" /\ it.x.k = "var" /\ ~Exists(g, row[it.x.var])

\* The node n and the edge e of g, which one item made of g0.
NodeThen(op, it, row, g0, g, n) ==
  g.nodes[n] = IF row[it.var] # NodeRef(n) THEN g0.nodes[n]
               ELSE Node(LabelsThen(op, it, g0.nodes[n].labels), PropThen(op, it, g0, row, g0.nodes[n].x))
EdgeThen(op, it, row, g0, g, e) ==
  g.edges[e] = IF row[it.var] # EdgeRef(e) \/ it.op = "labels" THEN g0.edges[e]
               ELSE Edge(g0.edges[e].src, g0.edges[e].dst, g0.edges[e].type,
                         PropThen(op, it, g0, row, g0.edges[e].x))

\* An item that goes through changes what it names and nothing else, and
\* neither creates nor deletes; it fails exactly where it is stuck.
ItemDone(op, it, row, s, t) ==
  /\ t.ok => /\ Ids(t.g.nodes) = Ids(s.g.nodes) /\ Ids(t.g.edges) = Ids(s.g.edges)
             /\ \A n \in Ids(s.g.nodes) : NodeThen(op, it, row, s.g, t.g, n)
             /\ \A e \in Ids(s.g.edges) : EdgeThen(op, it, row, s.g, t.g, e)
  /\ ~t.ok <=> Stuck(op, it, row, s.g)

\* A node written in place: no id comes or goes.
LEMMA InPlace ==
  ASSUME NEW g, NEW n \in Ids(g.nodes), NEW labels, NEW x, NEW h, h = WithNode(g, n, labels, x)
  PROVE  /\ Ids(h.nodes) = Ids(g.nodes) /\ Ids(h.edges) = Ids(g.edges) /\ h.edges = g.edges
         /\ h.nodes[n] = Node(labels, x) /\ \A m \in Ids(g.nodes) : m # n => h.nodes[m] = g.nodes[m]
<1>1. h.nodes = With(g.nodes, n, Node(labels, x)) /\ h.edges = g.edges
  BY DEF WithNode, Graph
<1> QED BY <1>1 DEF With, Ids

\* An edge written in place.
LEMMA EdgeInPlace ==
  ASSUME NEW g, NEW e \in Ids(g.edges), NEW edge, NEW h, h = WithEdge(g, e, edge)
  PROVE  /\ Ids(h.nodes) = Ids(g.nodes) /\ Ids(h.edges) = Ids(g.edges) /\ h.nodes = g.nodes
         /\ h.edges[e] = edge /\ \A d \in Ids(g.edges) : d # e => h.edges[d] = g.edges[d]
<1>1. h.nodes = g.nodes /\ h.edges = With(g.edges, e, edge)
  BY DEF WithEdge, Graph
<1> QED BY <1>1 DEF With, Ids

\* A row binds a node or an edge, which only a reference to it equals.
LEMMA RefIs ==
  ASSUME NEW g, NEW o, NEW V, NEW row \in Rows(g, o, V), NEW v \in V
  PROVE  /\ row[v].kind \in {"node", "edge"}
         /\ \A n : row[v] = NodeRef(n) <=> row[v].kind = "node" /\ row[v].id = n
         /\ \A e : row[v] = EdgeRef(e) <=> row[v].kind # "node" /\ row[v].id = e
<1>1. v \in DOMAIN row
  BY DEF Rows
<1>2. row[v] \in Refs(g, o)
  BY <1>1, RowBinds
<1> QED BY <1>2 DEF Refs, NodeRef, EdgeRef

\* What one SET item does.
LEMMA SetItemDone ==
  ASSUME NEW s, s.ok = TRUE, Mirrors(s.g, s.o), NEW V, NEW row \in Rows(s.g, s.o, V),
         NEW it, it.var \in V, SoundExpr(it.x, V)
  PROVE  ItemDone("set", it, row, s, ApplySetItem(s, row, it))
<1> DEFINE v == EvaluateExpr(s.o, row, it.x)
           id == row[it.var].id
           isN == row[it.var].kind = "node"
           keep == it.op = "merge" /\ it.x.k = "none"
           x == IF ~keep THEN v ELSE IF isN THEN s.g.nodes[id].x ELSE s.g.edges[id].x
           t == ApplySetItem(s, row, it)
<1>0. /\ row[it.var].kind \in {"node", "edge"}
      /\ \A n : row[it.var] = NodeRef(n) <=> isN /\ id = n
      /\ \A e : row[it.var] = EdgeRef(e) <=> ~isN /\ id = e
  BY RefIs
<1>1. /\ v = Raised <=> it.x.k = "var" /\ ~Exists(s.g, row[it.x.var])
      /\ v # Raised => v = ValueIn(s.g, row, it.x)
  BY ExprRead
<1>2. Exists(s.g, row[it.var]) <=> id \in (IF isN THEN Ids(s.g.nodes) ELSE Ids(s.g.edges))
  BY DEF Exists
<1>3. CASE it.op = "labels" /\ ~isN
  <2>1. t = s
    BY <1>3 DEF ApplySetItem
  <2> HIDE DEF t
  <2>2. ~Stuck("set", it, row, s.g)
    BY <1>3 DEF Stuck
  <2> QED BY <1>0, <1>3, <2>1, <2>2 DEF ItemDone, NodeThen, EdgeThen, t
<1>4. CASE ~(it.op = "labels" /\ ~isN)
           /\ (v = Raised \/ id \notin (IF isN THEN Ids(s.g.nodes) ELSE Ids(s.g.edges)))
  <2>1. t = Failed(s)
    BY <1>4 DEF ApplySetItem
  <2>2. t.ok = FALSE
    BY <2>1 DEF Failed, Step
  <2> HIDE DEF t
  <2>3. Stuck("set", it, row, s.g)
    BY <1>0, <1>1, <1>2, <1>4 DEF Stuck
  <2> QED BY <2>2, <2>3 DEF ItemDone, t
<1>5. CASE v # Raised /\ isN /\ id \in Ids(s.g.nodes) /\ it.op = "labels"
  <2> DEFINE L == s.g.nodes[id].labels \cup {it.label}
             y == s.g.nodes[id].x
             g == WithNode(s.g, id, L, y)
             o == AddLabelPending(g, s.o, id, it.label)
  <2>1. t = Step(TRUE, g, o, s.out)
    BY <1>5 DEF ApplySetItem
  <2>2. t.ok = TRUE /\ t.g = g
    <3> HIDE DEF t, g, o
    <3> QED BY <2>1 DEF Step
  <2>3. /\ LabelsThen("set", it, s.g.nodes[id].labels) = L
        /\ PropThen("set", it, s.g, row, s.g.nodes[id].x) = y
    BY <1>5 DEF LabelsThen, PropThen
  <2> HIDE DEF L, y
  <2>4. /\ Ids(g.nodes) = Ids(s.g.nodes) /\ Ids(g.edges) = Ids(s.g.edges) /\ g.nodes[id] = Node(L, y) /\ g.edges = s.g.edges
        /\ \A m \in Ids(s.g.nodes) : m # id => g.nodes[m] = s.g.nodes[m]
    <3>1. id \in Ids(s.g.nodes)
      BY <1>5
    <3>2. g.nodes = With(s.g.nodes, id, Node(L, y)) /\ g.edges = s.g.edges
      BY DEF WithNode, Graph
    <3> HIDE DEF id, g
    <3> QED BY <3>1, <3>2 DEF With, Ids
  <2> HIDE DEF t, g
  <2>5. ~Stuck("set", it, row, s.g)
    BY <1>1, <1>2, <1>5 DEF Stuck
  <2> QED BY <1>0, <1>5, <2>2, <2>3, <2>4, <2>5 DEF ItemDone, NodeThen, EdgeThen, t
<1>6. CASE v # Raised /\ isN /\ id \in Ids(s.g.nodes) /\ it.op # "labels"
  <2> DEFINE L == s.g.nodes[id].labels
             g == WithNode(s.g, id, L, x)
             o == UpdateNodeProps(g, s.o, id, x)
  <2>1. t = Step(TRUE, g, o, s.out)
    BY <1>6 DEF ApplySetItem
  <2>2. t.ok = TRUE /\ t.g = g
    <3> HIDE DEF t, g, o
    <3> QED BY <2>1 DEF Step
  <2>3. /\ LabelsThen("set", it, s.g.nodes[id].labels) = L
        /\ PropThen("set", it, s.g, row, s.g.nodes[id].x) = x
    BY <1>1, <1>6 DEF LabelsThen, PropThen
  <2> HIDE DEF x
  <2>4. /\ Ids(g.nodes) = Ids(s.g.nodes) /\ Ids(g.edges) = Ids(s.g.edges) /\ g.nodes[id] = Node(L, x) /\ g.edges = s.g.edges
        /\ \A m \in Ids(s.g.nodes) : m # id => g.nodes[m] = s.g.nodes[m]
    <3>1. id \in Ids(s.g.nodes) /\ g = WithNode(s.g, id, L, x)
      BY <1>6
    <3> HIDE DEF id, g
    <3> QED BY <3>1, InPlace
  <2> HIDE DEF t, g
  <2>5. ~Stuck("set", it, row, s.g)
    BY <1>1, <1>2, <1>6 DEF Stuck
  <2>6. ItemDone("set", it, row, s, t)
    <3> HIDE DEF id, isN, v, x, L
    <3> QED BY <1>0, <1>6, <2>2, <2>3, <2>4, <2>5 DEF ItemDone, NodeThen, EdgeThen
  <2> QED BY <2>6 DEF t
<1>7. CASE v # Raised /\ ~isN /\ id \in Ids(s.g.edges) /\ it.op # "labels"
  <2> DEFINE old == s.g.edges[id]
             g == WithEdge(s.g, id, Edge(old.src, old.dst, old.type, x))
             o == UpdateEdgeProps(g, s.o, id, x)
  <2>1. t = Step(TRUE, g, o, s.out)
    BY <1>7 DEF ApplySetItem
  <2>2. t.ok = TRUE /\ t.g = g
    <3> HIDE DEF t, g, o
    <3> QED BY <2>1 DEF Step
  <2> HIDE DEF x
  <2>3. /\ Ids(g.nodes) = Ids(s.g.nodes) /\ Ids(g.edges) = Ids(s.g.edges) /\ g.nodes = s.g.nodes
        /\ g.edges[id] = Edge(old.src, old.dst, old.type, x)
        /\ \A d \in Ids(s.g.edges) : d # id => g.edges[d] = s.g.edges[d]
    <3>1. id \in Ids(s.g.edges) /\ g = WithEdge(s.g, id, Edge(old.src, old.dst, old.type, x))
      BY <1>7
    <3> HIDE DEF id, g, old
    <3> QED BY SMTT(60), <3>1, EdgeInPlace
  <2>4. PropThen("set", it, s.g, row, s.g.edges[id].x) = x
    BY <1>1, <1>7 DEF PropThen, x
  <2> HIDE DEF t, g
  <2>5. ~Stuck("set", it, row, s.g)
    BY <1>1, <1>2, <1>7 DEF Stuck
  <2> QED BY <1>0, <1>7, <2>2, <2>3, <2>4, <2>5 DEF ItemDone, NodeThen, EdgeThen, t
<1> QED BY <1>3, <1>4, <1>5, <1>6, <1>7

\* What one REMOVE item does.
LEMMA RemoveItemDone ==
  ASSUME NEW s, s.ok = TRUE, Mirrors(s.g, s.o), NEW V, NEW row \in Rows(s.g, s.o, V),
         NEW it, it.var \in V
  PROVE  ItemDone("remove", it, row, s, ApplyRemoveItem(s, row, it))
<1> DEFINE id == row[it.var].id
           isN == row[it.var].kind = "node"
           t == ApplyRemoveItem(s, row, it)
<1>0. /\ row[it.var].kind \in {"node", "edge"}
      /\ \A n : row[it.var] = NodeRef(n) <=> isN /\ id = n
      /\ \A e : row[it.var] = EdgeRef(e) <=> ~isN /\ id = e
  BY RefIs
<1>1. Exists(s.g, row[it.var]) <=> id \in (IF isN THEN Ids(s.g.nodes) ELSE Ids(s.g.edges))
  BY DEF Exists
<1>2. CASE it.op = "labels" /\ ~isN
  <2>1. t = s
    BY <1>2 DEF ApplyRemoveItem
  <2> HIDE DEF t
  <2>2. ~Stuck("remove", it, row, s.g)
    BY <1>2 DEF Stuck
  <2> QED BY <1>0, <1>2, <2>1, <2>2 DEF ItemDone, NodeThen, EdgeThen, t
<1>3. CASE it.op # "labels" /\ id \notin (IF isN THEN Ids(s.g.nodes) ELSE Ids(s.g.edges))
  <2>1. t = Failed(s)
    BY <1>3 DEF ApplyRemoveItem
  <2>2. t.ok = FALSE
    BY <2>1 DEF Failed, Step
  <2> HIDE DEF t
  <2>3. Stuck("remove", it, row, s.g)
    BY <1>1, <1>3 DEF Stuck
  <2> QED BY <2>2, <2>3 DEF ItemDone, t
<1>4. CASE isN /\ it.op = "labels" /\ id \in Ids(s.g.nodes)
  <2> DEFINE L == s.g.nodes[id].labels \ {it.label}
             y == s.g.nodes[id].x
             g == WithNode(s.g, id, L, y)
             o == RemoveLabelPending(g, s.o, id, it.label)
  <2>1. t = Step(TRUE, g, o, s.out)
    BY <1>4 DEF ApplyRemoveItem
  <2>2. t.ok = TRUE /\ t.g = g
    <3> HIDE DEF t, g, o
    <3> QED BY <2>1 DEF Step
  <2>3. /\ LabelsThen("remove", it, s.g.nodes[id].labels) = L
        /\ PropThen("remove", it, s.g, row, s.g.nodes[id].x) = y
    BY <1>4 DEF LabelsThen, PropThen
  <2> HIDE DEF L, y
  <2>4. /\ Ids(g.nodes) = Ids(s.g.nodes) /\ Ids(g.edges) = Ids(s.g.edges) /\ g.nodes[id] = Node(L, y) /\ g.edges = s.g.edges
        /\ \A m \in Ids(s.g.nodes) : m # id => g.nodes[m] = s.g.nodes[m]
    <3>1. id \in Ids(s.g.nodes) /\ g = WithNode(s.g, id, L, y)
      BY <1>4
    <3> HIDE DEF id, g
    <3> QED BY <3>1, InPlace
  <2> HIDE DEF t, g
  <2>5. ~Stuck("remove", it, row, s.g)
    BY <1>1, <1>4 DEF Stuck
  <2> QED BY <1>0, <1>4, <2>2, <2>3, <2>4, <2>5 DEF ItemDone, NodeThen, EdgeThen, t
<1>5. CASE isN /\ it.op = "labels" /\ id \notin Ids(s.g.nodes)
  <2> DEFINE o == RemoveLabelPending(s.g, s.o, id, it.label)
  <2>1. t = Step(TRUE, s.g, o, s.out)
    BY <1>5 DEF ApplyRemoveItem
  <2>2. t.ok = TRUE /\ t.g = s.g
    BY <2>1 DEF Step
  <2> HIDE DEF t
  <2>3. ~Stuck("remove", it, row, s.g)
    BY <1>5 DEF Stuck
  <2> QED BY <1>0, <1>5, <2>2, <2>3 DEF ItemDone, NodeThen, EdgeThen, t
<1>6. CASE isN /\ it.op # "labels" /\ id \in Ids(s.g.nodes)
  <2> DEFINE L == s.g.nodes[id].labels
             g == WithNode(s.g, id, L, Null)
             o == UpdateNodeProps(g, s.o, id, Null)
  <2>1. t = Step(TRUE, g, o, s.out)
    BY <1>6 DEF ApplyRemoveItem
  <2>2. t.ok = TRUE /\ t.g = g
    <3> HIDE DEF t, g, o
    <3> QED BY <2>1 DEF Step
  <2>3. /\ LabelsThen("remove", it, s.g.nodes[id].labels) = L
        /\ PropThen("remove", it, s.g, row, s.g.nodes[id].x) = Null
    BY <1>6 DEF LabelsThen, PropThen
  <2>4. /\ Ids(g.nodes) = Ids(s.g.nodes) /\ Ids(g.edges) = Ids(s.g.edges) /\ g.nodes[id] = Node(L, Null) /\ g.edges = s.g.edges
        /\ \A m \in Ids(s.g.nodes) : m # id => g.nodes[m] = s.g.nodes[m]
    <3>1. id \in Ids(s.g.nodes) /\ g = WithNode(s.g, id, L, Null)
      BY <1>6
    <3> HIDE DEF id, g, L
    <3> QED BY <3>1, InPlace
  <2> HIDE DEF t, g
  <2>5. ~Stuck("remove", it, row, s.g)
    BY <1>1, <1>6 DEF Stuck
  <2>6. ItemDone("remove", it, row, s, t)
    <3> HIDE DEF id, isN, L
    <3> QED BY <1>0, <1>6, <2>2, <2>3, <2>4, <2>5 DEF ItemDone, NodeThen, EdgeThen
  <2> QED BY <2>6 DEF t
<1>7. CASE ~isN /\ it.op # "labels" /\ id \in Ids(s.g.edges)
  <2> DEFINE old == s.g.edges[id]
             g == WithEdge(s.g, id, Edge(old.src, old.dst, old.type, Null))
             o == UpdateEdgeProps(g, s.o, id, Null)
  <2>1. t = Step(TRUE, g, o, s.out)
    BY <1>7 DEF ApplyRemoveItem
  <2>2. t.ok = TRUE /\ t.g = g
    <3> HIDE DEF t, g, o
    <3> QED BY <2>1 DEF Step
  <2>3. /\ Ids(g.nodes) = Ids(s.g.nodes) /\ Ids(g.edges) = Ids(s.g.edges) /\ g.nodes = s.g.nodes
        /\ g.edges[id] = Edge(old.src, old.dst, old.type, Null)
        /\ \A d \in Ids(s.g.edges) : d # id => g.edges[d] = s.g.edges[d]
    <3>1. id \in Ids(s.g.edges)
      BY <1>7
    <3>2. g.nodes = s.g.nodes /\ g.edges = With(s.g.edges, id, Edge(old.src, old.dst, old.type, Null))
      BY DEF WithEdge, Graph
    <3> HIDE DEF id, g, old
    <3> QED BY <3>1, <3>2 DEF With, Ids
  <2>4. PropThen("remove", it, s.g, row, s.g.edges[id].x) = Null
    BY <1>7 DEF PropThen
  <2> HIDE DEF t, g
  <2>5. ~Stuck("remove", it, row, s.g)
    BY <1>1, <1>7 DEF Stuck
  <2> QED BY <1>0, <1>7, <2>2, <2>3, <2>4, <2>5 DEF ItemDone, NodeThen, EdgeThen, t
<1> QED BY <1>2, <1>3, <1>4, <1>5, <1>6, <1>7

\* A clause of one item applies it to every row in turn.
LEMMA SingleItem ==
  ASSUME NEW op, NEW s, NEW row, NEW items, Len(items) = 1
  PROVE  ApplyItems(op, s, row, items) = ApplyItem(op, s, row, items[1])
<1>1. PICK f : ItemsRun(op, s, row, items, f)
  BY ItemsRuns
<1>2. f[0] = s /\ f[1] = ApplyItem(op, f[1-1], row, items[1]) /\ ApplyItems(op, s, row, items) = f[1]
  BY <1>1 DEF ItemsRun
<1> QED BY <1>2

\* What the first k rows make of the graph g0 under a clause of one item.  A
\* value that is read from a row is told only where there is one row: a later
\* row may read what an earlier one wrote.
RowsDone(op, it, rs, g0, k, g) ==
  /\ Ids(g.nodes) = Ids(g0.nodes) /\ Ids(g.edges) = Ids(g0.edges)
  /\ \A n \in Ids(g0.nodes) :
       /\ (\A i \in 1..k : rs[i][it.var] # NodeRef(n)) => g.nodes[n] = g0.nodes[n]
       /\ (\E i \in 1..k : rs[i][it.var] = NodeRef(n)) =>
            /\ g.nodes[n].labels = LabelsThen(op, it, g0.nodes[n].labels)
            /\ it.op = "labels" \/ Len(rs) = 1 \/ it.x.k # "var" =>
                 g.nodes[n].x = PropThen(op, it, g0, rs[1], g0.nodes[n].x)
  /\ \A e \in Ids(g0.edges) :
       /\ (it.op = "labels" \/ \A i \in 1..k : rs[i][it.var] # EdgeRef(e)) => g.edges[e] = g0.edges[e]
       /\ it.op # "labels" /\ (\E i \in 1..k : rs[i][it.var] = EdgeRef(e)) =>
            /\ g.edges[e] = Edge(g0.edges[e].src, g0.edges[e].dst, g0.edges[e].type, g.edges[e].x)
            /\ Len(rs) = 1 \/ it.x.k # "var" => g.edges[e].x = PropThen(op, it, g0, rs[1], g0.edges[e].x)

\* What an expression that reads no row is worth.
LEMMA ValueFixed ==
  ASSUME NEW e, e.k # "var", e.k \in {"none", "lit", "var"}, NEW g, NEW h, NEW r, NEW q
  PROVE  ValueIn(g, r, e) = ValueIn(h, q, e)
BY DEF ValueIn

\* The step from s, with k rows done, to t, with m.
NextRow(op, it, rs, g0, k, m, s, t) ==
  /\ op \in {"set", "remove"} /\ it.x.k \in {"none", "lit", "var"}
  /\ 1..m = (1..k) \cup {m}
  /\ Len(rs) = 1 => m = 1 /\ s.g = g0
  /\ RowsDone(op, it, rs, g0, k, s.g)
  /\ t.ok = TRUE /\ ItemDone(op, it, rs[m], s, t)

\* One more row.
LEMMA RowDone ==
  ASSUME NEW op, NEW it, NEW rs, NEW g0, NEW k, NEW m, NEW s, NEW t,
         NextRow(op, it, rs, g0, k, m, s, t)
  PROVE  RowsDone(op, it, rs, g0, m, t.g)
<1>0. /\ op \in {"set", "remove"} /\ it.x.k \in {"none", "lit", "var"}
      /\ 1..m = (1..k) \cup {m} /\ (Len(rs) = 1 => m = 1 /\ s.g = g0)
      /\ RowsDone(op, it, rs, g0, k, s.g) /\ t.ok = TRUE /\ ItemDone(op, it, rs[m], s, t)
  BY DEF NextRow
<1> USE <1>0
<1> DEFINE r == rs[m]
<1>1. /\ Ids(s.g.nodes) = Ids(g0.nodes) /\ Ids(s.g.edges) = Ids(g0.edges)
      /\ Ids(t.g.nodes) = Ids(s.g.nodes) /\ Ids(t.g.edges) = Ids(s.g.edges)
  BY DEF RowsDone, ItemDone
<1>2. ASSUME NEW n \in Ids(g0.nodes)
      PROVE  /\ (\A i \in 1..m : rs[i][it.var] # NodeRef(n)) => t.g.nodes[n] = g0.nodes[n]
             /\ (\E i \in 1..m : rs[i][it.var] = NodeRef(n)) =>
                  /\ t.g.nodes[n].labels = LabelsThen(op, it, g0.nodes[n].labels)
                  /\ it.op = "labels" \/ Len(rs) = 1 \/ it.x.k # "var" =>
                       t.g.nodes[n].x = PropThen(op, it, g0, rs[1], g0.nodes[n].x)
  <2> DEFINE before == \E i \in 1..k : rs[i][it.var] = NodeRef(n)
             old == s.g.nodes[n]
             new == t.g.nodes[n]
  <2>1. /\ ~before => old = g0.nodes[n]
        /\ before => /\ old.labels = LabelsThen(op, it, g0.nodes[n].labels)
                     /\ it.op = "labels" \/ Len(rs) = 1 \/ it.x.k # "var" =>
                          old.x = PropThen(op, it, g0, rs[1], g0.nodes[n].x)
    BY DEF RowsDone
  <2>2. (\E i \in 1..m : rs[i][it.var] = NodeRef(n)) <=> before \/ r[it.var] = NodeRef(n)
    OBVIOUS
  <2>3. CASE r[it.var] # NodeRef(n)
    <3>1. new = old
      BY <1>1, <2>3 DEF ItemDone, NodeThen
    <3> HIDE DEF before, old, new, r
    <3> QED BY <2>1, <2>2, <2>3, <3>1 DEF new
  <2>4. CASE r[it.var] = NodeRef(n)
    <3>1. new = Node(LabelsThen(op, it, old.labels), PropThen(op, it, s.g, r, old.x))
      BY <1>1, <2>4 DEF ItemDone, NodeThen
    <3>2. new.labels = LabelsThen(op, it, old.labels) /\ new.x = PropThen(op, it, s.g, r, old.x)
      BY <3>1 DEF Node
    <3>3. LabelsThen(op, it, LabelsThen(op, it, g0.nodes[n].labels)) = LabelsThen(op, it, g0.nodes[n].labels)
      BY DEF LabelsThen
    <3>4. new.labels = LabelsThen(op, it, g0.nodes[n].labels)
      <4> HIDE DEF old, new, before
      <4> QED BY <2>1, <3>2, <3>3
    <3>5. ASSUME it.op = "labels" \/ Len(rs) = 1 \/ it.x.k # "var"
          PROVE  new.x = PropThen(op, it, g0, rs[1], g0.nodes[n].x)
      <4>1. CASE it.op = "labels" \/ (op = "set" /\ it.op = "merge" /\ it.x.k = "none")
        <5>1. \A g, q, x : PropThen(op, it, g, q, x) = x
          BY <4>1 DEF PropThen
        <5> HIDE DEF old, new, before
        <5> QED BY <2>1, <3>2, <3>5, <5>1
      <4>2. CASE ~(it.op = "labels" \/ (op = "set" /\ it.op = "merge" /\ it.x.k = "none"))
        <5>1. \A g, q, x : PropThen(op, it, g, q, x) = IF op = "remove" THEN Null ELSE ValueIn(g, q, it.x)
          BY <4>2 DEF PropThen
        <5>2. ValueIn(s.g, r, it.x) = ValueIn(g0, rs[1], it.x)
          <6>1. CASE Len(rs) = 1
            BY <6>1
          <6>2. CASE it.x.k # "var"
            BY <6>2, ValueFixed
          <6> QED BY <3>5, <4>2, <6>1, <6>2
        <5> HIDE DEF old, new, before, r
        <5> QED BY <3>2, <5>1, <5>2
      <4> QED BY <4>1, <4>2
    <3> HIDE DEF before, old, new, r
    <3> QED BY <2>2, <2>4, <3>4, <3>5 DEF new
  <2> QED BY <2>3, <2>4
<1>3. ASSUME NEW e \in Ids(g0.edges)
      PROVE  /\ (it.op = "labels" \/ \A i \in 1..m : rs[i][it.var] # EdgeRef(e)) => t.g.edges[e] = g0.edges[e]
             /\ it.op # "labels" /\ (\E i \in 1..m : rs[i][it.var] = EdgeRef(e)) =>
                  /\ t.g.edges[e] = Edge(g0.edges[e].src, g0.edges[e].dst, g0.edges[e].type, t.g.edges[e].x)
                  /\ Len(rs) = 1 \/ it.x.k # "var" => t.g.edges[e].x = PropThen(op, it, g0, rs[1], g0.edges[e].x)
  <2> DEFINE before == \E i \in 1..k : rs[i][it.var] = EdgeRef(e)
             first == g0.edges[e]
             old == s.g.edges[e]
             new == t.g.edges[e]
  <2>1. /\ it.op = "labels" \/ ~before => old = first
        /\ it.op # "labels" /\ before =>
             /\ old = Edge(first.src, first.dst, first.type, old.x)
             /\ Len(rs) = 1 \/ it.x.k # "var" => old.x = PropThen(op, it, g0, rs[1], first.x)
    BY DEF RowsDone
  <2>2. (\E i \in 1..m : rs[i][it.var] = EdgeRef(e)) <=> before \/ r[it.var] = EdgeRef(e)
    OBVIOUS
  <2>3. CASE it.op = "labels" \/ r[it.var] # EdgeRef(e)
    <3>1. new = old
      BY <1>1, <2>3 DEF ItemDone, EdgeThen
    <3> HIDE DEF before, old, new, r, first
    <3> QED BY <2>1, <2>2, <2>3, <3>1 DEF new, first
  <2>4. CASE it.op # "labels" /\ r[it.var] = EdgeRef(e)
    <3>1. new = Edge(old.src, old.dst, old.type, PropThen(op, it, s.g, r, old.x))
      BY <1>1, <2>4 DEF ItemDone, EdgeThen
    <3> HIDE DEF before, old, new, r, first
    <3>2. old.src = first.src /\ old.dst = first.dst /\ old.type = first.type
      BY <2>1, <2>4 DEF Edge
    <3>3. new.x = PropThen(op, it, s.g, r, old.x)
      BY <3>1 DEF Edge
    <3>4. new = Edge(first.src, first.dst, first.type, new.x)
      BY <3>1, <3>2, <3>3
    <3>5. ASSUME Len(rs) = 1 \/ it.x.k # "var" PROVE new.x = PropThen(op, it, g0, rs[1], first.x)
      <4>1. CASE op = "set" /\ it.op = "merge" /\ it.x.k = "none"
        <5>1. \A g, q, x : PropThen(op, it, g, q, x) = x
          BY <4>1 DEF PropThen
        <5> QED BY <2>1, <2>4, <3>3, <3>5, <5>1
      <4>2. CASE ~(op = "set" /\ it.op = "merge" /\ it.x.k = "none")
        <5>1. \A g, q, x : PropThen(op, it, g, q, x) = IF op = "remove" THEN Null ELSE ValueIn(g, q, it.x)
          BY <2>4, <4>2 DEF PropThen
        <5>2. ValueIn(s.g, r, it.x) = ValueIn(g0, rs[1], it.x)
          <6>1. CASE Len(rs) = 1
            BY <6>1 DEF r
          <6>2. CASE it.x.k # "var"
            BY <6>2, ValueFixed
          <6> QED BY <3>5, <6>1, <6>2
        <5> QED BY <3>3, <5>1, <5>2
      <4> QED BY <4>1, <4>2
    <3> QED BY <2>2, <2>4, <3>4, <3>5 DEF new, first
  <2> QED BY <2>3, <2>4
<1> QED BY <1>1, <1>2, <1>3 DEF RowsDone

\* One row of a clause with a single item, after a step that went on.
LEMMA RowApplied ==
  ASSUME NEW op \in {"set", "remove"}, NEW s, s.ok = TRUE, Mirrors(s.g, s.o),
         NEW V, NEW row \in Rows(s.g, s.o, V), NEW items, Names(items, V), Len(items) = 1
  PROVE  /\ Keeps(s, ApplyItems(op, s, row, items))
         /\ ItemDone(op, items[1], row, s, ApplyItems(op, s, row, items))
<1> DEFINE it == items[1]
<1>1. Keeps(s, ApplyItems(op, s, row, items))
  BY ItemsKeep
<1>2. ApplyItems(op, s, row, items) = ApplyItem(op, s, row, it)
  BY SingleItem
<1>3. it.var \in V /\ SoundExpr(it.x, V)
  BY DEF Names
<1> HIDE DEF it
<1>4. /\ ItemDone("set", it, row, s, ApplySetItem(s, row, it))
      /\ ItemDone("remove", it, row, s, ApplyRemoveItem(s, row, it))
  BY <1>3, SetItemDone, RemoveItemDone
<1>5. ItemDone(op, it, row, s, ApplyItem(op, s, row, it))
  BY <1>4 DEF ApplyItem
<1> QED BY <1>1, <1>2, <1>5 DEF it

\* All rows of a clause with a single item.
RowsResult(op, s, rs, items, t) ==
  /\ t.ok \in BOOLEAN
  /\ t.ok => RowsDone(op, items[1], rs, s.g, Len(rs), t.g)
  /\ ~t.ok <=> \E j \in 1..Len(rs) : Stuck(op, items[1], rs[j], s.g)
LEMMA UpdateDone ==
  ASSUME NEW op \in {"set", "remove"}, NEW s, s.ok = TRUE, Mirrors(s.g, s.o),
         NEW V, NEW rs \in Seq(Rows(s.g, s.o, V)), NEW items, Names(items, V), Len(items) = 1
  PROVE  RowsResult(op, s, rs, items, UpdateRows(op, s, rs, items))
<1> DEFINE t == UpdateRows(op, s, rs, items)
           it == items[1]
           stuck(j) == Stuck(op, it, rs[j], s.g)
           some == \E j \in 1..Len(rs) : stuck(j)
<1>1. Len(rs) \in Nat
  OBVIOUS
<1>2. PICK f : UpdateRun(op, s, rs, items, f)
  BY <1>1, UpdateRuns
<1>3. it.x.k \in {"none", "lit", "var"}
  BY DEF Names, SoundExpr
<1> HIDE DEF it, stuck, some, t
<1> DEFINE S == {i \in 0..Len(rs) :
                   /\ Keeps(s, f[i]) /\ (i = 0 => f[i].g = s.g)
                   /\ f[i].ok => RowsDone(op, it, rs, s.g, i, f[i].g)
                   /\ f[i].ok => \A j \in 1..i : ~stuck(j)
                   /\ ~f[i].ok => some}
<1>4. 0 \in S
  <2>1. Keeps(s, s)
    BY KeepsTrivially
  <2>2. f[0] = s
    BY <1>2 DEF UpdateRun
  <2>3. RowsDone(op, it, rs, s.g, 0, s.g)
    <3>1. 1..0 = {}
      OBVIOUS
    <3> QED BY <3>1 DEF RowsDone
  <2>4. \A j \in 1..0 : ~stuck(j)
    OBVIOUS
  <2> QED BY <1>1, <2>1, <2>2, <2>3, <2>4
<1>5. ASSUME NEW i \in 0..Len(rs), i # Len(rs), i \in S PROVE i + 1 \in S
  <2>1. i \in Nat /\ i < Len(rs) /\ i + 1 \in 1..Len(rs) /\ i + 1 \in 0..Len(rs) /\ (i + 1) - 1 = i /\ i + 1 # 0
    BY <1>1, <1>5
  <2> DEFINE t0 == f[i]
             u == f[i + 1]
             r == rs[i + 1]
  <2>2. u = ApplyItems(op, t0, r, items)
    BY <1>2, <2>1 DEF UpdateRun
  <2>3. r \in Rows(s.g, s.o, V)
    BY <2>1
  <2>4. /\ Keeps(s, t0) /\ (i = 0 => t0.g = s.g)
        /\ t0.ok => RowsDone(op, it, rs, s.g, i, t0.g)
        /\ t0.ok => \A j \in 1..i : ~stuck(j)
        /\ ~t0.ok => some
    BY <1>5
  <2>5. CASE ~t0.ok
    <3>1. u = t0
      BY <2>2, <2>5, ItemsStop
    <3> HIDE DEF t0, u
    <3> QED BY <2>1, <2>4, <2>5, <3>1 DEF u
  <2>6. CASE t0.ok
    <3> HIDE DEF t0, u
    <3>1. t0.ok = TRUE /\ Mirrors(t0.g, t0.o) /\ Refs(s.g, s.o) \subseteq Refs(t0.g, t0.o)
      BY <2>4, <2>6 DEF Keeps
    <3>2. r \in Rows(t0.g, t0.o, V)
      BY <2>3, <3>1, RowsGrow
    <3>3. Keeps(t0, u) /\ ItemDone(op, it, r, t0, u)
      BY <2>2, <3>1, <3>2, RowApplied DEF it
    <3>4. Keeps(s, u)
      BY <2>4, <2>6, <3>3, KeepsOn
    <3>5. ASSUME u.ok PROVE RowsDone(op, it, rs, s.g, i + 1, u.g)
      <4>1. RowsDone(op, it, rs, s.g, i, t0.g)
        BY <2>4, <2>6
      <4> DEFINE g0 == s.g
                 m == i + 1
      <4>2. ItemDone(op, it, rs[m], t0, u) /\ (i = 0 => t0.g = s.g) /\ m = i + 1
        BY <2>4, <3>3
      <4>3. RowsDone(op, it, rs, g0, i, t0.g) /\ (i = 0 => t0.g = g0)
        BY <4>1, <4>2
      <4>5. u.ok = TRUE
        BY <3>4, <3>5 DEF Keeps
      <4>6. 1..m = (1..i) \cup {m}
        BY <2>1
      <4>7. Len(rs) = 1 => i = 0 /\ m = 1
        BY <2>1
      <4> HIDE DEF g0, r, m
      <4>4. RowsDone(op, it, rs, g0, m, u.g)
        <5>1. NextRow(op, it, rs, g0, i, m, t0, u)
          BY <1>3, <4>2, <4>3, <4>5, <4>6, <4>7 DEF NextRow
        <5> QED BY <5>1, RowDone
      <4> QED BY <4>4 DEF g0, m
    <3>6. ~u.ok <=> stuck(i + 1)
      <4>1. Ids(t0.g.nodes) = Ids(s.g.nodes) /\ Ids(t0.g.edges) = Ids(s.g.edges)
        BY <2>4, <2>6 DEF RowsDone
      <4>2. \A b : Exists(t0.g, b) <=> Exists(s.g, b)
        BY <4>1 DEF Exists
      <4>3. Stuck(op, it, r, t0.g) <=> Stuck(op, it, r, s.g)
        BY <4>2 DEF Stuck
      <4> QED BY <3>3, <4>3 DEF ItemDone, stuck
    <3>7. ASSUME ~u.ok PROVE some
      BY <2>1, <3>6, <3>7 DEF some
    <3>8. ASSUME u.ok, NEW j \in 1..(i + 1) PROVE ~stuck(j)
      <4>1. j = i + 1 \/ j \in 1..i
        BY <2>1
      <4> QED BY <2>4, <2>6, <3>6, <3>8, <4>1
    <3> QED BY <2>1, <3>4, <3>5, <3>7, <3>8 DEF u
  <2> QED BY <2>5, <2>6
<1>6. Len(rs) \in S
  <2> HIDE DEF S
  <2>1. 0..Len(rs) \subseteq S
    BY <1>1, <1>4, <1>5, CountUp
  <2> QED BY <1>1, <2>1
<1>7. t = f[Len(rs)]
  BY <1>2 DEF UpdateRun, t
<1>8. t.ok \in BOOLEAN
  BY <1>6, <1>7 DEF Keeps
<1>9. ~t.ok <=> some
  BY <1>6, <1>7, <1>8 DEF some
<1> QED BY <1>6, <1>7, <1>8, <1>9 DEF RowsResult, t, it, some, stuck

\* A SET or REMOVE clause as parsed.
Updating(c) ==
  /\ c.op \in {"set", "remove"} /\ Names(c.items, scope)
  /\ c.op = "remove" => \A i \in 1..Len(c.items) : c.items[i].op \in {"prop", "labels"}

\* SET and REMOVE of one item, on any rows.
LEMMA UpdateMeans ==
  ASSUME Mirrors(txn, ov), rows \in Seq(Rows(txn, ov, scope)), NEW c, Updating(c), NEW s, s = UpdateRows(c.op, Step(TRUE, txn, ov, rows), rows, c.items),
         phase' = (IF s.ok THEN "open" ELSE "failed"), txn' = (IF s.ok THEN s.g ELSE db),
         rows' = (IF s.ok THEN s.out ELSE <<>>)
  PROVE  UpdateRight(c)
<1>0. /\ c.op \in {"set", "remove"} /\ Names(c.items, scope)
      /\ c.op = "remove" => \A i \in 1..Len(c.items) : c.items[i].op \in {"prop", "labels"}
  BY DEF Updating
<1> USE <1>0
<1>1. SUFFICES ASSUME Len(c.items) = 1 PROVE UpdateRight(c)
  BY DEF UpdateRight
<1> DEFINE b == Step(TRUE, txn, ov, rows)
           it == c.items[1]
           op == c.op
           on(a) == {i \in DOMAIN rows : rows[i][it.var] = a}
           stuck(i) == /\ it.op = "labels" => op = "set" /\ rows[i][it.var].kind = "node"
                       /\ \/ ~Exists(txn, rows[i][it.var])
                          \/ op = "set" /\ ~Readable(rows[i], it.x)
           told == Len(rows) = 1 \/ it.x.k # "var"
           value(a, old) == IF op = "remove" THEN Null
                            ELSE IF it.op = "merge" /\ it.x.k = "none" THEN old
                            ELSE ValueIn(txn, rows[CHOOSE i \in on(a) : TRUE], it.x)
<1>2. b.ok = TRUE /\ b.g = txn /\ b.o = ov /\ b.out = rows
  BY DEF Step
<1>3. DOMAIN rows = 1..Len(rows) /\ Len(rows) \in Nat
  OBVIOUS
<1>4. it.x.k \in {"none", "lit", "var"} /\ (op = "remove" => it.op \in {"prop", "labels"})
  BY <1>1 DEF Names, SoundExpr
<1>5. /\ s.ok \in BOOLEAN
      /\ s.ok => RowsDone(op, it, rows, txn, Len(rows), s.g)
      /\ ~s.ok <=> \E j \in 1..Len(rows) : Stuck(op, it, rows[j], txn)
  <2> HIDE DEF b
  <2>1. s = UpdateRows(op, b, rows, c.items)
    BY DEF b
  <2>2. Len(c.items) = 1 /\ b.ok = TRUE /\ Mirrors(b.g, b.o) /\ rows \in Seq(Rows(b.g, b.o, scope))
    BY <1>1, <1>2
  <2>3. RowsResult(op, b, rows, c.items, s)
    BY <2>1, <2>2, UpdateDone
  <2> QED BY <1>2, <2>3 DEF RowsResult
<1>6. s.out = rows
  <2> HIDE DEF b
  <2>1. s = UpdateRows(op, b, rows, c.items)
    BY DEF b
  <2>2. Len(c.items) \in Nat
    BY <1>1
  <2>3. UpdateRows(op, b, rows, c.items).out = b.out
    BY <1>3, <2>2, UpdateOut
  <2> QED BY <1>2, <2>1, <2>3
<1>7. phase' = "failed" <=> \E i \in DOMAIN rows : stuck(i)
  <2>1. \A i : Stuck(op, it, rows[i], txn) <=> stuck(i)
    BY DEF Stuck, Readable
  <2>2. phase' = "failed" <=> ~s.ok
    BY <1>5
  <2> HIDE DEF stuck
  <2> QED BY <1>3, <1>5, <2>1, <2>2
<1>8. CASE ~s.ok
  <2>1. phase' = "failed"
    BY <1>8
  <2> QED BY <1>7, <2>1 DEF UpdateRight
<1>9. CASE s.ok
  <2>1. phase' = "open" /\ txn' = s.g /\ rows' = rows
    BY <1>6, <1>9
  <2>2. RowsDone(op, it, rows, txn, Len(rows), txn')
    BY <1>5, <1>9, <2>1
  <2>3. Ids(txn'.nodes) = Ids(txn.nodes) /\ Ids(txn'.edges) = Ids(txn.edges)
    BY <2>2 DEF RowsDone
  <2>4. ASSUME NEW a, on(a) # {}, it.op # "labels", told, NEW x
        PROVE  PropThen(op, it, txn, rows[1], x) = value(a, x)
    <3> DEFINE i == CHOOSE j \in on(a) : TRUE
    <3>1. i \in DOMAIN rows
      BY <2>4
    <3>2. ValueIn(txn, rows[1], it.x) = ValueIn(txn, rows[i], it.x)
      <4> HIDE DEF i
      <4>1. CASE Len(rows) = 1
        <5>1. i = 1
          BY <1>3, <3>1, <4>1
        <5> QED BY <5>1
      <4>2. CASE it.x.k # "var"
        BY <1>4, <4>2, ValueFixed
      <4> QED BY <2>4, <4>1, <4>2
    <3> HIDE DEF i, it
    <3> QED BY <1>4, <2>4, <3>2 DEF PropThen, i
  <2>5. ASSUME NEW n \in Ids(txn.nodes)
        PROVE  LET old == txn.nodes[n]
                   new == txn'.nodes[n]
               IN  IF on(NodeRef(n)) = {} THEN new = old
                   ELSE IF it.op = "labels"
                   THEN new = [old EXCEPT !.labels = IF op = "set" THEN @ \cup {it.label} ELSE @ \ {it.label}]
                   ELSE new.labels = old.labels /\ (told => new.x = value(NodeRef(n), old.x))
    <3> DEFINE old == txn.nodes[n]
               new == txn'.nodes[n]
               S == on(NodeRef(n))
    <3>1. /\ S = {} => new = old
          /\ S # {} =>
               /\ new.labels = LabelsThen(op, it, old.labels)
               /\ it.op = "labels" \/ told => new.x = PropThen(op, it, txn, rows[1], old.x)
      BY <1>3, <2>2 DEF RowsDone
    <3>2. ASSUME S # {}, it.op = "labels"
          PROVE  new = [old EXCEPT !.labels = IF op = "set" THEN @ \cup {it.label} ELSE @ \ {it.label}]
      <4> DEFINE L == IF op = "set" THEN old.labels \cup {it.label} ELSE old.labels \ {it.label}
      <4>1. new.labels = L /\ new.x = old.x
        BY <3>1, <3>2 DEF LabelsThen, PropThen
      <4>2. old = Node(old.labels, old.x)
        BY DEF Mirrors, SoundGraph, WellStored
      <4>3. new = Node(new.labels, new.x)
        <5>1. WellStored(txn')
          <6> HIDE DEF b
          <6>1. Names(c.items, scope) /\ rows \in Seq(Rows(b.g, b.o, scope)) /\ s = UpdateRows(op, b, rows, c.items)
            BY <1>2 DEF b
          <6>2. Keeps(b, s)
            BY ZenonT(60), <1>2, <6>1, UpdateKeeps
          <6> QED BY <1>9, <2>1, <6>2 DEF Keeps, Mirrors, SoundGraph
        <5> QED BY <2>3, <5>1 DEF WellStored
      <4> HIDE DEF L, old, new
      <4>4. [old EXCEPT !.labels = L] = Node(L, old.x)
        BY <4>2 DEF Node
      <4> QED BY <4>1, <4>3, <4>4 DEF L
    <3>3. ASSUME S # {}, it.op # "labels", told PROVE new.x = value(NodeRef(n), old.x)
      <4> HIDE DEF value, told, old, new, it, op
      <4> QED BY <2>4, <3>1, <3>3
    <3>4. ASSUME S # {}, it.op # "labels" PROVE new.labels = old.labels
      BY <3>1, <3>4 DEF LabelsThen
    <3> HIDE DEF on, value, told, it, op
    <3> QED BY <3>1, <3>2, <3>3, <3>4
  <2>6. ASSUME NEW e \in Ids(txn.edges)
        PROVE  LET old == txn.edges[e]
                   new == txn'.edges[e]
               IN  IF on(EdgeRef(e)) = {} \/ it.op = "labels" THEN new = old
                   ELSE /\ new = Edge(old.src, old.dst, old.type, new.x)
                        /\ told => new.x = value(EdgeRef(e), old.x)
    <3> DEFINE old == txn.edges[e]
               new == txn'.edges[e]
               S == on(EdgeRef(e))
    <3>1. /\ S = {} \/ it.op = "labels" => new = old
          /\ S # {} /\ it.op # "labels" =>
               /\ new = Edge(old.src, old.dst, old.type, new.x)
               /\ told => new.x = PropThen(op, it, txn, rows[1], old.x)
      BY ZenonT(60), <1>3, <2>2 DEF RowsDone
    <3>2. ASSUME S # {}, it.op # "labels", told PROVE new.x = value(EdgeRef(e), old.x)
      <4> HIDE DEF value, told, old, new, it, op
      <4> QED BY <2>4, <3>1, <3>2
    <3> HIDE DEF on, value, told, it, op
    <3> QED BY <3>1, <3>2
  <2> HIDE DEF stuck
  <2>7. phase' = "failed" <=> \E i \in DOMAIN rows : stuck(i)
    BY <1>7
  <2> QED BY <1>1, <2>1, <2>3, <2>5, <2>6, <2>7 DEF UpdateRight, stuck
<1> QED BY <1>8, <1>9

\* A clause that reads no pattern does what it means.
LEMMA ClauseMeans ==
  ASSUME WriteInv, NEW c \in Menu, Clause(c), c.op \in {"set", "remove", "delete", "with"}
  PROVE  ClauseRight(c)
<1>1. PICK s \in {RunClause(c)} :
        /\ phase' = IF s.ok THEN "open" ELSE "failed"
        /\ txn' = IF s.ok THEN s.g ELSE db
        /\ rows' = IF s.ok THEN s.out ELSE <<>>
  BY DEF Clause
<1>2. Mirrors(txn, ov) /\ rows \in Seq(Rows(txn, ov, scope)) /\ c.needs \subseteq scope
  BY DEF Clause, WriteInv
<1>3. CASE c.op = "delete"
  <2>1. s = DeleteOverPaths(Step(TRUE, txn, ov, rows), rows, c.targets, c.detach)
    BY <1>1, <1>3 DEF RunClause
  <2>2. DeleteRight(c)
    BY <1>1, <1>2, <2>1, DeleteMeans
  <2> QED BY <1>3, <2>2 DEF ClauseRight
<1>4. CASE c.op \in {"set", "remove"}
  <2>1. s = UpdateRows(c.op, Step(TRUE, txn, ov, rows), rows, c.items)
    BY <1>1, <1>4 DEF RunClause
  <2>2. Names(c.items, scope)
    BY <1>2, <1>4, ClauseSound
  <2>3. SoundClause(c)
    BY WriteAssumption
  <2>4. c.op = "remove" => \A i \in 1..Len(c.items) : c.items[i].op \in {"prop", "labels"}
    BY <1>4, <2>3 DEF SoundClause
  <2>5. UpdateRight(c)
    <3>1. Updating(c)
      BY <1>4, <2>2, <2>4 DEF Updating
    <3> QED BY <1>1, <1>2, <2>1, <3>1, UpdateMeans
  <2> QED BY <1>4, <2>5 DEF ClauseRight
<1>5. CASE c.op = "with"
  <2>1. s = Step(TRUE, txn, ov, Projected(c))
    BY <1>1, <1>5 DEF RunClause
  <2>2. s.ok = TRUE /\ s.g = txn
    BY <2>1 DEF Step
  <2>3. txn' = txn
    BY <1>1, <2>2
  <2> QED BY <1>5, <2>3 DEF ClauseRight
<1> QED BY <1>3, <1>4, <1>5

\* Every SET and REMOVE of one item, every DELETE and every WITH of a pipeline
\* does to the transaction's graph and to the rows what ClausesRight says, and
\* fails exactly when it must, whatever the pipeline did before
\* (apply_set_item, apply_remove_item and delete_over_paths of exec/write.rs).
THEOREM UpdatesExact ==
  Spec => [][\A c \in Menu :
               used'.clauses # used.clauses /\ last' = c /\ c.op \in {"set", "remove", "delete", "with"}
                 => ClauseRight(c)]_vars
<1>1. ASSUME WriteInv, [Next]_vars
      PROVE  [\A c \in Menu :
                used'.clauses # used.clauses /\ last' = c /\ c.op \in {"set", "remove", "delete", "with"}
                  => ClauseRight(c)]_vars
  <2>1. SUFFICES ASSUME ~UNCHANGED vars, NEW c \in Menu, last' = c,
                        c.op \in {"set", "remove", "delete", "with"}
                 PROVE  ClauseRight(c)
    OBVIOUS
  <2>2. last' = [op |-> "begin"] => FALSE
    BY <2>1
  <2>3. PICK d \in Menu : Clause(d)
    BY <1>1, <2>1, <2>2 DEF Next, Begin, EndStatement, Commit
  <2>4. d = c
    BY <2>1, <2>3 DEF Clause
  <2> QED BY <1>1, <2>1, <2>3, <2>4, ClauseMeans
<1> QED BY <1>1, WriteInvariance, PTL DEF Spec
=============================================================================
