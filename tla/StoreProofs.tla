----------------------------- MODULE StoreProofs -----------------------------
(***************************************************************************)
(* Proofs about the graph's transactions and the storage under them.       *)
(* GraphStore: for any number of labels, types, nodes, edges, mutations    *)
(* and commits and any size of the adjacency buffer.  MemoryStore: the     *)
(* in-memory backend keeps the promise of SnapshotStore, for any tables,   *)
(* keys and values and any number of readers and writers.                  *)
(***************************************************************************)
EXTENDS GraphStore, MemoryStore, FiniteSetTheorems, TLAPS

-----------------------------------------------------------------------------
(* What a record of tables with its cache always is                        *)

\* Without a cache there is nothing in it, and the two buffers fill together.
Shape(g) ==
    /\ g \in Tables
    /\ g.pendOut = {} => g.pendIn = {}
    /\ ~g.cached => /\ NothingCached(g)
                    /\ g.ldelta = [l \in Labels |-> 0] /\ g.tdelta = [y \in Types |-> 0]

\* Which parts two such records share.
SameGraph(g, h) == h.nodes = g.nodes /\ h.labels = g.labels /\ h.idx = g.idx /\ h.edges = g.edges
SameAdjacency(g, h) == h.out = g.out /\ h.in = g.in /\ h.pendOut = g.pendOut /\ h.pendIn = g.pendIn
SameMode(g, h) == h.cached = g.cached /\ h.bulk = g.bulk /\ h.known = g.known
SameNodeIds(g, h) == h.nextNode = g.nextNode /\ h.cnode = g.cnode
SameEdgeIds(g, h) == h.nextEdge = g.nextEdge /\ h.cedge = g.cedge
SameLabelCounts(g, h) == h.lcount = g.lcount /\ h.ldelta = g.ldelta
SameTypeCounts(g, h) == h.tcount = g.tcount /\ h.tdelta = g.tdelta

\* Counting labels moves the sum of count and delta, and nothing else.
LEMMA CountLabelsFields ==
  ASSUME NEW g, Shape(g), NEW by \in [Labels -> Int],
         \A l \in Labels : g.lcount[l] + g.ldelta[l] + by[l] >= 0,
         NEW h, h = CountLabels(g, by)
  PROVE  /\ Shape(h)
         /\ SameGraph(g, h) /\ SameAdjacency(g, h) /\ SameMode(g, h)
         /\ SameNodeIds(g, h) /\ SameEdgeIds(g, h) /\ SameTypeCounts(g, h)
         /\ \A l \in Labels : h.lcount[l] + h.ldelta[l] = g.lcount[l] + g.ldelta[l] + by[l]
  <1>1. h \in Tables
    <2>1. /\ [l \in Labels |-> g.ldelta[l] + by[l]] \in [Labels -> Int]
          /\ [l \in Labels |-> AtLeastZero(g.lcount[l] + by[l])] \in [Labels -> Nat]
      BY DEF Shape, Tables, AtLeastZero
    <2> QED
      BY <2>1 DEF CountLabels, Shape, Tables
  <1>2. SameGraph(g, h) /\ SameAdjacency(g, h) /\ SameMode(g, h)
    BY DEF CountLabels, Shape, Tables, SameGraph, SameAdjacency, SameMode
  <1>3. SameNodeIds(g, h) /\ SameEdgeIds(g, h) /\ SameTypeCounts(g, h)
    BY DEF CountLabels, Shape, Tables, SameNodeIds, SameEdgeIds, SameTypeCounts
  <1>4. \A l \in Labels : h.lcount[l] + h.ldelta[l] = g.lcount[l] + g.ldelta[l] + by[l]
    <2>1. CASE g.cached
      BY <2>1 DEF CountLabels, Shape, Tables
    <2>2. CASE ~g.cached
      BY <2>2 DEF CountLabels, Shape, Tables, AtLeastZero
    <2> QED
      BY <2>1, <2>2
  <1>5. ~g.cached => h.ldelta = g.ldelta
    BY DEF CountLabels, Shape, Tables
  <1>6. Shape(h)
    BY <1>1, <1>2, <1>3, <1>5 DEF Shape, NothingCached, SameAdjacency, SameMode, SameNodeIds, SameEdgeIds, SameTypeCounts
  <1> QED
    BY <1>2, <1>3, <1>4, <1>6

\* Counting types moves the sum of count and delta, and nothing else.
LEMMA CountTypesFields ==
  ASSUME NEW g, Shape(g), NEW by \in [Types -> Int],
         \A y \in Types : g.tcount[y] + g.tdelta[y] + by[y] >= 0,
         NEW h, h = CountTypes(g, by)
  PROVE  /\ Shape(h)
         /\ SameGraph(g, h) /\ SameAdjacency(g, h) /\ SameMode(g, h)
         /\ SameNodeIds(g, h) /\ SameEdgeIds(g, h) /\ SameLabelCounts(g, h)
         /\ \A y \in Types : h.tcount[y] + h.tdelta[y] = g.tcount[y] + g.tdelta[y] + by[y]
  <1>1. h \in Tables
    <2>1. /\ [y \in Types |-> g.tdelta[y] + by[y]] \in [Types -> Int]
          /\ [y \in Types |-> AtLeastZero(g.tcount[y] + by[y])] \in [Types -> Nat]
      BY DEF Shape, Tables, AtLeastZero
    <2> QED
      BY <2>1 DEF CountTypes, Shape, Tables
  <1>2. SameGraph(g, h) /\ SameAdjacency(g, h) /\ SameMode(g, h)
    BY DEF CountTypes, Shape, Tables, SameGraph, SameAdjacency, SameMode
  <1>3. SameNodeIds(g, h) /\ SameEdgeIds(g, h) /\ SameLabelCounts(g, h)
    BY DEF CountTypes, Shape, Tables, SameNodeIds, SameEdgeIds, SameLabelCounts
  <1>4. \A y \in Types : h.tcount[y] + h.tdelta[y] = g.tcount[y] + g.tdelta[y] + by[y]
    <2>1. CASE g.cached
      BY <2>1 DEF CountTypes, Shape, Tables
    <2>2. CASE ~g.cached
      BY <2>2 DEF CountTypes, Shape, Tables, AtLeastZero
    <2> QED
      BY <2>1, <2>2
  <1>5. ~g.cached => h.tdelta = g.tdelta
    BY DEF CountTypes, Shape, Tables
  <1>6. Shape(h)
    BY <1>1, <1>2, <1>3, <1>5 DEF Shape, NothingCached, SameAdjacency, SameMode, SameNodeIds, SameEdgeIds, SameLabelCounts
  <1> QED
    BY <1>2, <1>3, <1>4, <1>6

\* An id is allocated from the cache or from the stored counter.
LEMMA AllocNodeFields ==
  ASSUME NEW g, Shape(g), PeekNode(g) < MaxNode,
         NEW h, h = AllocNode(g)
  PROVE  /\ Shape(h)
         /\ SameGraph(g, h) /\ SameAdjacency(g, h) /\ SameMode(g, h)
         /\ SameEdgeIds(g, h) /\ SameLabelCounts(g, h) /\ SameTypeCounts(g, h)
         /\ PeekNode(g) \in NodeId /\ PeekNode(h) = PeekNode(g) + 1
  <1>1. PeekNode(g) \in NodeId
    BY StoreAssumption DEF Shape, Tables, PeekNode, NodeId, Unread
  <1>2. ~g.cached => PeekNode(g) = g.nextNode
    BY DEF Shape, NothingCached, PeekNode
  <1>3. h \in Tables
    BY SMTT(60), <1>1, <1>2, StoreAssumption DEF AllocNode, Shape, Tables, NodeId, Unread
  <1>4. SameGraph(g, h) /\ SameAdjacency(g, h) /\ SameMode(g, h)
    BY DEF AllocNode, Shape, Tables, SameGraph, SameAdjacency, SameMode
  <1>5. SameEdgeIds(g, h) /\ SameLabelCounts(g, h) /\ SameTypeCounts(g, h)
    BY DEF AllocNode, Shape, Tables, SameEdgeIds, SameLabelCounts, SameTypeCounts
  <1>6. IF g.cached THEN h.cnode = PeekNode(g) + 1
        ELSE h.nextNode = g.nextNode + 1 /\ h.cnode = Unread
    BY DEF AllocNode, Shape, Tables, NothingCached
  <1>7. Shape(h)
    BY <1>3, <1>4, <1>5, <1>6
    DEF Shape, NothingCached, SameAdjacency, SameMode, SameEdgeIds, SameLabelCounts, SameTypeCounts
  <1>8. PeekNode(h) = PeekNode(g) + 1
    BY <1>1, <1>2, <1>6 DEF PeekNode, NodeId, Unread
  <1> QED
    BY <1>1, <1>4, <1>5, <1>7, <1>8

\* Allocating an edge id moves that counter only.
LEMMA AllocEdgeFields ==
  ASSUME NEW g, Shape(g), PeekEdge(g) < MaxEdge,
         NEW h, h = AllocEdge(g)
  PROVE  /\ Shape(h)
         /\ SameGraph(g, h) /\ SameAdjacency(g, h) /\ SameMode(g, h)
         /\ SameNodeIds(g, h) /\ SameLabelCounts(g, h) /\ SameTypeCounts(g, h)
         /\ PeekEdge(g) \in EdgeId /\ PeekEdge(h) = PeekEdge(g) + 1
  <1>1. PeekEdge(g) \in EdgeId
    BY StoreAssumption DEF Shape, Tables, PeekEdge, EdgeId, Unread
  <1>2. ~g.cached => PeekEdge(g) = g.nextEdge
    BY DEF Shape, NothingCached, PeekEdge
  <1>3. h \in Tables
    BY SMTT(60), <1>1, <1>2, StoreAssumption DEF AllocEdge, Shape, Tables, EdgeId, Unread
  <1>4. SameGraph(g, h) /\ SameAdjacency(g, h) /\ SameMode(g, h)
    BY DEF AllocEdge, Shape, Tables, SameGraph, SameAdjacency, SameMode
  <1>5. SameNodeIds(g, h) /\ SameLabelCounts(g, h) /\ SameTypeCounts(g, h)
    BY DEF AllocEdge, Shape, Tables, SameNodeIds, SameLabelCounts, SameTypeCounts
  <1>6. IF g.cached THEN h.cedge = PeekEdge(g) + 1
        ELSE h.nextEdge = g.nextEdge + 1 /\ h.cedge = Unread
    BY DEF AllocEdge, Shape, Tables, NothingCached
  <1>7. Shape(h)
    BY <1>3, <1>4, <1>5, <1>6
    DEF Shape, NothingCached, SameAdjacency, SameMode, SameNodeIds, SameLabelCounts, SameTypeCounts
  <1>8. PeekEdge(h) = PeekEdge(g) + 1
    BY <1>1, <1>2, <1>6 DEF PeekEdge, EdgeId, Unread
  <1> QED
    BY <1>1, <1>4, <1>5, <1>7, <1>8

\* The buffers move into the tables.
LEMMA FlushAdjacencyFields ==
  ASSUME NEW g, Shape(g),
         NEW h, h = FlushAdjacency(g)
  PROVE  /\ Shape(h)
         /\ SameGraph(g, h) /\ SameMode(g, h) /\ SameNodeIds(g, h) /\ SameEdgeIds(g, h)
         /\ SameLabelCounts(g, h) /\ SameTypeCounts(g, h)
         /\ h.out = g.out \cup g.pendOut /\ h.in = g.in \cup g.pendIn
         /\ h.pendOut = {} /\ h.pendIn = {}
  <1>1. h \in Tables
    BY DEF FlushAdjacency, Shape, Tables
  <1>2. /\ h.out = g.out \cup g.pendOut /\ h.in = g.in \cup g.pendIn
        /\ h.pendOut = {} /\ h.pendIn = {}
    BY DEF FlushAdjacency, Shape, Tables
  <1>3. SameGraph(g, h) /\ SameMode(g, h) /\ SameNodeIds(g, h) /\ SameEdgeIds(g, h)
    BY DEF FlushAdjacency, Shape, Tables, SameGraph, SameMode, SameNodeIds, SameEdgeIds
  <1>4. SameLabelCounts(g, h) /\ SameTypeCounts(g, h)
    BY DEF FlushAdjacency, Shape, Tables, SameLabelCounts, SameTypeCounts
  <1> QED
    BY <1>1, <1>2, <1>3, <1>4
    DEF Shape, NothingCached, SameMode, SameNodeIds, SameEdgeIds, SameLabelCounts, SameTypeCounts

\* An edge gets its two entries, in the tables or in the buffers.
LEMMA PutAdjacencyFields ==
  ASSUME NEW g, Shape(g), NEW e \in Edge,
         NEW h, h = PutAdjacency(g, e)
  PROVE  /\ Shape(h)
         /\ SameGraph(g, h) /\ SameMode(g, h) /\ SameNodeIds(g, h) /\ SameEdgeIds(g, h)
         /\ SameLabelCounts(g, h) /\ SameTypeCounts(g, h)
         /\ h.out \cup h.pendOut = g.out \cup g.pendOut \cup {OutEntry(e)}
         /\ h.in \cup h.pendIn = g.in \cup g.pendIn \cup {InEntry(e)}
  <1>1. OutEntry(e) \in AdjEntry /\ InEntry(e) \in AdjEntry
    BY DEF OutEntry, InEntry, Edge, AdjEntry
  <1>2. CASE g.cached /\ g.bulk
    <2> DEFINE a == [g EXCEPT !.pendOut = @ \cup {OutEntry(e)}, !.pendIn = @ \cup {InEntry(e)}]
    <2>1. /\ a \in Tables /\ a.out = g.out /\ a.in = g.in
          /\ a.pendOut = g.pendOut \cup {OutEntry(e)} /\ a.pendIn = g.pendIn \cup {InEntry(e)}
      BY <1>1 DEF Shape, Tables
    <2>2. SameGraph(g, a) /\ SameMode(g, a) /\ SameNodeIds(g, a) /\ SameEdgeIds(g, a)
      BY DEF Shape, Tables, SameGraph, SameMode, SameNodeIds, SameEdgeIds
    <2>3. SameLabelCounts(g, a) /\ SameTypeCounts(g, a)
      BY DEF Shape, Tables, SameLabelCounts, SameTypeCounts
    <2>4. Shape(a)
      BY <1>2, <2>1, <2>2 DEF Shape, SameMode
    <2>5. h = a \/ h = FlushAdjacency(a)
      BY <1>2 DEF PutAdjacency
    <2> HIDE DEF a
    <2>6. CASE h = a
      BY <2>1, <2>2, <2>3, <2>4, <2>6
    <2>7. CASE h = FlushAdjacency(a)
      <3>1. /\ Shape(h)
            /\ SameGraph(a, h) /\ SameMode(a, h) /\ SameNodeIds(a, h) /\ SameEdgeIds(a, h)
            /\ SameLabelCounts(a, h) /\ SameTypeCounts(a, h)
            /\ h.out = a.out \cup a.pendOut /\ h.in = a.in \cup a.pendIn
            /\ h.pendOut = {} /\ h.pendIn = {}
        BY <2>4, <2>7, FlushAdjacencyFields
      <3> QED
        BY <2>1, <2>2, <2>3, <3>1
        DEF SameGraph, SameMode, SameNodeIds, SameEdgeIds, SameLabelCounts, SameTypeCounts
    <2> QED
      BY <2>5, <2>6, <2>7
  <1>3. CASE ~(g.cached /\ g.bulk)
    <2>0. h = [g EXCEPT !.out = @ \cup {OutEntry(e)}, !.in = @ \cup {InEntry(e)}]
      BY <1>3 DEF PutAdjacency
    <2>1. /\ h \in Tables /\ h.pendOut = g.pendOut /\ h.pendIn = g.pendIn
          /\ h.out = g.out \cup {OutEntry(e)} /\ h.in = g.in \cup {InEntry(e)}
      <3>1. h \in Tables
        <4>1. /\ g.out \cup {OutEntry(e)} \in SUBSET AdjEntry
              /\ g.in \cup {InEntry(e)} \in SUBSET AdjEntry
          BY <1>1 DEF Shape, Tables
        <4> QED
          BY <2>0, <4>1 DEF Shape, Tables
      <3>2. h.out = g.out \cup {OutEntry(e)} /\ h.in = g.in \cup {InEntry(e)}
        BY <2>0 DEF Shape, Tables
      <3>3. h.pendOut = g.pendOut /\ h.pendIn = g.pendIn
        BY <2>0 DEF Shape, Tables
      <3> QED
        BY <3>1, <3>2, <3>3
    <2>2. SameGraph(g, h) /\ SameMode(g, h) /\ SameNodeIds(g, h) /\ SameEdgeIds(g, h)
      BY <2>0 DEF Shape, Tables, SameGraph, SameMode, SameNodeIds, SameEdgeIds
    <2>3. SameLabelCounts(g, h) /\ SameTypeCounts(g, h)
      BY <2>0 DEF Shape, Tables, SameLabelCounts, SameTypeCounts
    <2>4. Shape(h)
      BY <2>1, <2>2, <2>3
      DEF Shape, NothingCached, SameMode, SameNodeIds, SameEdgeIds, SameLabelCounts, SameTypeCounts
    <2>5. /\ h.out \cup h.pendOut = g.out \cup g.pendOut \cup {OutEntry(e)}
          /\ h.in \cup h.pendIn = g.in \cup g.pendIn \cup {InEntry(e)}
      BY <2>1
    <2> QED
      BY <2>2, <2>3, <2>4, <2>5
  <1> QED
    BY <1>2, <1>3

\* Endpoints are remembered by the cache only.
LEMMA RememberFields ==
  ASSUME NEW g, Shape(g), NEW S \in SUBSET NodeId,
         NEW h, h = Remember(g, S)
  PROVE  /\ Shape(h)
         /\ SameGraph(g, h) /\ SameAdjacency(g, h) /\ SameNodeIds(g, h) /\ SameEdgeIds(g, h)
         /\ SameLabelCounts(g, h) /\ SameTypeCounts(g, h)
         /\ h.cached = g.cached /\ h.known \subseteq g.known \cup S
  <1>1. CASE g.cached
    <2>1. h = [g EXCEPT !.known = @ \cup S]
      BY <1>1 DEF Remember
    <2>2. h \in Tables /\ h.cached = g.cached /\ h.known \subseteq g.known \cup S
      BY <2>1 DEF Shape, Tables
    <2>3. SameGraph(g, h) /\ SameAdjacency(g, h) /\ SameNodeIds(g, h) /\ SameEdgeIds(g, h)
      BY <2>1 DEF Shape, Tables, SameGraph, SameAdjacency, SameNodeIds, SameEdgeIds
    <2>4. SameLabelCounts(g, h) /\ SameTypeCounts(g, h)
      BY <2>1 DEF Shape, Tables, SameLabelCounts, SameTypeCounts
    <2> QED
      BY <1>1, <2>2, <2>3, <2>4 DEF Shape, SameAdjacency
  <1>2. CASE ~g.cached
    BY <1>2 DEF Remember, SameGraph, SameAdjacency, SameNodeIds, SameEdgeIds, SameLabelCounts, SameTypeCounts
  <1> QED
    BY <1>1, <1>2

-----------------------------------------------------------------------------
(* The mutators keep the tables sound                                      *)

\* What holds of the committed tables, and of an open transaction's.
Sound(g) ==
    /\ Shape(g) /\ IsFiniteSet(g.edges)
    /\ Consistent(g) /\ CountsExact(g) /\ g.known \subseteq g.nodes

\* What a reader gets to know of h.
Reads(h, nodes, labels, edges, nextNode, nextEdge) ==
    /\ h.nodes = nodes /\ h.labels = labels /\ h.edges = edges
    /\ PeekNode(h) = nextNode /\ PeekEdge(h) = nextEdge

\* The nodes with a label, and the edges of a type.
Carriers(g, l) == {n \in g.nodes : <<n, l>> \in g.labels}
OfType(g, y) == {e \in g.edges : e.type = y}

\* Nodes are finitely many.
LEMMA NodesFinite ==
  ASSUME NEW S, S \subseteq NodeId
  PROVE  IsFiniteSet(S) /\ Cardinality(S) \in Nat
  <1>1. IsFiniteSet(NodeId)
    BY StoreAssumption, FS_Interval DEF NodeId
  <1> QED
    BY <1>1, FS_Subset, FS_CardinalityType

\* add_node_inner: a fresh id, its labels indexed and counted.
LEMMA AddNodeSound ==
  ASSUME NEW g, Sound(g), NEW ls \in SUBSET Labels, PeekNode(g) < MaxNode,
         NEW h, h = AddNodeInner(g, ls)
  PROVE  /\ Sound(h) /\ h.cached = g.cached
         /\ Reads(h, g.nodes \cup {PeekNode(g)}, g.labels \cup ({PeekNode(g)} \X ls), g.edges,
                  PeekNode(g) + 1, PeekEdge(g))
  <1> DEFINE id == PeekNode(g)
             a == AllocNode(g)
             b == [a EXCEPT !.nodes = @ \cup {id}, !.labels = @ \cup ({id} \X ls),
                            !.idx = @ \cup ({id} \X ls)]
             by == Each(Labels, ls, 1)
  <1>1. h = CountLabels(b, by)
    BY DEF AddNodeInner, PutNode
  <1>2. /\ Shape(a) /\ id \in NodeId /\ PeekNode(a) = id + 1
        /\ SameGraph(g, a) /\ SameAdjacency(g, a) /\ SameMode(g, a)
        /\ SameEdgeIds(g, a) /\ SameLabelCounts(g, a) /\ SameTypeCounts(g, a)
    BY AllocNodeFields DEF Sound
  <1> HIDE DEF a, id
  <1>3. /\ b \in Tables
        /\ b.nodes = g.nodes \cup {id} /\ b.labels = g.labels \cup ({id} \X ls)
        /\ b.idx = g.idx \cup ({id} \X ls) /\ b.edges = g.edges
    BY ZenonT(60), <1>2 DEF Shape, Tables, SameGraph
  <1>4. /\ SameAdjacency(a, b) /\ SameMode(a, b) /\ SameNodeIds(a, b)
        /\ SameEdgeIds(a, b) /\ SameLabelCounts(a, b) /\ SameTypeCounts(a, b)
    BY <1>2 DEF Shape, Tables, SameAdjacency, SameMode, SameNodeIds, SameEdgeIds,
               SameLabelCounts, SameTypeCounts
  <1> HIDE DEF b
  <1>5. Shape(b)
    BY <1>2, <1>3, <1>4 DEF Shape, NothingCached, SameAdjacency, SameMode, SameNodeIds, SameEdgeIds,
               SameLabelCounts, SameTypeCounts
  <1>6. \A l \in Labels : IsFiniteSet(Carriers(g, l)) /\ Cardinality(Carriers(g, l)) \in Nat
    BY NodesFinite DEF Sound, Shape, Tables, Carriers
  <1>7. /\ SameLabelCounts(g, b)
        /\ \A l \in Labels : b.lcount[l] + b.ldelta[l] = Cardinality(Carriers(g, l))
    BY <1>2, <1>4 DEF Sound, CountsExact, SameLabelCounts, Carriers
  <1>8. by \in [Labels -> Int] /\ \A l \in Labels : by[l] = IF l \in ls THEN 1 ELSE 0
    BY DEF Each
  <1> HIDE DEF by
  <1>9. /\ Shape(h)
        /\ SameGraph(b, h) /\ SameAdjacency(b, h) /\ SameMode(b, h)
        /\ SameNodeIds(b, h) /\ SameEdgeIds(b, h) /\ SameTypeCounts(b, h)
        /\ \A l \in Labels : h.lcount[l] + h.ldelta[l] = Cardinality(Carriers(g, l)) + by[l]
    <2>1. \A l \in Labels : b.lcount[l] + b.ldelta[l] + by[l] >= 0
      BY <1>6, <1>7, <1>8
    <2>2. /\ Shape(h)
          /\ SameGraph(b, h) /\ SameAdjacency(b, h) /\ SameMode(b, h)
          /\ SameNodeIds(b, h) /\ SameEdgeIds(b, h) /\ SameTypeCounts(b, h)
          /\ \A l \in Labels : h.lcount[l] + h.ldelta[l] = b.lcount[l] + b.ldelta[l] + by[l]
      BY <1>1, <1>5, <1>8, <2>1, CountLabelsFields
    <2> QED
      BY <1>7, <2>2
  <1>10. /\ h.nodes = g.nodes \cup {id} /\ h.labels = g.labels \cup ({id} \X ls)
         /\ h.idx = g.idx \cup ({id} \X ls) /\ h.edges = g.edges
         /\ PeekNode(h) = id + 1 /\ PeekEdge(h) = PeekEdge(g)
         /\ SameAdjacency(g, h) /\ SameMode(g, h) /\ SameTypeCounts(g, h)
    BY <1>2, <1>3, <1>4, <1>9 DEF SameGraph, SameAdjacency, SameMode, SameTypeCounts, SameNodeIds,
       SameEdgeIds, PeekNode, PeekEdge
  <1>11. \A n \in g.nodes : n < id
    BY DEF Sound, Consistent, IdsBelowNext, id
  <1>12. Consistent(h)
    <2>1. AdjacencyMatches(h)
      BY <1>10 DEF Sound, Consistent, AdjacencyMatches, SameAdjacency
    <2>2. NoDangling(h)
      BY <1>10 DEF Sound, Consistent, NoDangling
    <2>3. EdgeIdsUnique(h)
      BY <1>10 DEF Sound, Consistent, EdgeIdsUnique
    <2>4. IdsBelowNext(h)
      BY <1>2, <1>10, <1>11 DEF Sound, Shape, Tables, Consistent, IdsBelowNext, NodeId
    <2> QED
      BY <1>10, <2>1, <2>2, <2>3, <2>4 DEF Sound, Consistent
  <1>13. \A l \in Labels : h.lcount[l] + h.ldelta[l] = Cardinality(Carriers(h, l))
    <2> TAKE l \in Labels
    <2>1. id \notin Carriers(g, l)
      BY <1>2, <1>11 DEF Carriers, NodeId
    <2>2. Carriers(h, l) = IF l \in ls THEN Carriers(g, l) \cup {id} ELSE Carriers(g, l)
      BY <1>10, <1>2, <1>11 DEF Sound, Consistent, NoDangling, Carriers, NodeId
    <2>3. Cardinality(Carriers(g, l) \cup {id}) = Cardinality(Carriers(g, l)) + 1
      BY <1>6, <2>1, FS_AddElement
    <2>4. h.lcount[l] + h.ldelta[l] = Cardinality(Carriers(g, l)) + by[l]
      BY <1>9
    <2> QED
      BY <1>6, <1>8, <2>2, <2>3, <2>4
  <1>14. CountsExact(h)
    BY <1>10, <1>13 DEF Sound, CountsExact, Carriers, SameTypeCounts
  <1> QED
    BY <1>9, <1>10, <1>12, <1>14 DEF Sound, Reads, SameMode, id

\* add_edge_inner: a fresh id between two nodes that are there.
LEMMA AddEdgeSound ==
  ASSUME NEW g, Sound(g), NEW s \in NodeId, NEW d \in NodeId, NEW ty \in Types,
         PeekEdge(g) < MaxEdge, HasNode(g, s), HasNode(g, d),
         NEW e, e = [id |-> PeekEdge(g), src |-> s, dst |-> d, type |-> ty],
         NEW h, h = AddEdgeInner(g, s, d, ty)
  PROVE  /\ Sound(h) /\ h.cached = g.cached
         /\ Reads(h, g.nodes, g.labels, g.edges \cup {e}, PeekNode(g), PeekEdge(g) + 1)
  <1> DEFINE r == Remember(g, {s, d})
             a == AllocEdge(r)
             b == [a EXCEPT !.edges = @ \cup {e}]
             c == PutAdjacency(b, e)
             by == One(Types, ty, 1)
  <1>1. h = CountTypes(c, by)
    BY DEF AddEdgeInner
  <1>2. s \in g.nodes /\ d \in g.nodes
    BY DEF HasNode, Sound
  <1>3. /\ Shape(r)
        /\ SameGraph(g, r) /\ SameAdjacency(g, r) /\ SameNodeIds(g, r) /\ SameEdgeIds(g, r)
        /\ SameLabelCounts(g, r) /\ SameTypeCounts(g, r)
        /\ r.cached = g.cached /\ r.known \subseteq g.known \cup {s, d}
    BY RememberFields DEF Sound
  <1> HIDE DEF r
  <1>4. PeekEdge(r) = PeekEdge(g)
    BY <1>3 DEF SameEdgeIds, PeekEdge
  <1>5. /\ Shape(a)
        /\ SameGraph(r, a) /\ SameAdjacency(r, a) /\ SameMode(r, a)
        /\ SameNodeIds(r, a) /\ SameLabelCounts(r, a) /\ SameTypeCounts(r, a)
        /\ PeekEdge(g) \in EdgeId /\ PeekEdge(a) = PeekEdge(g) + 1
    BY <1>3, <1>4, AllocEdgeFields
  <1> HIDE DEF a
  <1>6. e \in Edge
    BY <1>5 DEF Edge
  <1>7. /\ b \in Tables /\ b.edges = a.edges \cup {e}
        /\ b.nodes = a.nodes /\ b.labels = a.labels /\ b.idx = a.idx
    BY <1>5, <1>6 DEF Shape, Tables
  <1>8. SameAdjacency(a, b) /\ SameMode(a, b) /\ SameNodeIds(a, b) /\ SameEdgeIds(a, b)
    BY <1>5 DEF Shape, Tables, SameAdjacency, SameMode, SameNodeIds, SameEdgeIds
  <1>9. SameLabelCounts(a, b) /\ SameTypeCounts(a, b)
    BY <1>5 DEF Shape, Tables, SameLabelCounts, SameTypeCounts
  <1> HIDE DEF b
  <1>10. Shape(b)
    BY <1>5, <1>7, <1>8, <1>9 DEF Shape, NothingCached, SameAdjacency, SameMode, SameNodeIds, SameEdgeIds,
               SameLabelCounts, SameTypeCounts
  <1>11. /\ Shape(c)
         /\ SameGraph(b, c) /\ SameMode(b, c) /\ SameNodeIds(b, c) /\ SameEdgeIds(b, c)
         /\ SameLabelCounts(b, c) /\ SameTypeCounts(b, c)
         /\ c.out \cup c.pendOut = b.out \cup b.pendOut \cup {OutEntry(e)}
         /\ c.in \cup c.pendIn = b.in \cup b.pendIn \cup {InEntry(e)}
    BY <1>6, <1>10, PutAdjacencyFields
  <1> HIDE DEF c
  <1>12. \A y \in Types : IsFiniteSet(OfType(g, y)) /\ Cardinality(OfType(g, y)) \in Nat
    BY FS_Subset, FS_CardinalityType DEF Sound, OfType
  <1>13. \A y \in Types : c.tcount[y] + c.tdelta[y] = Cardinality(OfType(g, y))
    BY <1>3, <1>5, <1>9, <1>11 DEF Sound, CountsExact, SameTypeCounts, OfType
  <1>14. by \in [Types -> Int] /\ \A y \in Types : by[y] = IF y = ty THEN 1 ELSE 0
    BY DEF One
  <1> HIDE DEF by
  <1>15. \A y \in Types : c.tcount[y] + c.tdelta[y] + by[y] >= 0
    BY <1>12, <1>13, <1>14
  <1>16. /\ Shape(h)
         /\ SameGraph(c, h) /\ SameAdjacency(c, h) /\ SameMode(c, h)
         /\ SameNodeIds(c, h) /\ SameEdgeIds(c, h) /\ SameLabelCounts(c, h)
         /\ \A y \in Types : h.tcount[y] + h.tdelta[y] = c.tcount[y] + c.tdelta[y] + by[y]
    BY <1>1, <1>11, <1>14, <1>15, CountTypesFields
  <1>17. /\ h.nodes = g.nodes /\ h.labels = g.labels /\ h.idx = g.idx /\ h.edges = g.edges \cup {e}
         /\ h.cached = g.cached /\ h.known \subseteq g.known \cup {s, d}
    BY <1>3, <1>5, <1>7, <1>8, <1>11, <1>16 DEF SameGraph, SameMode
  <1>18. /\ h.out \cup h.pendOut = g.out \cup g.pendOut \cup {OutEntry(e)}
         /\ h.in \cup h.pendIn = g.in \cup g.pendIn \cup {InEntry(e)}
    <2>1. SameAdjacency(g, b) /\ SameAdjacency(c, h)
      BY <1>3, <1>5, <1>8, <1>16 DEF SameAdjacency
    <2> QED
      BY <1>11, <2>1 DEF SameAdjacency
  <1>19. PeekNode(h) = PeekNode(g) /\ PeekEdge(h) = PeekEdge(g) + 1
    <2>1. SameNodeIds(g, h) /\ SameEdgeIds(a, h)
      BY <1>3, <1>5, <1>8, <1>11, <1>16 DEF SameNodeIds, SameEdgeIds
    <2> QED
      BY <1>5, <2>1 DEF SameNodeIds, SameEdgeIds, PeekNode, PeekEdge
  <1>20. SameLabelCounts(g, h)
    BY <1>3, <1>5, <1>9, <1>11, <1>16 DEF SameLabelCounts
  <1>21. \A f \in g.edges : f.id < PeekEdge(g) /\ f.id \in EdgeId
    BY DEF Sound, Consistent, IdsBelowNext, Shape, Tables, Edge
  <1>22. Consistent(h)
    <2>1. AdjacencyMatches(h)
      BY <1>17, <1>18 DEF Sound, Consistent, AdjacencyMatches
    <2>2. NoDangling(h)
      BY <1>2, <1>17 DEF Sound, Consistent, NoDangling
    <2>3. EdgeIdsUnique(h)
      BY <1>5, <1>17, <1>21 DEF Sound, Consistent, EdgeIdsUnique, EdgeId
    <2>4. IdsBelowNext(h)
      BY <1>5, <1>17, <1>19, <1>21 DEF Sound, Consistent, IdsBelowNext, EdgeId
    <2> QED
      BY <1>17, <2>1, <2>2, <2>3, <2>4 DEF Sound, Consistent
  <1>23. \A y \in Types : h.tcount[y] + h.tdelta[y] = Cardinality(OfType(h, y))
    <2> TAKE y \in Types
    <2>1. e \notin OfType(g, y)
      BY <1>5, <1>21 DEF OfType, EdgeId
    <2>2. OfType(h, y) = IF y = ty THEN OfType(g, y) \cup {e} ELSE OfType(g, y)
      BY <1>17 DEF OfType
    <2>3. Cardinality(OfType(g, y) \cup {e}) = Cardinality(OfType(g, y)) + 1
      BY <1>12, <2>1, FS_AddElement
    <2>4. h.tcount[y] + h.tdelta[y] = Cardinality(OfType(g, y)) + by[y]
      BY <1>13, <1>16
    <2> QED
      BY <1>12, <1>14, <2>2, <2>3, <2>4
  <1>24. CountsExact(h)
    BY <1>17, <1>20, <1>23 DEF Sound, CountsExact, OfType, SameLabelCounts
  <1>25. IsFiniteSet(h.edges)
    <2>1. IsFiniteSet(g.edges \cup {e})
      BY FS_AddElement DEF Sound
    <2> QED
      BY <1>17, <2>1, Zenon
  <1> QED
    BY <1>2, <1>16, <1>17, <1>19, <1>22, <1>24, <1>25 DEF Sound, Reads

\* Other labels of the nodes, with the counts that go with them.
LEMMA RelabelSound ==
  ASSUME NEW g, Sound(g), NEW ps \in SUBSET (g.nodes \X Labels),
         NEW by \in [Labels -> Int],
         \A l \in Labels : Cardinality({n \in g.nodes : <<n, l>> \in ps})
                             = Cardinality(Carriers(g, l)) + by[l],
         NEW h, h = CountLabels([g EXCEPT !.labels = ps, !.idx = ps], by)
  PROVE  /\ Sound(h) /\ h.cached = g.cached
         /\ Reads(h, g.nodes, ps, g.edges, PeekNode(g), PeekEdge(g))
  <1> DEFINE b == [g EXCEPT !.labels = ps, !.idx = ps]
  <1>0. ps \in SUBSET (NodeId \X Labels)
    BY DEF Sound, Shape, Tables
  <1>1. /\ b \in Tables /\ b.labels = ps /\ b.idx = ps /\ b.nodes = g.nodes /\ b.edges = g.edges
    BY <1>0 DEF Sound, Shape, Tables
  <1>2. SameAdjacency(g, b) /\ SameMode(g, b) /\ SameNodeIds(g, b) /\ SameEdgeIds(g, b)
    BY DEF Sound, Shape, Tables, SameAdjacency, SameMode, SameNodeIds, SameEdgeIds
  <1>3. SameLabelCounts(g, b) /\ SameTypeCounts(g, b)
    BY DEF Sound, Shape, Tables, SameLabelCounts, SameTypeCounts
  <1> HIDE DEF b
  <1>4. Shape(b)
    BY <1>1, <1>2, <1>3 DEF Sound, Shape, NothingCached, SameAdjacency, SameMode, SameNodeIds,
               SameEdgeIds, SameLabelCounts, SameTypeCounts
  <1>5. \A l \in Labels : Carriers(b, l) = {n \in g.nodes : <<n, l>> \in ps}
    BY <1>1 DEF Carriers
  <1>6. \A l \in Labels : Cardinality(Carriers(b, l)) = Cardinality(Carriers(g, l)) + by[l]
    BY <1>5, Zenon
  <1>7. \A l \in Labels : Cardinality(Carriers(b, l)) \in Nat
    BY <1>1, NodesFinite DEF Tables, Carriers
  <1>8. \A l \in Labels : b.lcount[l] + b.ldelta[l] = Cardinality(Carriers(g, l))
    BY <1>3, Zenon DEF Sound, CountsExact, SameLabelCounts, Carriers
  <1>9. \A l \in Labels : b.lcount[l] + b.ldelta[l] + by[l] = Cardinality(Carriers(b, l))
    BY <1>6, <1>8, Zenon
  <1>10. \A l \in Labels : b.lcount[l] + b.ldelta[l] + by[l] >= 0
    BY <1>7, <1>9
  <1>11. /\ Shape(h)
         /\ SameGraph(b, h) /\ SameAdjacency(b, h) /\ SameMode(b, h)
         /\ SameNodeIds(b, h) /\ SameEdgeIds(b, h) /\ SameTypeCounts(b, h)
         /\ \A l \in Labels : h.lcount[l] + h.ldelta[l] = b.lcount[l] + b.ldelta[l] + by[l]
    <2>1. h = CountLabels(b, by)
      BY DEF b
    <2> QED
      BY <1>4, <1>10, <2>1, CountLabelsFields
  <1>12. /\ h.nodes = g.nodes /\ h.labels = ps /\ h.idx = ps /\ h.edges = g.edges
         /\ h.cached = g.cached /\ h.known = g.known
    BY <1>1, <1>2, <1>11 DEF SameGraph, SameMode
  <1>13. PeekNode(h) = PeekNode(g) /\ PeekEdge(h) = PeekEdge(g)
    BY <1>2, <1>11 DEF SameNodeIds, SameEdgeIds, PeekNode, PeekEdge
  <1>14. SameAdjacency(g, h) /\ SameTypeCounts(g, h)
    BY <1>2, <1>3, <1>11 DEF SameAdjacency, SameTypeCounts
  <1>15. Consistent(h)
    <2>1. AdjacencyMatches(h)
      BY <1>12, <1>14 DEF Sound, Consistent, AdjacencyMatches, SameAdjacency
    <2>2. NoDangling(h)
      BY <1>12 DEF Sound, Consistent, NoDangling
    <2>3. EdgeIdsUnique(h) /\ IdsBelowNext(h)
      BY <1>12, <1>13 DEF Sound, Consistent, EdgeIdsUnique, IdsBelowNext
    <2> QED
      BY <1>12, <2>1, <2>2, <2>3 DEF Consistent
  <1>16. \A l \in Labels : h.lcount[l] + h.ldelta[l] = Cardinality(Carriers(h, l))
    <2>1. \A l \in Labels : Carriers(h, l) = Carriers(b, l)
      BY <1>1, <1>12 DEF Carriers
    <2> QED
      BY <1>9, <1>11, <2>1, Zenon
  <1>17. CountsExact(h)
    BY <1>12, <1>14, <1>16 DEF Sound, CountsExact, Carriers, SameTypeCounts
  <1> QED
    BY <1>11, <1>12, <1>13, <1>15, <1>17 DEF Sound, Reads

\* add_label_inner counts a label once, however often it is set.
LEMMA AddLabelSound ==
  ASSUME NEW g, Sound(g), NEW n \in g.nodes, NEW l \in Labels,
         NEW h, h = AddLabelInner(g, n, l)
  PROVE  /\ Sound(h) /\ h.cached = g.cached
         /\ Reads(h, g.nodes, g.labels \cup {<<n, l>>}, g.edges, PeekNode(g), PeekEdge(g))
  <1>1. CASE <<n, l>> \in g.labels
    <2>1. h = g /\ g.labels \cup {<<n, l>>} = g.labels
      BY <1>1 DEF AddLabelInner
    <2> QED
      BY <2>1, Zenon DEF Reads
  <1>2. CASE <<n, l>> \notin g.labels
    <2> DEFINE ps == g.labels \cup {<<n, l>>}
               by == One(Labels, l, 1)
               After(m) == {x \in g.nodes : <<x, m>> \in ps}
    <2>1. ps \in SUBSET (g.nodes \X Labels)
      BY DEF Sound, Shape, Tables, Consistent, NoDangling
    <2>2. h = CountLabels([g EXCEPT !.labels = ps, !.idx = ps], by)
      BY <1>2 DEF AddLabelInner, Sound, Consistent
    <2>3. by \in [Labels -> Int] /\ \A m \in Labels : by[m] = IF m = l THEN 1 ELSE 0
      BY DEF One
    <2> HIDE DEF by
    <2>4. \A m \in Labels : Cardinality(After(m)) = Cardinality(Carriers(g, m)) + by[m]
      <3> TAKE m \in Labels
      <3>1. After(m) = IF m = l THEN Carriers(g, m) \cup {n} ELSE Carriers(g, m)
        BY DEF Carriers
      <3>2. IsFiniteSet(Carriers(g, m)) /\ Cardinality(Carriers(g, m)) \in Nat
        BY NodesFinite DEF Sound, Shape, Tables, Carriers
      <3>3. m = l => n \notin Carriers(g, m)
        BY <1>2 DEF Carriers
      <3>4. m = l => Cardinality(Carriers(g, m) \cup {n}) = Cardinality(Carriers(g, m)) + 1
        BY <3>2, <3>3, FS_AddElement
      <3> HIDE DEF After
      <3> QED
        BY <2>3, <3>1, <3>2, <3>4
    <2> HIDE DEF ps
    <2> QED
      BY <2>1, <2>2, <2>3, <2>4, RelabelSound DEF ps
  <1> QED
    BY <1>1, <1>2

\* remove_label_inner counts a label down only where it was set.
LEMMA RemoveLabelSound ==
  ASSUME NEW g, Sound(g), NEW n \in NodeId, NEW l \in Labels,
         NEW h, h = RemoveLabelInner(g, n, l)
  PROVE  /\ Sound(h) /\ h.cached = g.cached
         /\ Reads(h, g.nodes, g.labels \ {<<n, l>>}, g.edges, PeekNode(g), PeekEdge(g))
  <1>1. CASE <<n, l>> \notin g.labels
    <2>1. h = g /\ g.labels \ {<<n, l>>} = g.labels
      BY <1>1 DEF RemoveLabelInner
    <2> QED
      BY <2>1, Zenon DEF Reads
  <1>2. CASE <<n, l>> \in g.labels
    <2> DEFINE ps == g.labels \ {<<n, l>>}
               by == One(Labels, l, -1)
               After(m) == {x \in g.nodes : <<x, m>> \in ps}
    <2>1. ps \in SUBSET (g.nodes \X Labels)
      BY DEF Sound, Shape, Tables, Consistent, NoDangling
    <2>2. h = CountLabels([g EXCEPT !.labels = ps, !.idx = ps], by)
      BY <1>2 DEF RemoveLabelInner, Sound, Consistent
    <2>3. by \in [Labels -> Int] /\ \A m \in Labels : by[m] = IF m = l THEN -1 ELSE 0
      BY DEF One
    <2> HIDE DEF by
    <2>4. \A m \in Labels : Cardinality(After(m)) = Cardinality(Carriers(g, m)) + by[m]
      <3> TAKE m \in Labels
      <3>1. After(m) = IF m = l THEN Carriers(g, m) \ {n} ELSE Carriers(g, m)
        BY DEF Carriers
      <3>2. IsFiniteSet(Carriers(g, m)) /\ Cardinality(Carriers(g, m)) \in Nat
        BY NodesFinite DEF Sound, Shape, Tables, Carriers
      <3>3. m = l => n \in Carriers(g, m)
        BY <1>2 DEF Carriers, Sound, Consistent, NoDangling
      <3>4. m = l => Cardinality(Carriers(g, m) \ {n}) = Cardinality(Carriers(g, m)) - 1
        BY <3>2, <3>3, FS_RemoveElement
      <3> HIDE DEF After
      <3> QED
        BY <2>3, <3>1, <3>2, <3>4
    <2> HIDE DEF ps
    <2> QED
      BY <2>1, <2>2, <2>3, <2>4, RelabelSound DEF ps
  <1> QED
    BY <1>1, <1>2

-----------------------------------------------------------------------------
(* Deletions                                                               *)

\* The reverse of an entry is the entry of the other direction.
LEMMA Reversed ==
  ASSUME NEW a \in AdjEntry
  PROVE  Reverse(a) = [at |-> a.other, other |-> a.at, type |-> a.type, id |-> a.id]
  <1>1. Reverse(a) \in AdjEntry
    BY DEF Reverse, AdjEntry
  <1>2. /\ Reverse(a).at = a.other /\ Reverse(a).other = a.at
        /\ Reverse(a).type = a.type /\ Reverse(a).id = a.id
    BY DEF Reverse, AdjEntry
  <1> QED
    BY <1>1, <1>2 DEF AdjEntry

\* An entry says all of its edge, and each direction is the reverse of the other.
LEMMA Entries ==
  ASSUME NEW e \in Edge, NEW f \in Edge
  PROVE  /\ OutEntry(e) \in AdjEntry /\ InEntry(e) \in AdjEntry
         /\ OutEntry(e) = OutEntry(f) => e = f
         /\ InEntry(e) = InEntry(f) => e = f
         /\ OutEntry(e).id = e.id /\ InEntry(e).id = e.id
         /\ OutEntry(e).type = e.type /\ InEntry(e).type = e.type
         /\ OutEntry(e).at = e.src /\ InEntry(e).at = e.dst
         /\ Reverse(OutEntry(e)) = InEntry(e) /\ Reverse(InEntry(e)) = OutEntry(e)
  <1>1. OutEntry(e) \in AdjEntry /\ InEntry(e) \in AdjEntry
    BY DEF Edge, AdjEntry, OutEntry, InEntry
  <1>2. /\ OutEntry(e) = OutEntry(f) => e = f
        /\ InEntry(e) = InEntry(f) => e = f
    BY DEF Edge, OutEntry, InEntry
  <1>3. /\ OutEntry(e).id = e.id /\ InEntry(e).id = e.id
        /\ OutEntry(e).type = e.type /\ InEntry(e).type = e.type
        /\ OutEntry(e).at = e.src /\ InEntry(e).at = e.dst
    BY DEF OutEntry, InEntry
  <1>4. Reverse(OutEntry(e)) = InEntry(e) /\ Reverse(InEntry(e)) = OutEntry(e)
    BY <1>1, Reversed DEF OutEntry, InEntry
  <1> QED
    BY <1>1, <1>2, <1>3, <1>4

\* As many entries in one direction as edges.
LEMMA CountEntries ==
  ASSUME NEW S \in SUBSET Edge, IsFiniteSet(S)
  PROVE  /\ Cardinality({OutEntry(e) : e \in S}) = Cardinality(S)
         /\ Cardinality({InEntry(e) : e \in S}) = Cardinality(S)
  <1>1. [e \in S |-> OutEntry(e)] \in Bijection(S, {OutEntry(e) : e \in S})
    BY Entries DEF Bijection, Injection, IsInjective, Surjection
  <1>2. [e \in S |-> InEntry(e)] \in Bijection(S, {InEntry(e) : e \in S})
    BY Entries DEF Bijection, Injection, IsInjective, Surjection
  <1> QED
    BY <1>1, <1>2, FS_Bijection DEF ExistsBijection

\* The edges of a type in a finite set of edges are counted by a natural number.
LEMMA TypeCountsFinite ==
  ASSUME NEW g, IsFiniteSet(g.edges), NEW y
  PROVE  IsFiniteSet(OfType(g, y)) /\ Cardinality(OfType(g, y)) \in Nat
  <1>1. OfType(g, y) \in SUBSET g.edges
    BY DEF OfType
  <1>2. IsFiniteSet(OfType(g, y))
    BY <1>1, FS_Subset
  <1> QED
    BY <1>2, FS_CardinalityType

TypesCounted(g) == \A y \in Types : g.tcount[y] + g.tdelta[y] = Cardinality(OfType(g, y))

\* A holds the entries of the edges S, in one of the two directions.
EntriesFor(A, S) == A = {OutEntry(e) : e \in S} \/ A = {InEntry(e) : e \in S}

\* One loop of delete_node_inner: the edges S go, and are counted by their entries.
LEMMA DropEdgesFields ==
  ASSUME NEW g, Shape(g), IsFiniteSet(g.edges), EdgeIdsUnique(g),
         TypesCounted(g), NEW S \in SUBSET g.edges, NEW A, EntriesFor(A, S),
         NEW h, h = DropEdges(g, A)
  PROVE  /\ Shape(h) /\ IsFiniteSet(h.edges) /\ EdgeIdsUnique(h)
         /\ h.nodes = g.nodes /\ h.labels = g.labels /\ h.idx = g.idx /\ h.edges = g.edges \ S
         /\ SameAdjacency(g, h) /\ SameMode(g, h) /\ SameLabelCounts(g, h)
         /\ SameNodeIds(g, h) /\ SameEdgeIds(g, h)
         /\ TypesCounted(h)
  <1> DEFINE b == [g EXCEPT !.edges = {e \in @ : \A a \in A : a.id # e.id}]
             by == [y \in Types |-> -Cardinality({a \in A : a.type = y})]
  <1>0. g.edges \in SUBSET Edge
    BY DEF Shape, Tables
  <1>1. {e \in g.edges : \A a \in A : a.id # e.id} = g.edges \ S
    BY <1>0, Entries DEF EdgeIdsUnique, EntriesFor
  <1>2. b = [g EXCEPT !.edges = g.edges \ S]
    BY <1>1, Zenon
  <1>3. /\ b \in Tables /\ b.edges = g.edges \ S
        /\ b.nodes = g.nodes /\ b.labels = g.labels /\ b.idx = g.idx
    BY <1>2 DEF Shape, Tables
  <1>4. SameAdjacency(g, b) /\ SameMode(g, b) /\ SameNodeIds(g, b) /\ SameEdgeIds(g, b)
    BY <1>2 DEF Shape, Tables, SameAdjacency, SameMode, SameNodeIds, SameEdgeIds
  <1>5. SameLabelCounts(g, b) /\ SameTypeCounts(g, b)
    BY <1>2 DEF Shape, Tables, SameLabelCounts, SameTypeCounts
  <1>6. h = CountTypes(b, by)
    BY DEF DropEdges
  <1> HIDE DEF b
  <1>7. Shape(b)
    BY <1>3, <1>4, <1>5 DEF Shape, NothingCached, SameAdjacency, SameMode, SameNodeIds,
               SameEdgeIds, SameLabelCounts, SameTypeCounts
  <1>8. IsFiniteSet(b.edges)
    <2>1. IsFiniteSet(g.edges \ S)
      BY FS_Difference
    <2> QED
      BY <1>3, <2>1, Zenon
  <1>9. /\ by \in [Types -> Int]
        /\ \A y \in Types : b.tcount[y] + b.tdelta[y] + by[y] = Cardinality(OfType(b, y))
    <2>1. ASSUME NEW y \in Types
          PROVE  /\ Cardinality({a \in A : a.type = y}) \in Nat
                 /\ Cardinality(OfType(b, y))
                      = Cardinality(OfType(g, y)) - Cardinality({a \in A : a.type = y})
      <3> DEFINE T == {e \in S : e.type = y}
      <3>1. T \in SUBSET Edge /\ T \in SUBSET g.edges
        BY <1>0
      <3>2. IsFiniteSet(T)
        BY <3>1, FS_Subset
      <3>3. {a \in A : a.type = y} = {OutEntry(e) : e \in T} \/ {a \in A : a.type = y} = {InEntry(e) : e \in T}
        BY <1>0, Entries DEF EntriesFor
      <3>4. OfType(b, y) = OfType(g, y) \ T /\ OfType(g, y) \cap T = T
        BY <1>3 DEF OfType
      <3> HIDE DEF T
      <3>5. Cardinality({a \in A : a.type = y}) = Cardinality(T)
        BY <3>1, <3>2, <3>3, CountEntries, Zenon
      <3>6. Cardinality(OfType(g, y) \ T) = Cardinality(OfType(g, y)) - Cardinality(OfType(g, y) \cap T)
        BY TypeCountsFinite, FS_Difference
      <3>7. Cardinality(T) \in Nat
        BY <3>2, FS_CardinalityType
      <3> QED
        BY <3>4, <3>5, <3>6, <3>7, Zenon
    <2>2. by \in [Types -> Int]
      <3> DEFINE number(y) == Cardinality({a \in A : a.type = y})
      <3>1. \A y \in Types : number(y) \in Nat
        BY <2>1
      <3>2. by = [y \in Types |-> -number(y)]
        OBVIOUS
      <3> HIDE DEF number, by
      <3> QED
        BY <3>1, <3>2
    <2>3. ASSUME NEW y \in Types
          PROVE  b.tcount[y] + b.tdelta[y] + by[y] = Cardinality(OfType(b, y))
      <3>1. b.tcount[y] + b.tdelta[y] = Cardinality(OfType(g, y))
        BY <1>5, Zenon DEF SameTypeCounts, TypesCounted
      <3>2. Cardinality(OfType(g, y)) \in Nat
        BY TypeCountsFinite
      <3>3. by[y] = -Cardinality({a \in A : a.type = y})
        OBVIOUS
      <3> HIDE DEF by
      <3> QED
        BY <2>1, <3>1, <3>2, <3>3
    <2> QED
      BY <2>2, <2>3, Zenon
  <1> HIDE DEF by
  <1>10. \A y \in Types : b.tcount[y] + b.tdelta[y] + by[y] >= 0
    BY <1>8, <1>9, TypeCountsFinite
  <1>11. /\ Shape(h)
         /\ SameGraph(b, h) /\ SameAdjacency(b, h) /\ SameMode(b, h)
         /\ SameNodeIds(b, h) /\ SameEdgeIds(b, h) /\ SameLabelCounts(b, h)
         /\ \A y \in Types : h.tcount[y] + h.tdelta[y] = b.tcount[y] + b.tdelta[y] + by[y]
    BY <1>6, <1>7, <1>9, <1>10, CountTypesFields
  <1>12. h.nodes = g.nodes /\ h.labels = g.labels /\ h.idx = g.idx /\ h.edges = g.edges \ S
    BY <1>3, <1>11 DEF SameGraph
  <1>13. /\ SameAdjacency(g, h) /\ SameMode(g, h) /\ SameLabelCounts(g, h)
         /\ SameNodeIds(g, h) /\ SameEdgeIds(g, h)
    BY <1>4, <1>5, <1>11 DEF SameAdjacency, SameMode, SameLabelCounts, SameNodeIds, SameEdgeIds
  <1>14. TypesCounted(h)
    <2>1. \A y \in Types : OfType(h, y) = OfType(b, y)
      BY <1>11 DEF OfType, SameGraph
    <2> QED
      BY <1>9, <1>11, <2>1, Zenon DEF TypesCounted
  <1>15. IsFiniteSet(h.edges)
    BY <1>8, <1>11, Zenon DEF SameGraph
  <1>16. EdgeIdsUnique(h)
    BY <1>12 DEF EdgeIdsUnique
  <1> QED
    BY <1>11, <1>12, <1>13, <1>14, <1>15, <1>16

\* delete_edge_inner on flushed tables: record, both entries and count go.
LEMMA DeleteEdgeSound ==
  ASSUME NEW g, Sound(g), g.pendOut = {}, g.pendIn = {}, NEW id,
         NEW h, h = DeleteEdgeInner(g, id)
  PROVE  /\ Sound(h) /\ h.cached = g.cached
         /\ Reads(h, g.nodes, g.labels, {e \in g.edges : e.id # id}, PeekNode(g), PeekEdge(g))
  <1> DEFINE gone == {e \in g.edges : e.id = id}
             outs == {OutEntry(e) : e \in g.edges \ gone}
             ins == {InEntry(e) : e \in g.edges \ gone}
             b == [g EXCEPT !.edges = g.edges \ gone, !.out = outs, !.in = ins]
             by == [y \in Types |-> -Cardinality({e \in gone : e.type = y})]
  <1>0. g.edges \in SUBSET Edge
    BY DEF Sound, Shape, Tables
  <1>1. /\ g.out \ {OutEntry(e) : e \in gone} = outs
        /\ g.in \ {InEntry(e) : e \in gone} = ins
    <2>1. g.out = {OutEntry(e) : e \in g.edges} /\ g.in = {InEntry(e) : e \in g.edges}
      BY DEF Sound, Consistent, AdjacencyMatches
    <2> QED
      BY <1>0, <2>1, Entries
  <1>2. h = CountTypes(b, by)
    BY <1>1, Zenon DEF DeleteEdgeInner
  <1>3. outs \in SUBSET AdjEntry /\ ins \in SUBSET AdjEntry
    BY <1>0, Entries
  <1> HIDE DEF outs, ins
  <1>4. /\ b \in Tables /\ b.edges = g.edges \ gone
        /\ b.nodes = g.nodes /\ b.labels = g.labels /\ b.idx = g.idx
    BY <1>3 DEF Sound, Shape, Tables
  <1>5. b.out = outs /\ b.in = ins /\ b.pendOut = {} /\ b.pendIn = {}
    BY DEF Sound, Shape, Tables
  <1>6. SameMode(g, b) /\ SameNodeIds(g, b) /\ SameEdgeIds(g, b)
    BY DEF Sound, Shape, Tables, SameMode, SameNodeIds, SameEdgeIds
  <1>7. SameLabelCounts(g, b) /\ SameTypeCounts(g, b)
    BY DEF Sound, Shape, Tables, SameLabelCounts, SameTypeCounts
  <1> HIDE DEF b
  <1>8. Shape(b)
    BY <1>4, <1>5, <1>6, <1>7 DEF Sound, Shape, NothingCached, SameMode, SameNodeIds,
               SameEdgeIds, SameLabelCounts, SameTypeCounts
  <1>9. IsFiniteSet(g.edges) /\ IsFiniteSet(b.edges)
    <2>1. IsFiniteSet(g.edges) /\ IsFiniteSet(g.edges \ gone)
      BY FS_Difference DEF Sound
    <2> QED
      BY <1>4, <2>1, Zenon
  <1>10. /\ by \in [Types -> Int]
         /\ \A y \in Types : b.tcount[y] + b.tdelta[y] + by[y] = Cardinality(OfType(b, y))
    <2>1. ASSUME NEW y \in Types
          PROVE  /\ Cardinality({e \in gone : e.type = y}) \in Nat
                 /\ Cardinality(OfType(b, y))
                      = Cardinality(OfType(g, y)) - Cardinality({e \in gone : e.type = y})
      <3> DEFINE T == {e \in gone : e.type = y}
      <3>1. OfType(b, y) = OfType(g, y) \ T /\ OfType(g, y) \cap T = T /\ T \in SUBSET g.edges
        BY <1>4 DEF OfType
      <3> HIDE DEF T
      <3>2. Cardinality(OfType(g, y) \ T) = Cardinality(OfType(g, y)) - Cardinality(OfType(g, y) \cap T)
        BY <1>9, TypeCountsFinite, FS_Difference
      <3>3. Cardinality(T) \in Nat
        BY <1>9, <3>1, FS_Subset, FS_CardinalityType
      <3>4. Cardinality(OfType(b, y)) = Cardinality(OfType(g, y)) - Cardinality(T)
        BY <3>1, <3>2, Zenon
      <3> QED
        BY <3>3, <3>4, Zenon DEF T
    <2>2. by \in [Types -> Int]
      BY <2>1
    <2>3. ASSUME NEW y \in Types
          PROVE  b.tcount[y] + b.tdelta[y] + by[y] = Cardinality(OfType(b, y))
      <3>1. b.tcount[y] + b.tdelta[y] = Cardinality(OfType(g, y))
        BY <1>7, Zenon DEF Sound, CountsExact, OfType, SameTypeCounts
      <3>2. Cardinality(OfType(g, y)) \in Nat
        BY <1>9, TypeCountsFinite
      <3>3. by[y] = -Cardinality({e \in gone : e.type = y})
        OBVIOUS
      <3> HIDE DEF by, gone
      <3> QED
        BY <2>1, <3>1, <3>2, <3>3
    <2> QED
      BY <2>2, <2>3, Zenon
  <1> HIDE DEF by
  <1>11. \A y \in Types : b.tcount[y] + b.tdelta[y] + by[y] >= 0
    BY <1>9, <1>10, TypeCountsFinite
  <1>12. /\ Shape(h)
         /\ SameGraph(b, h) /\ SameAdjacency(b, h) /\ SameMode(b, h)
         /\ SameNodeIds(b, h) /\ SameEdgeIds(b, h) /\ SameLabelCounts(b, h)
         /\ \A y \in Types : h.tcount[y] + h.tdelta[y] = b.tcount[y] + b.tdelta[y] + by[y]
    BY <1>2, <1>8, <1>10, <1>11, CountTypesFields
  <1>13. /\ h.nodes = g.nodes /\ h.labels = g.labels /\ h.idx = g.idx /\ h.edges = g.edges \ gone
         /\ h.cached = g.cached /\ h.known = g.known
    BY <1>4, <1>6, <1>12 DEF SameGraph, SameMode
  <1>14. /\ h.out = outs /\ h.in = ins /\ h.pendOut = {} /\ h.pendIn = {}
         /\ SameLabelCounts(g, h)
    BY <1>5, <1>7, <1>12 DEF SameAdjacency, SameLabelCounts
  <1>15. PeekNode(h) = PeekNode(g) /\ PeekEdge(h) = PeekEdge(g)
    BY <1>6, <1>12 DEF SameNodeIds, SameEdgeIds, PeekNode, PeekEdge
  <1>16. Consistent(h)
    <2>1. AdjacencyMatches(h)
      BY <1>13, <1>14 DEF AdjacencyMatches, outs, ins
    <2>2. NoDangling(h)
      BY <1>13 DEF Sound, Consistent, NoDangling
    <2>3. EdgeIdsUnique(h) /\ IdsBelowNext(h)
      BY <1>13, <1>15 DEF Sound, Consistent, EdgeIdsUnique, IdsBelowNext
    <2> QED
      BY <1>13, <2>1, <2>2, <2>3 DEF Sound, Consistent
  <1>17. \A y \in Types : h.tcount[y] + h.tdelta[y] = Cardinality(OfType(h, y))
    <2>1. \A y \in Types : OfType(h, y) = OfType(b, y)
      BY <1>12 DEF OfType, SameGraph
    <2> QED
      BY <1>10, <1>12, <2>1, Zenon
  <1>18. CountsExact(h)
    BY <1>13, <1>14, <1>17 DEF Sound, CountsExact, OfType, SameLabelCounts
  <1>19. IsFiniteSet(h.edges)
    BY <1>9, <1>12, Zenon DEF SameGraph
  <1>20. h.edges = {e \in g.edges : e.id # id}
    BY <1>13
  <1> QED
    BY <1>12, <1>13, <1>15, <1>16, <1>18, <1>19, <1>20 DEF Sound, Reads
\* One adjacency table is written.
LEMMA SetIn ==
  ASSUME NEW g, Shape(g), NEW X \in SUBSET AdjEntry,
         NEW h, h = [g EXCEPT !.in = X]
  PROVE  /\ Shape(h)
         /\ SameGraph(g, h) /\ SameMode(g, h) /\ SameNodeIds(g, h) /\ SameEdgeIds(g, h)
         /\ SameLabelCounts(g, h) /\ SameTypeCounts(g, h)
         /\ h.in = X /\ h.out = g.out /\ h.pendOut = g.pendOut /\ h.pendIn = g.pendIn
  <1>1. h \in Tables
    BY DEF Shape, Tables
  <1>2. h.in = X /\ h.out = g.out /\ h.pendOut = g.pendOut /\ h.pendIn = g.pendIn
    BY DEF Shape, Tables
  <1>3. SameGraph(g, h) /\ SameMode(g, h) /\ SameNodeIds(g, h) /\ SameEdgeIds(g, h)
    BY DEF Shape, Tables, SameGraph, SameMode, SameNodeIds, SameEdgeIds
  <1>4. SameLabelCounts(g, h) /\ SameTypeCounts(g, h)
    BY DEF Shape, Tables, SameLabelCounts, SameTypeCounts
  <1> QED
    BY <1>1, <1>2, <1>3, <1>4
    DEF Shape, NothingCached, SameMode, SameNodeIds, SameEdgeIds, SameLabelCounts, SameTypeCounts

\* Replacing the outgoing entries leaves the rest of the record.
LEMMA SetOut ==
  ASSUME NEW g, Shape(g), NEW X \in SUBSET AdjEntry,
         NEW h, h = [g EXCEPT !.out = X]
  PROVE  /\ Shape(h)
         /\ SameGraph(g, h) /\ SameMode(g, h) /\ SameNodeIds(g, h) /\ SameEdgeIds(g, h)
         /\ SameLabelCounts(g, h) /\ SameTypeCounts(g, h)
         /\ h.out = X /\ h.in = g.in /\ h.pendOut = g.pendOut /\ h.pendIn = g.pendIn
  <1>1. h \in Tables
    BY DEF Shape, Tables
  <1>2. h.out = X /\ h.in = g.in /\ h.pendOut = g.pendOut /\ h.pendIn = g.pendIn
    BY DEF Shape, Tables
  <1>3. SameGraph(g, h) /\ SameMode(g, h) /\ SameNodeIds(g, h) /\ SameEdgeIds(g, h)
    BY DEF Shape, Tables, SameGraph, SameMode, SameNodeIds, SameEdgeIds
  <1>4. SameLabelCounts(g, h) /\ SameTypeCounts(g, h)
    BY DEF Shape, Tables, SameLabelCounts, SameTypeCounts
  <1> QED
    BY <1>1, <1>2, <1>3, <1>4
    DEF Shape, NothingCached, SameMode, SameNodeIds, SameEdgeIds, SameLabelCounts, SameTypeCounts

\* The labels of a node leave the index and are counted down.
Mine(g, n) == {p \in g.labels : p[1] = n}
Unlabelled(g, n) ==
    CountLabels([g EXCEPT !.idx = @ \ Mine(g, n)], Each(Labels, {p[2] : p \in Mine(g, n)}, -1))
LabelsCounted(g, h, n) ==
    \A l \in Labels : h.lcount[l] + h.ldelta[l] = Cardinality(Carriers(g, l) \ {n})

\* The first loop of delete_node_inner: index and counts of the node's labels.
LEMMA UnlabelFields ==
  ASSUME NEW g, Sound(g), NEW n \in g.nodes,
         NEW h, h = Unlabelled(g, n)
  PROVE  /\ Shape(h)
         /\ h.nodes = g.nodes /\ h.labels = g.labels /\ h.idx = g.labels \ Mine(g, n) /\ h.edges = g.edges
         /\ SameAdjacency(g, h) /\ SameMode(g, h) /\ SameNodeIds(g, h) /\ SameEdgeIds(g, h)
         /\ SameTypeCounts(g, h)
         /\ LabelsCounted(g, h, n)
  <1> DEFINE mine == Mine(g, n)
             rest == g.idx \ mine
             ls == {p[2] : p \in mine}
             b == [g EXCEPT !.idx = rest]
             by == Each(Labels, ls, -1)
  <1>0. rest = g.labels \ mine
    BY DEF Sound, Consistent
  <1>1. h = CountLabels(b, by)
    BY DEF Unlabelled
  <1>2. b \in Tables /\ b.idx = rest
    BY <1>0 DEF Sound, Shape, Tables, Mine
  <1>3. b.nodes = g.nodes /\ b.labels = g.labels /\ b.edges = g.edges
    BY DEF Sound, Shape, Tables
  <1>4. SameAdjacency(g, b) /\ SameMode(g, b) /\ SameNodeIds(g, b) /\ SameEdgeIds(g, b)
    BY DEF Sound, Shape, Tables, SameAdjacency, SameMode, SameNodeIds, SameEdgeIds
  <1>5. SameLabelCounts(g, b) /\ SameTypeCounts(g, b)
    BY DEF Sound, Shape, Tables, SameLabelCounts, SameTypeCounts
  <1> HIDE DEF b
  <1>6. Shape(b)
    BY <1>2, <1>4, <1>5 DEF Sound, Shape, NothingCached, SameAdjacency, SameMode, SameNodeIds,
               SameEdgeIds, SameLabelCounts, SameTypeCounts
  <1>7. by \in [Labels -> Int] /\ \A l \in Labels : by[l] = IF <<n, l>> \in g.labels THEN -1 ELSE 0
    <2>1. by \in [Labels -> Int]
      BY DEF Each
    <2>2. g.labels \in SUBSET (NodeId \X Labels)
      BY DEF Sound, Shape, Tables
    <2>3. \A l \in Labels : l \in ls <=> <<n, l>> \in g.labels
      BY <2>2 DEF Mine
    <2> QED
      BY <2>1, <2>3 DEF Each
  <1> HIDE DEF by
  <1>8. ASSUME NEW l \in Labels
        PROVE  /\ b.lcount[l] + b.ldelta[l] + by[l] = Cardinality(Carriers(g, l) \ {n})
               /\ Cardinality(Carriers(g, l) \ {n}) \in Nat
    <2>1. IsFiniteSet(Carriers(g, l)) /\ Cardinality(Carriers(g, l)) \in Nat
      BY NodesFinite DEF Sound, Shape, Tables, Carriers
    <2>2. Cardinality(Carriers(g, l) \ {n})
            = IF n \in Carriers(g, l) THEN Cardinality(Carriers(g, l)) - 1 ELSE Cardinality(Carriers(g, l))
      BY <2>1, FS_RemoveElement
    <2>3. n \in Carriers(g, l) <=> <<n, l>> \in g.labels
      BY DEF Carriers
    <2>4. b.lcount[l] + b.ldelta[l] = Cardinality(Carriers(g, l))
      BY <1>5, Zenon DEF Sound, CountsExact, SameLabelCounts, Carriers
    <2>5. Cardinality(Carriers(g, l) \ {n}) \in Nat
      BY <2>1, FS_RemoveElement, FS_CardinalityType
    <2> QED
      BY <1>7, <2>1, <2>2, <2>3, <2>4, <2>5
  <1>9. by \in [Labels -> Int] /\ \A l \in Labels : b.lcount[l] + b.ldelta[l] + by[l] >= 0
    <2> DEFINE left(l) == Cardinality(Carriers(g, l) \ {n})
    <2> HIDE DEF left
    <2>1. \A l \in Labels : b.lcount[l] + b.ldelta[l] + by[l] = left(l) /\ left(l) \in Nat
      BY <1>8, Zenon DEF left
    <2> QED
      BY <1>7, <2>1
  <1>10. /\ Shape(h)
         /\ SameGraph(b, h) /\ SameAdjacency(b, h) /\ SameMode(b, h)
         /\ SameNodeIds(b, h) /\ SameEdgeIds(b, h) /\ SameTypeCounts(b, h)
         /\ \A l \in Labels : h.lcount[l] + h.ldelta[l] = b.lcount[l] + b.ldelta[l] + by[l]
    BY <1>1, <1>6, <1>9, CountLabelsFields
  <1>11. h.nodes = g.nodes /\ h.labels = g.labels /\ h.idx = g.labels \ Mine(g, n) /\ h.edges = g.edges
    BY <1>0, <1>2, <1>3, <1>10 DEF SameGraph
  <1>12. /\ SameAdjacency(g, h) /\ SameMode(g, h) /\ SameNodeIds(g, h) /\ SameEdgeIds(g, h)
         /\ SameTypeCounts(g, h)
    BY <1>4, <1>5, <1>10 DEF SameAdjacency, SameMode, SameNodeIds, SameEdgeIds, SameTypeCounts
  <1>13. LabelsCounted(g, h, n)
    BY <1>8, <1>10, Zenon DEF LabelsCounted
  <1> QED
    BY <1>10, <1>11, <1>12, <1>13

\* A node goes with its labels and with its edges in both directions, each of
\* them counted once: the second loop no longer finds a self-loop.
LEMMA DeleteNodeSound ==
  ASSUME NEW g, Sound(g), g.pendOut = {}, g.pendIn = {}, NEW n \in g.nodes,
         g.known = {},
         NEW h, h = DeleteNodeInner(g, n)
  PROVE  /\ Sound(h) /\ h.cached = g.cached
         /\ Reads(h, g.nodes \ {n}, {p \in g.labels : p[1] # n},
                  {e \in g.edges : e.src # n /\ e.dst # n}, PeekNode(g), PeekEdge(g))
  <1> DEFINE mine == Mine(g, n)
             g1 == Unlabelled(g, n)
             outs == EntriesOf(g1.out, n)
             b2 == [g1 EXCEPT !.in = @ \ {Reverse(a) : a \in outs}]
             g2 == DropEdges(b2, outs)
             ins == EntriesOf(g2.in, n)
             b3 == [g2 EXCEPT !.out = @ \ {Reverse(a) : a \in ins}]
             g3 == DropEdges(b3, ins)
             S1 == {e \in g.edges : e.src = n}
             S2 == {e \in g.edges : e.src # n /\ e.dst = n}
             left == {e \in g.edges : e.src # n /\ e.dst # n}
  <1>1. h = [g3 EXCEPT !.out = @ \ EntriesOf(@, n), !.in = @ \ EntriesOf(@, n),
                       !.nodes = @ \ {n}, !.labels = @ \ mine]
    BY DEF DeleteNodeInner, Unlabelled, Mine
  <1>2. /\ g.edges \in SUBSET Edge /\ IsFiniteSet(g.edges) /\ EdgeIdsUnique(g)
        /\ g.out = {OutEntry(e) : e \in g.edges} /\ g.in = {InEntry(e) : e \in g.edges}
    <2>1. g.edges \in SUBSET Edge
      BY DEF Sound, Shape, Tables
    <2>2. IsFiniteSet(g.edges) /\ EdgeIdsUnique(g)
      BY DEF Sound, Consistent
    <2>3. g.out = {OutEntry(e) : e \in g.edges} /\ g.in = {InEntry(e) : e \in g.edges}
      BY DEF Sound, Consistent, AdjacencyMatches
    <2> QED
      BY <2>1, <2>2, <2>3
  <1>3. /\ Shape(g1)
        /\ g1.nodes = g.nodes /\ g1.labels = g.labels /\ g1.idx = g.labels \ mine /\ g1.edges = g.edges
        /\ SameAdjacency(g, g1) /\ SameMode(g, g1) /\ SameNodeIds(g, g1) /\ SameEdgeIds(g, g1)
        /\ SameTypeCounts(g, g1)
        /\ LabelsCounted(g, g1, n)
    BY UnlabelFields
  <1>4. \A y \in Types : g1.tcount[y] + g1.tdelta[y] = Cardinality(OfType(g, y))
    BY <1>3, Zenon DEF Sound, CountsExact, OfType, SameTypeCounts
  <1> HIDE DEF g1
  (* the outgoing edges *)
  <1>5. outs = {OutEntry(e) : e \in S1}
    BY <1>2, <1>3, Entries DEF EntriesOf, SameAdjacency
  <1>6. g1.in \ {Reverse(a) : a \in outs} = {InEntry(e) : e \in g.edges \ S1}
    <2>1. {Reverse(a) : a \in outs} = {InEntry(e) : e \in S1}
      BY <1>2, <1>5, Entries
    <2>2. g1.in = {InEntry(e) : e \in g.edges}
      BY <1>2, <1>3 DEF SameAdjacency
    <2>3. {InEntry(e) : e \in g.edges} \ {InEntry(e) : e \in S1} = {InEntry(e) : e \in g.edges \ S1}
      BY <1>2, Entries
    <2> QED
      BY <2>1, <2>2, <2>3, Zenon
  <1> HIDE DEF outs
  <1>7. /\ Shape(b2)
        /\ SameGraph(g1, b2) /\ SameMode(g1, b2) /\ SameNodeIds(g1, b2) /\ SameEdgeIds(g1, b2)
        /\ SameLabelCounts(g1, b2) /\ SameTypeCounts(g1, b2)
        /\ b2.in = {InEntry(e) : e \in g.edges \ S1} /\ b2.out = g1.out
        /\ b2.pendOut = g1.pendOut /\ b2.pendIn = g1.pendIn
    <2> DEFINE X == {InEntry(e) : e \in g.edges \ S1}
    <2>1. X \in SUBSET AdjEntry
      BY <1>2, Entries
    <2>2. b2 = [g1 EXCEPT !.in = X]
      BY <1>6, Zenon
    <2> HIDE DEF X, b2
    <2>3. /\ Shape(b2)
          /\ SameGraph(g1, b2) /\ SameMode(g1, b2) /\ SameNodeIds(g1, b2) /\ SameEdgeIds(g1, b2)
          /\ SameLabelCounts(g1, b2) /\ SameTypeCounts(g1, b2)
          /\ b2.in = X /\ b2.out = g1.out
          /\ b2.pendOut = g1.pendOut /\ b2.pendIn = g1.pendIn
      BY <1>3, <2>1, <2>2, SetIn
    <2> QED
      BY <2>3, Zenon DEF X
  <1> HIDE DEF b2
  <1>8. /\ Shape(g2) /\ IsFiniteSet(g2.edges) /\ EdgeIdsUnique(g2)
        /\ g2.nodes = b2.nodes /\ g2.labels = b2.labels /\ g2.idx = b2.idx /\ g2.edges = b2.edges \ S1
        /\ SameAdjacency(b2, g2) /\ SameMode(b2, g2) /\ SameLabelCounts(b2, g2)
        /\ SameNodeIds(b2, g2) /\ SameEdgeIds(b2, g2)
        /\ TypesCounted(g2)
    <2>1. b2.edges = g.edges
      BY <1>3, <1>7 DEF SameGraph
    <2>2. IsFiniteSet(b2.edges) /\ EdgeIdsUnique(b2) /\ S1 \in SUBSET b2.edges
      BY <1>2, <2>1, Zenon DEF EdgeIdsUnique
    <2>3. \A y \in Types : OfType(b2, y) = OfType(g, y)
      BY <2>1, Zenon DEF OfType
    <2>4. TypesCounted(b2)
      BY <1>4, <1>7, <2>3, Zenon DEF SameTypeCounts, TypesCounted
    <2>5. g2 = DropEdges(b2, outs)
      OBVIOUS
    <2>6. Shape(b2)
      BY <1>7
    <2>7. EntriesFor(outs, S1)
      BY <1>5, Zenon DEF EntriesFor
    <2> HIDE DEF S1, g2
    <2> QED
      BY <2>7, <2>2, <2>4, <2>5, <2>6, DropEdgesFields
  <1> HIDE DEF g2
  <1>9. g2.edges = g.edges \ S1 /\ g2.in = {InEntry(e) : e \in g.edges \ S1} /\ g2.out = g.out
    BY <1>3, <1>7, <1>8 DEF SameGraph, SameAdjacency
  (* the incoming edges that are left *)
  <1>10. ins = {InEntry(e) : e \in S2}
    BY <1>2, <1>9, Entries DEF EntriesOf
  <1>11. g2.out \ {Reverse(a) : a \in ins} = {OutEntry(e) : e \in g.edges \ S2}
    <2>1. {Reverse(a) : a \in ins} = {OutEntry(e) : e \in S2}
      BY <1>2, <1>10, Entries
    <2>2. g2.out = {OutEntry(e) : e \in g.edges}
      BY <1>2, <1>9
    <2>3. {OutEntry(e) : e \in g.edges} \ {OutEntry(e) : e \in S2} = {OutEntry(e) : e \in g.edges \ S2}
      BY <1>2, Entries
    <2> QED
      BY <2>1, <2>2, <2>3, Zenon
  <1> HIDE DEF ins
  <1>12. /\ Shape(b3)
         /\ SameGraph(g2, b3) /\ SameMode(g2, b3) /\ SameNodeIds(g2, b3) /\ SameEdgeIds(g2, b3)
         /\ SameLabelCounts(g2, b3) /\ SameTypeCounts(g2, b3)
         /\ b3.out = {OutEntry(e) : e \in g.edges \ S2} /\ b3.in = g2.in
         /\ b3.pendOut = g2.pendOut /\ b3.pendIn = g2.pendIn
    <2> DEFINE X == {OutEntry(e) : e \in g.edges \ S2}
    <2>1. X \in SUBSET AdjEntry
      BY <1>2, Entries
    <2>2. b3 = [g2 EXCEPT !.out = X]
      BY <1>11, Zenon
    <2> HIDE DEF X, b3
    <2>3. /\ Shape(b3)
          /\ SameGraph(g2, b3) /\ SameMode(g2, b3) /\ SameNodeIds(g2, b3) /\ SameEdgeIds(g2, b3)
          /\ SameLabelCounts(g2, b3) /\ SameTypeCounts(g2, b3)
          /\ b3.out = X /\ b3.in = g2.in
          /\ b3.pendOut = g2.pendOut /\ b3.pendIn = g2.pendIn
      <3>1. Shape(g2)
        BY <1>8
      <3> QED
        BY <2>1, <2>2, <3>1, SetOut
    <2> QED
      BY <2>3, Zenon DEF X
  <1> HIDE DEF b3
  <1>13. /\ Shape(g3) /\ IsFiniteSet(g3.edges) /\ EdgeIdsUnique(g3)
         /\ g3.nodes = b3.nodes /\ g3.labels = b3.labels /\ g3.idx = b3.idx /\ g3.edges = b3.edges \ S2
         /\ SameAdjacency(b3, g3) /\ SameMode(b3, g3) /\ SameLabelCounts(b3, g3)
         /\ SameNodeIds(b3, g3) /\ SameEdgeIds(b3, g3)
         /\ TypesCounted(g3)
    <2>1. b3.edges = g2.edges
      BY <1>12 DEF SameGraph
    <2>2. S2 \in SUBSET b3.edges
      BY <1>9, <2>1
    <2>3. IsFiniteSet(b3.edges) /\ EdgeIdsUnique(b3)
      BY <1>8, <2>1, Zenon DEF EdgeIdsUnique
    <2>4. \A y \in Types : OfType(b3, y) = OfType(g2, y)
      BY <2>1, Zenon DEF OfType
    <2>5. TypesCounted(b3)
      BY <1>8, <1>12, <2>4, Zenon DEF SameTypeCounts, TypesCounted
    <2>6. g3 = DropEdges(b3, ins)
      OBVIOUS
    <2>7. Shape(b3)
      BY <1>12
    <2>8. EntriesFor(ins, S2)
      BY <1>10, Zenon DEF EntriesFor
    <2> HIDE DEF S2, g3
    <2> QED
      BY <2>8, <2>2, <2>3, <2>5, <2>6, <2>7, DropEdgesFields
  <1> HIDE DEF g3
  <1>14. /\ g3.edges = left /\ g3.nodes = g.nodes /\ g3.labels = g.labels /\ g3.idx = g.labels \ mine
    BY <1>3, <1>7, <1>8, <1>9, <1>12, <1>13 DEF SameGraph
  <1>15. /\ g3.in = {InEntry(e) : e \in g.edges \ S1} /\ g3.out = {OutEntry(e) : e \in g.edges \ S2}
         /\ g3.pendOut = {} /\ g3.pendIn = {}
    BY <1>3, <1>7, <1>8, <1>9, <1>12, <1>13 DEF SameAdjacency
  <1>16. /\ SameMode(g, g3) /\ SameNodeIds(g, g3) /\ SameEdgeIds(g, g3) /\ SameLabelCounts(g1, g3)
    BY <1>3, <1>7, <1>8, <1>12, <1>13 DEF SameMode, SameNodeIds, SameEdgeIds, SameLabelCounts
  (* the node's own keys *)
  <1> DEFINE lout == {OutEntry(e) : e \in left}
             lin == {InEntry(e) : e \in left}
             lnodes == g.nodes \ {n}
             llabels == {p \in g.labels : p[1] # n}
  <1>17. /\ g3.out \ EntriesOf(g3.out, n) = lout /\ g3.in \ EntriesOf(g3.in, n) = lin
    BY <1>2, <1>15, Entries DEF EntriesOf
  <1>18. g.labels \ mine = llabels
    BY DEF Mine
  <1>19. h = [g3 EXCEPT !.out = lout, !.in = lin, !.nodes = lnodes, !.labels = llabels]
    BY <1>1, <1>14, <1>17, <1>18, Zenon
  <1>20. /\ lout \in SUBSET AdjEntry /\ lin \in SUBSET AdjEntry
         /\ lnodes \in SUBSET NodeId /\ llabels \in SUBSET (NodeId \X Labels)
    <2>1. lout \in SUBSET AdjEntry /\ lin \in SUBSET AdjEntry
      BY <1>2, Entries
    <2>2. lnodes \in SUBSET NodeId /\ llabels \in SUBSET (NodeId \X Labels)
      BY DEF Sound, Shape, Tables
    <2> QED
      BY <2>1, <2>2
  <1> HIDE DEF lout, lin, lnodes, llabels, left, mine
  <1>21. h \in Tables
    BY ZenonT(60), <1>13, <1>19, <1>20 DEF Shape, Tables
  <1>22. /\ h.out = lout /\ h.in = lin /\ h.pendOut = g3.pendOut /\ h.pendIn = g3.pendIn
    BY <1>13, <1>19 DEF Shape, Tables
  <1>23. h.nodes = lnodes /\ h.labels = llabels /\ h.idx = g3.idx /\ h.edges = g3.edges
    BY <1>13, <1>19 DEF Shape, Tables
  <1>24. SameMode(g3, h) /\ SameNodeIds(g3, h) /\ SameEdgeIds(g3, h)
    BY <1>13, <1>19 DEF Shape, Tables, SameMode, SameNodeIds, SameEdgeIds
  <1>25. SameLabelCounts(g3, h) /\ SameTypeCounts(g3, h)
    BY <1>13, <1>19 DEF Shape, Tables, SameLabelCounts, SameTypeCounts
  <1>26. Shape(h)
    BY <1>13, <1>15, <1>21, <1>22, <1>24, <1>25 DEF Shape, NothingCached, SameMode, SameNodeIds,
       SameEdgeIds, SameLabelCounts, SameTypeCounts
  <1>27. h.edges = left /\ h.idx = llabels /\ h.pendOut = {} /\ h.pendIn = {}
    BY <1>14, <1>15, <1>18, <1>22, <1>23
  <1>28. /\ h.cached = g.cached /\ h.known = {}
         /\ PeekNode(h) = PeekNode(g) /\ PeekEdge(h) = PeekEdge(g)
    BY <1>16, <1>24 DEF SameMode, SameNodeIds, SameEdgeIds, PeekNode, PeekEdge
  <1>29. Consistent(h)
    <2>1. AdjacencyMatches(h)
      BY <1>22, <1>27 DEF AdjacencyMatches, lout, lin
    <2>2. NoDangling(h)
      BY <1>23, <1>27 DEF Sound, Consistent, NoDangling, lnodes, llabels, left
    <2>3. EdgeIdsUnique(h) /\ IdsBelowNext(h)
      BY <1>23, <1>27, <1>28 DEF Sound, Consistent, EdgeIdsUnique, IdsBelowNext, lnodes, left
    <2> QED
      BY <1>23, <1>27, <2>1, <2>2, <2>3 DEF Consistent
  <1>30. \A y \in Types : h.tcount[y] + h.tdelta[y] = Cardinality(OfType(h, y))
    <2>1. \A y \in Types : OfType(h, y) = OfType(g3, y)
      BY <1>23, Zenon DEF OfType
    <2> QED
      BY <1>13, <1>25, <2>1, Zenon DEF TypesCounted, SameTypeCounts
  <1>31. \A l \in Labels : h.lcount[l] + h.ldelta[l] = Cardinality(Carriers(h, l))
    <2>1. \A l \in Labels : Carriers(h, l) = Carriers(g, l) \ {n}
      BY <1>23 DEF Carriers, lnodes, llabels
    <2> QED
      BY <1>3, <1>16, <1>25, <2>1, Zenon DEF LabelsCounted, SameLabelCounts
  <1>32. CountsExact(h)
    BY <1>30, <1>31, Zenon DEF CountsExact, Carriers, OfType
  <1>33. IsFiniteSet(h.edges)
    BY <1>13, <1>23, Zenon
  <1> QED
    BY <1>23, <1>26, <1>27, <1>28, <1>29, <1>32, <1>33 DEF Sound, Reads, lnodes, llabels, left

-----------------------------------------------------------------------------
(* The cache comes and goes                                                *)

\* The parts Sound speaks of, where all but the cache's own stay.
LEMMA SoundSame ==
  ASSUME NEW g, Sound(g), NEW h, Shape(h), SameGraph(g, h), h.known \subseteq g.known,
         PeekNode(h) = PeekNode(g), PeekEdge(h) = PeekEdge(g),
         h.out \cup h.pendOut = g.out \cup g.pendOut, h.in \cup h.pendIn = g.in \cup g.pendIn,
         \A l \in Labels : h.lcount[l] + h.ldelta[l] = g.lcount[l] + g.ldelta[l],
         \A y \in Types : h.tcount[y] + h.tdelta[y] = g.tcount[y] + g.tdelta[y]
  PROVE  /\ Sound(h)
         /\ Reads(h, g.nodes, g.labels, g.edges, PeekNode(g), PeekEdge(g))
  <1>1. Consistent(h)
    <2>1. AdjacencyMatches(h)
      BY DEF Sound, Consistent, AdjacencyMatches, SameGraph
    <2>2. NoDangling(h) /\ EdgeIdsUnique(h) /\ IdsBelowNext(h)
      BY DEF Sound, Consistent, NoDangling, EdgeIdsUnique, IdsBelowNext, SameGraph
    <2> QED
      BY <2>1, <2>2 DEF Sound, Consistent, SameGraph
  <1>2. CountsExact(h)
    BY Zenon DEF Sound, CountsExact, SameGraph
  <1>3. IsFiniteSet(h.edges)
    BY Zenon DEF Sound, SameGraph
  <1> QED
    BY <1>1, <1>2, <1>3 DEF Sound, Reads, SameGraph

\* Flushing the buffers shows nothing to a reader.
LEMMA FlushAdjacencySound ==
  ASSUME NEW g, Sound(g), NEW h, h = FlushAdjacency(g)
  PROVE  /\ Sound(h) /\ h.pendOut = {} /\ h.pendIn = {} /\ h.cached = g.cached /\ h.known = g.known
         /\ Reads(h, g.nodes, g.labels, g.edges, PeekNode(g), PeekEdge(g))
  <1>1. /\ Shape(h)
        /\ SameGraph(g, h) /\ SameMode(g, h) /\ SameNodeIds(g, h) /\ SameEdgeIds(g, h)
        /\ SameLabelCounts(g, h) /\ SameTypeCounts(g, h)
        /\ h.out = g.out \cup g.pendOut /\ h.in = g.in \cup g.pendIn
        /\ h.pendOut = {} /\ h.pendIn = {}
    BY FlushAdjacencyFields DEF Sound
  <1>2. PeekNode(h) = PeekNode(g) /\ PeekEdge(h) = PeekEdge(g)
    BY <1>1 DEF SameNodeIds, SameEdgeIds, PeekNode, PeekEdge
  <1>3. /\ \A l \in Labels : h.lcount[l] + h.ldelta[l] = g.lcount[l] + g.ldelta[l]
        /\ \A y \in Types : h.tcount[y] + h.tdelta[y] = g.tcount[y] + g.tdelta[y]
    BY <1>1, Zenon DEF SameLabelCounts, SameTypeCounts
  <1>4. h.out \cup h.pendOut = g.out \cup g.pendOut /\ h.in \cup h.pendIn = g.in \cup g.pendIn
    BY <1>1
  <1>5. Sound(h) /\ Reads(h, g.nodes, g.labels, g.edges, PeekNode(g), PeekEdge(g))
    BY <1>1, <1>2, <1>3, <1>4, SoundSame DEF SameMode
  <1> QED
    BY <1>1, <1>5 DEF SameMode

\* Forgetting the memo shows nothing to a reader.
LEMMA InvalidateNodesSound ==
  ASSUME NEW g, Sound(g), NEW h, h = InvalidateNodes(g)
  PROVE  /\ Sound(h) /\ h.cached = g.cached /\ h.known = {}
         /\ Reads(h, g.nodes, g.labels, g.edges, PeekNode(g), PeekEdge(g))
  <1>1. h \in Tables /\ h.known = {} /\ h.cached = g.cached /\ h.bulk = g.bulk
    BY DEF InvalidateNodes, Sound, Shape, Tables
  <1>2. SameGraph(g, h) /\ SameAdjacency(g, h) /\ SameNodeIds(g, h) /\ SameEdgeIds(g, h)
    BY DEF InvalidateNodes, Sound, Shape, Tables, SameGraph, SameAdjacency, SameNodeIds, SameEdgeIds
  <1>3. SameLabelCounts(g, h) /\ SameTypeCounts(g, h)
    BY DEF InvalidateNodes, Sound, Shape, Tables, SameLabelCounts, SameTypeCounts
  <1>4. Shape(h)
    BY <1>1, <1>2, <1>3 DEF Sound, Shape, NothingCached, SameAdjacency, SameNodeIds, SameEdgeIds,
       SameLabelCounts, SameTypeCounts
  <1>5. PeekNode(h) = PeekNode(g) /\ PeekEdge(h) = PeekEdge(g)
    BY <1>2 DEF SameNodeIds, SameEdgeIds, PeekNode, PeekEdge
  <1>6. /\ \A l \in Labels : h.lcount[l] + h.ldelta[l] = g.lcount[l] + g.ldelta[l]
        /\ \A y \in Types : h.tcount[y] + h.tdelta[y] = g.tcount[y] + g.tdelta[y]
    BY <1>3, Zenon DEF SameLabelCounts, SameTypeCounts
  <1>7. h.out \cup h.pendOut = g.out \cup g.pendOut /\ h.in \cup h.pendIn = g.in \cup g.pendIn
    BY <1>2 DEF SameAdjacency
  <1>8. Sound(h) /\ Reads(h, g.nodes, g.labels, g.edges, PeekNode(g), PeekEdge(g))
    BY <1>1, <1>2, <1>4, <1>5, <1>6, <1>7, SoundSame
  <1> QED
    BY <1>1, <1>8

\* A transaction begins with an empty cache, and may turn on bulk mode.
LEMMA CachedSound ==
  ASSUME NEW g, Sound(g), NEW h, h = [g EXCEPT !.cached = TRUE] \/ (g.cached /\ h = [g EXCEPT !.bulk = TRUE])
  PROVE  /\ Sound(h) /\ h.cached
         /\ Reads(h, g.nodes, g.labels, g.edges, PeekNode(g), PeekEdge(g))
  <1>1. h \in Tables /\ h.known = g.known /\ h.cached
    BY ZenonT(60) DEF Sound, Shape, Tables
  <1>2. SameGraph(g, h) /\ SameAdjacency(g, h) /\ SameNodeIds(g, h) /\ SameEdgeIds(g, h)
    BY DEF Sound, Shape, Tables, SameGraph, SameAdjacency, SameNodeIds, SameEdgeIds
  <1>3. SameLabelCounts(g, h) /\ SameTypeCounts(g, h)
    BY DEF Sound, Shape, Tables, SameLabelCounts, SameTypeCounts
  <1>4. Shape(h)
    BY <1>1, <1>2 DEF Sound, Shape, SameAdjacency
  <1>5. PeekNode(h) = PeekNode(g) /\ PeekEdge(h) = PeekEdge(g)
    BY <1>2 DEF SameNodeIds, SameEdgeIds, PeekNode, PeekEdge
  <1>6. /\ \A l \in Labels : h.lcount[l] + h.ldelta[l] = g.lcount[l] + g.ldelta[l]
        /\ \A y \in Types : h.tcount[y] + h.tdelta[y] = g.tcount[y] + g.tdelta[y]
    BY <1>3, Zenon DEF SameLabelCounts, SameTypeCounts
  <1>7. h.out \cup h.pendOut = g.out \cup g.pendOut /\ h.in \cup h.pendIn = g.in \cup g.pendIn
    BY <1>2 DEF SameAdjacency
  <1>8. Sound(h) /\ Reads(h, g.nodes, g.labels, g.edges, PeekNode(g), PeekEdge(g))
    BY <1>1, <1>2, <1>4, <1>5, <1>6, <1>7, SoundSame
  <1> QED
    BY <1>1, <1>8

\* What a commit writes out of the cache, field by field.
Committed(g) == WithoutCache(FlushCounters(FlushAdjacency(g)))

CountsFlushed(g, h) ==
    /\ h.lcount = [l \in Labels |-> AtLeastZero(g.lcount[l] + g.ldelta[l])]
    /\ h.tcount = [y \in Types |-> AtLeastZero(g.tcount[y] + g.tdelta[y])]
    /\ h.ldelta = [l \in Labels |-> 0] /\ h.tdelta = [y \in Types |-> 0]

\* What commit does to each field.
LEMMA CommittedFields ==
  ASSUME NEW g, Shape(g), NEW h, h = Committed(g)
  PROVE  /\ Shape(h) /\ NothingCached(h)
         /\ SameGraph(g, h) /\ h.out = g.out \cup g.pendOut /\ h.in = g.in \cup g.pendIn
         /\ h.nextNode = PeekNode(g) /\ h.nextEdge = PeekEdge(g)
         /\ CountsFlushed(g, h)
  <1> DEFINE f == FlushAdjacency(g)
             c == FlushCounters(f)
  <1>1. /\ Shape(f)
        /\ SameGraph(g, f) /\ SameMode(g, f) /\ SameNodeIds(g, f) /\ SameEdgeIds(g, f)
        /\ SameLabelCounts(g, f) /\ SameTypeCounts(g, f)
        /\ f.out = g.out \cup g.pendOut /\ f.in = g.in \cup g.pendIn
        /\ f.pendOut = {} /\ f.pendIn = {}
    BY FlushAdjacencyFields
  <1>2. h = WithoutCache(FlushCounters(f))
    BY DEF Committed
  <1>3. PeekNode(f) = PeekNode(g) /\ PeekEdge(f) = PeekEdge(g)
    BY <1>1 DEF SameNodeIds, SameEdgeIds, PeekNode, PeekEdge
  <1> HIDE DEF f
  <1> DEFINE lc == [l \in Labels |-> AtLeastZero(f.lcount[l] + f.ldelta[l])]
             tc == [y \in Types |-> AtLeastZero(f.tcount[y] + f.tdelta[y])]
             lz == [l \in Labels |-> 0]
             tz == [y \in Types |-> 0]
  <1>4. f \in Tables
    BY <1>1 DEF Shape
  <1>5. /\ lc \in [Labels -> Nat] /\ tc \in [Types -> Nat]
        /\ lz \in [Labels -> Int] /\ tz \in [Types -> Int]
    BY <1>4 DEF Tables, AtLeastZero
  <1>6. PeekNode(f) \in 0..MaxNode /\ PeekEdge(f) \in 0..MaxEdge
    BY <1>4, StoreAssumption DEF Tables, PeekNode, PeekEdge, Unread
  <1>7. c = [f EXCEPT !.nextNode = PeekNode(f), !.cnode = Unread,
                      !.nextEdge = PeekEdge(f), !.cedge = Unread,
                      !.lcount = lc, !.ldelta = lz, !.tcount = tc, !.tdelta = tz]
    BY Zenon DEF FlushCounters
  <1>8. h = [c EXCEPT !.cached = FALSE, !.cnode = Unread, !.cedge = Unread,
                      !.ldelta = lz, !.tdelta = tz,
                      !.bulk = FALSE, !.pendOut = {}, !.pendIn = {}, !.known = {}]
    BY <1>2, Zenon DEF WithoutCache
  <1>9. /\ lc = [l \in Labels |-> AtLeastZero(g.lcount[l] + g.ldelta[l])]
        /\ tc = [y \in Types |-> AtLeastZero(g.tcount[y] + g.tdelta[y])]
    BY <1>1, Zenon DEF SameLabelCounts, SameTypeCounts
  <1> HIDE DEF c, lc, tc, lz, tz
  <1>10. Unread \in Unread..MaxNode /\ Unread \in Unread..MaxEdge
    BY StoreAssumption DEF Unread
  <1>11. c \in Tables
    BY <1>4, <1>5, <1>6, <1>7, <1>10 DEF Tables
  <1>12. SameGraph(f, c) /\ SameAdjacency(f, c)
    BY <1>4, <1>7 DEF Tables, SameGraph, SameAdjacency
  <1>13. /\ c.nextNode = PeekNode(f) /\ c.nextEdge = PeekEdge(f)
         /\ c.lcount = lc /\ c.tcount = tc
    BY <1>4, <1>7 DEF Tables
  <1>14. h \in Tables
    <2> DEFINE d == [c EXCEPT !.cached = FALSE, !.cnode = Unread, !.cedge = Unread,
                              !.ldelta = lz, !.tdelta = tz]
    <2>1. d \in Tables
      BY <1>5, <1>10, <1>11 DEF Tables
    <2>2. h = [d EXCEPT !.bulk = FALSE, !.pendOut = {}, !.pendIn = {}, !.known = {}]
      BY <1>8
    <2> HIDE DEF d
    <2> QED
      BY ZenonT(60), <2>1, <2>2 DEF Tables
  <1>15. SameGraph(c, h) /\ h.out = c.out /\ h.in = c.in
    BY <1>8, <1>11 DEF Tables, SameGraph
  <1>16. /\ h.nextNode = c.nextNode /\ h.nextEdge = c.nextEdge
         /\ h.lcount = c.lcount /\ h.tcount = c.tcount /\ h.ldelta = lz /\ h.tdelta = tz
    BY <1>8, <1>11 DEF Tables
  <1>17. NothingCached(h)
    BY <1>8, <1>11 DEF Tables, NothingCached
  <1>18. Shape(h)
    BY <1>14, <1>16, <1>17 DEF Shape, NothingCached, lz, tz
  <1>19. SameGraph(g, h) /\ h.out = g.out \cup g.pendOut /\ h.in = g.in \cup g.pendIn
    BY <1>1, <1>12, <1>15 DEF SameGraph, SameAdjacency
  <1>20. h.lcount = lc /\ h.tcount = tc /\ h.nextNode = PeekNode(g) /\ h.nextEdge = PeekEdge(g)
    BY <1>3, <1>13, <1>16
  <1> QED
    BY <1>9, <1>16, <1>17, <1>18, <1>19, <1>20, Zenon DEF lz, tz, CountsFlushed

\* A commit keeps what the transaction read, and leaves no cache.
LEMMA CommittedSound ==
  ASSUME NEW g, Sound(g), NEW h, h = Committed(g)
  PROVE  /\ Sound(h) /\ ~h.cached
         /\ Reads(h, g.nodes, g.labels, g.edges, PeekNode(g), PeekEdge(g))
  <1>1. /\ Shape(h) /\ NothingCached(h)
        /\ SameGraph(g, h) /\ h.out = g.out \cup g.pendOut /\ h.in = g.in \cup g.pendIn
        /\ h.nextNode = PeekNode(g) /\ h.nextEdge = PeekEdge(g)
    BY CommittedFields DEF Sound
  <1>2. CountsFlushed(g, h)
    BY CommittedFields DEF Sound
  <1>3. PeekNode(h) = PeekNode(g) /\ PeekEdge(h) = PeekEdge(g)
    BY <1>1 DEF NothingCached, PeekNode, PeekEdge
  <1>4. \A l \in Labels : h.lcount[l] + h.ldelta[l] = g.lcount[l] + g.ldelta[l]
    <2> TAKE l \in Labels
    <2>1. Cardinality(Carriers(g, l)) \in Nat
      BY NodesFinite DEF Sound, Shape, Tables, Carriers
    <2>2. g.lcount[l] + g.ldelta[l] = Cardinality(Carriers(g, l))
      BY Zenon DEF Sound, CountsExact, Carriers
    <2> QED
      BY <1>2, <2>1, <2>2 DEF AtLeastZero, CountsFlushed
  <1>5. \A y \in Types : h.tcount[y] + h.tdelta[y] = g.tcount[y] + g.tdelta[y]
    <2> TAKE y \in Types
    <2>1. Cardinality(OfType(g, y)) \in Nat
      BY TypeCountsFinite DEF Sound
    <2>2. g.tcount[y] + g.tdelta[y] = Cardinality(OfType(g, y))
      BY Zenon DEF Sound, CountsExact, OfType
    <2> QED
      BY <1>2, <2>1, <2>2 DEF AtLeastZero, CountsFlushed
  <1>6. /\ h.out \cup h.pendOut = g.out \cup g.pendOut /\ h.in \cup h.pendIn = g.in \cup g.pendIn
        /\ h.known \subseteq g.known
    BY <1>1 DEF NothingCached
  <1>7. Sound(h) /\ Reads(h, g.nodes, g.labels, g.edges, PeekNode(g), PeekEdge(g))
    BY <1>1, <1>3, <1>4, <1>5, <1>6, SoundSame
  <1> QED
    BY <1>1, <1>7 DEF NothingCached

\* A transaction without a mutation commits what it found.
LEMMA CommittedNothing ==
  ASSUME NEW g, Sound(g), ~g.cached, NEW b \in BOOLEAN,
         NEW w, w = [g EXCEPT !.cached = TRUE, !.bulk = b],
         NEW h, h = Committed(w)
  PROVE  h = g
  <1>1. w \in Tables /\ w.cached /\ w.known = g.known
    BY DEF Sound, Shape, Tables
  <1>2. SameGraph(g, w) /\ SameAdjacency(g, w) /\ SameNodeIds(g, w) /\ SameEdgeIds(g, w)
    BY DEF Sound, Shape, Tables, SameGraph, SameAdjacency, SameNodeIds, SameEdgeIds
  <1>3. SameLabelCounts(g, w) /\ SameTypeCounts(g, w)
    BY DEF Sound, Shape, Tables, SameLabelCounts, SameTypeCounts
  <1>4. Shape(w)
    BY <1>1, <1>2 DEF Sound, Shape, SameAdjacency
  <1>5. /\ Shape(h) /\ NothingCached(h)
        /\ SameGraph(w, h) /\ h.out = w.out \cup w.pendOut /\ h.in = w.in \cup w.pendIn
        /\ h.nextNode = PeekNode(w) /\ h.nextEdge = PeekEdge(w)
    BY <1>4, CommittedFields
  <1>6. CountsFlushed(w, h)
    BY <1>4, CommittedFields
  <1>7. /\ g \in Tables /\ h \in Tables /\ NothingCached(g)
        /\ g.ldelta = [l \in Labels |-> 0] /\ g.tdelta = [y \in Types |-> 0]
    BY <1>5 DEF Sound, Shape
  <1>8. h.lcount = g.lcount /\ h.tcount = g.tcount
    <2>1. g.lcount \in [Labels -> Nat] /\ g.tcount \in [Types -> Nat]
      BY <1>7 DEF Tables
    <2> QED
      BY <1>3, <1>6, <1>7, <2>1 DEF SameLabelCounts, SameTypeCounts, AtLeastZero, CountsFlushed
  <1>9. h.nextNode = g.nextNode /\ h.nextEdge = g.nextEdge
    BY <1>2, <1>5, <1>7 DEF SameNodeIds, SameEdgeIds, PeekNode, PeekEdge, NothingCached
  <1>10. SameGraph(g, h) /\ h.out = g.out /\ h.in = g.in
    BY <1>2, <1>5, <1>7 DEF SameGraph, SameAdjacency, NothingCached
  <1>11. /\ h.cached = g.cached /\ h.bulk = g.bulk /\ h.cnode = g.cnode /\ h.cedge = g.cedge
         /\ h.pendOut = g.pendOut /\ h.pendIn = g.pendIn /\ h.known = g.known
    <2>1. h.cached \in BOOLEAN /\ g.cached \in BOOLEAN /\ h.bulk \in BOOLEAN /\ g.bulk \in BOOLEAN
      BY <1>7 DEF Tables
    <2> QED
      BY <1>5, <1>7, <2>1 DEF NothingCached
  <1>12. h.ldelta = g.ldelta /\ h.tdelta = g.tdelta
    BY <1>6, <1>7 DEF CountsFlushed
  <1> QED
    BY <1>7, <1>8, <1>9, <1>10, <1>11, <1>12 DEF Tables, SameGraph

-----------------------------------------------------------------------------
(* The inductive invariant                                                 *)

\* h is g with what is new numbered from g's counters.
Grows(g, h) ==
    /\ \A n \in h.nodes \ g.nodes : n >= PeekNode(g)
    /\ \A e \in h.edges \ g.edges : e.id >= PeekEdge(g)
    /\ PeekNode(h) >= PeekNode(g) /\ PeekEdge(h) >= PeekEdge(g)

\* d accounts for the difference between g and h.
Covers(g, h, d) ==
    \/ d.full \/ d.removed
    \/ h.nodes = g.nodes \cup d.nodes /\ Strip(h.edges) = Strip(g.edges) \cup d.edges

DeltaType ==
    [nodes: SUBSET NodeId, edges: SUBSET [id: EdgeId, src: NodeId, dst: NodeId],
     updated: BOOLEAN, removed: BOOLEAN, full: BOOLEAN]

\* h is g with the nodes N and the edges E.
Adds(g, h, N, E) == h.nodes = g.nodes \cup N /\ Strip(h.edges) = Strip(g.edges) \cup E

\* What h shows is what g shows after one mutation, or the same.
Unchanged(g, h) == Reads(h, g.nodes, g.labels, g.edges, PeekNode(g), PeekEdge(g))
Mutated(g, h) ==
    \/ \E ls \in SUBSET Labels :
          Reads(h, g.nodes \cup {PeekNode(g)}, g.labels \cup ({PeekNode(g)} \X ls), g.edges,
                PeekNode(g) + 1, PeekEdge(g))
    \/ \E s, d \in g.nodes, ty \in Types :
          Reads(h, g.nodes, g.labels,
                g.edges \cup {[id |-> PeekEdge(g), src |-> s, dst |-> d, type |-> ty]},
                PeekNode(g), PeekEdge(g) + 1)
    \/ \E n \in g.nodes, l \in Labels :
          Reads(h, g.nodes, g.labels \cup {<<n, l>>}, g.edges, PeekNode(g), PeekEdge(g))
    \/ \E n \in g.nodes, l \in Labels :
          Reads(h, g.nodes, g.labels \ {<<n, l>>}, g.edges, PeekNode(g), PeekEdge(g))
    \/ \E n \in g.nodes :
          Reads(h, g.nodes \ {n}, {p \in g.labels : p[1] # n},
                {e \in g.edges : e.src # n /\ e.dst # n}, PeekNode(g), PeekEdge(g))
    \/ \E x \in g.edges :
          Reads(h, g.nodes, g.labels, {e \in g.edges : e.id # x.id}, PeekNode(g), PeekEdge(g))
    \/ Unchanged(g, h)

\* The counters are numbers.
LEMMA Peeked ==
  ASSUME NEW g, Sound(g)
  PROVE  /\ PeekNode(g) \in Nat /\ PeekEdge(g) \in Nat
         /\ g.nodes \subseteq Int /\ \A e \in g.edges : e.id \in Int
  <1>1. /\ g.cnode \in Unread..MaxNode /\ g.nextNode \in 0..MaxNode
        /\ g.cedge \in Unread..MaxEdge /\ g.nextEdge \in 0..MaxEdge
        /\ g.nodes \subseteq NodeId /\ g.edges \subseteq Edge
    BY DEF Sound, Shape, Tables
  <1>2. PeekNode(g) \in Nat /\ PeekEdge(g) \in Nat
    BY <1>1, StoreAssumption DEF Unread, PeekNode, PeekEdge
  <1> QED
    BY <1>1, <1>2, StoreAssumption DEF NodeId, EdgeId, Edge

\* A mutation numbers what it adds from the counters.
LEMMA MutatedGrows ==
  ASSUME NEW g, Sound(g), NEW h, Mutated(g, h)
  PROVE  Grows(g, h)
  <1>0. PeekNode(g) \in Nat /\ PeekEdge(g) \in Nat
    BY Peeked
  <1> DEFINE i == PeekNode(g)
             j == PeekEdge(g)
             F(x) == {e \in g.edges : e.id # x.id}
             G(n) == {e \in g.edges : e.src # n /\ e.dst # n}
  <1> HIDE DEF i, j
  <1>1. ASSUME NEW p, Reads(h, g.nodes \cup {i}, p, g.edges, i + 1, j)
        PROVE  Grows(g, h)
    BY <1>0, <1>1 DEF Reads, Grows, i, j
  <1>2. ASSUME NEW e, e.id = j, Reads(h, g.nodes, g.labels, g.edges \cup {e}, i, j + 1)
        PROVE  Grows(g, h)
    BY <1>0, <1>2 DEF Reads, Grows, i, j
  <1>3. ASSUME NEW N, N \subseteq g.nodes, NEW p, NEW E, E \subseteq g.edges, Reads(h, N, p, E, i, j)
        PROVE  Grows(g, h)
    BY <1>0, <1>3 DEF Reads, Grows, i, j
  <1>4. CASE \E ls \in SUBSET Labels :
                Reads(h, g.nodes \cup {i}, g.labels \cup ({i} \X ls), g.edges, i + 1, j)
    BY <1>1, <1>4
  <1>5. CASE \E s, d \in g.nodes, ty \in Types :
                Reads(h, g.nodes, g.labels, g.edges \cup {[id |-> j, src |-> s, dst |-> d, type |-> ty]},
                      i, j + 1)
    <2>1. PICK s \in g.nodes, d \in g.nodes, ty \in Types :
                Reads(h, g.nodes, g.labels, g.edges \cup {[id |-> j, src |-> s, dst |-> d, type |-> ty]},
                      i, j + 1)
      BY <1>5, Zenon
    <2> DEFINE e == [id |-> j, src |-> s, dst |-> d, type |-> ty]
    <2>2. e.id = j
      OBVIOUS
    <2> HIDE DEF e
    <2>3. Reads(h, g.nodes, g.labels, g.edges \cup {e}, i, j + 1)
      BY <2>1 DEF e
    <2> QED
      BY <2>2, <2>3, <1>2, Zenon
  <1>6. CASE \E n \in g.nodes, l \in Labels :
                \/ Reads(h, g.nodes, g.labels \cup {<<n, l>>}, g.edges, i, j)
                \/ Reads(h, g.nodes, g.labels \ {<<n, l>>}, g.edges, i, j)
    BY <1>3, <1>6
  <1>7. CASE \E n \in g.nodes : Reads(h, g.nodes \ {n}, {p \in g.labels : p[1] # n}, G(n), i, j)
    <2>1. PICK n \in g.nodes : Reads(h, g.nodes \ {n}, {p \in g.labels : p[1] # n}, G(n), i, j)
      BY <1>7, Zenon
    <2>2. G(n) \subseteq g.edges /\ g.nodes \ {n} \subseteq g.nodes
      OBVIOUS
    <2> HIDE DEF G
    <2> QED
      BY <2>1, <2>2, <1>3, Zenon
  <1>8. CASE \E x \in g.edges : Reads(h, g.nodes, g.labels, F(x), i, j)
    <2>1. PICK x \in g.edges : Reads(h, g.nodes, g.labels, F(x), i, j)
      BY <1>8, Zenon
    <2>2. F(x) \subseteq g.edges
      OBVIOUS
    <2> HIDE DEF F
    <2> QED
      BY <2>1, <2>2, <1>3, Zenon
  <1>9. CASE Reads(h, g.nodes, g.labels, g.edges, i, j)
    BY <1>3, <1>9
  <1> QED
    BY <1>4, <1>5, <1>6, <1>7, <1>8, <1>9, Zenon DEF Mutated, Unchanged, i, j, F, G

\* Growth composes over the mutations of a transaction.
LEMMA GrowsTransitive ==
  ASSUME NEW f, Sound(f), NEW g, Sound(g), NEW h, Sound(h), Grows(f, g), Grows(g, h)
  PROVE  Grows(f, h)
  <1>1. /\ PeekNode(f) \in Nat /\ PeekEdge(f) \in Nat /\ PeekNode(g) \in Nat /\ PeekEdge(g) \in Nat
        /\ PeekNode(h) \in Nat /\ PeekEdge(h) \in Nat
        /\ h.nodes \subseteq Int /\ \A e \in h.edges : e.id \in Int
    BY Peeked
  <1> QED
    BY <1>1 DEF Grows

\* A step from g to h that keeps the tables sound and shows as one mutation.
Good(g, h) == Sound(h) /\ h.cached = g.cached /\ Mutated(g, h) /\ Grows(g, h)

\* One more edge is one more stripped edge.
LEMMA StripAdd ==
  ASSUME NEW E, NEW e
  PROVE  Strip(E \cup {e}) = Strip(E) \cup {[id |-> e.id, src |-> e.src, dst |-> e.dst]}
  BY DEF Strip

\* add_node_inner adds the one node it allocates.
LEMMA AddNodeStep ==
  ASSUME NEW g, Sound(g), NEW ls \in SUBSET Labels, PeekNode(g) < MaxNode,
         NEW h, h = AddNodeInner(g, ls)
  PROVE  Good(g, h) /\ Adds(g, h, {PeekNode(g)}, {}) /\ PeekNode(g) \in NodeId
  <1>1. /\ Sound(h) /\ h.cached = g.cached
        /\ Reads(h, g.nodes \cup {PeekNode(g)}, g.labels \cup ({PeekNode(g)} \X ls), g.edges,
                 PeekNode(g) + 1, PeekEdge(g))
    BY AddNodeSound
  <1>2. Mutated(g, h)
    BY <1>1, Zenon DEF Mutated
  <1>3. Adds(g, h, {PeekNode(g)}, {})
    BY <1>1 DEF Adds, Reads
  <1>4. PeekNode(g) \in NodeId
    BY Peeked, StoreAssumption DEF NodeId
  <1> QED
    BY <1>1, <1>2, <1>3, <1>4, MutatedGrows DEF Good

\* add_edge_inner adds the one edge it allocates.
LEMMA AddEdgeStep ==
  ASSUME NEW g, Sound(g), NEW s \in NodeId, NEW d \in NodeId, NEW ty \in Types,
         PeekEdge(g) < MaxEdge, HasNode(g, s), HasNode(g, d),
         NEW h, h = AddEdgeInner(g, s, d, ty)
  PROVE  /\ Good(g, h) /\ Adds(g, h, {}, {AddedEdge(g, s, d)})
         /\ AddedEdge(g, s, d) \in [id: EdgeId, src: NodeId, dst: NodeId]
  <1>0. PICK e : e = [id |-> PeekEdge(g), src |-> s, dst |-> d, type |-> ty]
    OBVIOUS
  <1>1. /\ Sound(h) /\ h.cached = g.cached
        /\ Reads(h, g.nodes, g.labels, g.edges \cup {e}, PeekNode(g), PeekEdge(g) + 1)
    BY <1>0, AddEdgeSound
  <1>2. s \in g.nodes /\ d \in g.nodes
    BY DEF HasNode, Sound
  <1>3. Mutated(g, h)
    BY <1>0, <1>1, <1>2, Zenon DEF Mutated
  <1>4. Adds(g, h, {}, {AddedEdge(g, s, d)})
    <2>1. [id |-> e.id, src |-> e.src, dst |-> e.dst] = AddedEdge(g, s, d)
      BY <1>0 DEF AddedEdge
    <2>2. Strip(g.edges \cup {e}) = Strip(g.edges) \cup {AddedEdge(g, s, d)}
      BY <2>1, StripAdd, Zenon
    <2> QED
      BY <1>1, <2>2 DEF Adds, Reads
  <1>5. AddedEdge(g, s, d) \in [id: EdgeId, src: NodeId, dst: NodeId]
    <2>1. PeekEdge(g) \in EdgeId
      BY Peeked, StoreAssumption DEF EdgeId
    <2> QED
      BY <2>1 DEF AddedEdge
  <1> QED
    BY <1>1, <1>3, <1>4, <1>5, MutatedGrows DEF Good

\* A step that shows nothing is a mutation that changes nothing.
LEMMA SameStep ==
  ASSUME NEW g, Sound(g), NEW h, Sound(h), h.cached = g.cached, Unchanged(g, h)
  PROVE  Good(g, h) /\ Adds(g, h, {}, {})
  <1>1. Mutated(g, h)
    BY Zenon DEF Mutated
  <1>2. Adds(g, h, {}, {})
    BY DEF Adds, Unchanged, Reads
  <1> QED
    BY <1>1, <1>2, MutatedGrows DEF Good

\* Labels leave nodes and edges alone.
LEMMA AddLabelStep ==
  ASSUME NEW g, Sound(g), NEW n \in g.nodes, NEW l \in Labels,
         NEW h, h = AddLabelInner(g, n, l)
  PROVE  Good(g, h) /\ Adds(g, h, {}, {})
  <1>1. /\ Sound(h) /\ h.cached = g.cached
        /\ Reads(h, g.nodes, g.labels \cup {<<n, l>>}, g.edges, PeekNode(g), PeekEdge(g))
    BY AddLabelSound
  <1>2. Mutated(g, h)
    BY <1>1, Zenon DEF Mutated
  <1>3. Adds(g, h, {}, {})
    BY <1>1 DEF Adds, Reads
  <1> QED
    BY <1>1, <1>2, <1>3, MutatedGrows DEF Good

\* Removing a label that is not there changes nothing.
LEMMA RemoveLabelStep ==
  ASSUME NEW g, Sound(g), NEW n \in NodeId, NEW l \in Labels,
         NEW h, h = RemoveLabelInner(g, n, l)
  PROVE  Good(g, h) /\ Adds(g, h, {}, {})
  <1>1. /\ Sound(h) /\ h.cached = g.cached
        /\ Reads(h, g.nodes, g.labels \ {<<n, l>>}, g.edges, PeekNode(g), PeekEdge(g))
    BY RemoveLabelSound
  <1>2. Mutated(g, h)
    <2>1. CASE n \in g.nodes
      BY <1>1, <2>1, Zenon DEF Mutated
    <2>2. CASE n \notin g.nodes
      <3>1. <<n, l>> \notin g.labels
        BY <2>2 DEF Sound, Consistent, NoDangling
      <3>2. g.labels \ {<<n, l>>} = g.labels
        BY <3>1
      <3>3. Unchanged(g, h)
        BY <1>1, <3>2 DEF Unchanged
      <3> QED
        BY <3>3, Zenon DEF Mutated
    <2> QED
      BY <2>1, <2>2
  <1>3. Adds(g, h, {}, {})
    BY <1>1 DEF Adds, Reads
  <1> QED
    BY <1>1, <1>2, <1>3, MutatedGrows DEF Good

\* Deletions work on the tables f with the buffers of g flushed.
Flushed(g, f) ==
    /\ Sound(f) /\ f.cached = g.cached /\ Unchanged(g, f)
    /\ f.pendOut = {} /\ f.pendIn = {}

\* delete_edge_inner, whether or not the id has a record.
LEMMA DeleteEdgeStep ==
  ASSUME NEW g, Sound(g), NEW f, Flushed(g, f), NEW id,
         NEW h, h = DeleteEdgeInner(f, id)
  PROVE  Good(g, h) /\ ((\A e \in f.edges : e.id # id) => Adds(g, h, {}, {}))
  <1>1. /\ Sound(h) /\ h.cached = f.cached
        /\ Reads(h, f.nodes, f.labels, {e \in f.edges : e.id # id}, PeekNode(f), PeekEdge(f))
    BY DeleteEdgeSound DEF Flushed
  <1>2. /\ f.nodes = g.nodes /\ f.labels = g.labels /\ f.edges = g.edges
        /\ PeekNode(f) = PeekNode(g) /\ PeekEdge(f) = PeekEdge(g) /\ f.cached = g.cached
    BY DEF Flushed, Unchanged, Reads
  <1>3. Reads(h, g.nodes, g.labels, {e \in g.edges : e.id # id}, PeekNode(g), PeekEdge(g))
    BY <1>1, <1>2
  <1>4. CASE \E x \in g.edges : x.id = id
    <2>1. PICK x \in g.edges : x.id = id
      BY <1>4
    <2>2. Mutated(g, h)
      BY <1>3, <2>1, Zenon DEF Mutated
    <2> QED
      BY <1>1, <1>2, <2>1, <2>2, MutatedGrows DEF Good
  <1>5. CASE \A x \in g.edges : x.id # id
    <2>1. {e \in g.edges : e.id # id} = g.edges
      BY <1>5
    <2>2. Unchanged(g, h)
      BY <1>3, <2>1 DEF Unchanged
    <2> QED
      BY <1>1, <1>2, <2>2, SameStep
  <1> QED
    BY <1>4, <1>5

\* delete_node_inner, whether or not the node has a record.
LEMMA DeleteNodeStep ==
  ASSUME NEW g, Sound(g), NEW f, Flushed(g, f), f.known = {}, NEW n,
         NEW h, h = DeleteNodeInner(f, n)
  PROVE  Good(g, h)
  <1>2. /\ f.nodes = g.nodes /\ f.labels = g.labels /\ f.edges = g.edges
        /\ PeekNode(f) = PeekNode(g) /\ PeekEdge(f) = PeekEdge(g) /\ f.cached = g.cached
    BY DEF Flushed, Unchanged, Reads
  <1>3. CASE n \in f.nodes
    <2>1. /\ Sound(h) /\ h.cached = f.cached
          /\ Reads(h, f.nodes \ {n}, {p \in f.labels : p[1] # n},
                   {e \in f.edges : e.src # n /\ e.dst # n}, PeekNode(f), PeekEdge(f))
      BY <1>3, DeleteNodeSound DEF Flushed
    <2>2. Reads(h, g.nodes \ {n}, {p \in g.labels : p[1] # n},
                   {e \in g.edges : e.src # n /\ e.dst # n}, PeekNode(g), PeekEdge(g))
      BY <1>2, <2>1
    <2>3. Mutated(g, h)
      BY <1>2, <1>3, <2>2, Zenon DEF Mutated
    <2> QED
      BY <1>2, <2>1, <2>3, MutatedGrows DEF Good
  <1>4. CASE n \notin f.nodes
    <2>1. h = f
      BY <1>4 DEF DeleteNodeInner
    <2> QED
      BY <2>1, SameStep DEF Flushed
  <1> QED
    BY <1>3, <1>4

CountersOK == commitGen \in Nat /\ count \in Nat /\ txn \in {"none", "open", "failed"}
DbOK == Sound(db) /\ ~db.cached
WorkOK == Sound(work) /\ work.cached /\ Grows(db, work)
DeltaOK == delta \in DeltaType /\ Covers(db, work, delta)
\* Until its first mutation a transaction sees what is committed.
Untouched == \E b \in BOOLEAN : work = [db EXCEPT !.cached = TRUE, !.bulk = b]

StoreInv ==
    /\ CountersOK /\ DbOK
    /\ txn = "open" => WorkOK /\ DeltaOK /\ (count = 0 => Untouched)

-----------------------------------------------------------------------------
(* What the actions do, in those terms                                     *)

Explains(c) == c.full \/ Adds(db, db', c.nodes, c.edges)

Committing ==
    /\ txn = "none" /\ UNCHANGED <<txn, work, count, delta>>
    /\ Good(db, db') /\ commitGen' = commitGen + 1 /\ Explains(change')

\* The mutations of a transaction that succeed, and those that fail.
TxnMutation ==
    \/ \E ls \in SUBSET Labels : TxnAddNode(ls)
    \/ \E s, d \in NodeId, ty \in Types : TxnAddEdge(s, d, ty)
    \/ \E n \in NodeId, l \in Labels : TxnAddLabel(n, l) \/ TxnRemoveLabel(n, l)
    \/ \E n \in NodeId : TxnUpdateNode(n) \/ TxnDeleteNode(n)
    \/ \E id \in EdgeId : TxnUpdateEdge(id) \/ TxnDeleteEdge(id)

TxnFailure ==
    \/ \E ls \in SUBSET Labels : \E done \in SUBSET ls : TxnAddNodeRefused(ls, done)
    \/ \E s, d \in NodeId : TxnAddEdgeNoNode(s, d) \/ TxnAddEdgeRefused(s, d)
    \/ \E n \in NodeId, l \in Labels : TxnAddLabelFails(n, l)

Mutating ==
    /\ txn = "open" /\ UNCHANGED <<db, commitGen, txn, change>>
    /\ Good(work, work') /\ count' = count + 1
    /\ delta' \in DeltaType /\ Covers(db, work', delta')

Failing == txn = "open" /\ txn' = "failed" /\ UNCHANGED <<db, commitGen, count, delta, change>>

\* Committed tables have nothing to flush.
LEMMA CommittedFlushed ==
  ASSUME NEW g, Sound(g), ~g.cached
  PROVE  Flushed(g, g) /\ g.known = {}
  <1>1. NothingCached(g)
    BY DEF Sound, Shape
  <1> QED
    BY <1>1 DEF Flushed, Unchanged, Reads, NothingCached

\* delete_edge flushes first.
LEMMA WorkFlushed ==
  ASSUME NEW g, Sound(g), NEW f, f = FlushAdjacency(g)
  PROVE  Flushed(g, f)
  BY FlushAdjacencySound DEF Flushed, Unchanged

\* delete_node forgets the memo and flushes first.
LEMMA WorkInvalidated ==
  ASSUME NEW g, Sound(g), NEW i, i = InvalidateNodes(g), NEW f, f = FlushAdjacency(i)
  PROVE  Flushed(g, f) /\ f.known = {}
  <1>1. Sound(i) /\ i.cached = g.cached /\ i.known = {} /\ Unchanged(g, i)
    BY InvalidateNodesSound DEF Unchanged
  <1>2. /\ Sound(f) /\ f.pendOut = {} /\ f.pendIn = {} /\ f.cached = i.cached /\ f.known = i.known
        /\ Unchanged(i, f)
    BY <1>1, FlushAdjacencySound DEF Unchanged
  <1>3. Unchanged(g, f)
    BY <1>1, <1>2 DEF Unchanged, Reads
  <1> QED
    BY <1>1, <1>2, <1>3 DEF Flushed

\* Each direct mutator commits one mutation with a change that explains it.
LEMMA DirectCommits ==
  ASSUME DbOK, DirectNext
  PROVE  Committing
  <1>0. Sound(db) /\ ~db.cached /\ Flushed(db, db) /\ db.known = {}
    BY CommittedFlushed DEF DbOK
  <1>1. ASSUME NEW x, NEW c, Direct(x, c), Good(db, x), c.full \/ Adds(db, x, c.nodes, c.edges)
        PROVE  Committing
    BY <1>1 DEF Direct, Committing, Explains
  <1>2. ASSUME NEW ls \in SUBSET Labels, AddNode(ls) PROVE Committing
    <2> DEFINE x == AddNodeInner(db, ls)
               c == [NoDelta EXCEPT !.nodes = {PeekNode(db)}]
    <2>1. Direct(x, c) /\ PeekNode(db) < MaxNode
      BY <1>2 DEF AddNode
    <2>2. c.nodes = {PeekNode(db)} /\ c.edges = {}
      BY DEF NoDelta
    <2>3. Good(db, x) /\ Adds(db, x, {PeekNode(db)}, {})
      BY <1>0, <2>1, AddNodeStep
    <2> HIDE DEF x, c
    <2> QED
      BY <1>1, <2>1, <2>2, <2>3
  <1>3. ASSUME NEW s \in NodeId, NEW d \in NodeId, NEW ty \in Types, AddEdge(s, d, ty)
        PROVE  Committing
    <2> DEFINE x == AddEdgeInner(db, s, d, ty)
               c == [NoDelta EXCEPT !.edges = {AddedEdge(db, s, d)}]
    <2>1. Direct(x, c) /\ PeekEdge(db) < MaxEdge /\ HasNode(db, s) /\ HasNode(db, d)
      BY <1>3 DEF AddEdge
    <2>2. c.nodes = {} /\ c.edges = {AddedEdge(db, s, d)}
      BY DEF NoDelta
    <2>3. Good(db, x) /\ Adds(db, x, {}, {AddedEdge(db, s, d)})
      BY <1>0, <2>1, AddEdgeStep
    <2> HIDE DEF x, c
    <2> QED
      BY <1>1, <2>1, <2>2, <2>3
  <1>4. NoDelta.nodes = {} /\ NoDelta.edges = {}
    BY DEF NoDelta
  <1>5. ASSUME NEW n \in NodeId, NEW l \in Labels, AddLabel(n, l) PROVE Committing
    <2>1. n \in db.nodes /\ Direct(AddLabelInner(db, n, l), NoDelta)
      BY <1>5 DEF AddLabel
    <2>2. Good(db, AddLabelInner(db, n, l)) /\ Adds(db, AddLabelInner(db, n, l), {}, {})
      BY <1>0, <2>1, AddLabelStep
    <2> QED
      BY <1>1, <1>4, <2>1, <2>2
  <1>6. ASSUME NEW n \in NodeId, NEW l \in Labels, RemoveLabel(n, l) PROVE Committing
    <2>1. Direct(RemoveLabelInner(db, n, l), NoDelta)
      BY <1>6 DEF RemoveLabel
    <2>2. Good(db, RemoveLabelInner(db, n, l)) /\ Adds(db, RemoveLabelInner(db, n, l), {}, {})
      BY <1>0, RemoveLabelStep
    <2> QED
      BY <1>1, <1>4, <2>1, <2>2
  <1>7. ASSUME NEW id \in EdgeId, UpdateEdge(id) PROVE Committing
    <2> DEFINE c == [NoDelta EXCEPT !.updated = TRUE]
    <2>1. Direct(db, c)
      BY <1>7 DEF UpdateEdge
    <2>2. c.nodes = {} /\ c.edges = {}
      BY DEF NoDelta
    <2>3. Good(db, db) /\ Adds(db, db, {}, {})
      BY <1>0, SameStep DEF Flushed
    <2> HIDE DEF c
    <2> QED
      BY <1>1, <2>1, <2>2, <2>3
  <1>8. ASSUME NEW id \in EdgeId, DeleteEdge(id) PROVE Committing
    <2> DEFINE x == DeleteEdgeInner(db, id)
               there == \E e \in db.edges : e.id = id
               c == [NoDelta EXCEPT !.full = there]
    <2>1. Direct(x, c)
      BY <1>8 DEF DeleteEdge
    <2>2. c.nodes = {} /\ c.edges = {} /\ c.full = there
      BY DEF NoDelta
    <2>3. Good(db, x) /\ (~there => Adds(db, x, {}, {}))
      BY <1>0, DeleteEdgeStep
    <2> HIDE DEF x, c, there
    <2> QED
      BY <1>1, <2>1, <2>2, <2>3
  <1>9. ASSUME NEW n \in NodeId, DeleteNode(n) PROVE Committing
    <2> DEFINE c == [NoDelta EXCEPT !.full = TRUE]
    <2>1. Direct(DeleteNodeInner(db, n), c)
      BY <1>9 DEF DeleteNode
    <2>2. c.full
      BY DEF NoDelta
    <2>3. Good(db, DeleteNodeInner(db, n))
      BY <1>0, DeleteNodeStep
    <2> HIDE DEF c
    <2> QED
      BY <1>1, <2>1, <2>2, <2>3
  <1> QED
    BY <1>2, <1>3, <1>5, <1>6, <1>7, <1>8, <1>9 DEF DirectNext

\* A delta grows with what a mutation adds.
LEMMA CoversMore ==
  ASSUME NEW g, NEW f, NEW h, NEW d \in DeltaType, Covers(g, f, d),
         NEW N \in SUBSET NodeId, NEW E \in SUBSET [id: EdgeId, src: NodeId, dst: NodeId],
         Adds(f, h, N, E),
         NEW c \in DeltaType, c.nodes = d.nodes \cup N, c.edges = d.edges \cup E,
         c.removed = d.removed, c.full = d.full
  PROVE  Covers(g, h, c)
  BY DEF Covers, Adds

\* Each mutation of a transaction keeps its tables sound and its delta complete.
LEMMA TxnMutates ==
  ASSUME WorkOK, DeltaOK, TxnMutation
  PROVE  Mutating
  <1>0. Sound(work) /\ delta \in DeltaType /\ Covers(db, work, delta)
    BY DEF WorkOK, DeltaOK
  <1>1. ASSUME NEW x, NEW d \in DeltaType, Mutate(x, d), Good(work, x), Covers(db, x, d)
        PROVE  Mutating
    BY <1>1 DEF Mutate, Mutating
  <1>2. ASSUME NEW x, Mutate(x, delta), Good(work, x), Adds(work, x, {}, {})
        PROVE  Mutating
    BY <1>0, <1>1, <1>2 DEF Covers, Adds
  <1>3. ASSUME NEW ls \in SUBSET Labels, TxnAddNode(ls) PROVE Mutating
    <2> DEFINE x == AddNodeInner(work, ls)
               d == [delta EXCEPT !.nodes = @ \cup {PeekNode(work)}]
    <2>1. Mutate(x, d) /\ PeekNode(work) < MaxNode
      BY <1>3 DEF TxnAddNode
    <2>2. Good(work, x) /\ Adds(work, x, {PeekNode(work)}, {}) /\ PeekNode(work) \in NodeId
      BY <1>0, <2>1, AddNodeStep
    <2>3. /\ d \in DeltaType /\ d.nodes = delta.nodes \cup {PeekNode(work)}
          /\ d.edges = delta.edges \cup {} /\ d.removed = delta.removed /\ d.full = delta.full
      BY <1>0, <2>2 DEF DeltaType
    <2> HIDE DEF x, d
    <2>4. Covers(db, x, d)
      BY <1>0, <2>2, <2>3, CoversMore
    <2> QED
      BY <1>1, <2>1, <2>2, <2>3, <2>4
  <1>4. ASSUME NEW s \in NodeId, NEW d \in NodeId, NEW ty \in Types, TxnAddEdge(s, d, ty)
        PROVE  Mutating
    <2> DEFINE x == AddEdgeInner(work, s, d, ty)
               a == AddedEdge(work, s, d)
               c == [delta EXCEPT !.edges = @ \cup {a}]
    <2>1. Mutate(x, c) /\ PeekEdge(work) < MaxEdge /\ HasNode(work, s) /\ HasNode(work, d)
      BY <1>4 DEF TxnAddEdge
    <2>2. Good(work, x) /\ Adds(work, x, {}, {a}) /\ a \in [id: EdgeId, src: NodeId, dst: NodeId]
      BY <1>0, <2>1, AddEdgeStep
    <2> HIDE DEF a
    <2>3. /\ c \in DeltaType /\ c.nodes = delta.nodes \cup {}
          /\ c.edges = delta.edges \cup {a} /\ c.removed = delta.removed /\ c.full = delta.full
      BY <1>0, <2>2 DEF DeltaType
    <2> HIDE DEF x, c
    <2>4. Covers(db, x, c)
      BY <1>0, <2>2, <2>3, CoversMore
    <2> QED
      BY <1>1, <2>1, <2>2, <2>3, <2>4
  <1>5. ASSUME NEW n \in NodeId, NEW l \in Labels, TxnAddLabel(n, l) PROVE Mutating
    <2>1. n \in work.nodes /\ Mutate(AddLabelInner(work, n, l), delta)
      BY <1>5 DEF TxnAddLabel
    <2>2. Good(work, AddLabelInner(work, n, l)) /\ Adds(work, AddLabelInner(work, n, l), {}, {})
      BY <1>0, <2>1, AddLabelStep
    <2> QED
      BY <1>2, <2>1, <2>2
  <1>6. ASSUME NEW n \in NodeId, NEW l \in Labels, TxnRemoveLabel(n, l) PROVE Mutating
    <2>1. Mutate(RemoveLabelInner(work, n, l), delta)
      BY <1>6 DEF TxnRemoveLabel
    <2>2. Good(work, RemoveLabelInner(work, n, l)) /\ Adds(work, RemoveLabelInner(work, n, l), {}, {})
      BY <1>0, RemoveLabelStep
    <2> QED
      BY <1>2, <2>1, <2>2
  <1>7. Good(work, work) /\ Adds(work, work, {}, {})
    BY <1>0, SameStep DEF Unchanged, Reads
  <1>8. ASSUME NEW n \in NodeId, TxnUpdateNode(n) PROVE Mutating
    <2>1. Mutate(work, delta)
      BY <1>8 DEF TxnUpdateNode
    <2> QED
      BY <1>2, <1>7, <2>1
  <1>9. ASSUME NEW id \in EdgeId, TxnUpdateEdge(id) PROVE Mutating
    <2> DEFINE d == [delta EXCEPT !.updated = TRUE]
    <2>1. Mutate(work, d)
      BY <1>9 DEF TxnUpdateEdge
    <2>2. /\ d \in DeltaType /\ d.nodes = delta.nodes /\ d.edges = delta.edges
          /\ d.removed = delta.removed /\ d.full = delta.full
      BY <1>0 DEF DeltaType
    <2> HIDE DEF d
    <2>3. Covers(db, work, d)
      BY <1>0, <2>2 DEF Covers
    <2> QED
      BY <1>1, <1>7, <2>1, <2>2, <2>3
  <1>10. ASSUME NEW id \in EdgeId, TxnDeleteEdge(id) PROVE Mutating
    <2> DEFINE f == FlushAdjacency(work)
               x == DeleteEdgeInner(f, id)
               there == \E e \in f.edges : e.id = id
               d == [delta EXCEPT !.removed = @ \/ there]
    <2>1. Mutate(x, d)
      BY <1>10 DEF TxnDeleteEdge
    <2>2. Flushed(work, f)
      BY <1>0, WorkFlushed
    <2>3. Good(work, x) /\ (~there => Adds(work, x, {}, {}))
      BY <1>0, <2>2, DeleteEdgeStep
    <2>4. there \in BOOLEAN
      OBVIOUS
    <2> HIDE DEF f, x, there
    <2>5. /\ d \in DeltaType /\ d.nodes = delta.nodes /\ d.edges = delta.edges
          /\ d.removed = (delta.removed \/ there) /\ d.full = delta.full
      BY <1>0, <2>4 DEF DeltaType
    <2> HIDE DEF d
    <2>6. Covers(db, x, d)
      BY <1>0, <2>3, <2>5 DEF Covers, Adds
    <2> QED
      BY <1>1, <2>1, <2>3, <2>5, <2>6
  <1>11. ASSUME NEW n \in NodeId, TxnDeleteNode(n) PROVE Mutating
    <2> DEFINE f == FlushAdjacency(InvalidateNodes(work))
               x == DeleteNodeInner(f, n)
               d == [delta EXCEPT !.full = TRUE]
    <2>1. Mutate(x, d)
      BY <1>11 DEF TxnDeleteNode
    <2>2. Flushed(work, f) /\ f.known = {}
      BY <1>0, WorkInvalidated
    <2>3. Good(work, x)
      BY <1>0, <2>2, DeleteNodeStep
    <2>4. d \in DeltaType /\ d.full
      BY <1>0 DEF DeltaType
    <2> HIDE DEF x, d
    <2>5. Covers(db, x, d)
      BY <2>4 DEF Covers
    <2> QED
      BY <1>1, <2>1, <2>3, <2>4, <2>5
  <1> QED
    BY <1>3, <1>4, <1>5, <1>6, <1>8, <1>9, <1>10, <1>11 DEF TxnMutation

\* A failed mutation marks the transaction.
LEMMA TxnFails ==
  ASSUME TxnFailure
  PROVE  Failing
  BY DEF TxnFailure, TxnAddNodeRefused, TxnAddEdgeNoNode, TxnAddEdgeRefused, TxnAddLabelFails,
     MutateFails, Failing

\* The steps of a transaction, sorted.
LEMMA TxnCases ==
  ASSUME TxnNext
  PROVE  Begin \/ BeginBulkLoad \/ Commit \/ Abort \/ TxnMutation \/ TxnFailure
  BY Zenon DEF TxnNext, TxnMutation, TxnFailure

-----------------------------------------------------------------------------
(* The theorems                                                            *)

\* An empty store.
LEMMA EmptySound ==
  Sound(EmptyTables) /\ ~EmptyTables.cached /\ GraphOf(EmptyTables) = Abstract!Empty
  <1> DEFINE g == EmptyTables
  <1>1. /\ g \in Tables /\ NothingCached(g) /\ g.pendIn = {} /\ g.pendOut = {}
        /\ g.ldelta = [l \in Labels |-> 0] /\ g.tdelta = [y \in Types |-> 0]
    BY StoreAssumption DEF EmptyTables, Tables, Unread, NothingCached
  <1>2. /\ g.nodes = {} /\ g.labels = {} /\ g.idx = {} /\ g.edges = {} /\ g.out = {} /\ g.in = {}
        /\ g.known = {} /\ g.lcount = [l \in Labels |-> 0] /\ g.tcount = [y \in Types |-> 0]
        /\ PeekNode(g) = 0 /\ PeekEdge(g) = 0
    BY DEF EmptyTables, PeekNode, PeekEdge
  <1> HIDE DEF g
  <1>3. Shape(g)
    BY <1>1 DEF Shape
  <1>4. Consistent(g) /\ g.known \subseteq g.nodes
    BY <1>1, <1>2 DEF Consistent, AdjacencyMatches, NoDangling, EdgeIdsUnique, IdsBelowNext
  <1>5. IsFiniteSet({}) /\ Cardinality({}) = 0
    BY FS_EmptySet
  <1>6. CountsExact(g)
    <2>1. /\ \A l \in Labels : {n \in g.nodes : <<n, l>> \in g.labels} = {}
          /\ \A y \in Types : {e \in g.edges : e.type = y} = {}
      BY <1>2
    <2>2. /\ \A l \in Labels : g.lcount[l] + g.ldelta[l] = 0
          /\ \A y \in Types : g.tcount[y] + g.tdelta[y] = 0
      BY <1>1, <1>2
    <2> QED
      BY <1>5, <2>1, <2>2, Zenon DEF CountsExact
  <1>7. Sound(g) /\ ~g.cached
    BY <1>1, <1>2, <1>3, <1>4, <1>5, <1>6 DEF Sound, NothingCached
  <1>8. GraphOf(g) = Abstract!Empty
    BY <1>1, <1>2 DEF GraphOf, Abstract!Empty
  <1> QED
    BY <1>7, <1>8 DEF g

\* Graph::update starts from the committed tables.
LEMMA BeginKeeps ==
  ASSUME StoreInv, Begin
  PROVE  StoreInv' /\ Unchanged(db, work')
  <1>1. Sound(db) /\ ~db.cached
    BY DEF StoreInv, DbOK
  <1>2. /\ work' = [db EXCEPT !.cached = TRUE] /\ UNCHANGED <<db, commitGen, change>>
        /\ txn' = "open" /\ count' = 0 /\ delta' = NoDelta
    BY DEF Begin, WithCache
  <1>3. Sound(work') /\ work'.cached /\ Unchanged(db, work')
    BY <1>1, <1>2, CachedSound DEF Unchanged
  <1>4. Mutated(db, work')
    BY <1>3, Zenon DEF Mutated
  <1>5. Grows(db, work')
    BY <1>1, <1>4, MutatedGrows
  <1>6. NoDelta \in DeltaType /\ Covers(db, work', NoDelta)
    <2>1. NoDelta \in DeltaType /\ NoDelta.nodes = {} /\ NoDelta.edges = {}
      BY DEF NoDelta, DeltaType
    <2> QED
      BY <1>3, <2>1 DEF Covers, Unchanged, Reads
  <1>7. work' = [db EXCEPT !.cached = TRUE, !.bulk = FALSE]
    <2>1. db.bulk = FALSE /\ db \in Tables
      BY <1>1 DEF Sound, Shape, NothingCached, Tables
    <2> QED
      BY <1>2, <2>1 DEF Tables
  <1>8. Untouched'
    BY <1>2, <1>7 DEF Untouched
  <1>9. CountersOK' /\ DbOK'
    BY <1>1, <1>2 DEF StoreInv, CountersOK, DbOK
  <1> QED
    BY <1>2, <1>3, <1>5, <1>6, <1>8, <1>9 DEF StoreInv, WorkOK, DeltaOK

\* begin_bulk_load changes the mode only.
LEMMA BulkKeeps ==
  ASSUME StoreInv, BeginBulkLoad
  PROVE  StoreInv' /\ (txn = "open" => Unchanged(work, work'))
  <1>1. work' = [work EXCEPT !.bulk = TRUE] /\ UNCHANGED <<db, commitGen, txn, count, delta, change>>
    BY DEF BeginBulkLoad
  <1>2. CountersOK' /\ DbOK'
    BY <1>1 DEF StoreInv, CountersOK, DbOK
  <1>3. CASE txn # "open"
    BY <1>1, <1>2, <1>3 DEF StoreInv
  <1>4. CASE txn = "open"
    <2>1. Sound(work) /\ work.cached /\ Grows(db, work) /\ Sound(db)
      BY <1>4 DEF StoreInv, WorkOK, DbOK
    <2>2. Sound(work') /\ work'.cached /\ Unchanged(work, work')
      BY <1>1, <2>1, CachedSound DEF Unchanged
    <2>3. Grows(db, work') /\ Covers(db, work', delta)
      BY <1>4, <2>1, <2>2 DEF Unchanged, Reads, Grows, StoreInv, DeltaOK, Covers
    <2>4. (count = 0 => Untouched) => (count' = 0 => Untouched')
      <3>1. SUFFICES ASSUME Untouched PROVE Untouched'
        BY <1>1
      <3>2. PICK b \in BOOLEAN : work = [db EXCEPT !.cached = TRUE, !.bulk = b]
        BY <3>1 DEF Untouched
      <3>3. work' = [db EXCEPT !.cached = TRUE, !.bulk = TRUE]
        BY <1>1, <2>1, <3>2 DEF Sound, Shape, Tables
      <3> QED
        BY <1>1, <3>3 DEF Untouched
    <2> QED
      BY <1>1, <1>2, <1>4, <2>2, <2>3, <2>4 DEF StoreInv, WorkOK, DeltaOK
  <1> QED
    BY <1>3, <1>4

\* A commit publishes what the transaction saw, and its change explains it.
LEMMA CommitKeeps ==
  ASSUME StoreInv, Commit
  PROVE  /\ StoreInv' /\ Unchanged(work, db') /\ Sound(db') /\ Grows(db, db')
         /\ count = 0 => db' = db
         /\ count # 0 => commitGen' = commitGen + 1 /\ Explains(change')
  <1>1. /\ txn = "open" /\ txn' = "none" /\ db' = Committed(work) /\ change' = ChangeOf(delta)
        /\ commitGen' = IF count > 0 THEN commitGen + 1 ELSE commitGen
        /\ count' = 0
    BY DEF Commit, Committed
  <1>2. /\ Sound(db) /\ ~db.cached /\ Sound(work) /\ Grows(db, work) /\ commitGen \in Nat /\ count \in Nat
        /\ delta \in DeltaType /\ Covers(db, work, delta) /\ (count = 0 => Untouched)
    BY <1>1 DEF StoreInv, CountersOK, DbOK, WorkOK, DeltaOK
  <1>3. Sound(db') /\ ~db'.cached /\ Unchanged(work, db')
    BY <1>1, <1>2, CommittedSound DEF Unchanged
  <1>4. Grows(db, db')
    BY <1>2, <1>3 DEF Unchanged, Reads, Grows
  <1>5. count = 0 => db' = db
    BY <1>1, <1>2, CommittedNothing DEF Untouched
  <1>6. Covers(db, db', delta)
    BY <1>2, <1>3 DEF Unchanged, Reads, Covers
  <1>7. Explains(change')
    <2>1. CASE delta.full \/ delta.removed
      <3>1. change' = [NoDelta EXCEPT !.full = TRUE]
        BY <1>1, <2>1 DEF ChangeOf
      <3> QED
        BY <3>1 DEF Explains, NoDelta
    <2>2. CASE ~(delta.full \/ delta.removed)
      BY <1>1, <1>6, <2>2 DEF ChangeOf, Explains, Adds, Covers
    <2> QED
      BY <2>1, <2>2
  <1>8. StoreInv'
    BY <1>1, <1>2, <1>3 DEF StoreInv, CountersOK, DbOK
  <1>9. count # 0 => commitGen' = commitGen + 1
    BY <1>1, <1>2
  <1> QED
    BY <1>3, <1>4, <1>5, <1>7, <1>8, <1>9

\* An abandoned transaction leaves the committed tables.
LEMMA AbortKeeps ==
  ASSUME StoreInv, Abort
  PROVE  StoreInv'
  BY DEF StoreInv, CountersOK, DbOK, Abort

\* A direct mutator keeps the invariant.
LEMMA CommittingKeeps ==
  ASSUME StoreInv, Committing
  PROVE  StoreInv'
  BY DEF StoreInv, CountersOK, DbOK, Committing, Good

\* A mutation inside a transaction keeps the invariant.
LEMMA MutatingKeeps ==
  ASSUME StoreInv, Mutating
  PROVE  StoreInv'
  <1>1. /\ txn = "open" /\ UNCHANGED <<db, commitGen, txn, change>> /\ Good(work, work')
        /\ count' = count + 1 /\ delta' \in DeltaType /\ Covers(db, work', delta')
    BY DEF Mutating
  <1>2. /\ Sound(db) /\ ~db.cached /\ Sound(work) /\ work.cached /\ Grows(db, work)
        /\ commitGen \in Nat /\ count \in Nat
    BY <1>1 DEF StoreInv, CountersOK, DbOK, WorkOK
  <1>3. Sound(work') /\ work'.cached = work.cached /\ Grows(work, work')
    BY <1>1 DEF Good
  <1>4. Grows(db, work')
    BY <1>2, <1>3, GrowsTransitive
  <1>5. count' # 0 /\ CountersOK' /\ DbOK'
    BY <1>1, <1>2 DEF CountersOK, DbOK
  <1>6. WorkOK' /\ DeltaOK'
    BY <1>1, <1>2, <1>3, <1>4 DEF WorkOK, DeltaOK
  <1> QED
    BY <1>5, <1>6 DEF StoreInv

\* A failed mutation says nothing more of the tables it leaves.
LEMMA FailingKeeps ==
  ASSUME StoreInv, Failing
  PROVE  StoreInv'
  BY DEF StoreInv, CountersOK, DbOK, Failing

\* Whatever is committed, refused or abandoned, the tables stay sound, and so
\* do those of an open transaction together with its cache.
THEOREM Invariance == Spec => []StoreInv
  <1>1. Init => StoreInv
    BY EmptySound DEF Init, StoreInv, CountersOK, DbOK
  <1>2. StoreInv /\ [Next]_vars => StoreInv'
    <2> SUFFICES ASSUME StoreInv, [Next]_vars PROVE StoreInv'
      OBVIOUS
    <2>1. CASE DirectNext
      BY <2>1, DirectCommits, CommittingKeeps DEF StoreInv
    <2>2. CASE TxnNext
      <3>1. CASE TxnMutation
        <4>1. txn = "open"
          BY <3>1 DEF TxnMutation, TxnAddNode, TxnAddEdge, TxnAddLabel, TxnRemoveLabel,
             TxnUpdateNode, TxnDeleteNode, TxnUpdateEdge, TxnDeleteEdge, Mutate
        <4> QED
          BY <3>1, <4>1, TxnMutates, MutatingKeeps DEF StoreInv
      <3>2. CASE TxnFailure
        BY <3>2, TxnFails, FailingKeeps
      <3> QED
        BY <2>2, <3>1, <3>2, TxnCases, BeginKeeps, BulkKeeps, CommitKeeps, AbortKeeps
    <2>3. CASE UNCHANGED vars
      BY <2>3 DEF vars, StoreInv, CountersOK, DbOK, WorkOK, DeltaOK, Untouched
    <2> QED
      BY <2>1, <2>2, <2>3 DEF Next
  <1> QED
    BY <1>1, <1>2, PTL DEF Spec

\* Committed tables, and an open transaction's with its buffers, agree with
\* each other, and the counters are exact.
THEOREM Consistency == Spec => []TablesConsistent
  <1>1. StoreInv => TablesConsistent
    BY DEF StoreInv, DbOK, WorkOK, Sound, Shape, TablesConsistent
  <1> QED
    BY <1>1, Invariance, PTL

\* The entries at a node come from its edges.
LEMMA EntriesAt ==
  ASSUME NEW E, NEW n
  PROVE  /\ EntriesOf({OutEntry(e) : e \in E}, n) = {OutEntry(e) : e \in {x \in E : x.src = n}}
         /\ EntriesOf({InEntry(e) : e \in E}, n) = {InEntry(e) : e \in {x \in E : x.dst = n}}
  <1>1. \A e : OutEntry(e).at = e.src /\ InEntry(e).at = e.dst
    BY DEF OutEntry, InEntry
  <1> QED
    BY <1>1 DEF EntriesOf

\* neighbors_with_pending reads stored and buffered entries in both directions.
LEMMA NeighborsRead ==
  ASSUME NEW g, Sound(g), NEW n
  PROVE  /\ Neighbors(g, n, TRUE) = EntriesOf(g.out \cup g.pendOut, n)
         /\ Neighbors(g, n, FALSE) = EntriesOf(g.in \cup g.pendIn, n)
  <1>1. g.pendOut = {} => g.pendIn = {}
    BY DEF Sound, Shape
  <1>2. \A A, B : EntriesOf(A \cup B, n) = EntriesOf(A, n) \cup EntriesOf(B, n)
    BY DEF EntriesOf
  <1>3. EntriesOf({}, n) = {}
    BY DEF EntriesOf
  <1> QED
    BY <1>1, <1>2, <1>3 DEF Neighbors

\* A transaction reads its own edges, buffered or stored.
THEOREM ReadingOwnWrites == Spec => []ReadsOwnWrites
  <1>1. StoreInv => ReadsOwnWrites
    <2> SUFFICES ASSUME StoreInv, txn = "open", NEW n \in work.nodes
                 PROVE  /\ Neighbors(work, n, TRUE) = {OutEntry(e) : e \in {x \in work.edges : x.src = n}}
                        /\ Neighbors(work, n, FALSE) = {InEntry(e) : e \in {x \in work.edges : x.dst = n}}
      BY DEF ReadsOwnWrites
    <2>1. Sound(work) /\ AdjacencyMatches(work)
      BY DEF StoreInv, WorkOK, Sound, Consistent
    <2>2. /\ Neighbors(work, n, TRUE) = EntriesOf({OutEntry(e) : e \in work.edges}, n)
          /\ Neighbors(work, n, FALSE) = EntriesOf({InEntry(e) : e \in work.edges}, n)
      BY <2>1, NeighborsRead, Zenon DEF AdjacencyMatches
    <2> QED
      BY <2>2, EntriesAt, Zenon
  <1> QED
    BY <1>1, Invariance, PTL

\* The kinds of step, with what each does to the committed tables.
LEMMA Steps ==
  ASSUME StoreInv, StoreInv', [Next]_vars
  PROVE  \/ Committing
         \/ Commit
         \/ Mutating \/ Failing \/ Begin \/ Abort \/ BeginBulkLoad
         \/ UNCHANGED vars
  <1>1. TxnMutation => txn = "open"
    BY DEF TxnMutation, TxnAddNode, TxnAddEdge, TxnAddLabel, TxnRemoveLabel,
       TxnUpdateNode, TxnDeleteNode, TxnUpdateEdge, TxnDeleteEdge, Mutate
  <1>2. DirectNext => Committing
    BY DirectCommits DEF StoreInv
  <1>3. TxnMutation => Mutating
    BY <1>1, TxnMutates DEF StoreInv
  <1>4. TxnFailure => Failing
    BY TxnFails
  <1> QED
    BY <1>2, <1>3, <1>4, TxnCases, Zenon DEF Next

\* Steps that leave the committed state alone.
LEMMA Idle ==
  ASSUME Mutating \/ Failing \/ Begin \/ Abort \/ BeginBulkLoad \/ UNCHANGED vars
  PROVE  UNCHANGED <<db, commitGen>>
  BY DEF Mutating, Failing, Begin, Abort, BeginBulkLoad, vars

\* Every change of the tables gets a new generation and a change that covers it.
THEOREM ChangesDescribed == Spec => ChangeDescribesCommit
  <1>1. StoreInv /\ StoreInv' /\ [Next]_vars
          => [/\ db' # db => commitGen' > commitGen
              /\ commitGen' # commitGen =>
                    \/ change'.full
                    \/ /\ db'.nodes = db.nodes \cup change'.nodes
                       /\ Strip(db'.edges) = Strip(db.edges) \cup change'.edges]_vars
    <2> SUFFICES ASSUME StoreInv, StoreInv', [Next]_vars
                 PROVE  /\ db' # db => commitGen' > commitGen
                        /\ commitGen' # commitGen => Explains(change')
      BY DEF Explains, Adds
    <2>0. commitGen \in Nat
      BY DEF StoreInv, CountersOK
    <2>1. CASE Committing
      BY <2>0, <2>1 DEF Committing
    <2>2. CASE Commit
      <3>1. count = 0 => commitGen' = commitGen
        BY <2>2 DEF Commit
      <3>2. /\ count = 0 => db' = db
            /\ count # 0 => commitGen' = commitGen + 1 /\ Explains(change')
        BY <2>2, CommitKeeps
      <3> QED
        BY <2>0, <3>1, <3>2
    <2> QED
      BY <2>1, <2>2, Steps, Idle
  <1> QED
    BY <1>1, Invariance, PTL DEF Spec, ChangeDescribesCommit

\* Committed ids are never used again.
THEOREM IdsFresh == Spec => IdsNeverReused
  <1>1. StoreInv /\ StoreInv' /\ [Next]_vars
          => [/\ \A n \in db'.nodes \ db.nodes : n >= db.nextNode
              /\ \A e \in db'.edges \ db.edges : e.id >= db.nextEdge
              /\ db'.nextNode >= db.nextNode /\ db'.nextEdge >= db.nextEdge]_vars
    <2> SUFFICES ASSUME StoreInv, StoreInv', [Next]_vars
                 PROVE  /\ \A n \in db'.nodes \ db.nodes : n >= db.nextNode
                        /\ \A e \in db'.edges \ db.edges : e.id >= db.nextEdge
                        /\ db'.nextNode >= db.nextNode /\ db'.nextEdge >= db.nextEdge
      OBVIOUS
    <2>1. /\ Sound(db) /\ NothingCached(db) /\ Sound(db') /\ NothingCached(db')
      BY DEF StoreInv, DbOK, Sound, Shape
    <2>2. /\ PeekNode(db) = db.nextNode /\ PeekEdge(db) = db.nextEdge
          /\ PeekNode(db') = db'.nextNode /\ PeekEdge(db') = db'.nextEdge
      BY <2>1 DEF NothingCached, PeekNode, PeekEdge
    <2>3. Grows(db, db')
      <3>1. CASE Committing
        BY <3>1 DEF Committing, Good
      <3>2. CASE Commit
        BY <3>2, CommitKeeps
      <3>3. CASE db' = db
        <4>1. PeekNode(db) \in Nat /\ PeekEdge(db) \in Nat
          BY <2>1, Peeked
        <4> QED
          BY <3>3, <4>1 DEF Grows
      <3> QED
        BY <3>1, <3>2, <3>3, Steps, Idle
    <2> QED
      BY <2>2, <2>3 DEF Grows
  <1> QED
    BY <1>1, Invariance, PTL DEF Spec, IdsNeverReused

-----------------------------------------------------------------------------
(* Refinement                                                              *)

\* The graph of g without its adjacency.
Seen(g) ==
    [nodes |-> g.nodes, labels |-> g.labels, edges |-> g.edges,
     nextNode |-> PeekNode(g), nextEdge |-> PeekEdge(g)]

\* The outgoing adjacency gives the edges back.
LEMMA GraphSeen ==
  ASSUME NEW g, Sound(g)
  PROVE  GraphOf(g) = Seen(g)
  <1> DEFINE back(a) == [id |-> a.id, src |-> a.at, dst |-> a.other, type |-> a.type]
  <1>1. g.edges \subseteq Edge /\ g.idx = g.labels /\ g.out \cup g.pendOut = {OutEntry(e) : e \in g.edges}
    BY DEF Sound, Shape, Tables, Consistent, AdjacencyMatches
  <1>2. \A e \in Edge : back(OutEntry(e)) = e
    BY DEF OutEntry, Edge
  <1>3. GraphOf(g) = [nodes |-> g.nodes, labels |-> g.idx, edges |-> {back(a) : a \in g.out \cup g.pendOut},
                      nextNode |-> PeekNode(g), nextEdge |-> PeekEdge(g)]
    BY DEF GraphOf
  <1> HIDE DEF back
  <1>4. {back(a) : a \in {OutEntry(e) : e \in g.edges}} = g.edges
    <2>1. \A e \in g.edges : back(OutEntry(e)) = e
      BY <1>1, <1>2
    <2> QED
      BY <2>1
  <1>5. {back(a) : a \in g.out \cup g.pendOut} = g.edges
    BY <1>1, <1>4
  <1> QED
    BY <1>1, <1>3, <1>5, Zenon DEF Seen

\* What is read is what is seen.
LEMMA SeenReads ==
  ASSUME NEW h, NEW N, NEW L, NEW E, NEW i, NEW j, Reads(h, N, L, E, i, j)
  PROVE  Seen(h) = [nodes |-> N, labels |-> L, edges |-> E, nextNode |-> i, nextEdge |-> j]
  BY DEF Reads, Seen

\* Same reads, same graph.
LEMMA UnchangedSeen ==
  ASSUME NEW g, Sound(g), NEW h, Sound(h), Unchanged(g, h)
  PROVE  GraphOf(h) = GraphOf(g)
  <1>1. Seen(h) = Seen(g)
    BY DEF Unchanged, Reads, Seen
  <1> QED
    BY <1>1, GraphSeen

\* A record is given by its fields.
LEMMA Fields ==
  ASSUME NEW N, NEW L, NEW E, NEW i, NEW j,
         NEW y \in [nodes: {N}, labels: {L}, edges: {E}, nextNode: {i}, nextEdge: {j}]
  PROVE  y = [nodes |-> N, labels |-> L, edges |-> E, nextNode |-> i, nextEdge |-> j]
  <1> DEFINE r == [nodes |-> N, labels |-> L, edges |-> E, nextNode |-> i, nextEdge |-> j]
  <1>1. /\ r \in [nodes: {N}, labels: {L}, edges: {E}, nextNode: {i}, nextEdge: {j}]
        /\ r.nodes = N /\ r.labels = L /\ r.edges = E /\ r.nextNode = i /\ r.nextEdge = j
    OBVIOUS
  <1>2. y.nodes = N /\ y.labels = L /\ y.edges = E /\ y.nextNode = i /\ y.nextEdge = j
    OBVIOUS
  <1> HIDE DEF r
  <1>3. y = r
    BY <1>1, <1>2
  <1> QED
    BY <1>3 DEF r

\* The mutations of the abstract graph, field by field.
LEMMA MutationFields ==
  ASSUME NEW g
  PROVE  /\ \A ls : Abstract!WithNode(Seen(g), ls)
               = [nodes |-> g.nodes \cup {PeekNode(g)}, labels |-> g.labels \cup ({PeekNode(g)} \X ls), edges |-> g.edges,
                  nextNode |-> PeekNode(g) + 1, nextEdge |-> PeekEdge(g)]
         /\ \A s, d, ty : Abstract!WithEdge(Seen(g), s, d, ty)
               = [nodes |-> g.nodes, labels |-> g.labels,
                  edges |-> g.edges \cup {[id |-> PeekEdge(g), src |-> s, dst |-> d, type |-> ty]},
                  nextNode |-> PeekNode(g), nextEdge |-> PeekEdge(g) + 1]
         /\ \A n : Abstract!WithoutNode(Seen(g), n)
               = [nodes |-> g.nodes \ {n}, labels |-> {p \in g.labels : p[1] # n},
                  edges |-> {e \in g.edges : e.src # n /\ e.dst # n}, nextNode |-> PeekNode(g), nextEdge |-> PeekEdge(g)]
  <1>0. Seen(g) \in [nodes: {g.nodes}, labels: {g.labels}, edges: {g.edges}, nextNode: {PeekNode(g)}, nextEdge: {PeekEdge(g)}]
    BY DEF Seen
  <1>4. /\ Seen(g).nodes = g.nodes /\ Seen(g).labels = g.labels /\ Seen(g).edges = g.edges
        /\ Seen(g).nextNode = PeekNode(g) /\ Seen(g).nextEdge = PeekEdge(g)
    BY DEF Seen
  <1>1. ASSUME NEW ls
        PROVE  Abstract!WithNode(Seen(g), ls)
                 = [nodes |-> g.nodes \cup {PeekNode(g)}, labels |-> g.labels \cup ({PeekNode(g)} \X ls), edges |-> g.edges,
                    nextNode |-> PeekNode(g) + 1, nextEdge |-> PeekEdge(g)]
    <2> DEFINE a == g.nodes \cup {PeekNode(g)}
               b == g.labels \cup ({PeekNode(g)} \X ls)
               c == PeekNode(g) + 1
    <2>1. Abstract!WithNode(Seen(g), ls) = [Seen(g) EXCEPT !.nodes = a, !.labels = b, !.nextNode = c]
      BY <1>4, Zenon DEF Abstract!WithNode
    <2> HIDE DEF a, b, c
    <2>2. [Seen(g) EXCEPT !.nodes = a, !.labels = b, !.nextNode = c]
             \in [nodes: {a}, labels: {b}, edges: {g.edges}, nextNode: {c}, nextEdge: {PeekEdge(g)}]
      BY <1>0
    <2>3. [Seen(g) EXCEPT !.nodes = a, !.labels = b, !.nextNode = c]
             = [nodes |-> a, labels |-> b, edges |-> g.edges, nextNode |-> c, nextEdge |-> PeekEdge(g)]
      BY <2>2, Fields
    <2> QED
      BY <2>1, <2>3 DEF a, b, c
  <1>2. ASSUME NEW s, NEW d, NEW ty
        PROVE  Abstract!WithEdge(Seen(g), s, d, ty)
                 = [nodes |-> g.nodes, labels |-> g.labels,
                    edges |-> g.edges \cup {[id |-> PeekEdge(g), src |-> s, dst |-> d, type |-> ty]},
                    nextNode |-> PeekNode(g), nextEdge |-> PeekEdge(g) + 1]
    <2> DEFINE a == g.edges \cup {[id |-> PeekEdge(g), src |-> s, dst |-> d, type |-> ty]}
               c == PeekEdge(g) + 1
    <2>1. Abstract!WithEdge(Seen(g), s, d, ty) = [Seen(g) EXCEPT !.edges = a, !.nextEdge = c]
      BY <1>4, Zenon DEF Abstract!WithEdge
    <2> HIDE DEF a, c
    <2>2. [Seen(g) EXCEPT !.edges = a, !.nextEdge = c]
             \in [nodes: {g.nodes}, labels: {g.labels}, edges: {a}, nextNode: {PeekNode(g)}, nextEdge: {c}]
      BY <1>0
    <2>3. [Seen(g) EXCEPT !.edges = a, !.nextEdge = c]
             = [nodes |-> g.nodes, labels |-> g.labels, edges |-> a, nextNode |-> PeekNode(g), nextEdge |-> c]
      BY <2>2, Fields
    <2> QED
      BY <2>1, <2>3 DEF a, c
  <1>3. ASSUME NEW n
        PROVE  Abstract!WithoutNode(Seen(g), n)
                 = [nodes |-> g.nodes \ {n}, labels |-> {p \in g.labels : p[1] # n},
                    edges |-> {e \in g.edges : e.src # n /\ e.dst # n}, nextNode |-> PeekNode(g), nextEdge |-> PeekEdge(g)]
    <2> DEFINE a == g.nodes \ {n}
               b == {p \in g.labels : p[1] # n}
               c == {e \in g.edges : e.src # n /\ e.dst # n}
    <2>1. Abstract!WithoutNode(Seen(g), n) = [Seen(g) EXCEPT !.nodes = a, !.labels = b, !.edges = c]
      BY <1>4, Zenon DEF Abstract!WithoutNode
    <2> HIDE DEF a, b, c
    <2>2. [Seen(g) EXCEPT !.nodes = a, !.labels = b, !.edges = c]
             \in [nodes: {a}, labels: {b}, edges: {c}, nextNode: {PeekNode(g)}, nextEdge: {PeekEdge(g)}]
      BY <1>0
    <2>3. [Seen(g) EXCEPT !.nodes = a, !.labels = b, !.edges = c]
             = [nodes |-> a, labels |-> b, edges |-> c, nextNode |-> PeekNode(g), nextEdge |-> PeekEdge(g)]
      BY <2>2, Fields
    <2> QED
      BY <2>1, <2>3 DEF a, b, c
  <1> QED
    BY <1>1, <1>2, <1>3, Zenon

\* A mutation of the tables is a mutation of the abstract graph, or nothing.
LEMMA MutatedSeen ==
  ASSUME NEW g, Sound(g), NEW h, Sound(h), Mutated(g, h)
  PROVE  Abstract!Mutation(GraphOf(g), GraphOf(h)) \/ GraphOf(h) = GraphOf(g)
  <1> DEFINE i == PeekNode(g)
             j == PeekEdge(g)
             x == Seen(g)
             y == Seen(h)
  <1>0. GraphOf(g) = x /\ GraphOf(h) = y
    BY GraphSeen
  <1>1. /\ x.nodes = g.nodes /\ x.labels = g.labels /\ x.edges = g.edges /\ x.nextNode = i /\ x.nextEdge = j
        /\ x = [nodes |-> g.nodes, labels |-> g.labels, edges |-> g.edges, nextNode |-> i, nextEdge |-> j]
    BY DEF Seen
  <1> HIDE DEF x, y, i, j
  <1>2. ASSUME NEW ls \in SUBSET Labels,
               Reads(h, g.nodes \cup {i}, g.labels \cup ({i} \X ls), g.edges, i + 1, j)
        PROVE  Abstract!Mutation(x, y)
    <2>1. y = [nodes |-> g.nodes \cup {i}, labels |-> g.labels \cup ({i} \X ls), edges |-> g.edges,
               nextNode |-> i + 1, nextEdge |-> j]
      BY <1>2, SeenReads DEF y
    <2>2. y = Abstract!WithNode(x, ls)
      BY <2>1, MutationFields, Zenon DEF x, i, j
    <2> QED
      BY <2>2 DEF Abstract!Mutation
  <1>3. ASSUME NEW s \in g.nodes, NEW d \in g.nodes, NEW ty \in Types,
               Reads(h, g.nodes, g.labels, g.edges \cup {[id |-> j, src |-> s, dst |-> d, type |-> ty]},
                     i, j + 1)
        PROVE  Abstract!Mutation(x, y)
    <2>1. y = [nodes |-> g.nodes, labels |-> g.labels,
               edges |-> g.edges \cup {[id |-> j, src |-> s, dst |-> d, type |-> ty]},
               nextNode |-> i, nextEdge |-> j + 1]
      BY <1>3, SeenReads DEF y
    <2>2. y = Abstract!WithEdge(x, s, d, ty)
      BY <2>1, MutationFields, Zenon DEF x, i, j
    <2> QED
      BY <1>1, <2>2 DEF Abstract!Mutation
  <1>4. ASSUME NEW n \in g.nodes, NEW l \in Labels,
               Reads(h, g.nodes, g.labels \cup {<<n, l>>}, g.edges, i, j)
        PROVE  Abstract!Mutation(x, y)
    <2>1. y = [nodes |-> g.nodes, labels |-> g.labels \cup {<<n, l>>}, edges |-> g.edges,
               nextNode |-> i, nextEdge |-> j]
      BY <1>4, SeenReads DEF y
    <2>2. y = Abstract!WithLabel(x, n, l)
      BY <1>1, <2>1 DEF Abstract!WithLabel
    <2> QED
      BY <1>1, <2>2 DEF Abstract!Mutation
  <1>5. ASSUME NEW n \in g.nodes, NEW l \in Labels,
               Reads(h, g.nodes, g.labels \ {<<n, l>>}, g.edges, i, j)
        PROVE  Abstract!Mutation(x, y)
    <2>1. y = [nodes |-> g.nodes, labels |-> g.labels \ {<<n, l>>}, edges |-> g.edges,
               nextNode |-> i, nextEdge |-> j]
      BY <1>5, SeenReads DEF y
    <2>2. y = Abstract!WithoutLabel(x, n, l)
      BY <1>1, <2>1 DEF Abstract!WithoutLabel
    <2> QED
      BY <1>1, <2>2 DEF Abstract!Mutation
  <1>6. ASSUME NEW n \in g.nodes,
               Reads(h, g.nodes \ {n}, {p \in g.labels : p[1] # n},
                     {e \in g.edges : e.src # n /\ e.dst # n}, i, j)
        PROVE  Abstract!Mutation(x, y)
    <2>1. y = [nodes |-> g.nodes \ {n}, labels |-> {p \in g.labels : p[1] # n},
               edges |-> {e \in g.edges : e.src # n /\ e.dst # n}, nextNode |-> i, nextEdge |-> j]
      BY <1>6, SeenReads DEF y
    <2>2. y = Abstract!WithoutNode(x, n)
      BY <2>1, MutationFields, Zenon DEF x, i, j
    <2> QED
      BY <1>1, <2>2 DEF Abstract!Mutation
  <1>7. ASSUME NEW z \in g.edges,
               Reads(h, g.nodes, g.labels, {e \in g.edges : e.id # z.id}, i, j)
        PROVE  Abstract!Mutation(x, y)
    <2>1. y = [nodes |-> g.nodes, labels |-> g.labels, edges |-> {e \in g.edges : e.id # z.id},
               nextNode |-> i, nextEdge |-> j]
      BY <1>7, SeenReads DEF y
    <2>2. y = Abstract!WithoutEdge(x, z.id)
      BY <1>1, <2>1 DEF Abstract!WithoutEdge
    <2> QED
      BY <1>1, <2>2 DEF Abstract!Mutation
  <1>8. ASSUME Unchanged(g, h) PROVE y = x
    BY <1>8 DEF Unchanged, Reads, Seen, x, y
  <1>9. Abstract!Mutation(x, y) \/ y = x
    BY <1>2, <1>3, <1>4, <1>5, <1>6, <1>7, <1>8, Zenon DEF Mutated, i, j
  <1> QED
    BY <1>0, <1>9, Zenon

\* The store with its deferred writes implements the graph that mutates at once.
THEOREM Refinement == Spec => ImplementsGraph
  <1> DEFINE view == IF txn = "open" THEN work ELSE EmptyTables
  <1>1. Init => Abstract!Init
    BY EmptySound DEF Init, Abstract!Init
  <1>2. StoreInv /\ StoreInv' /\ [Next]_vars => [Abstract!Next]_(Abstract!gvars)
    <2> SUFFICES ASSUME StoreInv, StoreInv', [Next]_vars
                 PROVE  [Abstract!Next]_(Abstract!gvars)
      OBVIOUS
    <2>0. GraphOf(EmptyTables) = Abstract!Empty /\ Sound(db) /\ Sound(db')
      BY EmptySound DEF StoreInv, DbOK
    <2>1. CASE Committing
      <3>1. /\ txn = "none" /\ txn' = "none" /\ view = EmptyTables /\ view' = EmptyTables
            /\ Mutated(db, db')
        BY <2>1 DEF Committing, Good
      <3>2. Abstract!Mutation(GraphOf(db), GraphOf(db')) \/ GraphOf(db') = GraphOf(db)
        BY <2>0, <3>1, MutatedSeen
      <3>3. GraphOf(db)' = GraphOf(db') /\ GraphOf(view)' = GraphOf(view')
        BY DEF GraphOf, PeekNode, PeekEdge
      <3> QED
        BY <3>1, <3>2, <3>3 DEF Abstract!Next, Abstract!Direct, Abstract!gvars
    <2>2. CASE Commit
      <3>1. txn = "open" /\ txn' = "none" /\ view = work /\ view' = EmptyTables
        BY <2>2 DEF Commit
      <3>2. Sound(work) /\ Unchanged(work, db')
        BY <2>2, <3>1, CommitKeeps DEF StoreInv, WorkOK
      <3>3. GraphOf(db') = GraphOf(work)
        BY <2>0, <3>2, UnchangedSeen
      <3> QED
        BY <2>0, <3>1, <3>3 DEF Abstract!Next, Abstract!Commit
    <2>3. CASE Mutating
      <3>1. txn = "open" /\ txn' = "open" /\ view = work /\ view' = work' /\ db' = db /\ Mutated(work, work')
        BY <2>3 DEF Mutating, Good
      <3>2. Sound(work) /\ Sound(work')
        BY <3>1 DEF StoreInv, WorkOK
      <3>3. Abstract!Mutation(GraphOf(work), GraphOf(work')) \/ GraphOf(work') = GraphOf(work)
        BY <3>1, <3>2, MutatedSeen
      <3> QED
        BY <3>1, <3>3 DEF Abstract!Next, Abstract!Mutate, Abstract!gvars
    <2>4. CASE Failing
      BY <2>0, <2>4 DEF Failing, Abstract!Next, Abstract!Fail
    <2>5. CASE Begin
      <3>1. txn = "none" /\ txn' = "open" /\ db' = db /\ Unchanged(db, work')
        BY <2>5, BeginKeeps DEF Begin
      <3>2. Sound(work')
        BY <3>1 DEF StoreInv, WorkOK
      <3>3. GraphOf(work') = GraphOf(db)
        BY <2>0, <3>1, <3>2, UnchangedSeen
      <3> QED
        BY <3>1, <3>3 DEF Abstract!Next, Abstract!Begin
    <2>6. CASE Abort
      BY <2>0, <2>6 DEF Abort, Abstract!Next, Abstract!Abort
    <2>7. CASE BeginBulkLoad
      <3>1. /\ txn' = txn /\ db' = db /\ (txn = "open" => Unchanged(work, work'))
        BY <2>7, BulkKeeps DEF BeginBulkLoad
      <3>2. txn = "open" => GraphOf(work') = GraphOf(work)
        BY <3>1, UnchangedSeen DEF StoreInv, WorkOK
      <3> QED
        BY <3>1, <3>2 DEF Abstract!gvars
    <2>8. CASE UNCHANGED vars
      BY <2>8 DEF vars, Abstract!gvars
    <2> QED
      BY <2>1, <2>2, <2>3, <2>4, <2>5, <2>6, <2>7, <2>8, Steps, Zenon
  <1> QED
    BY <1>1, <1>2, Invariance, PTL DEF Spec, ImplementsGraph, Abstract!Spec

-----------------------------------------------------------------------------
(* The in-memory backend: the inductive invariant *)

Vector == [TableNames -> Places]

\* A copy of a table is its values under some of the keys.
IsData(data) == DOMAIN data \subseteq Keys /\ \A k \in DOMAIN data : data[k] \in SUBSET Values

VectorsOK ==
    /\ published \in Vector
    /\ \A r \in DOMAIN reading : reading[r] \in Vector
    /\ working = [w \in DOMAIN working |-> working[w]]
    /\ \A w \in DOMAIN working : working[w] \in Vector

\* The writers' mutex is held by whoever has a working copy, and by one.
WriterOK ==
    /\ writer = DOMAIN working
    /\ writer \subseteq Writers
    /\ \A v, w \in writer : v = w

ObjectsOK ==
    /\ objects = [t \in TableNames |-> objects[t]]
    /\ \A t \in TableNames :
         /\ objects[t] = [o \in DOMAIN objects[t] |-> objects[t][o]]
         /\ \A o \in DOMAIN objects[t] : IsData(objects[t][o])

\* Nobody holds a copy that is gone.
HeldOK ==
    \A t \in TableNames :
        /\ published[t] \in DOMAIN objects[t]
        /\ \A r \in DOMAIN reading : reading[r][t] \in DOMAIN objects[t]
        /\ \A w \in DOMAIN working : working[w][t] \in DOMAIN objects[t]

MemInv == VectorsOK /\ WriterOK /\ ObjectsOK /\ HeldOK

-----------------------------------------------------------------------------
(* Operators *)

\* Adding values under a key of a table gives a table.
LEMMA AddData ==
  ASSUME NEW data, IsData(data), NEW k \in Keys, NEW vs \in SUBSET Values
  PROVE  IsData(Add(data, k, vs))
  BY DEF IsData, Add

\* So does dropping a key.
LEMMA DropData ==
  ASSUME NEW data, IsData(data), NEW k
  PROVE  IsData(Drop(data, k))
  BY DEF IsData, Drop, Restrict

\* The values under a key, none when it is absent.
LEMMA UnderData ==
  ASSUME NEW data, IsData(data), NEW k
  PROVE  Under(data, k) \in SUBSET Values
  BY DEF IsData, Under

-----------------------------------------------------------------------------
(* Steps keep the invariant *)

\* The invariant holds at the start.
LEMMA InitInv == MemInit => MemInv
  BY PlacesAssumption DEF MemInit, MemInv, VectorsOK, WriterOK, ObjectsOK, HeldOK, Vector, IsData, NoKeys

\* begin_read keeps the invariant.
LEMMA ReadTxnInv ==
  ASSUME MemInv, NEW r \in Readers, read_txn(r)
  PROVE  MemInv'
  BY DEF MemInv, VectorsOK, WriterOK, ObjectsOK, HeldOK, read_txn, Add

\* begin_write keeps the invariant.
LEMMA WriteTxnInv ==
  ASSUME MemInv, NEW w \in Writers, write_txn(w)
  PROVE  MemInv'
  BY DEF MemInv, VectorsOK, WriterOK, ObjectsOK, HeldOK, write_txn, Add

\* Dropping what nobody holds keeps the copies that are held.
LEMMA KeptCopies ==
  ASSUME NEW vectors, ObjectsOK, objects' = Keep(vectors),
         \A t \in TableNames : Held(t, vectors) \subseteq DOMAIN objects[t]
  PROVE  /\ ObjectsOK'
         /\ \A t \in TableNames :
              /\ DOMAIN objects'[t] = Held(t, vectors)
              /\ \A o \in Held(t, vectors) : objects'[t][o] = objects[t][o]
  BY DEF ObjectsOK, Keep, Restrict

\* Dropping a read transaction keeps the invariant.
LEMMA DropReadInv ==
  ASSUME MemInv, NEW r \in Readers, drop_read(r)
  PROVE  MemInv'
  <1> DEFINE vectors == {published} \cup Range(reading') \cup Range(working)
  <1>1. \A t \in TableNames : Held(t, vectors) \subseteq DOMAIN objects[t]
    BY DEF MemInv, HeldOK, drop_read, Held, Range, Drop, Restrict
  <1>2. /\ ObjectsOK'
        /\ \A t \in TableNames : DOMAIN objects'[t] = Held(t, vectors)
    BY <1>1, KeptCopies DEF MemInv, drop_read
  <1>3. HeldOK'
    BY <1>2 DEF HeldOK, drop_read, Held, Range, Drop, Restrict
  <1> QED
    BY <1>2, <1>3 DEF MemInv, VectorsOK, WriterOK, drop_read, Drop, Restrict

\* Commit and abort keep the invariant.
LEMMA EndWriteInv ==
  ASSUME MemInv, NEW w \in Writers, commit(w) \/ abort(w)
  PROVE  MemInv'
  <1> DEFINE vectors == {published'} \cup Range(reading) \cup Range(working')
  <1>1. objects' = Keep(vectors)
    BY DEF commit, abort
  <1>2. \A t \in TableNames : Held(t, vectors) \subseteq DOMAIN objects[t]
    BY DEF MemInv, HeldOK, commit, abort, Held, Range, Drop, Restrict
  <1>3. /\ ObjectsOK'
        /\ \A t \in TableNames : DOMAIN objects'[t] = Held(t, vectors)
    BY <1>1, <1>2, KeptCopies DEF MemInv
  <1>4. HeldOK'
    BY <1>3 DEF HeldOK, commit, abort, Held, Range, Drop, Restrict
  <1> QED
    BY <1>3, <1>4 DEF MemInv, VectorsOK, WriterOK, commit, abort, Drop, Restrict

\* A table of the working copy is replaced, by a copy of its own when it was
\* shared, and everybody else's stays what it was.
LEMMA TableMutEffect ==
  ASSUME MemInv, NEW w \in DOMAIN working, NEW t \in TableNames,
         NEW data, table_mut(w, t, data)
  PROVE  \E o \in Places :
            /\ objects' = [objects EXCEPT ![t] = Add(@, o, data)]
            /\ working' = [working EXCEPT ![w] = [@ EXCEPT ![t] = o]]
            /\ o # published[t] /\ \A r \in DOMAIN reading : o # reading[r][t]
            /\ UNCHANGED <<published, reading, writer>>
  <1> DEFINE old == working[w][t]
             shared == old \in Held(t, {published} \cup Range(reading))
  <1>1. CASE shared
    <2>1. FreePlace(t) \in Places /\ FreePlace(t) \notin DOMAIN objects[t]
      BY <1>1 DEF table_mut, FreePlace, FreePlaces
    <2>2. working' = [working EXCEPT ![w] = [@ EXCEPT ![t] = FreePlace(t)]]
      BY <1>1 DEF table_mut
    <2> QED
      BY <1>1, <2>1, <2>2 DEF table_mut, MemInv, HeldOK
  <1>2. CASE ~shared
    <2>1. old \in Places /\ old \in DOMAIN objects[t]
      BY DEF MemInv, VectorsOK, Vector, HeldOK
    <2>2. old # published[t] /\ \A r \in DOMAIN reading : old # reading[r][t]
      BY <1>2 DEF Held, Range
    <2>3. objects[t] = [o \in DOMAIN objects[t] |-> objects[t][o]]
      BY DEF MemInv, ObjectsOK
    <2>4. [objects[t] EXCEPT ![old] = data] = Add(objects[t], old, data)
      BY <2>1, <2>3 DEF Add
    <2>5. /\ objects' = [objects EXCEPT ![t] = Add(@, old, data)]
          /\ UNCHANGED <<published, reading, writer, working>>
      BY <1>2, <2>4 DEF table_mut
    <2>6. working = [working EXCEPT ![w] = [@ EXCEPT ![t] = old]]
      BY DEF MemInv, VectorsOK, Vector
    <2> QED
      BY <2>1, <2>2, <2>5, <2>6
  <1> QED
    BY <1>1, <1>2

\* table_mut, in place or on a copy, keeps the invariant.
LEMMA TableMutInv ==
  ASSUME MemInv, NEW w \in DOMAIN working, NEW t \in TableNames,
         NEW data, IsData(data), table_mut(w, t, data)
  PROVE  MemInv'
  <1>1. PICK o \in Places :
            /\ objects' = [objects EXCEPT ![t] = Add(@, o, data)]
            /\ working' = [working EXCEPT ![w] = [@ EXCEPT ![t] = o]]
            /\ UNCHANGED <<published, reading, writer>>
    BY TableMutEffect
  <1>2. VectorsOK'
    BY <1>1 DEF MemInv, VectorsOK, Vector
  <1>3. WriterOK'
    BY <1>1 DEF MemInv, WriterOK
  <1>4. /\ DOMAIN objects' = TableNames
        /\ objects'[t] = Add(objects[t], o, data)
        /\ \A u \in TableNames \ {t} : objects'[u] = objects[u]
    BY <1>1 DEF MemInv, ObjectsOK
  <1>5. ObjectsOK'
    <2>1. objects' = [u \in TableNames |-> objects'[u]]
      BY <1>1, <1>4
    <2>2. /\ objects'[t] = [p \in DOMAIN objects'[t] |-> objects'[t][p]]
          /\ \A p \in DOMAIN objects'[t] : IsData(objects'[t][p])
      BY <1>4 DEF MemInv, ObjectsOK, Add
    <2> QED
      BY <1>4, <2>1, <2>2 DEF MemInv, ObjectsOK
  <1>6. HeldOK'
    BY <1>1, <1>4 DEF MemInv, VectorsOK, Vector, HeldOK, Add
  <1> QED
    BY <1>2, <1>3, <1>5, <1>6 DEF MemInv

\* What a change of one key leaves behind is the values of a table.
LEMMA ChangeInv ==
  ASSUME MemInv, NEW w \in Writers, NEW t \in TableNames, NEW k \in Keys, NEW v,
         (v \in Values /\ (put(w, t, k, v) \/ delete_one_duplicate(w, t, k, v))) \/ delete(w, t, k)
  PROVE  MemInv'
  <1> DEFINE data == table_data(w, t)
  <1>1. w \in DOMAIN working
    BY DEF put, delete, delete_one_duplicate
  <1>2. IsData(data)
    BY <1>1 DEF MemInv, HeldOK, ObjectsOK, table_data
  <1>3. Under(data, k) \in SUBSET Values
    BY <1>2, UnderData
  <1> HIDE DEF data
  <1>4. PICK new : IsData(new) /\ table_mut(w, t, new)
    <2>1. CASE v \in Values /\ put(w, t, k, v)
      BY <1>2, <1>3, <2>1, AddData DEF put, data
    <2>2. CASE delete(w, t, k)
      BY <1>2, <2>2, DropData DEF delete, data
    <2>3. CASE v \in Values /\ delete_one_duplicate(w, t, k, v)
      BY <1>2, <1>3, <2>3, AddData, DropData DEF delete_one_duplicate, data
    <2> QED
      BY <2>1, <2>2, <2>3
  <1> QED
    BY <1>1, <1>4, TableMutInv

\* The invariant holds throughout: whoever has a table set finds every one of
\* its tables, and one writer at a time has a working copy.
THEOREM MemInvariance == MemSpec => []MemInv
  <1>1. MemInv /\ [MemNext]_memVars => MemInv'
    <2> SUFFICES ASSUME MemInv, [MemNext]_memVars PROVE MemInv'
      OBVIOUS
    <2>1. CASE UNCHANGED memVars
      BY <2>1 DEF memVars, MemInv, VectorsOK, WriterOK, ObjectsOK, HeldOK
    <2>2. ASSUME NEW r \in Readers, read_txn(r) \/ drop_read(r) PROVE MemInv'
      BY <2>2, ReadTxnInv, DropReadInv
    <2>3. ASSUME NEW w \in Writers, write_txn(w) \/ commit(w) \/ abort(w) PROVE MemInv'
      BY <2>3, WriteTxnInv, EndWriteInv
    <2>4. ASSUME NEW w \in Writers, NEW t \in TableNames, NEW k \in Keys, NEW v \in Values,
                 put(w, t, k, v) \/ delete_one_duplicate(w, t, k, v)
          PROVE  MemInv'
      BY <2>4, ChangeInv
    <2>5. ASSUME NEW w \in Writers, NEW t \in TableNames, NEW k \in Keys, delete(w, t, k)
          PROVE  MemInv'
      BY <2>5, ChangeInv
    <2> QED
      BY <2>1, <2>2, <2>3, <2>4, <2>5 DEF MemNext
  <1> QED
    BY InitInv, <1>1, PTL DEF MemSpec

-----------------------------------------------------------------------------
(* Steps are steps of the promise *)

Views == [r \in DOMAIN reading |-> Said(reading[r])]
Drafts == [w \in DOMAIN working |-> Said(working[w])]

\* The start of the store is the start of the abstract one.
LEMMA InitPromise == MemInit => Promise!Init
  <1> SUFFICES ASSUME MemInit PROVE Promise!Init
    OBVIOUS
  <1>1. Said(published) = [t \in TableNames |-> [k \in Keys |-> {}]]
    BY DEF MemInit, Said, Under, NoKeys
  <1>2. Views = <<>> /\ Drafts = <<>>
    BY DEF MemInit, Views, Drafts
  <1> QED
    BY <1>1, <1>2 DEF Promise!Init, Views, Drafts

\* A table set says the same as long as its copies are kept.
LEMMA SaidKept ==
  ASSUME NEW vector, \A t \in TableNames : objects'[t][vector[t]] = objects[t][vector[t]]
  PROVE  [t \in TableNames |-> [k \in Keys |-> Under(objects'[t][vector[t]], k)]] = Said(vector)
  BY DEF Said

\* begin_read takes a snapshot.
LEMMA ReadTxnStep ==
  ASSUME NEW r, read_txn(r)
  PROVE  Promise!BeginRead(r)
  BY DEF read_txn, Promise!BeginRead, Promise!Open, Add, Said

\* begin_write starts from the newest snapshot.
LEMMA WriteTxnStep ==
  ASSUME MemInv, NEW w, write_txn(w)
  PROVE  Promise!BeginWrite(w)
  BY DEF MemInv, WriterOK, write_txn, Promise!BeginWrite, Promise!Open, Add, Said

\* Dropping a read transaction drops its snapshot.
LEMMA DropReadStep ==
  ASSUME MemInv, NEW r, drop_read(r)
  PROVE  Promise!EndRead(r)
  <1> DEFINE vectors == {published} \cup Range(reading') \cup Range(working)
  <1>1. \A t \in TableNames : Held(t, vectors) \subseteq DOMAIN objects[t]
    BY DEF MemInv, HeldOK, drop_read, Held, Range, Drop, Restrict
  <1>2. \A t \in TableNames : \A o \in Held(t, vectors) : objects'[t][o] = objects[t][o]
    BY <1>1, KeptCopies DEF MemInv, drop_read
  <1>3. \A t \in TableNames, vector \in vectors : objects'[t][vector[t]] = objects[t][vector[t]]
    BY <1>2 DEF Held
  <1>4. Said(published)' = Said(published)
    BY <1>3, SaidKept DEF drop_read, Said
  <1>5. /\ DOMAIN reading' = DOMAIN reading \ {r}
        /\ \A q \in DOMAIN reading' : reading'[q] = reading[q]
    BY DEF drop_read, Drop, Restrict
  <1>6. \A q \in DOMAIN reading' : Said(reading[q])' = Said(reading[q])
    BY <1>3, <1>5 DEF Said, Range
  <1>7. \A w \in DOMAIN working : Said(working[w])' = Said(working[w])
    BY <1>3 DEF drop_read, Said, Range
  <1> QED
    BY <1>4, <1>5, <1>6, <1>7 DEF drop_read, Promise!EndRead, Promise!Close

\* Commit publishes the writer's tables, abort drops them.
LEMMA EndWriteStep ==
  ASSUME MemInv, NEW w, commit(w) \/ abort(w)
  PROVE  Promise!Commit(w) \/ Promise!Abort(w)
  <1> DEFINE vectors == {published'} \cup Range(reading) \cup Range(working')
  <1>1. \A t \in TableNames : Held(t, vectors) \subseteq DOMAIN objects[t]
    BY DEF MemInv, HeldOK, commit, abort, Held, Range, Drop, Restrict
  <1>2. \A t \in TableNames : \A o \in Held(t, vectors) : objects'[t][o] = objects[t][o]
    BY <1>1, KeptCopies DEF MemInv, commit, abort
  <1>3. \A t \in TableNames, vector \in vectors : objects'[t][vector[t]] = objects[t][vector[t]]
    BY <1>2 DEF Held
  <1>4. /\ DOMAIN working' = DOMAIN working \ {w}
        /\ \A v \in DOMAIN working' : working'[v] = working[v]
        /\ w \in DOMAIN working /\ reading' = reading
    BY DEF commit, abort, Drop, Restrict
  <1>5. \A v \in DOMAIN working' : Said(working[v])' = Said(working[v])
    BY <1>3, <1>4 DEF Said, Range
  <1>6. \A r \in DOMAIN reading : Said(reading[r])' = Said(reading[r])
    BY <1>3, <1>4 DEF Said, Range
  <1>7. CASE commit(w)
    <2>1. Said(published)' = Said(working[w])
      BY <1>3, <1>7 DEF commit, Said
    <2> QED
      BY <1>4, <1>5, <1>6, <2>1 DEF Promise!Commit, Promise!Close
  <1>8. CASE abort(w)
    <2>1. Said(published)' = Said(published)
      BY <1>3, <1>8 DEF abort, Said
    <2> QED
      BY <1>4, <1>5, <1>6, <2>1 DEF Promise!Abort, Promise!Close
  <1> QED
    BY <1>7, <1>8

\* A table that differs from the writer's in what it says of one key is one
\* write of the promise.
LEMMA TableMutStep ==
  ASSUME MemInv, NEW w \in DOMAIN working, NEW t \in TableNames, NEW k \in Keys,
         NEW data, table_mut(w, t, data),
         \A j \in Keys \ {k} : Under(data, j) = Under(table_data(w, t), j)
  PROVE  Promise!Write(w, t, k, Under(data, k))
  <1>1. PICK o \in Places :
            /\ objects' = [objects EXCEPT ![t] = Add(@, o, data)]
            /\ working' = [working EXCEPT ![w] = [@ EXCEPT ![t] = o]]
            /\ o # published[t] /\ \A r \in DOMAIN reading : o # reading[r][t]
            /\ UNCHANGED <<published, reading, writer>>
    BY TableMutEffect
  <1>2. /\ objects'[t] = Add(objects[t], o, data)
        /\ \A u \in TableNames \ {t} : objects'[u] = objects[u]
    BY <1>1 DEF MemInv, ObjectsOK
  <1>3. \A u \in TableNames : objects'[u][published[u]] = objects[u][published[u]]
    BY <1>1, <1>2 DEF MemInv, HeldOK, Add
  <1>4. Said(published)' = Said(published)
    BY <1>1, <1>3 DEF Said
  <1>5. \A r \in DOMAIN reading, u \in TableNames :
            objects'[u][reading[r][u]] = objects[u][reading[r][u]]
    BY <1>1, <1>2 DEF MemInv, HeldOK, Add
  <1>6. \A r \in DOMAIN reading : Said(reading[r])' = Said(reading[r])
    BY <1>1, <1>5 DEF Said
  <1>7. DOMAIN working = {w}
    BY DEF MemInv, WriterOK
  <1>8. /\ DOMAIN working' = {w} /\ working'[w][t] = o
        /\ \A u \in TableNames \ {t} : working'[w][u] = working[w][u]
    BY <1>1, <1>7 DEF MemInv, VectorsOK, Vector
  <1>9. \A u \in TableNames, j \in Keys :
            Under(objects'[u][working'[w][u]], j) =
                IF u = t /\ j = k THEN Under(data, k) ELSE Under(objects[u][working[w][u]], j)
    <2> TAKE u \in TableNames, j \in Keys
    <2>1. CASE u = t
      BY <2>1, <1>2, <1>8 DEF Add, table_data
    <2>2. CASE u # t
      BY <2>2, <1>2, <1>8
    <2> QED
      BY <2>1, <2>2
  <1> DEFINE next == [u \in TableNames |-> [j \in Keys |-> Under(objects'[u][working'[w][u]], j)]]
  <1>10. next = [Said(working[w]) EXCEPT ![t][k] = Under(data, k)]
    <2>1. next = [u \in TableNames |->
                    [j \in Keys |-> IF u = t /\ j = k THEN Under(data, k)
                                    ELSE Under(objects[u][working[w][u]], j)]]
      BY <1>9
    <2> QED
      BY <2>1 DEF Said
  <1>11. [v \in DOMAIN working |-> Said(working[v])]'
           = [[v \in DOMAIN working |-> Said(working[v])] EXCEPT ![w][t][k] = Under(data, k)]
    <2>1. Said(working[w])' = next
      BY DEF Said
    <2> HIDE DEF next
    <2> QED
      BY <1>7, <1>8, <1>10, <2>1
  <1> QED
    BY <1>1, <1>4, <1>6, <1>11 DEF Promise!Write

\* A write changes the writer's tables and no snapshot.
LEMMA ChangeStep ==
  ASSUME MemInv, NEW w \in Writers, NEW t \in TableNames, NEW k \in Keys, NEW v,
         (v \in Values /\ (put(w, t, k, v) \/ delete_one_duplicate(w, t, k, v))) \/ delete(w, t, k)
  PROVE  \E vs \in SUBSET Values : Promise!Write(w, t, k, vs)
  <1> DEFINE data == table_data(w, t)
             Elsewhere(new) == \A j \in Keys \ {k} : Under(new, j) = Under(data, j)
  <1>1. w \in DOMAIN working
    BY DEF put, delete, delete_one_duplicate
  <1>2. IsData(data)
    BY <1>1 DEF MemInv, HeldOK, ObjectsOK, table_data
  <1>3. Under(data, k) \in SUBSET Values
    BY <1>2, UnderData
  <1>4. Elsewhere(Drop(data, k)) /\ IsData(Drop(data, k))
    BY <1>2, DropData DEF Under, Drop, Restrict
  <1>5. ASSUME NEW vs \in SUBSET Values
        PROVE  Elsewhere(Add(data, k, vs)) /\ IsData(Add(data, k, vs))
    BY <1>2, AddData DEF Under, Add
  <1>6. PICK new : IsData(new) /\ Elsewhere(new) /\ table_mut(w, t, new)
    <2> HIDE DEF data, Elsewhere
    <2>1. CASE v \in Values /\ put(w, t, k, v)
      BY <1>3, <1>5, <2>1 DEF put, data
    <2>2. CASE delete(w, t, k)
      BY <1>4, <2>2 DEF delete, data
    <2>3. CASE v \in Values /\ delete_one_duplicate(w, t, k, v)
      BY <1>3, <1>4, <1>5, <2>3 DEF delete_one_duplicate, data
    <2> QED
      BY <2>1, <2>2, <2>3
  <1>7. Promise!Write(w, t, k, Under(new, k))
    BY <1>1, <1>6, TableMutStep
  <1>8. Under(new, k) \in SUBSET Values
    BY <1>6, UnderData
  <1> QED
    BY <1>7, <1>8

\* The copy-on-write tables of storage/memory.rs are invisible: what the
\* readers, the writer and the committed state say is what SnapshotStore says,
\* however many of them share a table.
THEOREM MemRefinement == MemSpec => ImplementsSnapshots
  <1>1. MemInv /\ [MemNext]_memVars => [Promise!Next]_(Promise!vars)
    <2> SUFFICES ASSUME MemInv, [MemNext]_memVars PROVE [Promise!Next]_(Promise!vars)
      OBVIOUS
    <2>1. CASE UNCHANGED memVars
      BY <2>1 DEF memVars, Promise!vars, Said
    <2>2. ASSUME NEW r \in Readers, read_txn(r) \/ drop_read(r) PROVE Promise!Next
      BY <2>2, ReadTxnStep, DropReadStep DEF Promise!Next
    <2>3. ASSUME NEW w \in Writers, write_txn(w) \/ commit(w) \/ abort(w) PROVE Promise!Next
      BY <2>3, WriteTxnStep, EndWriteStep DEF Promise!Next
    <2>4. ASSUME NEW w \in Writers, NEW t \in TableNames, NEW k \in Keys, NEW v \in Values,
                 put(w, t, k, v) \/ delete_one_duplicate(w, t, k, v)
          PROVE  Promise!Next
      BY <2>4, ChangeStep DEF Promise!Next
    <2>5. ASSUME NEW w \in Writers, NEW t \in TableNames, NEW k \in Keys, delete(w, t, k)
          PROVE  Promise!Next
      BY <2>5, ChangeStep DEF Promise!Next
    <2> QED
      BY <2>1, <2>2, <2>3, <2>4, <2>5 DEF MemNext
  <1> QED
    BY InitPromise, MemInvariance, <1>1, PTL DEF MemSpec, ImplementsSnapshots, Promise!Spec

=============================================================================
