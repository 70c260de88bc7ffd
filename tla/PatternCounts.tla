--------------------------- MODULE PatternCounts ---------------------------
(***************************************************************************)
(* The counting kernels a lowered count reads (graph/algo.rs), as          *)
(* operators over a snapshot g of Kernels that also carries each node's    *)
(* labels and the set of nodes whose property is not null.  Type 0 and     *)
(* label "any" leave a position open; an allow-set is a set of dense       *)
(* indices.  The parallel split of the two-hop count adds disjoint ranges  *)
(* and is not modelled.                                                    *)
(***************************************************************************)
EXTENDS Kernels

TypeOk(g, e, type)    == type \in {0, g.edges[e].type}
LabelMask(g, label)   == {d \in Dense(g) : label = "any" \/ label \in g.labels[d]}
TypedOut(g, u, type)  == {e \in EdgeIds(g) : g.edges[e].src = u /\ TypeOk(g, e, type)}
TypedIn(g, v, type)   == {e \in EdgeIds(g) : g.edges[e].dst = v /\ TypeOk(g, e, type)}

Distinct3(g, a, types) ==
  {p \in TypedOut(g, a, types[1]) \X TypedOut(g, a, types[2]) \X TypedIn(g, a, types[3]) :
     /\ \A i \in 1 .. 3 : g.edges[p[i]].src = a /\ g.edges[p[i]].dst = a
     /\ Cardinality({p[1], p[2], p[3]}) = 3}

\* Runs of equal neighbours multiply, except where all three hops are loops
\* on one node: there the edges are enumerated.
CountTriangleCycles(g, types, labels) ==
  LET run(S, end, v) == Cardinality({e \in S : g.edges[e][end] = v})
      cell(a, b, c) ==
        IF a = b /\ b = c THEN Cardinality(Distinct3(g, a, types))
        ELSE run(TypedOut(g, a, types[1]), "dst", b) * run(TypedOut(g, b, types[2]), "dst", c)
             * run(TypedIn(g, a, types[3]), "src", c)
  IN  MapThenSumSet(LAMBDA p : cell(p[1], p[2], p[3]),
                    LabelMask(g, labels[1]) \X LabelMask(g, labels[2]) \X LabelMask(g, labels[3]))

\* A one-hop count is the edges themselves; a two-hop one goes through the
\* middle node, less the loops that could fill both hops.
CountOneHop(g, type, from, to) ==
  Cardinality({e \in EdgeIds(g) : g.edges[e].src \in from /\ TypeOk(g, e, type) /\ g.edges[e].dst \in to})

\* The plausible slip: no relationship uniqueness between the two hops.
SharedLoopsIgnored(g, types, from, b, to) == 0

SharedLoops(g, types, from, b, to) ==
  IF b \in from /\ b \in to
  THEN Cardinality({e \in TypedOut(g, b, types[2]) : g.edges[e].dst = b /\ TypeOk(g, e, types[1])})
  ELSE 0

CountTwoHops(g, types, from, middle, to) ==
  LET indeg(b)  == Cardinality({e \in TypedIn(g, b, types[1]) : g.edges[e].src \in from})
      outdeg(b) == Cardinality({e \in TypedOut(g, b, types[2]) : g.edges[e].dst \in to})
  IN  MapThenSumSet(LAMBDA b : IF indeg(b) = 0 THEN 0
                               ELSE indeg(b) * outdeg(b) - SharedLoops(g, types, from, b, to), middle)

\* The label masks and allow-sets of every position, then the count.
CountLinearPaths(g, types, labels, allow) ==
  LET mask(i) == LabelMask(g, labels[i]) \cap allow[i] IN
  IF Len(types) = 1 THEN CountOneHop(g, types[1], mask(1), mask(2))
  ELSE CountTwoHops(g, types, mask(1), mask(2), mask(3))

\* The non-null mask of the nodes a walk reached: none when all have a value.
VisitedNonnull(g, visited) == IF visited \subseteq g.present THEN Dense(g) ELSE g.present \cap visited

\* Edges counted at one end; a group an edge reaches appears even at zero.
GroupedEdgeCounts(g, type, groupIsDst, groupMask, countedMask, nonnull) ==
  LET group(e)   == IF groupIsDst THEN g.edges[e].dst ELSE g.edges[e].src
      counted(e) == IF groupIsDst THEN g.edges[e].src ELSE g.edges[e].dst
      walk == {e \in EdgeIds(g) : TypeOk(g, e, type) /\ group(e) \in groupMask /\ counted(e) \in countedMask}
      kept == IF nonnull THEN VisitedNonnull(g, {counted(e) : e \in walk}) ELSE Dense(g)
      groups == {group(e) : e \in walk}
  IN  [d \in groups |-> Cardinality({e \in walk : group(e) = d /\ counted(e) \in kept})]

\* The neighbours of each source: over the source's own rows, or, for sources
\* that span half the typed incoming view, one pass over the outgoing rows.
TypedNeighborCounts(g, sources, type, incoming, mask, nonnull) ==
  LET dense == [i \in DOMAIN sources |-> IdToDense(g, sources[i])]
      wanted == ToSet(dense) \ {0}
      span == IF incoming /\ type # 0
              THEN FoldLeft(LAMBDA acc, d : acc + Len(InRow(g, d)), 0, dense) ELSE 0
      tally == span * 2 >= Len(g.edges)
      ends(d) == IF incoming \/ tally THEN TypedIn(g, d, type) ELSE TypedOut(g, d, type)
      other(e) == IF incoming \/ tally THEN g.edges[e].src ELSE g.edges[e].dst
      hits(d, keep) == Cardinality({e \in ends(d) : other(e) \in keep})
      visited == {other(e) : e \in {x \in UNION {ends(d) : d \in wanted} : other(x) \in mask}}
      kept == IF nonnull THEN mask \cap VisitedNonnull(g, visited) ELSE mask
  IN  [i \in DOMAIN sources |-> IF dense[i] = 0 THEN <<0, 0>> ELSE <<hits(dense[i], mask), hits(dense[i], kept)>>]
=============================================================================
