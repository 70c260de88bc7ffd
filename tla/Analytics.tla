----------------------------- MODULE Analytics -----------------------------
(***************************************************************************)
(* The whole-graph kernels (graph/kernels/analytics.rs) as operators over  *)
(* a snapshot g of Kernels.  Scores are exact: a score is an integer in    *)
(* units of 1/Unit, or a pair <<numerator, denominator>>, where the code   *)
(* holds a float.  The split of a pass over worker threads is not          *)
(* modelled: each worker fills its own entries.                            *)
(***************************************************************************)
EXTENDS Kernels

Unit == 144

Out(g, u) == {g.edges[e].dst : e \in {x \in EdgeIds(g) : g.edges[x].src = u}}
In(g, v)  == {g.edges[e].src : e \in {x \in EdgeIds(g) : g.edges[x].dst = v}}

\* Distinct neighbours in either direction, the node itself left out.
UndirectedNeighbors(g, u) == (Out(g, u) \cup In(g, u)) \ {u}

\* An edge's ends swap the larger representative for the smaller.
ConnectedComponents(g) ==
  LET link(root, e) ==
        LET a == root[g.edges[e].src]
            b == root[g.edges[e].dst]
        IN  [v \in Dense(g) |-> IF root[v] = Max({a, b}) THEN Min({a, b}) ELSE root[v]]
      rows == FlattenSeq([u \in Dense(g) |-> Row(g, u)])
      root == FoldLeft(link, [v \in Dense(g) |-> v], rows)
  IN  [v \in Dense(g) |-> g.ids[root[v]]]

-----------------------------------------------------------------------------
(* Strongly connected components: Tarjan with the search stack explicit *)

Discover(g, st, v) ==
  [st EXCEPT !.index[v] = st.next, !.low[v] = st.next, !.next = @ + 1,
             !.pending = Append(@, v), !.search = Append(@, [node |-> v, rest |-> Row(g, v)])]

\* A finished node hands its lowlink down; a root takes its component off.
Finish(st, u) ==
  LET below == Front(st.search)
      handed == IF below = <<>> THEN st.low
                ELSE [st.low EXCEPT ![Last(below).node] = Min({@, st.low[u]})]
      at == CHOOSE i \in DOMAIN st.pending : st.pending[i] = u
      group == {st.pending[i] : i \in at .. Len(st.pending)}
  IN  IF st.low[u] = st.index[u]
      THEN [st EXCEPT !.search = below, !.low = handed, !.pending = SubSeq(@, 1, at - 1),
                      !.comp = [v \in DOMAIN @ |-> IF v \in group THEN st.comps ELSE @[v]],
                      !.comps = @ + 1]
      ELSE [st EXCEPT !.search = below, !.low = handed]

RECURSIVE Tarjan(_, _)
Tarjan(g, st) ==
  LET roots == {v \in Dense(g) : st.index[v] = Unreached}
      top   == Last(st.search)
      v     == g.edges[Head(top.rest)].dst
      moved == [st EXCEPT !.search[Len(st.search)].rest = Tail(@)]
  IN  IF st.search = <<>>
      THEN IF roots = {} THEN st ELSE Tarjan(g, Discover(g, st, Min(roots)))
      ELSE IF top.rest = <<>> THEN Tarjan(g, Finish(st, top.node))
      ELSE IF st.index[v] = Unreached THEN Tarjan(g, Discover(g, moved, v))
      ELSE IF v \in ToSet(st.pending)
           THEN Tarjan(g, [moved EXCEPT !.low[top.node] = Min({@, st.index[v]})])
      ELSE Tarjan(g, moved)

StronglyConnectedComponents(g) ==
  Tarjan(g, [index |-> Unmarked(g), low |-> [v \in Dense(g) |-> 0], next |-> 0,
             pending |-> <<>>, search |-> <<>>, comp |-> Unmarked(g), comps |-> 0]).comp

-----------------------------------------------------------------------------
(* Centralities *)

\* The plausible slip: a predecessor counts once for each of its edges.
PathCountsPerEdge(g, s, levels) ==
  LET edges(v) == {e \in EdgeIds(g) : g.edges[e].dst = v /\ levels[g.edges[e].src] # Unreached
                                      /\ levels[g.edges[e].src] = levels[v] - 1}
      sigma[h \in 0 .. Len(g.ids)] ==
        [v \in Dense(g) |-> IF levels[v] # h THEN 0
                            ELSE IF h = 0 THEN 1
                            ELSE MapThenSumSet(LAMBDA e : sigma[h - 1][g.edges[e].src], edges(v))]
  IN  [v \in Dense(g) |-> IF levels[v] = Unreached THEN 0 ELSE sigma[levels[v]][v]]

\* Shortest paths from s to each node, counted level by level over distinct
\* predecessors.
PathCounts(g, s, levels) ==
  LET preds(v) == {u \in In(g, v) : levels[u] # Unreached /\ levels[u] = levels[v] - 1}
      sigma[h \in 0 .. Len(g.ids)] ==
        [v \in Dense(g) |-> IF levels[v] # h THEN 0
                            ELSE IF h = 0 THEN 1
                            ELSE MapThenSumSet(LAMBDA u : sigma[h - 1][u], preds(v))]
  IN  [v \in Dense(g) |-> IF levels[v] = Unreached THEN 0 ELSE sigma[levels[v]][v]]

\* Brandes' dependency of a source on each node, from the deepest level back.
Dependencies(g, s) ==
  LET levels == HopDistances(g, s, 0)
      sigma  == PathCounts(g, s, levels)
      succs(v) == {w \in Out(g, v) : levels[w] = levels[v] + 1}
      delta[h \in 0 .. Len(g.ids)] ==
        [v \in Dense(g) |->
           IF levels[v] # Len(g.ids) - h THEN 0
           ELSE MapThenSumSet(LAMBDA w : (sigma[v] * (Unit + delta[h - 1][w])) \div sigma[w], succs(v))]
  IN  [v \in Dense(g) |-> IF v = s \/ levels[v] = Unreached THEN 0
                          ELSE delta[Len(g.ids) - levels[v]][v]]

BetweennessCentrality(g) ==
  [v \in Dense(g) |-> MapThenSumSet(LAMBDA s : Dependencies(g, s)[v], Dense(g))]

\* How many nodes lie at each hop from a source.
HopCount(g, s, hop) == Cardinality({v \in Dense(g) : HopDistances(g, s, 0)[v] = hop})

HarmonicCentrality(g) ==
  [s \in Dense(g) |-> MapThenSumSet(LAMBDA h : (Unit * HopCount(g, s, h)) \div h, 1 .. Len(g.ids))]

ClosenessCentrality(g) ==
  [s \in Dense(g) |->
     LET reachable == MapThenSumSet(LAMBDA h : HopCount(g, s, h), 1 .. Len(g.ids))
         total     == MapThenSumSet(LAMBDA h : h * HopCount(g, s, h), 1 .. Len(g.ids))
     IN  IF reachable = 0 THEN <<0, 1>> ELSE <<reachable * reachable, total * (Len(g.ids) - 1)>>]

\* dir is "out", "in" or "both".
DegreeCentrality(g, dir) ==
  [u \in Dense(g) |-> (IF dir = "in" THEN 0 ELSE Cardinality(Out(g, u)))
                      + (IF dir = "out" THEN 0 ELSE Cardinality(In(g, u)))]

\* Damping one half, in units of 1/scale; every edge carries its share.
RECURSIVE PageRank(_, _, _, _)
PageRank(g, rank, iterations, scale) ==
  LET share(e) == rank[g.edges[e].src] \div Len(Row(g, g.edges[e].src))
      next == [v \in Dense(g) |->
                 MapThenSumSet(share, ToSet(InRow(g, v))) \div 2 + (scale \div Len(g.ids)) \div 2]
  IN  IF iterations = 0 THEN rank ELSE PageRank(g, next, iterations - 1, scale)

ClusteringCoefficient(g) ==
  [u \in Dense(g) |->
     LET near  == UndirectedNeighbors(g, u)
         k     == Cardinality(near)
         links == MapThenSumSet(LAMBDA a : Cardinality(UndirectedNeighbors(g, a) \cap near), near)
     IN  IF k < 2 THEN <<0, 1>> ELSE <<links, k * (k - 1)>>]

-----------------------------------------------------------------------------
(* Communities *)

\* One round of label propagation: every node takes the commonest label at
\* the other ends of its edges, the smallest of several.
PropagateLabels(g, labels) ==
  LET ends(u) == [i \in DOMAIN Row(g, u) |-> g.edges[Row(g, u)[i]].dst]
                 \o [i \in DOMAIN InRow(g, u) |-> g.edges[InRow(g, u)[i]].src]
      votes(u, l) == Cardinality({i \in DOMAIN ends(u) : labels[ends(u)[i]] = l})
      heard(u)  == {labels[v] : v \in ToSet(ends(u))}
      common(u) == {l \in heard(u) : \A m \in heard(u) : votes(u, m) <= votes(u, l)}
  IN  [u \in Dense(g) |-> IF heard(u) = {} THEN labels[u] ELSE Min(common(u))]

RECURSIVE LabelPropagation(_, _, _)
LabelPropagation(g, labels, iterations) ==
  LET next == PropagateLabels(g, labels) IN
  IF iterations = 0 \/ next = labels THEN labels
  ELSE LabelPropagation(g, next, iterations - 1)

\* A Louvain level: link weights between distinct nodes, self-loops apart.
FromSnapshot(g) ==
  LET joins(u, v) == Cardinality({e \in EdgeIds(g) : {g.edges[e].src, g.edges[e].dst} = {u, v}})
      w == [u \in Dense(g) |-> [v \in Dense(g) |-> IF u = v THEN 0 ELSE joins(u, v)]]
      loops == [u \in Dense(g) |-> joins(u, u)]
      degree == [u \in Dense(g) |-> MapThenSumSet(LAMBDA v : w[u][v], Dense(g)) + 2 * loops[u]]
  IN  [w |-> w, loops |-> loops, degree |-> degree,
       total |-> MapThenSumSet(LAMBDA u : degree[u], Dense(g))]

\* One node's turn.  A stamp says for which node a community's link weight was
\* last collected; stamps outlive the sweep, so a community whose stamp still
\* names the node is added to and not considered again.
MoveNode(lv, st, u) ==
  LET near == {v \in DOMAIN lv.w : lv.w[u][v] > 0}
      touched == {st.community[v] : v \in near}
      fresh   == {c \in touched : st.stamp[c] # u}
      into(c) == MapThenSumSet(LAMBDA v : lv.w[u][v], {v \in near : st.community[v] = c})
      link == [c \in DOMAIN st.link |->
                 IF c \in fresh THEN into(c)
                 ELSE IF c \in touched THEN st.link[c] + into(c) ELSE st.link[c]]
      stamp  == [c \in DOMAIN st.stamp |-> IF c \in touched THEN u ELSE st.stamp[c]]
      origin == st.community[u]
      sigma  == [st.sigma EXCEPT ![origin] = @ - lv.degree[u]]
      gain(c) == (IF stamp[c] = u THEN link[c] ELSE 0) * lv.total - sigma[c] * lv.degree[u]
      offers == fresh \cup {origin}
      best   == Min({c \in offers : \A d \in offers : gain(d) <= gain(c)})
  IN  [community |-> [st.community EXCEPT ![u] = best],
       sigma |-> [sigma EXCEPT ![best] = @ + lv.degree[u]], stamp |-> stamp, link |-> link]

\* Sweeps until one moves nobody, 32 at most.
RECURSIVE Sweeps(_, _, _)
Sweeps(lv, st, left) ==
  LET move(acc, u) == MoveNode(lv, acc, u)
      then(next) == IF next.community = st.community THEN next.community ELSE Sweeps(lv, next, left - 1)
  IN  IF left = 0 THEN st.community ELSE then(FoldLeft(move, st, [u \in DOMAIN lv.w |-> u]))

LocalMoving(lv) ==
  LET own == [u \in DOMAIN lv.w |-> u] IN
  IF lv.total = 0 THEN own
  ELSE Sweeps(lv, [community |-> own, sigma |-> lv.degree, stamp |-> [u \in DOMAIN lv.w |-> 0],
                   link |-> [u \in DOMAIN lv.w |-> 0]], 32)

\* Communities renumbered by their smallest member.
Assignment(community) ==
  LET firsts == {u \in DOMAIN community : \A v \in DOMAIN community : community[v] = community[u] => u <= v}
      first(u) == CHOOSE f \in firsts : community[f] = community[u]
  IN  [u \in DOMAIN community |-> Cardinality({f \in firsts : f <= first(u)})]

\* Each community becomes one node; weight inside it becomes its self-loop.
Coarsen(lv, assignment) ==
  LET groups == 1 .. Max({assignment[u] : u \in DOMAIN assignment})
      of(c)  == {u \in DOMAIN assignment : assignment[u] = c}
      between(c, d) == MapThenSumSet(LAMBDA p : lv.w[p[1]][p[2]], of(c) \X of(d))
  IN  [w |-> [c \in groups |-> [d \in groups |-> IF c = d THEN 0 ELSE between(c, d)]],
       loops  |-> [c \in groups |-> MapThenSumSet(LAMBDA u : lv.loops[u], of(c)) + between(c, c) \div 2],
       degree |-> [c \in groups |-> MapThenSumSet(LAMBDA u : lv.degree[u], of(c))],
       total  |-> lv.total]

RECURSIVE LouvainLevels(_, _, _)
LouvainLevels(lv, membership, left) ==
  LET onto(coarse, merged) ==
        IF Len(coarse.w) = Len(lv.w) THEN membership
        ELSE IF Len(coarse.w) = 1 THEN merged
        ELSE LouvainLevels(coarse, merged, left - 1)
      of(assignment) == onto(Coarsen(lv, assignment), [u \in DOMAIN membership |-> assignment[membership[u]]])
  IN  IF left = 0 THEN membership ELSE of(Assignment(LocalMoving(lv)))

\* A community is named after the smallest node id in it.
Louvain(g) ==
  LET named(membership) == [u \in Dense(g) |-> g.ids[Min({v \in Dense(g) : membership[v] = membership[u]})]]
  IN  named(LouvainLevels(FromSnapshot(g), [u \in Dense(g) |-> u], 32))
=============================================================================
