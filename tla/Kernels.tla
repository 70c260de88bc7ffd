------------------------------ MODULE Kernels ------------------------------
(***************************************************************************)
(* The search, path and flow kernels of the graph crate                    *)
(* (graph/kernels/traversal.rs, paths.rs, flow.rs), as operators over one  *)
(* fresh CSR snapshot.                                                     *)
(*                                                                         *)
(* A graph g is [ids, edges]: ids is dense_to_id, the node ids in          *)
(* ascending order (with gaps where nodes were deleted); edges is the      *)
(* sequence of edges in ascending edge id, each with the dense indices of  *)
(* its ends, its type and its weight.  A row of the snapshot is a node's   *)
(* edges in that order.  Weights and distances are integers; f64 rounding  *)
(* and the traceback's relative tolerance are not modelled.                *)
(***************************************************************************)
EXTENDS Integers, Sequences, FiniteSets, SequencesExt, FiniteSetsExt

Unreached == -1
Infinity  == 1000000

Dense(g)   == 1 .. Len(g.ids)
EdgeIds(g) == 1 .. Len(g.edges)

\* A node id's dense index, 0 for an id the snapshot does not hold.
IdToDense(g, id) == IF id \in ToSet(g.ids) THEN CHOOSE d \in Dense(g) : g.ids[d] = id ELSE 0

\* The members of a set of dense indices or edge ids, ascending.
Ascending(S, n) == SelectSeq([i \in 1 .. n |-> i], LAMBDA i : i \in S)

\* One row of the outgoing and of the incoming arrays: edge ids, ascending.
Row(g, u)   == Ascending({e \in EdgeIds(g) : g.edges[e].src = u}, Len(g.edges))
InRow(g, v) == Ascending({e \in EdgeIds(g) : g.edges[e].dst = v}, Len(g.edges))

\* The in-adjacency as the table keeps it: by type, then tail, then edge id.
InAdj(g, v) ==
  LET key(e) == <<g.edges[e].type, g.edges[e].src, e>>
      less(a, b) == \/ key(a)[1] < key(b)[1]
                    \/ key(a)[1] = key(b)[1] /\ key(a)[2] < key(b)[2]
                    \/ key(a)[1] = key(b)[1] /\ key(a)[2] = key(b)[2] /\ a < b
  IN  SortSeq(InRow(g, v), less)

Ids(g, path) == [i \in DOMAIN path |-> g.ids[path[i]]]

-----------------------------------------------------------------------------
(* Breadth-first search *)

\* The unreached neighbours of a frontier: the next level, whole.
ExpandFrontier(g, frontier, levels) ==
  {v \in Dense(g) : levels[v] = Unreached
                    /\ \E e \in EdgeIds(g) : g.edges[e].src \in frontier /\ g.edges[e].dst = v}

Mark(levels, nodes, hop) == [v \in DOMAIN levels |-> IF v \in nodes THEN hop ELSE levels[v]]

\* Level after level, up to the last hop or until the stop node is reached.
RECURSIVE Waves(_, _, _, _, _, _)
Waves(g, frontier, levels, hop, last, stop) ==
  LET next == ExpandFrontier(g, frontier, levels)
      marked == Mark(levels, next, hop)
  IN  IF hop > last \/ next = {} THEN levels
      ELSE IF stop # 0 /\ marked[stop] # Unreached THEN marked
      ELSE Waves(g, next, marked, hop + 1, last, stop)

Unmarked(g) == [v \in Dense(g) |-> Unreached]

HopDistances(g, src, stop) ==
  Waves(g, {src}, Mark(Unmarked(g), {src}, 0), 1, Len(g.ids), stop)

ReachedInOrder(g, levels) ==
  Ids(g, Ascending({v \in Dense(g) : levels[v] # Unreached}, Len(g.ids)))

Bfs(g, start, hops) ==
  LET s == IdToDense(g, start) IN
  IF s = 0 THEN <<>>
  ELSE ReachedInOrder(g, Waves(g, {s}, Mark(Unmarked(g), {s}, 0), 1, hops, 0))

\* Seeds in order, unknown and repeated ones skipped, up to the cap.
RECURSIVE AdmitSeeds(_, _, _, _)
AdmitSeeds(g, seeds, max, admitted) ==
  LET d == IdToDense(g, Head(seeds)) IN
  CASE seeds = <<>> -> [nodes |-> admitted, truncated |-> FALSE]
    [] seeds # <<>> /\ (d = 0 \/ d \in admitted) -> AdmitSeeds(g, Tail(seeds), max, admitted)
    [] OTHER -> IF Cardinality(admitted) >= max
                THEN [nodes |-> admitted, truncated |-> TRUE]
                ELSE AdmitSeeds(g, Tail(seeds), max, admitted \cup {d})

\* Level after level; the level that passes the cap keeps its lowest nodes.
RECURSIVE CappedWaves(_, _, _, _, _, _)
CappedWaves(g, frontier, levels, hop, hops, max) ==
  LET next    == ExpandFrontier(g, frontier, levels)
      visited == Cardinality({v \in Dense(g) : levels[v] # Unreached})
      kept    == ToSet(SubSeq(Ascending(next, Len(g.ids)), 1, max - visited))
  IN  IF hop > hops \/ next = {} THEN [levels |-> levels, truncated |-> FALSE]
      ELSE IF visited >= max THEN [levels |-> levels, truncated |-> TRUE]
      ELSE IF visited + Cardinality(next) > max
           THEN [levels |-> Mark(levels, kept, hop), truncated |-> TRUE]
      ELSE CappedWaves(g, next, Mark(levels, next, hop), hop + 1, hops, max)

BfsMultiSource(g, seeds, hops, max) ==
  LET s == AdmitSeeds(g, seeds, max, {})
      w == CappedWaves(g, s.nodes, Mark(Unmarked(g), s.nodes, 0), 1, hops, max)
  IN  IF seeds = <<>> \/ Len(g.ids) = 0 THEN [nodes |-> <<>>, truncated |-> FALSE]
      ELSE IF s.nodes = {} THEN [nodes |-> <<>>, truncated |-> s.truncated]
      ELSE [nodes |-> ReachedInOrder(g, w.levels), truncated |-> s.truncated \/ w.truncated]

\* The edges of each source, of one type (0: any), from either end.
ExpandBulk(g, sources, type, incoming) ==
  LET hop(id, e) == <<id, e, g.ids[IF incoming THEN g.edges[e].src ELSE g.edges[e].dst]>>
      fits(e)    == type \in {0, g.edges[e].type}
      from(id) == LET d == IdToDense(g, id)
                      row == SelectSeq(IF incoming THEN InRow(g, d) ELSE Row(g, d), fits)
                  IN  [i \in DOMAIN row |-> hop(id, row[i])]
  IN  FlattenSeq([i \in DOMAIN sources |-> from(sources[i])])

-----------------------------------------------------------------------------
(* Depth-first search *)

\* Discovery order; a node met again nearer the start is expanded again.
RECURSIVE DfsRecurse(_, _, _, _, _)
DfsRecurse(g, node, depth, hops, st) ==
  LET down(acc, e) == DfsRecurse(g, g.edges[e].dst, depth + 1, hops, acc)
      met == [best  |-> [st.best EXCEPT ![node] = depth],
              order |-> IF st.best[node] = Infinity THEN Append(st.order, node) ELSE st.order]
  IN  IF st.best[node] <= depth THEN st
      ELSE IF depth < hops THEN FoldLeft(down, met, Row(g, node))
      ELSE met

Dfs(g, start, hops) ==
  LET s == IdToDense(g, start) IN
  IF s = 0 THEN <<start>>
  ELSE Ids(g, DfsRecurse(g, s, 0, hops,
                         [best |-> [v \in Dense(g) |-> Infinity], order |-> <<>>]).order)

\* Three colours: 0 unseen, 1 on the current path, 2 finished.  A frame is a
\* node and the edges of its row still to walk.
RECURSIVE ColourWalk(_, _, _)
ColourWalk(g, colour, stack) ==
  LET roots == {v \in Dense(g) : colour[v] = 0}
      top   == Last(stack)
      v     == g.edges[Head(top.rest)].dst
      moved == [stack EXCEPT ![Len(stack)].rest = Tail(@)]
      enter(x, st) == ColourWalk(g, [colour EXCEPT ![x] = 1],
                                 Append(st, [node |-> x, rest |-> Row(g, x)]))
  IN  IF stack = <<>> THEN roots # {} /\ enter(Min(roots), stack)
      ELSE IF top.rest = <<>>
           THEN ColourWalk(g, [colour EXCEPT ![top.node] = 2], Front(stack))
      ELSE IF colour[v] = 1 THEN TRUE
      ELSE IF colour[v] = 0 THEN enter(v, moved)
      ELSE ColourWalk(g, colour, moved)

DetectCycle(g) == ColourWalk(g, [v \in Dense(g) |-> 0], <<>>)

-----------------------------------------------------------------------------
(* Unweighted paths *)

\* Back from cur to the source, over the first predecessor one hop closer.
RECURSIVE TraceLevels(_, _, _, _)
TraceLevels(g, levels, src, path) ==
  LET closer(e) == levels[g.edges[e].src] = levels[Head(path)] - 1
      preds == SelectSeq(InAdj(g, Head(path)), closer)
  IN  IF Head(path) = src THEN path
      ELSE IF preds = <<>> THEN <<>>
      ELSE TraceLevels(g, levels, src, <<g.edges[preds[1]].src>> \o path)

\* <<>> stands for None.
ShortestPath(g, src, dst) ==
  LET s == IdToDense(g, src)
      d == IdToDense(g, dst)
      levels == HopDistances(g, s, d)
  IN  IF src = dst THEN <<src>>
      ELSE IF s = 0 \/ d = 0 THEN <<>>
      ELSE IF levels[d] = Unreached THEN <<>>
      ELSE Ids(g, TraceLevels(g, levels, s, <<d>>))

\* The simple paths that extend one to dst, in row order, one per edge.
RECURSIVE WalkSimplePaths(_, _, _)
WalkSimplePaths(g, path, dst) ==
  LET onward(e) ==
        LET v == g.edges[e].dst IN
        IF v \in ToSet(path) THEN <<>>
        ELSE IF v = dst THEN <<Append(path, v)>>
        ELSE WalkSimplePaths(g, Append(path, v), dst)
      row == Row(g, Last(path))
  IN  FlattenSeq([i \in DOMAIN row |-> onward(row[i])])

AllPaths(g, src, dst) ==
  LET s == IdToDense(g, src)
      paths == WalkSimplePaths(g, <<s>>, IdToDense(g, dst))
  IN  IF src = dst THEN <<<<src>>>>
      ELSE IF s = 0 THEN <<>>
      ELSE [i \in DOMAIN paths |-> Ids(g, paths[i])]

\* The first of the longest; <<>> stands for None.
LongestPath(g, src, dst) ==
  LET longer(best, p) == IF best = <<>> \/ Len(p) > Len(best) THEN p ELSE best
  IN  FoldLeft(longer, <<>>, AllPaths(g, src, dst))

\* The plausible slip: one path for every edge into the node.
AdmissiblePredsPerEdge(g, levels, v) ==
  LET add(acc, e) == IF levels[g.edges[e].src] = levels[v] - 1
                     THEN Append(acc, g.edges[e].src) ELSE acc
  IN  FoldLeft(add, <<>>, InAdj(g, v))

\* Predecessors one hop closer, each once whatever the edges that join it.
AdmissiblePreds(g, levels, v) ==
  LET add(acc, e) == LET u == g.edges[e].src IN
                     IF levels[u] = levels[v] - 1 /\ u \notin ToSet(acc) THEN Append(acc, u) ELSE acc
  IN  FoldLeft(add, <<>>, InAdj(g, v))

RECURSIVE WalkBack(_, _, _, _)
WalkBack(g, levels, src, path) ==
  LET preds == AdmissiblePreds(g, levels, Head(path))
      back(u) == IF u = src THEN <<<<u>> \o path>> ELSE WalkBack(g, levels, src, <<u>> \o path)
  IN  FlattenSeq([i \in DOMAIN preds |-> back(preds[i])])

AllShortestPaths(g, src, dst) ==
  LET s == IdToDense(g, src)
      d == IdToDense(g, dst)
      levels == HopDistances(g, s, d)
      paths  == WalkBack(g, levels, s, <<d>>)
  IN  IF src = dst THEN <<<<src>>>>
      ELSE IF s = 0 \/ d = 0 THEN <<>>
      ELSE IF levels[d] = Unreached THEN <<>>
      ELSE [i \in DOMAIN paths |-> Ids(g, paths[i])]

-----------------------------------------------------------------------------
(* Weighted paths *)

Start0(g, s) == [v \in Dense(g) |-> IF v = s THEN 0 ELSE Infinity]

Relaxed(g, dist, e) ==
  LET v == g.edges[e].dst
      c == dist[g.edges[e].src] + g.edges[e].w
  IN  IF dist[g.edges[e].src] # Infinity /\ c < dist[v] THEN [dist EXCEPT ![v] = c] ELSE dist

\* One round of the label-correcting pass: every row in dense order, in place.
CorrectRound(g, dist) ==
  LET relax(acc, e) == Relaxed(g, acc, e)
      rows == FlattenSeq([u \in Dense(g) |-> Row(g, u)])
  IN  FoldLeft(relax, dist, rows)

\* At most n rounds; a graph that still improves has a negative cycle.
RECURSIVE LabelCorrect(_, _, _)
LabelCorrect(g, dist, rounds) ==
  LET next == CorrectRound(g, dist) IN
  IF rounds = 0 THEN [settled |-> FALSE, dist |-> dist]
  ELSE IF next = dist THEN [settled |-> TRUE, dist |-> dist]
  ELSE LabelCorrect(g, next, rounds - 1)

\* The heap pops a cheapest entry, a stale one is skipped.  Entries of equal
\* cost come out in either order of node: low picks which.
Cheapest(heap, low) ==
  LET c == Min({h[1] : h \in heap})
      ties == {h[2] : h \in {x \in heap : x[1] = c}}
  IN  <<c, IF low THEN Min(ties) ELSE Max(ties)>>

\* Dijkstra from s around the blocked nodes and pairs, with predecessors; it
\* ends when the heap is empty or the target t (0: none) is popped.
RECURSIVE Settle(_, _, _)
Settle(g, st, q) ==
  LET top == Cheapest(st.heap, q.low)
      u   == top[2]
      popped == [st EXCEPT !.heap = @ \ {top}]
      relax(acc, e) ==
        LET v == g.edges[e].dst
            c == top[1] + g.edges[e].w
        IN  IF v \in q.nodes \/ <<u, v>> \in q.pairs \/ c >= acc.dist[v] THEN acc
            ELSE [dist |-> [acc.dist EXCEPT ![v] = c], pred |-> [acc.pred EXCEPT ![v] = u],
                  heap |-> acc.heap \cup {<<c, v>>}]
  IN  IF st.heap = {} THEN st
      ELSE IF u = q.target THEN st
      ELSE IF top[1] > st.dist[u] THEN Settle(g, popped, q)
      ELSE Settle(g, FoldLeft(relax, popped, Row(g, u)), q)

Dijkstra(g, s, q) ==
  Settle(g, [dist |-> Start0(g, s), pred |-> [v \in Dense(g) |-> 0], heap |-> {<<0, s>>}], q)

\* Back from dst over the first predecessor whose distance and edge land on
\* the node; a walk longer than the graph is given up.
RECURSIVE TraceWeights(_, _, _, _)
TraceWeights(g, dist, src, path) ==
  LET lands(e) == /\ dist[g.edges[e].src] # Infinity
                  /\ dist[g.edges[e].src] + g.edges[e].w = dist[Head(path)]
      preds == SelectSeq(InAdj(g, Head(path)), lands)
  IN  IF Head(path) = src THEN path
      ELSE IF Len(path) > Len(g.ids) \/ preds = <<>> THEN <<>>
      ELSE TraceWeights(g, dist, src, <<g.edges[preds[1]].src>> \o path)

Failed == [nodes |-> <<>>, weight |-> -1, error |-> TRUE]
NoPath == [nodes |-> <<>>, weight |-> -1, error |-> FALSE]
WeightedPath(nodes, weight) == [nodes |-> nodes, weight |-> weight, error |-> FALSE]

ShortestPathDijkstra(g, src, dst) ==
  LET s == IdToDense(g, src)
      d == IdToDense(g, dst)
      negative  == \E e \in EdgeIds(g) : g.edges[e].w < 0
      corrected == LabelCorrect(g, Start0(g, s), Len(g.ids))
      dist == IF negative THEN corrected.dist
              ELSE Dijkstra(g, s, [target |-> 0, nodes |-> {}, pairs |-> {}, low |-> TRUE]).dist
      path == TraceWeights(g, dist, s, <<d>>)
  IN  IF src = dst THEN WeightedPath(<<src>>, 0)
      ELSE IF s = 0 \/ d = 0 THEN NoPath
      ELSE IF negative /\ ~corrected.settled THEN Failed
      ELSE IF dist[d] = Infinity \/ path = <<>> THEN NoPath
      ELSE WeightedPath(Ids(g, path), dist[d])

\* The cheapest edge that joins a pair, as the sum over a path needs it.
PairWeight(g, u, v) ==
  Min({g.edges[e].w : e \in {x \in EdgeIds(g) : g.edges[x].src = u /\ g.edges[x].dst = v}})

RECURSIVE Cost(_, _)
Cost(g, path) == IF Len(path) < 2 THEN 0 ELSE PairWeight(g, path[1], path[2]) + Cost(g, Tail(path))

RECURSIVE TracePreds(_, _, _)
TracePreds(pred, s, path) ==
  IF Head(path) = s THEN path ELSE TracePreds(pred, s, <<pred[Head(path)]>> \o path)

\* Yen's spur: a cheapest path from one node of an accepted path, leaving it.
SpurPath(g, s, dst, blockedNodes, blockedPairs, low) ==
  LET st == Dijkstra(g, s, [target |-> dst, nodes |-> blockedNodes, pairs |-> blockedPairs, low |-> low])
  IN  IF st.heap = {} THEN <<>> ELSE TracePreds(st.pred, s, <<dst>>)

Spurs(g, paths, dst, low) ==
  LET prev == Last(paths)
      root(j) == SubSeq(prev, 1, j)
      taken(j) == {<<p[j], p[j + 1]>> : p \in {x \in ToSet(paths) : Len(x) > j /\ SubSeq(x, 1, j) = root(j)}}
      from(spurs) == {root(j) \o Tail(spurs[j]) : j \in {i \in DOMAIN spurs : spurs[i] # <<>>}}
  IN  from([j \in 1 .. Len(prev) - 1 |-> SpurPath(g, prev[j], dst, ToSet(SubSeq(prev, 1, j - 1)), taken(j), low)])

LexLess(p, q) ==
  LET i == CHOOSE j \in 1 .. Len(p) : p[j] # q[j] /\ SubSeq(p, 1, j - 1) = SubSeq(q, 1, j - 1) IN p[i] < q[i]

RECURSIVE YenRounds(_, _, _, _, _, _)
YenRounds(g, paths, candidates, k, dst, low) ==
  LET cheap(found) == {p \in found : \A q \in found : Cost(g, p) <= Cost(g, q)}
      best(paths1) == CHOOSE p \in paths1 : \A q \in paths1 \ {p} : LexLess(p, q)
      accept(found, p) == YenRounds(g, Append(paths, p), found \ {p}, k, dst, low)
      from(found) == IF found = {} THEN paths ELSE accept(found, best(cheap(found)))
  IN  IF Len(paths) = k THEN paths ELSE from(candidates \cup Spurs(g, paths, dst, low))

ShortestPathTopK(g, src, dst, k, low) ==
  LET s == IdToDense(g, src)
      d == IdToDense(g, dst)
      listed(paths) == [i \in DOMAIN paths |-> [nodes |-> Ids(g, paths[i]), weight |-> Cost(g, paths[i])]]
      from(first) == IF first = <<>> THEN <<>> ELSE listed(YenRounds(g, <<first>>, {}, k, d, low))
  IN  IF k = 0 THEN <<>>
      ELSE IF src = dst THEN <<[nodes |-> <<src>>, weight |-> 0]>>
      ELSE IF s = 0 \/ d = 0 THEN <<>>
      ELSE from(SpurPath(g, s, d, {}, {}, low))

-----------------------------------------------------------------------------
(* Forests and flows *)

\* Edges in the order the forest considers them: by weight, then row order.
ByWeight(g, maximum) ==
  LET key(e)  == IF maximum THEN -g.edges[e].w ELSE g.edges[e].w
      less(a, b) == \/ key(a) < key(b)
                    \/ key(a) = key(b) /\ g.edges[a].src < g.edges[b].src
                    \/ key(a) = key(b) /\ g.edges[a].src = g.edges[b].src /\ a < b
  IN  SortSeq(Ascending(EdgeIds(g), Len(g.edges)), less)

\* An edge that joins two trees is kept; root is the union-find's answer.
SpanningForest(g, maximum) ==
  LET join(acc, e) ==
        LET a == acc.root[g.edges[e].src]
            b == acc.root[g.edges[e].dst]
        IN  IF a = b THEN acc
            ELSE [root |-> [v \in Dense(g) |-> IF acc.root[v] = a THEN b ELSE acc.root[v]],
                  forest |-> Append(acc.forest, e)]
  IN  FoldLeft(join, [root |-> [v \in Dense(g) |-> v], forest |-> <<>>], ByWeight(g, maximum)).forest

\* Capacities summed over parallel edges; only positive ones carry anything.
Residual(g) ==
  [p \in Dense(g) \X Dense(g) |->
     MapThenSumSet(LAMBDA e : g.edges[e].w,
       {e \in EdgeIds(g) : g.edges[e].w > 0 /\ <<g.edges[e].src, g.edges[e].dst>> = p})]

\* Breadth first over the pairs with residual capacity, neighbours in order;
\* the queue is cut at the sink.
RECURSIVE AugmentingPath(_, _, _, _, _)
AugmentingPath(g, residual, queue, parent, sink) ==
  LET u == Head(queue)
      fresh == {v \in Dense(g) : v \notin DOMAIN parent /\ residual[u, v] > 0}
      grown == [v \in DOMAIN parent \cup fresh |-> IF v \in fresh THEN u ELSE parent[v]]
  IN  IF queue = <<>> THEN <<>>
      ELSE IF u = sink THEN parent
      ELSE AugmentingPath(g, residual, Tail(queue) \o Ascending(fresh, Len(g.ids)), grown, sink)

RECURSIVE Augment(_, _, _, _, _)
Augment(g, residual, flow, source, sink) ==
  LET parent == AugmentingPath(g, residual, <<source>>, [v \in {source} |-> source], sink)
      path   == TracePreds(parent, source, <<sink>>)
      pairs  == {<<path[i], path[i + 1]>> : i \in 1 .. Len(path) - 1}
      bottleneck == Min({residual[p] : p \in pairs})
      pushed == [p \in DOMAIN residual |->
                   residual[p] - (IF p \in pairs THEN bottleneck ELSE 0)
                               + (IF <<p[2], p[1]>> \in pairs THEN bottleneck ELSE 0)]
  IN  IF parent = <<>> THEN flow
      ELSE Augment(g, pushed, flow + bottleneck, source, sink)

MaximumFlow(g, source, sink) ==
  LET s == IdToDense(g, source)
      t == IdToDense(g, sink)
  IN  IF source = sink \/ s = 0 \/ t = 0 THEN 0 ELSE Augment(g, Residual(g), 0, s, t)
=============================================================================
