---------------------------- MODULE KernelCalls ----------------------------
(***************************************************************************)
(* Calls of the graph kernels on small multigraphs, each answer held       *)
(* against what it is defined to be: the searches and paths against the    *)
(* simple paths of the graph, the forest and the flow against all edge     *)
(* subsets and cuts, the scores and communities against reachability and   *)
(* modularity, the counts against the assignments of the pattern, and      *)
(* retrieval against what lies around the hits.                            *)
(***************************************************************************)
EXTENDS Analytics, PatternCounts, Retrieval

CONSTANTS
  Graphs,    \* the snapshots calls run on
  MaxNodes,  \* the most nodes one of them has
  MaxHops,   \* the deepest search asked for
  MaxPaths   \* the most paths shortest_path_top_k is asked for

VARIABLES
  graph,  \* the snapshot
  call    \* the call made on it and its answers

vars == <<graph, call>>

NoCall == [op |-> "none"]

Plain(g)       == \A e \in EdgeIds(g) : g.edges[e].w = 1
NonNegative(g) == \A e \in EdgeIds(g) : g.edges[e].w >= 0

\* An id no node of the graph has: a node deleted since the caller learned it.
Gone(g)  == Last(g.ids) + 1
Names(g) == ToSet(g.ids) \cup {Gone(g)}

Init == graph \in Graphs /\ call = NoCall

Ready  == call = NoCall
Ask(c) == call' = c /\ UNCHANGED graph

CallSearch == Ready /\ \E start \in Names(graph), hops \in 0 .. MaxHops :
  /\ Plain(graph)
  /\ Ask([op |-> "search", start |-> start, hops |-> hops,
          bfs |-> Bfs(graph, start, hops), dfs |-> Dfs(graph, start, hops)])

CallMultiSource == Ready /\
  \E a \in Names(graph), b \in Names(graph), hops \in 0 .. MaxHops, max \in 0 .. MaxNodes :
    /\ Plain(graph)
    /\ Ask([op |-> "multi", seeds |-> <<a, b, a>>, hops |-> hops, max |-> max,
            got |-> BfsMultiSource(graph, <<a, b, a>>, hops, max)])

CallExpand == Ready /\ \E a \in Names(graph), type \in 0 .. 2 :
  /\ Plain(graph)
  /\ Ask([op |-> "expand", sources |-> <<a>> \o graph.ids, type |-> type,
          out |-> ExpandBulk(graph, <<a>> \o graph.ids, type, FALSE),
          in  |-> ExpandBulk(graph, graph.ids, type, TRUE)])

CallPaths == Ready /\ \E src \in Names(graph), dst \in Names(graph) :
  /\ Plain(graph)
  /\ Ask([op |-> "paths", src |-> src, dst |-> dst, shortest |-> ShortestPath(graph, src, dst),
          all |-> AllPaths(graph, src, dst), allShortest |-> AllShortestPaths(graph, src, dst),
          longest |-> LongestPath(graph, src, dst)])

CallDijkstra == Ready /\ \E src \in Names(graph), dst \in Names(graph) :
  Ask([op |-> "dijkstra", src |-> src, dst |-> dst, got |-> ShortestPathDijkstra(graph, src, dst)])

CallTopK == Ready /\ \E src \in Names(graph), dst \in Names(graph), low \in BOOLEAN, k \in {0, MaxPaths} :
  /\ NonNegative(graph)
  /\ Ask([op |-> "topk", src |-> src, dst |-> dst, k |-> k,
          got |-> ShortestPathTopK(graph, src, dst, k, low)])

CallForest == Ready /\ \E maximum \in BOOLEAN :
  Ask([op |-> "forest", maximum |-> maximum, got |-> SpanningForest(graph, maximum)])

CallFlow == Ready /\ \E src \in Names(graph), dst \in Names(graph) :
  Ask([op |-> "flow", src |-> src, dst |-> dst, got |-> MaximumFlow(graph, src, dst)])

\* Three PageRank rounds stay exact in this unit.
RankUnit == 165888

CallScores ==
  /\ Ready /\ Plain(graph)
  /\ Ask([op |-> "scores", cycle |-> DetectCycle(graph),
          comps |-> ConnectedComponents(graph), scc |-> StronglyConnectedComponents(graph),
          between |-> BetweennessCentrality(graph), harmonic |-> HarmonicCentrality(graph),
          close |-> ClosenessCentrality(graph), both |-> DegreeCentrality(graph, "both"),
          out |-> DegreeCentrality(graph, "out"),
          rank |-> PageRank(graph, [v \in Dense(graph) |-> RankUnit \div Len(graph.ids)], 3, RankUnit),
          cluster |-> ClusteringCoefficient(graph),
          labels |-> LabelPropagation(graph, graph.ids, MaxHops), louvain |-> Louvain(graph)])

CallTriangles == Ready /\ \E types \in [1 .. 3 -> 0 .. 2], label \in {"A", "any"} :
  /\ Plain(graph)
  /\ LET labels == <<label, "any", "A">> IN
     Ask([op |-> "triangles", types |-> types, labels |-> labels,
          got |-> CountTriangleCycles(graph, types, labels)])

CallLinear == Ready /\ \E types \in [1 .. 1 -> 0 .. 2] \cup [1 .. 2 -> 0 .. 2], label \in {"A", "any"}, out \in Names(graph) :
  /\ Plain(graph)
  /\ LET labels == <<label, "any", "A">>
         allow  == <<Dense(graph), Dense(graph) \ {IdToDense(graph, out)}, Dense(graph)>>
     IN  Ask([op |-> "linear", types |-> types, labels |-> labels, allow |-> allow,
              got |-> CountLinearPaths(graph, types, labels, allow)])

CallGrouped == Ready /\ \E type \in 0 .. 2, dst \in BOOLEAN, nonnull \in BOOLEAN, out \in Names(graph) :
  /\ Plain(graph)
  /\ LET counted == Dense(graph) \ {IdToDense(graph, out)}
         members == SelectSeq(<<Gone(graph)>> \o graph.ids,
                              LAMBDA id : IdToDense(graph, id) \in LabelMask(graph, "A") \cup {0})
     IN  Ask([op |-> "grouped", type |-> type, dst |-> dst, nonnull |-> nonnull, counted |-> counted,
              members |-> members,
              got |-> GroupedEdgeCounts(graph, type, dst, LabelMask(graph, "A"), counted, nonnull),
              hops |-> TypedNeighborCounts(graph, members, type, dst, counted, nonnull)])

\* Up to two hits, a deleted node perhaps among them.
Rankings(g) == {Found(<<>>)} \cup {Found(<<Hit(a, 1)>>) : a \in Names(g)}
  \cup {Found(<<Hit(p[1], 1), Hit(p[2], 2)>>) : p \in {q \in Names(g) \X Names(g) : q[1] # q[2]}}
Caps == (0 .. MaxNodes) \cup {NoCap}
\* An index without embeddings, and any other error of either search.
VectorErrors == {EmptyIndex, SearchError("dimension mismatch")}
TextErrors == {SearchError("label not indexed")}

CallRetrieve == Ready /\
  \E vector \in Rankings(graph) \cup VectorErrors, hops \in 0 .. 2, far \in 1 .. 2, max \in Caps :
    /\ Plain(graph)
    /\ LET opts == [hops |-> hops, max_distance |-> far, max_nodes |-> max] IN
       Ask([op |-> "retrieve", vector |-> vector, text |-> NotAsked, opts |-> opts,
            got |-> retrieve_with(graph, vector, opts)])

CallHybrid == Ready /\
  \E vector \in Rankings(graph) \cup {NotAsked} \cup VectorErrors,
     text \in Rankings(graph) \cup {NotAsked} \cup TextErrors,
     fusion \in {Rrf(1), WeightedSum(1, 1), WeightedSum(1, 3)}, hops \in 0 .. 1, max \in {1, 2, NoCap} :
    /\ Plain(graph) /\ Len(graph.ids) = MaxNodes
    /\ LET opts == [hops |-> hops, max_distance |-> 1, max_nodes |-> max,
                    vector_k |-> 2, text_k |-> 2, fusion |-> fusion] IN
       Ask([op |-> "hybrid", vector |-> vector, text |-> text, opts |-> opts,
            got |-> retrieve_hybrid(graph, vector, text, opts)])

Next == \/ CallSearch \/ CallMultiSource \/ CallExpand \/ CallPaths \/ CallDijkstra \/ CallTopK
        \/ CallForest \/ CallFlow \/ CallScores \/ CallTriangles \/ CallLinear \/ CallGrouped
        \/ CallRetrieve \/ CallHybrid

Spec == Init /\ [][Next]_vars

-----------------------------------------------------------------------------
(* What the answers are defined to be *)

\* Every order of up to MaxNodes distinct nodes.
Orders == UNION {{p \in [1 .. k -> 1 .. MaxNodes] : \A i, j \in 1 .. k : p[i] = p[j] => i = j} :
                   k \in 1 .. MaxNodes}

Joins(g, u, v) == {e \in EdgeIds(g) : g.edges[e].src = u /\ g.edges[e].dst = v}

SimplePaths(g, s, d) ==
  {p \in Orders : /\ p[1] = s /\ Last(p) = d
                  /\ \A i \in 1 .. Len(p) - 1 : Joins(g, p[i], p[i + 1]) # {}}

Hops(g, s, d) == LET ps == SimplePaths(g, s, d) IN
                 IF ps = {} THEN Infinity ELSE Min({Len(p) - 1 : p \in ps})

\* A cycle of distinct nodes, as the path that closes on its first node.
Cycles(g) == {p \in Orders : /\ p[1] \in Dense(g)
                             /\ \A i \in 1 .. Len(p) - 1 : Joins(g, p[i], p[i + 1]) # {}
                             /\ Joins(g, Last(p), p[1]) # {}}
CycleCost(g, p) == Cost(g, p) + PairWeight(g, Last(p), p[1])

Known(g, names) == {IdToDense(g, id) : id \in names} \ {0}
Within(g, seeds, hops) == {v \in Dense(g) : \E s \in seeds : Hops(g, s, v) <= hops}
Nearest(g, seeds, v) == Min({Hops(g, s, v) : s \in seeds})

SearchRight(g, c) ==
  LET near == Within(g, Known(g, {c.start}), c.hops)
      ids  == {g.ids[v] : v \in near}
  IN  /\ c.bfs = Ids(g, Ascending(near, Len(g.ids)))
      /\ IsInjective(c.dfs) /\ c.dfs[1] = c.start
      /\ ToSet(c.dfs) = ids \cup {c.start}

\* Within the cap, nearest first, and marked as cut exactly when it is.
MultiRight(g, c) ==
  LET seeds == Known(g, ToSet(c.seeds))
      near  == Within(g, seeds, c.hops)
      got   == Known(g, ToSet(c.got.nodes))
  IN  /\ c.got.nodes = Ids(g, Ascending(got, Len(g.ids)))
      /\ got \subseteq near /\ Cardinality(got) <= c.max
      /\ c.got.truncated <=> got # near
      /\ \A u \in got, v \in near \ got : Nearest(g, seeds, u) <= Nearest(g, seeds, v)

\* An edge once from its tail and once from its head; a repeated source twice.
ExpandRight(g, c) ==
  LET times(id, e) == Cardinality({i \in DOMAIN c.sources : c.sources[i] = id})
      tails == {e \in EdgeIds(g) : c.type \in {0, g.edges[e].type}}
  IN  /\ \A e \in tails : LET t == <<g.ids[g.edges[e].src], e, g.ids[g.edges[e].dst]>> IN
           /\ Cardinality({i \in DOMAIN c.out : c.out[i] = t}) = times(t[1], e)
           /\ Cardinality({i \in DOMAIN c.in : c.in[i] = <<t[3], e, t[1]>>}) = 1
      /\ {t[2] : t \in ToSet(c.out)} = tails /\ {t[2] : t \in ToSet(c.in)} = tails

PathsOf(g, src, dst) ==
  IF src = dst THEN {<<src>>}
  ELSE {Ids(g, p) : p \in SimplePaths(g, IdToDense(g, src), IdToDense(g, dst))}

PathRight(g, c) ==
  LET ps    == PathsOf(g, c.src, c.dst)
      short == {p \in ps : \A q \in ps : Len(p) <= Len(q)}
      long  == {p \in ps : \A q \in ps : Len(q) <= Len(p)}
      ways(p) == FoldLeft(LAMBDA n, i : n * Cardinality(Joins(g, IdToDense(g, p[i]), IdToDense(g, p[i + 1]))),
                          1, [i \in 1 .. Len(p) - 1 |-> i])
  IN  /\ IF ps = {} THEN c.shortest = <<>> /\ c.longest = <<>>
         ELSE c.shortest \in short /\ c.longest \in long
      /\ ToSet(c.all) = ps
      /\ \A p \in ps : Cardinality({i \in DOMAIN c.all : c.all[i] = p}) = ways(p)
      /\ ToSet(c.allShortest) = short /\ IsInjective(c.allShortest)

\* No answer to a reachable target only where a cycle costs nothing.
DijkstraRight(g, c) ==
  LET s  == IdToDense(g, c.src)
      d  == IdToDense(g, c.dst)
      ps == SimplePaths(g, s, d)
      bad == {p \in Cycles(g) : CycleCost(g, p) < 0 /\ Hops(g, s, p[1]) < Infinity}
      path == [i \in DOMAIN c.got.nodes |-> IdToDense(g, c.got.nodes[i])]
  IN  IF c.src = c.dst THEN c.got = WeightedPath(<<c.src>>, 0)
      ELSE IF s = 0 \/ d = 0 THEN c.got = NoPath
      ELSE /\ c.got.error <=> bad # {}
           /\ c.got.error \/ c.got = NoPath \/ path \in ps
           /\ path \in ps => /\ c.got.weight = Cost(g, path)
                             /\ \A p \in ps : Cost(g, path) <= Cost(g, p)
           /\ c.got = NoPath => ps = {} \/ \E p \in Cycles(g) : CycleCost(g, p) = 0

RECURSIVE Sorted(_, _)
Sorted(g, ps) ==
  IF ps = {} THEN <<>>
  ELSE LET p == CHOOSE x \in ps : \A y \in ps : Cost(g, x) <= Cost(g, y)
       IN  <<Cost(g, p)>> \o Sorted(g, ps \ {p})

TopKRight(g, c) ==
  LET s  == IdToDense(g, c.src)
      d  == IdToDense(g, c.dst)
      ps == SimplePaths(g, s, d)
      costs == IF c.src = c.dst THEN <<0>> ELSE Sorted(g, ps)
      nodes == [i \in DOMAIN c.got |-> c.got[i].nodes]
  IN  /\ [i \in DOMAIN c.got |-> c.got[i].weight] = SubSeq(costs, 1, Min({c.k, Len(costs)}))
      /\ ToSet(nodes) \subseteq PathsOf(g, c.src, c.dst) /\ IsInjective(nodes)
      /\ s # d => \A i \in DOMAIN c.got :
           c.got[i].weight = Cost(g, [j \in DOMAIN nodes[i] |-> IdToDense(g, nodes[i][j])])

\* Weakly joined: in one block of every partition no edge of the set crosses.
Linked(g, es, u, v) ==
  \A S \in SUBSET Dense(g) :
    u \in S /\ (\A e \in es : g.edges[e].src \in S <=> g.edges[e].dst \in S) => v \in S

IsForest(g, es) == \A e \in es : ~Linked(g, es \ {e}, g.edges[e].src, g.edges[e].dst)
Spans(g, es)    == \A e \in EdgeIds(g) : Linked(g, es, g.edges[e].src, g.edges[e].dst)

ForestRight(g, c) ==
  LET got == ToSet(c.got)
      weight(es) == MapThenSumSet(LAMBDA e : g.edges[e].w, es)
  IN  /\ IsInjective(c.got) /\ IsForest(g, got) /\ Spans(g, got)
      /\ \A es \in SUBSET EdgeIds(g) :
           Cardinality(es) = Cardinality(got) /\ IsForest(g, es) =>
             IF c.maximum THEN weight(es) <= weight(got) ELSE weight(es) >= weight(got)

\* The least capacity that leaves a set with the source and without the sink.
MinCut(g, s, t) ==
  Min({MapThenSumSet(LAMBDA e : Max({g.edges[e].w, 0}),
         {e \in EdgeIds(g) : g.edges[e].src \in S /\ g.edges[e].dst \notin S}) :
       S \in {T \in SUBSET Dense(g) : s \in T /\ t \notin T}})

FlowRight(g, c) ==
  LET s == IdToDense(g, c.src)
      t == IdToDense(g, c.dst)
  IN  c.got = IF c.src = c.dst \/ s = 0 \/ t = 0 THEN 0 ELSE MinCut(g, s, t)

(***************************************************************************)
(* Every search and path answer is the right one for its graph: a capped   *)
(* breadth-first search keeps nearest nodes first and says exactly when it *)
(* was cut, a depth-first search misses no node for having met it first on *)
(* a longer branch, shortest, longest and k-shortest paths are real simple *)
(* paths of the right cost with parallel edges, self-loops, gaps in the    *)
(* ids and zero or negative weights, the forest is a lightest one and the  *)
(* flow fills the least cut.                                               *)
(***************************************************************************)
PathsRight ==
  /\ call.op = "search"   => SearchRight(graph, call)
  /\ call.op = "multi"    => MultiRight(graph, call)
  /\ call.op = "expand"   => ExpandRight(graph, call)
  /\ call.op = "paths"    => PathRight(graph, call)
  /\ call.op = "dijkstra" => DijkstraRight(graph, call)
  /\ call.op = "topk"     => TopKRight(graph, call)
  /\ call.op = "forest"   => ForestRight(graph, call)
  /\ call.op = "flow"     => FlowRight(graph, call)

Reaches(g, u, v) == Hops(g, u, v) < Infinity

\* Shortest paths from s to d, and those among them that pass through v.
Through(g, s, d, v) ==
  LET ps == {p \in SimplePaths(g, s, d) : Len(p) = Hops(g, s, d) + 1}
      vs == {p \in ps : v \in ToSet(p)}
  IN  IF ps = {} \/ v \in {s, d} \/ s = d THEN 0 ELSE (Unit * Cardinality(vs)) \div Cardinality(ps)

\* Modularity times (2m)^2 of a partition given as a label per node.
Modularity(g, label) ==
  LET lv == FromSnapshot(g)
      of(l) == {u \in Dense(g) : label[u] = l}
      inside(l) == MapThenSumSet(LAMBDA p : lv.w[p[1]][p[2]], of(l) \X of(l))
                   + 2 * MapThenSumSet(LAMBDA u : lv.loops[u], of(l))
      degree(l) == MapThenSumSet(LAMBDA u : lv.degree[u], of(l))
  IN  MapThenSumSet(LAMBDA l : lv.total * inside(l) - degree(l) * degree(l), {label[u] : u \in Dense(g)})

ScoreRight(g, c) ==
  LET all == EdgeIds(g)
      far(s, f(_)) == MapThenSumSet(f, {v \in Dense(g) \ {s} : Reaches(g, s, v)})
  IN  /\ c.cycle <=> Cycles(g) # {}
      /\ \A u, v \in Dense(g) :
           /\ (c.comps[u] = c.comps[v]) <=> Linked(g, all, u, v)
           /\ (c.scc[u] = c.scc[v]) <=> Reaches(g, u, v) /\ Reaches(g, v, u)
           /\ v \in Out(g, u) => c.scc[u] >= c.scc[v]
           /\ c.labels[u] = g.ids[v] => Linked(g, all, u, v)
           /\ c.louvain[u] = c.louvain[v] => Linked(g, all, u, v)
      /\ \A v \in Dense(g) :
           /\ c.comps[v] = Min({c.comps[v]} \cup {g.ids[u] : u \in {x \in Dense(g) : c.comps[x] = c.comps[v]}})
           /\ c.between[v] = MapThenSumSet(LAMBDA p : Through(g, p[1], p[2], v), Dense(g) \X Dense(g))
           /\ c.harmonic[v] = far(v, LAMBDA u : Unit \div Hops(g, v, u))
           /\ c.close[v][1] * far(v, LAMBDA u : Hops(g, v, u)) * (Len(g.ids) - 1)
              = c.close[v][2] * far(v, LAMBDA u : 1) * far(v, LAMBDA u : 1)
           /\ c.cluster[v][1] <= c.cluster[v][2] /\ c.cluster[v][1] % 2 = 0
           /\ c.louvain[v] = g.ids[Min({u \in Dense(g) : c.louvain[u] = c.louvain[v]})]
      /\ MapThenSumSet(LAMBDA v : c.both[v], Dense(g)) = 2 * MapThenSumSet(LAMBDA v : c.out[v], Dense(g))
      /\ LET mass == MapThenSumSet(LAMBDA v : c.rank[v], Dense(g)) IN
         IF \A v \in Dense(g) : Out(g, v) # {} THEN mass = RankUnit ELSE mass < RankUnit
      /\ Modularity(g, c.louvain) >= Modularity(g, g.ids)

(***************************************************************************)
(* The whole-graph scores mean what they are named for on multigraphs with *)
(* self-loops and deleted ids: components are the classes of reachability, *)
(* named after their smallest id, strong ones numbered against the edges;  *)
(* betweenness counts each shortest node path once however many parallel   *)
(* edges it has; PageRank loses mass exactly at nodes without out-edges;   *)
(* and a Louvain partition never joins unconnected nodes nor scores below  *)
(* leaving every node alone.                                               *)
(***************************************************************************)
ScoresRight == call.op = "scores" => ScoreRight(graph, call)

\* Assignments of edges to the hops of a path, no edge twice.
Assignments(g, types) ==
  {a \in [1 .. Len(types) -> EdgeIds(g)] :
     /\ IsInjective(a) /\ \A i \in DOMAIN a : types[i] \in {0, g.edges[a[i]].type}
     /\ \A i \in 1 .. Len(types) - 1 : g.edges[a[i]].dst = g.edges[a[i + 1]].src}

HasLabel(g, d, label) == label = "any" \/ label \in g.labels[d]

TrianglesRight(g, c) ==
  c.got = Cardinality({a \in Assignments(g, c.types) :
     /\ g.edges[a[3]].dst = g.edges[a[1]].src
     /\ \A i \in 1 .. 3 : HasLabel(g, g.edges[a[i]].src, c.labels[i])})

LinearRight(g, c) ==
  LET hops == Len(c.types)
      node(a, i) == IF i > hops THEN g.edges[a[hops]].dst ELSE g.edges[a[i]].src
  IN  c.got = Cardinality({a \in Assignments(g, c.types) :
                 \A i \in 1 .. hops + 1 : HasLabel(g, node(a, i), c.labels[i]) /\ node(a, i) \in c.allow[i]})

\* A group per node with something to count; the per-source kernel agrees with
\* it.  Whether a group that counts nothing is listed is left open.
GroupedRight(g, c) ==
  LET group(e) == IF c.dst THEN g.edges[e].dst ELSE g.edges[e].src
      other(e) == IF c.dst THEN g.edges[e].src ELSE g.edges[e].dst
      rows(d)  == {e \in EdgeIds(g) : c.type \in {0, g.edges[e].type} /\ group(e) = d /\ other(e) \in c.counted}
      counted(d) == {e \in rows(d) : ~c.nonnull \/ other(e) \in g.present}
      groups == {d \in Dense(g) : "A" \in g.labels[d] /\ rows(d) # {}}
  IN  /\ {d \in groups : counted(d) # {}} \subseteq DOMAIN c.got /\ DOMAIN c.got \subseteq groups
      /\ \A d \in DOMAIN c.got : c.got[d] = Cardinality(counted(d))
      /\ \A i \in DOMAIN c.members : LET d == IdToDense(g, c.members[i]) IN
           c.hops[i] = <<Cardinality(rows(d)), Cardinality(counted(d))>>

(***************************************************************************)
(* A count lowered to an adjacency kernel is the number of rows the MATCH  *)
(* would have produced: parallel edges multiply, no edge fills two hops,   *)
(* which only a self-loop could, every group with something to count has   *)
(* its count and no group a wrong one, and the per-source counts agree     *)
(* with the grouped ones by whichever pass they are taken.                 *)
(***************************************************************************)
CountsRight ==
  /\ call.op = "triangles" => TrianglesRight(graph, call)
  /\ call.op = "linear"    => LinearRight(graph, call)
  /\ call.op = "grouped"   => GroupedRight(graph, call)

-----------------------------------------------------------------------------
\* A path whichever way its edges point.
Around(g, seeds, hops) ==
  LET joined(u, v) == Joins(g, u, v) \cup Joins(g, v, u) # {} IN
  {v \in Dense(g) : \E p \in Orders : /\ p[1] \in seeds /\ Last(p) = v /\ Len(p) <= hops + 1
                                      /\ \A i \in 1 .. Len(p) - 1 : joined(p[i], p[i + 1])}

Seen(c) == Found(SelectSeq(c.vector.hits, LAMBDA h : h.distance <= c.opts.max_distance))
Place(ranking, id) ==
  IF \E i \in DOMAIN ranking.hits : ranking.hits[i].node = id
  THEN CHOOSE i \in DOMAIN ranking.hits : ranking.hits[i].node = id ELSE Infinity
\* No worse in either ranking, and better in one.
Ahead(c, a, b) ==
  LET pa == <<Place(Seen(c), a), Place(c.text, a)>>
      pb == <<Place(Seen(c), b), Place(c.text, b)>>
  IN  pa[1] <= pb[1] /\ pa[2] <= pb[2] /\ pa # pb

(***************************************************************************)
(* A retrieved subgraph is what lies within the hops of the hits that      *)
(* qualify, with every edge between its nodes and no other; a cap keeps it *)
(* nearest first and, among hits, never one and not another that is ahead  *)
(* of it in one ranking and behind in none; it is marked as cut exactly    *)
(* when something is missing (Subgraph::truncated).  A call fails with the *)
(* first error of a search it makes, or if it makes none, and an index     *)
(* without embeddings fails it only when no text search is made beside it  *)
(* (retrieve_with, retrieve_hybrid).                                       *)
(***************************************************************************)
SubgraphsRight == call.op \in {"retrieve", "hybrid"} =>
  LET c     == call
      hits  == {h.node : h \in ToSet(Seen(c).hits) \cup ToSet(c.text.hits)}
      known == Known(graph, hits)
      got   == Known(graph, c.got.nodes)
      near(h)  == Around(graph, known, h)
      made(s) == s # NotAsked
      failed(s) == made(s) /\ s.is # "found"
      excused == c.vector = EmptyIndex /\ made(c.text)
      errors == SelectSeq(<<c.vector, c.text>>, LAMBDA s : failed(s) /\ ~(s = c.vector /\ excused))
  IN  IF ~made(c.vector) /\ ~made(c.text) THEN c.got = NoQuery
      ELSE IF errors # <<>> THEN c.got = errors[1]
      ELSE /\ got \subseteq near(c.opts.hops) /\ Cardinality(got) <= c.opts.max_nodes
           /\ c.got.truncated <=> got # near(c.opts.hops)
           /\ c.got.truncated => Cardinality(got) = c.opts.max_nodes
           /\ \A h \in 0 .. c.opts.hops : got \subseteq near(h) \/ near(h) \subseteq got
           /\ \A a, b \in hits : Ahead(c, a, b) /\ IdToDense(graph, b) \in got /\ IdToDense(graph, a) # 0
                                  => IdToDense(graph, a) \in got
           /\ c.got.edges = {e \in EdgeIds(graph) : {graph.edges[e].src, graph.edges[e].dst} \subseteq got}
           /\ DOMAIN c.got.scores = hits \cap {graph.ids[v] : v \in got}
=============================================================================
