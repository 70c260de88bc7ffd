----------------------------- MODULE Retrieval -----------------------------
(***************************************************************************)
(* Retrieval of a subgraph around the hits of a vector search, a text      *)
(* search or both (issundb-retrieval retrieve.rs), over one snapshot as    *)
(* Kernels has it.  The searches' answers are given: the hits, best first, *)
(* or the error; NotAsked is a search that is disabled or has no query.    *)
(* Scores are exact fractions.                                             *)
(***************************************************************************)
EXTENDS Kernels

Found(hits) == [is |-> "found", hits |-> hits]
NotAsked    == [is |-> "not asked", hits |-> <<>>]
EmptyIndex  == [is |-> "empty index", hits |-> <<>>]
SearchError(why) == [is |-> why, hits |-> <<>>]  \* any other error of a search
NoQuery     == [is |-> "no query", hits |-> <<>>]
NoCap       == Infinity  \* max_nodes: None

Hit(node, distance) == [node |-> node, distance |-> distance]
Subgraph(nodes, edges, scores, truncated) ==
  [nodes |-> nodes, edges |-> edges, scores |-> scores, truncated |-> truncated]
Nothing == Subgraph({}, {}, <<>>, FALSE)

-----------------------------------------------------------------------------
(* Expansion *)

Neighbours(g, ids) ==
  LET from(incoming) == {h[3] : h \in ToSet(ExpandBulk(g, SetToSeq(ids), 0, incoming))}
  IN  from(FALSE) \cup from(TRUE)

Smallest(ids, n) == {i \in ids : Cardinality({j \in ids : j < i}) < n}

\* Hop after hop, both ways; the hop that passes the cap keeps its lowest ids.
RECURSIVE Expand(_, _, _, _, _)
Expand(g, frontier, visited, hops, max) ==
  LET room == max - Cardinality(visited)
      to(next) == IF next = {} THEN [nodes |-> visited, truncated |-> FALSE]
                  ELSE IF Cardinality(next) > room
                       THEN [nodes |-> visited \cup Smallest(next, room), truncated |-> TRUE]
                  ELSE Expand(g, next, visited \cup next, hops - 1, max)
  IN  to(IF hops = 0 THEN {} ELSE Neighbours(g, frontier) \ visited)

\* Seeds in the order given, each once, the unknown skipped, up to the cap.
bfs_multi_source_undirected(g, seeds, hops, max) ==
  LET first(i) == seeds[i] \in ToSet(g.ids) /\ \A j \in 1 .. i - 1 : seeds[j] # seeds[i]
      known == {i \in DOMAIN seeds : first(i)}
      cut == Cardinality(known) > max
      spread(admitted) == IF admitted = {} THEN [nodes |-> {}, truncated |-> cut]
                          ELSE [Expand(g, admitted, admitted, hops, max) EXCEPT !.truncated = @ \/ cut]
  IN  spread({seeds[i] : i \in Smallest(known, max)})

\* Every edge between two of the nodes, found from its tail.
induced_edges(g, nodes) ==
  UNION {{e \in ToSet(Row(g, IdToDense(g, n))) : g.ids[g.edges[e].dst] \in nodes} : n \in nodes}

\* The subgraph around the seeds, with the scores of those it kept.
Materialize(g, seeds, scores, opts) ==
  LET around(bfs) == Subgraph(bfs.nodes, induced_edges(g, bfs.nodes),
                              [n \in DOMAIN scores \cap bfs.nodes |-> scores[n]], bfs.truncated)
  IN  IF seeds = <<>> THEN Nothing
      ELSE around(bfs_multi_source_undirected(g, seeds, opts.hops, opts.max_nodes))

retrieve_with(g, vector, opts) ==
  LET near == SelectSeq(vector.hits, LAMBDA h : h.distance <= opts.max_distance)
      seeds == [i \in DOMAIN near |-> near[i].node]
      scores == [n \in ToSet(seeds) |-> (CHOOSE h \in ToSet(near) : h.node = n).distance]
  IN  IF vector.is # "found" THEN vector ELSE Materialize(g, seeds, scores, opts)

-----------------------------------------------------------------------------
(* Two rankings in one *)

Frac(n, d) == [n |-> n, d |-> d]
Zero == Frac(0, 1)
Plus(x, y) == Frac(x.n * y.d + y.n * x.d, x.d * y.d)
Times(k, x) == Frac(k * x.n, x.d)
More(x, y) == x.n * y.d > y.n * x.d

Rrf(k) == [of |-> "rrf", k |-> k]
WeightedSum(v, t) == [of |-> "weighted", vector |-> v, text |-> t]

\* The 0-based rank of every hit that is kept, among all of them.
Ranks(hits, kept) ==
  [n \in {h.node : h \in kept} |->
     (CHOOSE i \in DOMAIN hits : hits[i].node = n) - 1]

\* What the place in one ranking of at most total nodes is worth.
Worth(fusion, weight, ranks, total, n) ==
  IF n \notin DOMAIN ranks THEN Zero
  ELSE IF fusion.of = "rrf" THEN Frac(1, fusion.k + ranks[n] + 1)
  ELSE Times(weight, Frac(total - ranks[n], total))

Fused(fusion, vec, vector_k, text, text_k) ==
  [n \in DOMAIN vec \cup DOMAIN text |->
     Plus(Worth(fusion, IF fusion.of = "rrf" THEN 1 ELSE fusion.vector, vec, Max({vector_k, 1}), n),
          Worth(fusion, IF fusion.of = "rrf" THEN 1 ELSE fusion.text, text, Max({text_k, 1}), n))]

RankedById(fused) == SortSeq(SetToSeq(DOMAIN fused), LAMBDA a, b : a < b)

\* The best first; equal ones by id.
Ranked(fused) ==
  LET before(a, b) == More(fused[a], fused[b]) \/ (~More(fused[b], fused[a]) /\ a < b)
  IN  SortSeq(SetToSeq(DOMAIN fused), before)

\* The vector search comes first.  Its errors end the call, but for that of an
\* empty index when text is asked for; so do those of the text search.
Tolerated(vector, text) == vector.is = "found" \/ vector = NotAsked \/ (vector = EmptyIndex /\ text # NotAsked)

retrieve_hybrid(g, vector, text, opts) ==
  LET vec == Ranks(vector.hits, {h \in ToSet(vector.hits) : h.distance <= opts.max_distance})
      txt == Ranks(text.hits, ToSet(text.hits))
      fused == Fused(opts.fusion, vec, opts.vector_k, txt, opts.text_k)
  IN  IF vector = NotAsked /\ text = NotAsked THEN NoQuery
      ELSE IF ~Tolerated(vector, text) THEN vector
      ELSE IF text.is # "found" /\ text # NotAsked THEN text
      ELSE Materialize(g, Ranked(fused), fused, opts)
=============================================================================
