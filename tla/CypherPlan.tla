----------------------------- MODULE CypherPlan -----------------------------
(***************************************************************************)
(* Queries, what they mean, and the logical plan issundb-cypher makes of   *)
(* them.  Answer evaluates the clauses one after another, extending every  *)
(* row by all the assignments of a pattern: it is the reference the plans  *)
(* are held against.                                                       *)
(***************************************************************************)
EXTENDS CypherExec

NoWhere == <<"none">>

(* A node pattern: variable, labels in order, and the x of an inline map   *)
(* (0 for none).  A hop: a relationship pattern and the node it reaches.   *)
N(v, labels, x) == [var |-> v, labels |-> labels, x |-> x]
Hop(rel, types, dir, min, max, star, node) ==
    [rel |-> rel, types |-> types, dir |-> dir, min |-> min, max |-> max, star |-> star, node |-> node]
Path(start, hops) == [start |-> start, hops |-> hops]

MatchPart(patterns, where) == [kind |-> "match", patterns |-> patterns, where |-> where]
OptionalPart(patterns, where) == [kind |-> "optional", patterns |-> patterns, where |-> where]
WithPart(items, where, order, limit, after) ==
    [kind |-> "with", items |-> items, where |-> where, order |-> order, limit |-> limit, after |-> after]
Query(parts, items, distinct, order, limit) ==
    [parts |-> parts, items |-> items, distinct |-> distinct, order |-> order, limit |-> limit]

IsAgg(item) == item[1][1] = "count"
AggCol == "_agg"

(* split_return_items and split_with_items: the grouping items, the one    *)
(* aggregation, and the items that read its column.                        *)
GroupItems(items) == SelectSeq(items, LAMBDA item : ~IsAgg(item))
HasAgg(items) == \E i \in DOMAIN items : IsAgg(items[i])
AggArg(items) == SelectSeq(items, IsAgg)[1][1][2]
Rewritten(items) == [i \in DOMAIN items |-> IF IsAgg(items[i]) THEN <<<<"var", AggCol>>, items[i][2]>> ELSE items[i]]

(* An ORDER BY expression that is a projected expression reads its column. *)
RewriteKeys(keys, items) ==
    LET named(e) == {i \in DOMAIN items : items[i][1] = e}
        key(k) == IF named(k[1]) = {} THEN k
                  ELSE <<<<"var", items[CHOOSE i \in named(k[1]) : TRUE][2]>>, k[2]>>
    IN [i \in DOMAIN keys |-> key(keys[i])]

KeyVars(keys) == UNION {ExprVars(keys[i][1]) : i \in DOMAIN keys}

-----------------------------------------------------------------------------
(* What a query answers.                                                   *)

PatternVars(pat) == {pat.start.var} \cup UNION {{pat.hops[i].rel, pat.hops[i].node.var} : i \in DOMAIN pat.hops}
NodeAt(pat, i) == IF i = 0 THEN pat.start ELSE pat.hops[i].node

(* Does an edge lead from one node to another in a direction?              *)
Leads(g, e, a, b, dir) ==
    \/ dir # "in" /\ g.edges[e].src = a /\ g.edges[e].dst = b
    \/ dir # "out" /\ g.edges[e].src = b /\ g.edges[e].dst = a

EdgeSeqs(g, max) == UNION {{s \in [1..k -> DOMAIN g.edges] : \A i, j \in 1..k : i # j => s[i] # s[j]} : k \in 0..max}

RECURSIVE Connects(_, _, _, _, _)
Connects(g, es, a, b, hop) ==
    IF es = <<>> THEN a = b
    ELSE /\ OfType(g, es[1], hop.types)
         /\ \E c \in DOMAIN g.labels : Leads(g, es[1], a, c, hop.dir) /\ Connects(g, Tail(es), c, b, hop)

(* All the ways a pattern can be laid onto the graph: a node for each node *)
(* pattern and a trail for each hop, no edge used twice in the pattern,    *)
(* equal variables on equal nodes.                                         *)
Embeddings(pat, g) ==
    LET k == Len(pat.hops)
        nodeOk(i, n) == /\ \A j \in DOMAIN NodeAt(pat, i).labels : NodeAt(pat, i).labels[j] \in g.labels[n]
                        /\ NodeAt(pat, i).x # 0 => g.x[n] = NodeAt(pat, i).x
        nodeSeqs == {ns \in [0..k -> DOMAIN g.labels] :
                        /\ \A i \in 0..k : nodeOk(i, ns[i])
                        /\ \A i, j \in 0..k : NodeAt(pat, i).var = NodeAt(pat, j).var => ns[i] = ns[j]}
        trailsOf(i, ns) == {es \in EdgeSeqs(g, pat.hops[i].max) :
                                Len(es) >= pat.hops[i].min /\ Connects(g, es, ns[i - 1], ns[i], pat.hops[i])}
        disjoint(ts) == \A i, j \in 1..k : i # j => \A m \in DOMAIN ts[i], n \in DOMAIN ts[j] : ts[i][m] # ts[j][n]
        trails(ns) == {ts \in [1..k -> UNION {trailsOf(i, ns) : i \in 1..k}] :
                            (\A i \in 1..k : ts[i] \in trailsOf(i, ns)) /\ disjoint(ts)}
        node(ns, v) == ns[CHOOSE i \in 0..k : NodeAt(pat, i).var = v]
        rel(ts, v) == LET i == CHOOSE i \in 1..k : pat.hops[i].rel = v
                      IN IF pat.hops[i].star THEN Trail(ts[i]) ELSE Rel(ts[i][1])
        isNode(v) == \E i \in 0..k : NodeAt(pat, i).var = v
    IN UNION {{[v \in PatternVars(pat) |-> IF isNode(v) THEN Node(node(ns, v)) ELSE rel(ts, v)] :
                    ts \in trails(ns)} : ns \in nodeSeqs}

(* Rows extended by every embedding that agrees with what they bind.       *)
ExtendRows(rows, pat, g) ==
    LET all == FoldSet(LAMBDA m, s : Append(s, m), <<>>, Embeddings(pat, g))
        of(row) == LET fit == SelectSeq(all, LAMBDA m : \A v \in DOMAIN m \cap DOMAIN row : m[v] = row[v])
                   IN [i \in DOMAIN fit |-> Merge(row, fit[i])]
    IN FlattenSeq([i \in DOMAIN rows |-> of(rows[i])])

Where(f, row, g) == f = NoWhere \/ Holds(f, row, g)

MatchRows(rows, part, g) ==
    SelectSeq(FoldLeft(LAMBDA rs, pat : ExtendRows(rs, pat, g), rows, part.patterns),
              LAMBDA row : Where(part.where, row, g))

PartVars(part) == UNION {PatternVars(part.patterns[i]) : i \in DOMAIN part.patterns}

(* Aggregate when the items ask for it, then project.                      *)
Grouped(rows, items, g) ==
    IF HasAgg(items) THEN AggregateRows(rows, GroupItems(items), AggArg(items), AggCol, g) ELSE rows
Projected(rows, items, g) == [i \in DOMAIN rows |-> ProjectRow(rows[i], items, FALSE, g)]
Shaped(rows, items, g) == Projected(Grouped(rows, items, g), Rewritten(items), g)

(* Only the named columns, and of them the first rows.                     *)
Narrowed(rows, names) == [i \in DOMAIN rows |-> [v \in names |-> rows[i][v]]]
Ordered(rows, order, items, limit, g) ==
    LimitRows(Narrowed(SortRows(rows, RewriteKeys(order, items), g), ItemNames(items)), 0, limit)
OrNulls(found, row, part) == IF found = <<>> THEN <<NullFill(row, PartVars(part))>> ELSE found

PartRows(rows, part, g) ==
    CASE part.kind = "match" -> MatchRows(rows, part, g)
      [] part.kind = "optional" ->
            FlattenSeq([i \in DOMAIN rows |-> OrNulls(MatchRows(<<rows[i]>>, part, g), rows[i], part)])
      [] part.kind = "with" ->
            LET open == SelectSeq(Shaped(rows, part.items, g), LAMBDA row : Where(part.where, row, g))
            IN SelectSeq(Ordered(open, part.order, part.items, part.limit, g), LAMBDA row : Where(part.after, row, g))

(* The rows of the RETURN columns, in some order.                          *)
Once(rows, q) == IF q.distinct THEN DistinctRows(rows, ItemNames(q.items)) ELSE rows
Answer(q, g) ==
    LET rows == FoldLeft(LAMBDA rs, part : PartRows(rs, part, g), << <<>> >>, q.parts)
    IN Ordered(Once(Shaped(rows, q.items, g), q), q.order, q.items, q.limit, g)

-----------------------------------------------------------------------------
(* LogicalPlanner::plan.                                                   *)

WithX(p, node) == IF node.x = 0 THEN p ELSE Filter(p, <<"=", <<"x", node.var>>, <<"lit", node.x>>>>)
WithLabels(p, v, labels) == FoldLeft(LAMBDA q, l : Filter(q, <<"label", v, l>>), p, labels)

(* plan_match: scan the start by its first label, then one Expand per hop, *)
(* each told which relationships of the pattern it must differ from.       *)
PlanMatch(pat) ==
    LET labels == pat.start.labels
        seed == LabelScan(pat.start.var, IF labels = <<>> THEN NoLabel ELSE labels[1])
        start == WithX(WithLabels(seed, pat.start.var, IF labels = <<>> THEN labels ELSE Tail(labels)), pat.start)
        step(p, i) ==
            LET h == pat.hops[i]
                src == NodeAt(pat, i - 1).var
                prior == {pat.hops[j].rel : j \in 1..(i - 1)}
            IN WithX(WithLabels(Expand(p, src, h.rel, h.node.var, h.types, h.dir, h.min, h.max, h.star, prior),
                                h.node.var, h.node.labels), h.node)
    IN FoldLeftDomain(step, start, pat.hops)

PlanPatterns(patterns) ==
    FoldLeft(LAMBDA p, pat : HashJoin(p, PlanMatch(pat)), PlanMatch(Head(patterns)), Tail(patterns))

Filtered(p, where) == IF where = NoWhere THEN p ELSE Filter(p, where)
Aggregated(p, items) ==
    IF ~HasAgg(items) THEN p
    ELSE [op |-> "Aggregate", in |-> p, group |-> GroupItems(items), arg |-> AggArg(items), out |-> AggCol]
Sorted(p, keys) == IF keys = <<>> THEN p ELSE [op |-> "Sort", in |-> p, keys |-> keys]
Limited(p, count) == IF count = Unlimited THEN p ELSE [op |-> "Limit", in |-> p, skip |-> 0, count |-> count]

(* A WITH: an ORDER BY that names a variable the WITH drops sorts below    *)
(* the barrier; a WHERE is filtered between an open and a closed project.  *)
PlanWith(p, part) ==
    LET keys == RewriteKeys(part.order, part.items)
        items == Rewritten(part.items)
        early == ~(KeyVars(keys) \subseteq ItemNames(items))
        agged == Aggregated(p, part.items)
        presorted == IF early THEN Sorted(Project(agged, items, FALSE), keys) ELSE agged
        closed == Project(IF part.where = NoWhere THEN presorted
                          ELSE Filter(Project(presorted, items, FALSE), part.where), items, TRUE)
    IN Filtered(Limited(IF early THEN closed ELSE Sorted(closed, keys), part.limit), part.after)

PlanPart(acc, part) ==
    LET joined(p) == IF acc = <<>> THEN <<p>> ELSE <<HashJoin(acc[1], p)>>
        body == PlanPatterns(part.patterns)
        outer == acc # <<>> /\ part.where # NoWhere /\ ~(FilterVars(part.where) \subseteq PartVars(part))
    IN CASE part.kind = "match" -> joined(Filtered(body, part.where))
         [] part.kind = "optional" ->
                joined([op |-> "OptionalMatch", in |-> IF outer THEN body ELSE Filtered(body, part.where),
                        nulls |-> PartVars(part), pred |-> IF outer THEN part.where ELSE <<"true">>])
         [] part.kind = "with" -> <<PlanWith(acc[1], part)>>

Plan(q) ==
    LET body == FoldLeft(PlanPart, <<>>, q.parts)[1]
        items == Rewritten(q.items)
        projected == Project(Aggregated(body, q.items), items, FALSE)
        once == IF q.distinct THEN [op |-> "Distinct", in |-> projected, keys |-> ItemNames(items)] ELSE projected
    IN Limited(Sorted(once, RewriteKeys(q.order, q.items)), q.limit)

=============================================================================
