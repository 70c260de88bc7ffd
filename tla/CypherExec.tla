----------------------------- MODULE CypherExec -----------------------------
(***************************************************************************)
(* The read executor of issundb-cypher: what each physical operator of a   *)
(* plan returns on a committed graph.  Rows are functions from variables   *)
(* to bindings and a stream is the sequence of its rows; batching, which   *)
(* only cuts the same sequence differently, is left out.  One node         *)
(* property x stands for all of them.                                      *)
(***************************************************************************)
EXTENDS Integers, Sequences, FiniteSets, SequencesExt

-----------------------------------------------------------------------------
(* Bindings.  A property that is absent reads as null.                     *)

Null == <<"null">>
Node(n) == <<"node", n>>
Rel(e) == <<"rel", e>>
Trail(es) == <<"trail", es>>
Scalar(k) == <<"scalar", k>>

IsNode(b) == b[1] = "node"

(* A graph: nodes 1..n, their labels, their x (0 when absent), and a       *)
(* sequence of edges whose position is the edge id.                        *)
X(g, n) == IF g.x[n] = 0 THEN Null ELSE Scalar(g.x[n])

Bound(row, v) == v \in DOMAIN row
Bind(row, v, b) == [u \in DOMAIN row \cup {v} |-> IF u = v THEN b ELSE row[u]]
Merge(row, with) == [u \in DOMAIN row \cup DOMAIN with |-> IF u \in DOMAIN with THEN with[u] ELSE row[u]]
Binds(row, v, n) == Bound(row, v) /\ row[v] = Node(n)

(* Expressions: a variable, its property x, id() of it, or a literal.      *)
(* Reading an unbound variable fails the statement; PlanRewrite!WellScoped *)
(* shows that no plan does, and here it reads as null.                     *)
Value(e, row, g) ==
    CASE e[1] = "var" -> IF Bound(row, e[2]) THEN row[e[2]] ELSE Null
      [] e[1] = "x"   -> IF Bound(row, e[2]) /\ IsNode(row[e[2]]) THEN X(g, row[e[2]][2]) ELSE Null
      [] e[1] = "id"  -> IF Bound(row, e[2]) /\ IsNode(row[e[2]]) THEN Scalar(row[e[2]][2]) ELSE Null
      [] e[1] = "lit" -> Scalar(e[2])
      [] OTHER        -> Null

Compare(op, l, r) ==
    /\ l # Null /\ r # Null
    /\ CASE op = "="  -> l = r
         [] op = "<"  -> l[1] = "scalar" /\ r[1] = "scalar" /\ l[2] < r[2]
         [] op = ">"  -> l[1] = "scalar" /\ r[1] = "scalar" /\ l[2] > r[2]
         [] op = "<=" -> l[1] = "scalar" /\ r[1] = "scalar" /\ l[2] <= r[2]
         [] op = ">=" -> l[1] = "scalar" /\ r[1] = "scalar" /\ l[2] >= r[2]

(* Whether a predicate is TRUE of a row; null and FALSE both drop it.      *)
RECURSIVE Holds(_, _, _)
Holds(f, row, g) ==
    CASE f[1] = "true"  -> TRUE
      [] f[1] = "and"   -> Holds(f[2], row, g) /\ Holds(f[3], row, g)
      [] f[1] = "label" -> Bound(row, f[2]) /\ IsNode(row[f[2]]) /\ f[3] \in g.labels[row[f[2]][2]]
      [] OTHER          -> Compare(f[1], Value(f[2], row, g), Value(f[3], row, g))

ExprVars(e) == IF e[1] \in {"var", "x", "id"} THEN {e[2]} ELSE {}

RECURSIVE FilterVars(_)
FilterVars(f) ==
    CASE f[1] = "true"  -> {}
      [] f[1] = "and"   -> FilterVars(f[2]) \cup FilterVars(f[3])
      [] f[1] = "label" -> {f[2]}
      [] OTHER          -> ExprVars(f[2]) \cup ExprVars(f[3])

-----------------------------------------------------------------------------
(* Physical operators.  An empty set of relationship types means any type, *)
(* the empty string no label, and Unlimited no bound.                      *)

Unlimited == 99
NoLabel == ""

SingleRow == [op |-> "SingleRow"]
LabelScan(v, label) == [op |-> "LabelScan", var |-> v, label |-> label]
Filter(in, f) == [op |-> "Filter", in |-> in, pred |-> f]
HashJoin(l, r) == [op |-> "HashJoin", left |-> l, right |-> r]
Project(in, items, barrier) == [op |-> "Project", in |-> in, items |-> items, barrier |-> barrier]
Expand(in, src, rel, dst, types, dir, min, max, star, unique) ==
    [op |-> "Expand", in |-> in, src |-> src, rel |-> rel, dst |-> dst, types |-> types, dir |-> dir,
     min |-> min, max |-> max, star |-> star, unique |-> unique]

HasInput(p) == "in" \in DOMAIN p
SingleHop(p) == p.op = "Expand" /\ p.min = 1 /\ p.max = 1 /\ ~p.star
DirectedHop(p) == SingleHop(p) /\ p.dir # "both"

ItemName(item) == item[2]
ItemNames(items) == {ItemName(items[i]) : i \in DOMAIN items}

(* The variables an operator binds.                                        *)
RECURSIVE BoundVars(_)
BoundVars(p) ==
    CASE p.op = "HashJoin" -> BoundVars(p.left) \cup BoundVars(p.right)
      [] p.op \in {"LabelScan", "NodeByIdSeek", "NodeIndexScan", "NodeRangeScan"} -> {p.var}
      [] p.op = "CorrelatedIndexSeek" -> BoundVars(p.in) \cup {p.var}
      [] p.op = "Expand" -> BoundVars(p.in) \cup {p.rel, p.dst}
      [] p.op = "MultiwayJoin" -> BoundVars(p.in) \cup {p.rel}
      [] p.op = "ExpandIntersect" -> BoundVars(p.in) \cup {p.rel, p.dst, p.crel}
      [] p.op = "Project" -> (IF p.barrier THEN {} ELSE BoundVars(p.in)) \cup ItemNames(p.items)
      [] p.op = "Aggregate" -> BoundVars(p.in) \cup {p.out} \cup ItemNames(p.group)
      [] p.op = "OptionalMatch" -> BoundVars(p.in) \cup p.nulls
      [] p.op \in {"TriangleCount", "PathCount"} -> {p.out}
      [] p.op = "GroupedDegree" -> {p.out} \cup ItemNames(p.group)
      [] HasInput(p) -> BoundVars(p.in)
      [] OTHER -> {}

-----------------------------------------------------------------------------
(* Traversal.                                                              *)

OfType(g, e, types) == types = {} \/ g.edges[e].type \in types
NodesWhere(g, Test(_)) == SelectSeq([n \in DOMAIN g.labels |-> n], Test)
Labelled(g, n, label) == label = NoLabel \/ label \in g.labels[n]

(* expand_multi_type, both directions deduplicated by edge and far end.    *)
Neighbours(g, n, types, dir) ==
    LET ends(e) == (IF dir # "in" /\ g.edges[e].src = n THEN {g.edges[e].dst} ELSE {})
                   \cup (IF dir # "out" /\ g.edges[e].dst = n THEN {g.edges[e].src} ELSE {})
        of(e) == SelectSeq([d \in DOMAIN g.labels |-> <<e, d>>],
                           LAMBDA q : OfType(g, e, types) /\ q[2] \in ends(e))
    IN FlattenSeq([e \in DOMAIN g.edges |-> of(e)])

(* The edge is already bound by a sibling hop of the same pattern.         *)
BoundToSibling(row, unique, e) ==
    \E v \in unique : Bound(row, v) /\ \/ row[v] = Rel(e)
                                       \/ row[v][1] = "trail" /\ \E i \in DOMAIN row[v][2] : row[v][2][i] = e

(* A pre-bound end of a hop must be the node the hop reaches.              *)
EndFits(row, v, n) == Bound(row, v) => row[v] = Node(n)

(* The chain of directed single hops under p that run as one fused step,   *)
(* bottom hop first, and the operator below them.                          *)
RECURSIVE ChainHops(_), ChainBase(_)
ChainHops(p) ==
    IF DirectedHop(p.in) /\ p.in.dst = p.src THEN Append(ChainHops(p.in), p) ELSE <<p>>
ChainBase(p) ==
    IF DirectedHop(p.in) /\ p.in.dst = p.src THEN ChainBase(p.in) ELSE p.in

(* thread_chain: the edges and ends taken so far are the stack, and only   *)
(* the base row, never the stack, is asked whether an end is pinned.       *)
ThreadChain(base, hops, g) ==
    LET step(stack, i) ==
            LET hop == hops[i]
                at == IF i = 1 THEN base[hop.src][2] ELSE stack[i - 1][2]
                fits(q) == /\ EndFits(base, hop.dst, q[2])
                           /\ ~BoundToSibling(base, hop.unique, q[1])
                           /\ \A j \in DOMAIN stack : hops[j].rel \in hop.unique => stack[j][1] # q[1]
                next == SelectSeq(Neighbours(g, at, hop.types, hop.dir), fits)
            IN [k \in DOMAIN next |-> Append(stack, next[k])]
        level(stacks, i) == FlattenSeq([k \in DOMAIN stacks |-> step(stacks[k], i)])
        full == FoldLeftDomain(level, << <<>> >>, hops)
        row(stack) == FoldLeftDomain(LAMBDA r, i : Bind(Bind(r, hops[i].rel, Rel(stack[i][1])),
                                                          hops[i].dst, Node(stack[i][2])), base, hops)
    IN IF Bound(base, hops[1].src) /\ IsNode(base[hops[1].src])
       THEN [k \in DOMAIN full |-> row(full[k])] ELSE <<>>

(* Trails from a node: no edge twice, min to max hops.                     *)
RECURSIVE Walk(_, _, _, _, _)
Walk(g, p, row, at, used) ==
    LET more == SelectSeq(Neighbours(g, at, p.types, p.dir),
                          LAMBDA q : /\ \A i \in DOMAIN used : used[i] # q[1]
                                     /\ ~BoundToSibling(row, p.unique, q[1]))
        here == IF Len(used) >= p.min THEN << <<at, used>> >> ELSE <<>>
    IN IF Len(used) = p.max THEN here
       ELSE here \o FlattenSeq([k \in DOMAIN more |-> Walk(g, p, row, more[k][2], Append(used, more[k][1]))])

(* expand_from_paths for one row: an undirected hop or a * range.          *)
ExpandRow(p, row, g) ==
    LET ends == SelectSeq(Walk(g, p, row, row[p.src][2], <<>>), LAMBDA t : EndFits(row, p.dst, t[1]))
        rel(t) == IF p.star THEN Trail(t[2]) ELSE Rel(t[2][1])
    IN IF Bound(row, p.src) /\ IsNode(row[p.src])
       THEN [k \in DOMAIN ends |-> Bind(Bind(row, p.rel, rel(ends[k])), p.dst, Node(ends[k][1]))]
       ELSE <<>>

(* multiway_join_rows: close a cycle between two bound nodes.              *)
CloseRow(p, row, g) ==
    LET closing == SelectSeq(Neighbours(g, row[p.src][2], p.types, p.dir),
                             LAMBDA q : q[2] = row[p.dst][2] /\ ~BoundToSibling(row, p.unique, q[1]))
    IN IF Bound(row, p.src) /\ Bound(row, p.dst) /\ IsNode(row[p.src]) /\ IsNode(row[p.dst])
       THEN [k \in DOMAIN closing |-> Bind(row, p.rel, Rel(closing[k][1]))] ELSE <<>>

Flip(dir) == CASE dir = "out" -> "in" [] dir = "in" -> "out" [] OTHER -> dir

(* expand_intersect_rows: the closing hop is walked from its bound end, so *)
(* its direction flips, and the two edges are chosen together.             *)
IntersectRow(p, row, g) ==
    LET mids == SelectSeq(Neighbours(g, row[p.src][2], p.types, p.dir),
                          LAMBDA q : ~BoundToSibling(row, p.unique, q[1]))
        closes == SelectSeq(Neighbours(g, row[p.cdst][2], p.ctypes, Flip(p.cdir)),
                            LAMBDA q : ~BoundToSibling(row, p.cunique, q[1]))
        meet(m) == LET fit == SelectSeq(closes, LAMBDA q : q[2] = m[2] /\ (p.rel \in p.cunique => q[1] # m[1]))
                   IN [k \in DOMAIN fit |-> Bind(Bind(Bind(row, p.dst, Node(m[2])), p.rel, Rel(m[1])),
                                                 p.crel, Rel(fit[k][1]))]
    IN IF Bound(row, p.src) /\ Bound(row, p.cdst) /\ IsNode(row[p.src]) /\ IsNode(row[p.cdst])
       THEN FlattenSeq([k \in DOMAIN mids |-> meet(mids[k])]) ELSE <<>>

-----------------------------------------------------------------------------
(* Counting kernels over adjacency.                                        *)

Count(S) == Cardinality(S)
EdgesOf(g, types) == {e \in DOMAIN g.edges : OfType(g, e, types)}

(* A predicate of a vertex, resolved through the property index, and the   *)
(* label mask of position i of a counted path.                             *)
VertexOk(g, n, label, preds) ==
    /\ Labelled(g, n, label)
    /\ \A f \in preds : Compare(f[1], X(g, n), Value(f[2], <<>>, g))

(* count_linear_paths: one hop is an edge count; two hops factor through   *)
(* the middle node, less the self-loops that would fill both hops.         *)
LinearPaths(p, g) ==
    LET ok(i, n) == VertexOk(g, n, p.labels[i], p.filters[i])
        first == {e \in EdgesOf(g, p.types[1]) : ok(1, g.edges[e].src) /\ ok(2, g.edges[e].dst)}
        second == {e \in EdgesOf(g, p.types[2]) : ok(2, g.edges[e].src) /\ ok(3, g.edges[e].dst)}
        into(b) == Count({e \in first : g.edges[e].dst = b})
        outof(b) == Count({e \in second : g.edges[e].src = b})
        both(b) == Count({e \in first \cap second : g.edges[e].src = b /\ g.edges[e].dst = b})
    IN IF Len(p.types) = 1 THEN Count(first)
       ELSE FoldLeftDomain(LAMBDA t, b : t + into(b) * outof(b) - both(b), 0, g.labels)

(* count_triangle_cycles: multiplicities of the three hops multiply, except *)
(* where all three are self-loops of one node and must differ pairwise.    *)
TriangleCycles(p, g) ==
    LET hop(i, a, b) == {e \in EdgesOf(g, p.types[i]) : g.edges[e].src = a /\ g.edges[e].dst = b}
        loops(a) == {t \in hop(1, a, a) \X hop(2, a, a) \X hop(3, a, a) :
                        t[1] # t[2] /\ t[1] # t[3] /\ t[2] # t[3]}
        cell(a, b, c) ==
            IF ~(Labelled(g, a, p.labels[1]) /\ Labelled(g, b, p.labels[2]) /\ Labelled(g, c, p.labels[3])) THEN 0
            ELSE IF a = b /\ b = c THEN Count(loops(a))
            ELSE Count(hop(1, a, b)) * Count(hop(2, b, c)) * Count(hop(3, c, a))
    IN FoldLeftDomain(LAMBDA t, a : FoldLeftDomain(LAMBDA u, b :
            FoldLeftDomain(LAMBDA v, c : v + cell(a, b, c), u, g.labels), t, g.labels), 0, g.labels)

(* count_window_survivors: only the counts that reach the bound-th best.   *)
Survivors(counts, w) ==
    LET better(i, j) == IF w.desc THEN counts[i] > counts[j] ELSE counts[i] < counts[j]
    IN IF w.bound = 0 \/ w.bound >= Len(counts) THEN DOMAIN counts
       ELSE {i \in DOMAIN counts : Count({j \in DOMAIN counts : better(j, i)}) < w.bound}

(* The nodes of an index or range leaf; the value is verified per node.    *)
LeafNodes(p, g) ==
    LET in(n) == /\ Labelled(g, n, p.label)
                 /\ CASE p.op = "NodeIndexScan" -> Compare("=", X(g, n), Value(p.val, <<>>, g))
                      [] p.op = "NodeRangeScan" -> \A b \in p.bounds : Compare(b[1], X(g, n), Value(b[2], <<>>, g))
                      [] p.op = "NodeByIdSeek" -> Value(p.id, <<>>, g) = Scalar(n)
    IN NodesWhere(g, in)

(* json_cmp_total: null sorts after everything.                            *)
Before(a, b) == a # b /\ (b = Null \/ (a # Null /\ a[2] < b[2]))

SortRows(rows, keys, g) ==
    LET key(i, k) == Value(keys[k][1], rows[i], g)
        ahead(i, j, k) == IF keys[k][2] THEN Before(key(i, k), key(j, k)) ELSE Before(key(j, k), key(i, k))
        less(i, j) == \/ \E k \in DOMAIN keys : ahead(i, j, k) /\ \A m \in 1..(k - 1) : key(i, m) = key(j, m)
                      \/ i < j /\ \A k \in DOMAIN keys : key(i, k) = key(j, k)
        order == SortSeq([i \in DOMAIN rows |-> i], less)
    IN [i \in DOMAIN rows |-> rows[order[i]]]

(* Groups come out in the order of their keys, whichever row met them.     *)
InKeyOrder(rows, group, g) ==
    SortRows(rows, [k \in DOMAIN group |-> <<<<"var", ItemName(group[k])>>, TRUE>>], g)

(* grouped_edge_counts: a count for every node an edge reaches, 0 when     *)
(* nothing it reaches counts.                                              *)
GroupedEdgeCounts(p, g) ==
    LET group(e) == IF p.groupIsDst THEN g.edges[e].dst ELSE g.edges[e].src
        counted(e) == IF p.groupIsDst THEN g.edges[e].src ELSE g.edges[e].dst
        allowed == [leaf \in p.leaf |-> Range(LeafNodes(leaf, g))]
        reached == {e \in EdgesOf(g, p.types) :
                        /\ Labelled(g, group(e), p.groupLabel)
                        /\ VertexOk(g, counted(e), p.countedLabel, p.filters)
                        /\ \A leaf \in p.leaf : counted(e) \in allowed[leaf]}
        tallied == {e \in reached : p.nonnull => X(g, counted(e)) # Null}
    IN [n \in {group(e) : e \in reached} |-> Count({e \in tallied : group(e) = n})]

(* The fold of those counts by key value, in order of the nodes, and the   *)
(* window over the folded groups.                                          *)
FirstNodes(per, g) == NodesWhere(g, LAMBDA n : n \in DOMAIN per /\ \A m \in DOMAIN per : m < n => X(g, m) # X(g, n))
FoldByKey(per, firsts, g) ==
    [i \in DOMAIN firsts |->
        <<X(g, firsts[i]), MapThenSumSet(LAMBDA n : per[n], {n \in DOMAIN per : X(g, n) = X(g, firsts[i])})>>]
GroupedRows(p, g) ==
    LET of(per) == FoldByKey(per, FirstNodes(per, g), g)
        row(q) == [v \in ItemNames(p.group) \cup {p.out} |-> IF v = p.out THEN Scalar(q[2]) ELSE q[1]]
        cut(folded) == LET kept == Survivors([i \in DOMAIN folded |-> folded[i][2]], p.window)
                       IN SelectSeq(folded, LAMBDA q : \E i \in kept : folded[i] = q)
        emit(folded) == [i \in DOMAIN folded |-> row(folded[i])]
    IN InKeyOrder(emit(cut(of(GroupedEdgeCounts(p, g)))), p.group, g)

-----------------------------------------------------------------------------
(* Blocking and projecting operators on a whole stream.                    *)

(* project_rows: an item whose variables the row no longer binds, but whose *)
(* column it carries, is read rather than evaluated again.                 *)
ProjectRow(row, items, barrier, g) ==
    LET put(r, item) ==
            IF ~(ExprVars(item[1]) \subseteq DOMAIN row) /\ Bound(row, item[2]) THEN Bind(r, item[2], row[item[2]])
            ELSE IF item[1][1] = "var" /\ ~Bound(row, item[1][2]) THEN r
            ELSE Bind(r, item[2], Value(item[1], row, g))
    IN FoldLeft(put, IF barrier THEN <<>> ELSE row, items)

LimitRows(rows, skip, count) == SubSeq(rows, skip + 1, IF skip + count < Len(rows) THEN skip + count ELSE Len(rows))

DistinctRows(rows, keys) ==
    LET key(i) == [v \in keys \cap DOMAIN rows[i] |-> rows[i][v]]
        first == SelectSeq([i \in DOMAIN rows |-> i], LAMBDA i : \A j \in 1..(i - 1) : key(j) # key(i))
    IN [i \in DOMAIN first |-> rows[first[i]]]

(* aggregate_all: one row per distinct key, one even without rows when     *)
(* nothing groups; count(e) skips nulls, count( * ) does not.              *)
AggregateRows(rows, group, arg, out, g) ==
    LET key(i) == ProjectRow(rows[i], group, TRUE, g)
        keys == DistinctRows([i \in DOMAIN rows |-> key(i)], ItemNames(group))
        groups == IF group = <<>> THEN << <<>> >> ELSE keys
        counted(k) == {i \in DOMAIN rows : key(i) = k /\ (arg = <<"star">> \/ Value(arg, rows[i], g) # Null)}
    IN InKeyOrder([i \in DOMAIN groups |-> Bind(groups[i], out, Scalar(Count(counted(groups[i]))))], group, g)

NullFill(row, vars) == Merge([v \in vars |-> Null], row)

-----------------------------------------------------------------------------
(* build_stream_with_sip and next_batch.  sip restricts the scans of the   *)
(* variables in its domain to sets of node ids.                            *)

NoSip == <<>>

(* join_roles: the optional side is built, the required side probes.       *)
JoinRoles(p) ==
    CASE p.left.op = "OptionalMatch" ->
            [probe |-> p.right, build |-> p.left.in, outer |-> TRUE, nulls |-> p.left.nulls, pred |-> p.left.pred]
      [] p.left.op # "OptionalMatch" /\ p.right.op = "OptionalMatch" ->
            [probe |-> p.left, build |-> p.right.in, outer |-> TRUE, nulls |-> p.right.nulls, pred |-> p.right.pred]
      [] OTHER -> [probe |-> p.left, build |-> p.right, outer |-> FALSE, nulls |-> {}, pred |-> <<"true">>]

(* hash_join_rows for one probe row.                                       *)
JoinRow(row, build, common, j, g) ==
    LET meets(b) == \A v \in common : Bound(b, v) /\ b[v] = row[v]
        merged(b) == Merge(row, b)
        found == SelectSeq(build, LAMBDA b : meets(b) /\ Holds(j.pred, merged(b), g))
    IN IF ~(common \subseteq DOMAIN row) THEN <<>>
       ELSE IF found = <<>> /\ j.outer THEN <<NullFill(row, j.nulls)>>
       ELSE [k \in DOMAIN found |-> merged(found[k])]

(* build_sip: the ids the build side binds to each shared variable.        *)
BuildSip(build, common) ==
    LET ids(v) == {build[i][v][2] : i \in {i \in DOMAIN build : Bound(build[i], v) /\ IsNode(build[i][v])}}
    IN [v \in {v \in common : ids(v) # {}} |-> ids(v)]

NodeRows(v, ns) == [i \in DOMAIN ns |-> [u \in {v} |-> Node(ns[i])]]

(* One index seek, or one fetch by id, per row; a null key finds nothing.  *)
SeekRow(p, row, g) ==
    LET key == Value(p.key, row, g)
        hit(n) == Labelled(g, n, p.label) /\ Compare("=", IF p.byId THEN Scalar(n) ELSE X(g, n), key)
        ns == NodesWhere(g, hit)
    IN [i \in DOMAIN ns |-> Bind(row, p.var, Node(ns[i]))]

(* A filter over one directed hop runs fused with it, unless it is a label *)
(* test.                                                                   *)
FusedFilter(p) == DirectedHop(p.in) /\ p.pred[1] # "label"
FilterOverExpand(p, row, g) == SelectSeq(ThreadChain(row, <<p.in>>, g), LAMBDA r : Holds(p.pred, r, g))

(* join_common_vars                                                        *)
CommonVars(j) == BoundVars(j.probe) \cap BoundVars(j.build)

RECURSIVE Rows(_, _, _)
Rows(p, sip, g) ==
    LET in == Rows(p.in, sip, g)
        each(F(_), rows) == FlattenSeq([i \in DOMAIN rows |-> F(rows[i])])
        join ==
            LET j == JoinRoles(p)
                build == Rows(j.build, NoSip, g)
                common == CommonVars(j)
                probe == Rows(j.probe, IF j.outer THEN NoSip ELSE BuildSip(build, common), g)
            IN each(LAMBDA row : JoinRow(row, build, common, j, g), probe)
        scan == NodesWhere(g, LAMBDA n : Labelled(g, n, p.label) /\ (p.var \in DOMAIN sip => n \in sip[p.var]))
    IN CASE p.op = "SingleRow" -> << <<>> >>
         [] p.op = "LabelScan" -> NodeRows(p.var, scan)
         [] p.op \in {"NodeIndexScan", "NodeRangeScan", "NodeByIdSeek"} -> NodeRows(p.var, LeafNodes(p, g))
         [] p.op = "Filter" ->
                IF FusedFilter(p) THEN each(LAMBDA row : FilterOverExpand(p, row, g), Rows(p.in.in, sip, g))
                ELSE SelectSeq(in, LAMBDA row : Holds(p.pred, row, g))
         [] p.op = "Expand" ->
                IF DirectedHop(p)
                THEN each(LAMBDA row : ThreadChain(row, ChainHops(p), g), Rows(ChainBase(p), sip, g))
                ELSE each(LAMBDA row : ExpandRow(p, row, g), in)
         [] p.op = "MultiwayJoin" -> each(LAMBDA row : CloseRow(p, row, g), in)
         [] p.op = "ExpandIntersect" -> each(LAMBDA row : IntersectRow(p, row, g), in)
         [] p.op = "CorrelatedIndexSeek" -> each(LAMBDA row : SeekRow(p, row, g), in)
         [] p.op = "HashJoin" -> join
         [] p.op = "OptionalMatch" -> IF in = <<>> THEN <<NullFill(<<>>, p.nulls)>> ELSE in
         [] p.op = "Project" -> [i \in DOMAIN in |-> ProjectRow(in[i], p.items, p.barrier, g)]
         [] p.op = "Aggregate" -> AggregateRows(in, p.group, p.arg, p.out, g)
         [] p.op = "Sort" -> SortRows(in, p.keys, g)
         [] p.op = "Limit" -> LimitRows(in, p.skip, p.count)
         [] p.op = "Distinct" -> DistinctRows(in, IF p.keys = {} THEN BoundVars(p.in) ELSE p.keys)
         [] p.op = "TriangleCount" -> <<[v \in {p.out} |-> Scalar(TriangleCycles(p, g))]>>
         [] p.op = "PathCount" -> <<[v \in {p.out} |-> Scalar(LinearPaths(p, g))]>>
         [] p.op = "GroupedDegree" -> GroupedRows(p, g)

=============================================================================
