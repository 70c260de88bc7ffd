----------------------------- MODULE Vectorized -----------------------------
(***************************************************************************)
(* try_execute_vectorized: the final projection or aggregation over a      *)
(* chain of directed single hops, run a column at a time instead of a row  *)
(* at a time.  Whatever plan recognize takes, the answer must be the one   *)
(* the row executor of CypherExec gives.                                   *)
(*                                                                         *)
(* The id columns of a pipeline are kept as its rows, one function from    *)
(* the variables of the filled columns to their ids; a relationship has a  *)
(* column only under the general aggregate.  Groups come in the order of   *)
(* their first row, here and in CypherExec; the code orders them by their  *)
(* serialized key in both places.                                          *)
(***************************************************************************)
EXTENDS CypherExec

CONSTANT MaxVecHops   \* hops of the longest chain that is taken

-----------------------------------------------------------------------------
(* Predicates.                                                             *)

IsLabel(f) == f[1] = "label"
IsComparison(f) == f[1] \in {"=", "<", ">", "<=", ">="}
Mirror(op) == CASE op = "<" -> ">" [] op = ">" -> "<" [] op = "<=" -> ">=" [] op = ">=" -> "<=" [] OTHER -> op

(* A comparison of v.x with a literal, the property on the left: the       *)
(* operator and the literal, or nothing.                                   *)
PropLiteral(f, v) ==
    IF ~IsComparison(f) THEN {}
    ELSE IF f[2] = <<"x", v>> /\ f[3][1] = "lit" THEN {<<f[1], f[3]>>}
    ELSE IF f[3] = <<"x", v>> /\ f[2][1] = "lit" THEN {<<Mirror(f[1]), f[2]>>}
    ELSE {}

VecStage(f) == IsLabel(f) \/ (IsComparison(f) /\ {f[2][1], f[3][1]} \subseteq {"x", "lit"})

RECURSIVE UnderFilters(_), FiltersOver(_)
UnderFilters(p) == IF p.op = "Filter" THEN UnderFilters(p.in) ELSE p
FiltersOver(p) == IF p.op = "Filter" THEN Append(FiltersOver(p.in), p.pred) ELSE <<>>

(* ORDER BY leads with the count, through the projection above it.         *)
LeadsWithCount(keys, items, out) ==
    LET v == keys[1][1][2]
    IN /\ keys # <<>> /\ keys[1][1][1] = "var"
       /\ \A i \in DOMAIN items : items[i][1][1] \in {"var", "x"}
       /\ v = out \/ \E i \in DOMAIN items : items[i] = <<<<"var", out>>, v>>

-----------------------------------------------------------------------------
(* recognize: the chain under the root, leaf first, with the filters that  *)
(* run on the leaf and after each hop.                                     *)

RECURSIVE VecChain(_, _)
VecChain(p, left) ==
    LET top == UnderFilters(p)
        below == VecChain(top.in, left - 1)
    IN IF left > 0 /\ DirectedHop(top)
       THEN [below EXCEPT !.hops = Append(@, top), !.stages = Append(@, FiltersOver(p))]
       ELSE [leaf |-> top, hops |-> <<>>, stages |-> <<FiltersOver(p)>>]

VecLeaf == {"LabelScan", "NodeByIdSeek", "NodeIndexScan", "NodeRangeScan"}
ChainVars(c) == <<c.leaf.var>> \o [i \in DOMAIN c.hops |-> c.hops[i].dst]
RelVars(c) == {c.hops[i].rel : i \in DOMAIN c.hops}

(* Mutant: two hops may share a type as long as their alternations differ. *)
DifferentTypes(hops) ==
    \A i, j \in DOMAIN hops : i # j => hops[i].types # {} /\ hops[i].types # hops[j].types

(* No one edge can fill two hops, which the columns could not tell.        *)
DisjointTypes(hops) ==
    \A i, j \in DOMAIN hops : i # j => hops[i].types # {} /\ hops[i].types \cap hops[j].types = {}

ChainFits(c) ==
    LET vars == ChainVars(c)
    IN /\ c.leaf.op \in VecLeaf
       /\ \A i \in DOMAIN c.hops : c.hops[i].src = vars[i] /\ c.hops[i].unique \subseteq RelVars(c)
       /\ IsInjective(vars)
       /\ DisjointTypes(c.hops)
       /\ \A k \in DOMAIN c.stages : \A i \in DOMAIN c.stages[k] :
            VecStage(c.stages[k][i]) /\ FilterVars(c.stages[k][i]) \subseteq {vars[j] : j \in 1..k}

-----------------------------------------------------------------------------
(* recognize: the root above the chain.                                    *)

NodeVars(c) == {ChainVars(c)[i] : i \in 1..(Len(c.hops) + 1)}
Terminal(c) == Last(ChainVars(c))
PropRead(e, c) == e[1] = "x" /\ e[2] \in NodeVars(c)
AggExprEligible(e, c) == e[1] = "lit" \/ (e[1] = "x" /\ e[2] \in NodeVars(c) \cup RelVars(c))

(* resolve_sort_keys: the property a key of ORDER BY reads, directly or    *)
(* through the first column of that name; a column called x that holds     *)
(* something else stands in the way.                                       *)
SortRead(e, items, c) ==
    LET named == SelectSeq(items, LAMBDA item : ItemName(item) = e[2])
        read == IF named = <<>> THEN Null ELSE named[1][1]
    IN CASE e[1] = "var" -> IF e[2] \notin NodeVars(c) \cup RelVars(c) /\ PropRead(read, c) THEN {read} ELSE {}
         [] PropRead(e, c) -> IF \A i \in DOMAIN items : ItemName(items[i]) = "x" => items[i][1] = e THEN {e} ELSE {}
         [] OTHER -> {}

ResolveSortKeys(keys, items, c) ==
    [i \in DOMAIN keys |-> <<CHOOSE e \in SortRead(keys[i][1], items, c) : TRUE, keys[i][2]>>]

(* The layers of projection above an operator, innermost first.            *)
RECURSIVE UnderProjects(_), Layers(_)
UnderProjects(p) == IF p.op = "Project" THEN UnderProjects(p.in) ELSE p
Layers(p) == IF p.op = "Project" THEN Append(Layers(p.in), p) ELSE <<>>

(* A LIMIT is taken off only where it is right above a sort.               *)
Peel(plan) ==
    LET limited == plan.op = "Limit" /\ plan.in.op = "Sort"
        sort == IF limited THEN plan.in ELSE plan
        once == IF sort.op = "Sort" THEN sort.in ELSE sort
        proj == IF once.op = "Distinct" THEN once.in ELSE once
        base == UnderProjects(proj)
        agg == base.op = "Aggregate"
    IN [limits |-> IF limited THEN <<plan>> ELSE <<>>, keys |-> IF sort.op = "Sort" THEN sort.keys ELSE <<>>,
        distinct |-> once.op = "Distinct", distinctKeys |-> IF once.op = "Distinct" THEN once.keys ELSE {},
        layers |-> Layers(proj), agg |-> IF agg THEN <<base>> ELSE <<>>,
        chain |-> VecChain(IF agg THEN base.in ELSE base, MaxVecHops)]

ProjectRoot(r) ==
    LET items == r.layers[1].items
    IN /\ r.agg = <<>> /\ Len(r.layers) = 1
       /\ r.keys # <<>> => ~r.layers[1].barrier
       /\ \A i \in DOMAIN items : PropRead(items[i][1], r.chain)
       /\ \A i \in DOMAIN r.keys : SortRead(r.keys[i][1], items, r.chain) # {}
       /\ r.limits # <<>> /\ r.distinct => r.distinctKeys = ItemNames(items)

(* Only property reads, and one layer of projection above.                 *)
AggregateRoot(r) ==
    LET agg == r.agg[1]
    IN /\ r.agg # <<>> /\ Len(r.layers) = 1 /\ ~(r.limits # <<>> /\ r.distinct)
       /\ \A i \in DOMAIN agg.group : PropRead(agg.group[i][1], r.chain)
       /\ \/ agg.arg = <<"star">>
          \/ agg.arg[1] = "var" /\ agg.arg[2] \in NodeVars(r.chain)
          \/ PropRead(agg.arg, r.chain)

GeneralRoot(r) ==
    LET agg == r.agg[1]
    IN /\ r.agg # <<>> /\ r.layers # <<>> /\ ~(r.limits # <<>> /\ r.distinct) /\ ~AggregateRoot(r)
       /\ \A i \in DOMAIN agg.group : AggExprEligible(agg.group[i][1], r.chain)
       /\ agg.arg = <<"star">> \/ AggExprEligible(agg.arg, r.chain)

(* The count is over the last variable, which no key and no filter ties to *)
(* the rows before it.                                                     *)
Collapses(r) ==
    LET c == r.chain
        agg == r.agg[1]
        last == c.stages[Len(c.stages)]
    IN /\ AggregateRoot(r) /\ c.hops # <<>>
       /\ agg.arg \in {<<"star">>, <<"var", Terminal(c)>>, <<"x", Terminal(c)>>}
       /\ \A i \in DOMAIN agg.group : agg.group[i][1] # <<"x", Terminal(c)>>
       /\ \A i \in DOMAIN last : FilterVars(last[i]) \subseteq {Terminal(c)}

(* The plans that are taken.  The records of a projection are built by     *)
(* position, so its columns must be those of RETURN and all different.     *)
Recognized(plan, returned) ==
    LET r == Peel(plan)
    IN /\ ChainFits(r.chain)
       /\ \/ ProjectRoot(r) /\ IsInjective([i \in DOMAIN r.layers[1].items |-> ItemName(r.layers[1].items[i])])
             /\ [i \in DOMAIN returned |-> ItemName(returned[i])]
                = [i \in DOMAIN r.layers[1].items |-> ItemName(r.layers[1].items[i])]
          \/ AggregateRoot(r)
          \/ GeneralRoot(r)

-----------------------------------------------------------------------------
(* Stages and hops.                                                        *)

(* try_prune_comparison: a constant outside the least and greatest x of    *)
(* all nodes lets no row of the leaf pass.                                 *)
Pruned(f, leaf, g) ==
    LET xs == {g.x[n] : n \in DOMAIN g.x} \ {0}
        low == CHOOSE k \in xs : \A m \in xs : k <= m
        high == CHOOSE k \in xs : \A m \in xs : k >= m
    IN /\ xs # {}
       /\ \E b \in PropLiteral(f, leaf) :
            LET k == b[2][2]
            IN CASE b[1] = "="  -> k < low \/ k > high
                 [] b[1] = "<"  -> k <= low
                 [] b[1] = ">"  -> k >= high
                 [] b[1] = "<=" -> k < low
                 [] b[1] = ">=" -> k > high

(* apply_stage, over the rows of the columns of which leaf is the first.   *)
ApplyStages(rows, stages, leaf, g) ==
    FoldLeft(LAMBDA rs, f : IF Pruned(f, leaf, g) THEN <<>> ELSE SelectSeq(rs, LAMBDA row : Holds(f, row, g)),
             rows, stages)

LeafNodeIds(leaf, g) ==
    IF leaf.op = "LabelScan" THEN NodesWhere(g, LAMBDA n : Labelled(g, n, leaf.label)) ELSE LeafNodes(leaf, g)

(* One hop: every row fans out over the neighbours of its last id.  The    *)
(* ends and the edges taken before are not looked at.                      *)
FanOut(rows, hop, edges, g) ==
    FlattenSeq([i \in DOMAIN rows |->
        LET next == Neighbours(g, rows[i][hop.src][2], hop.types, hop.dir)
            wider(q) == Bind(rows[i], hop.dst, Node(q[2]))
        IN [k \in DOMAIN next |-> IF edges THEN Bind(wider(next[k]), hop.rel, Rel(next[k][1])) ELSE wider(next[k])]])

Materialized(c, hops, edges, g) ==
    FoldLeftDomain(LAMBDA rows, k : ApplyStages(FanOut(rows, c.hops[k], edges, g), c.stages[k + 1], c.leaf.var, g),
                   ApplyStages(NodeRows(c.leaf.var, LeafNodeIds(c.leaf, g)), c.stages[1], c.leaf.var, g),
                   SubSeq(c.hops, 1, hops))

-----------------------------------------------------------------------------
(* Roots.                                                                  *)

Windowed(rows, limits) == IF limits = <<>> THEN rows ELSE LimitRows(rows, limits[1].skip, limits[1].count)

(* A limited DISTINCT keeps the first row of each projection, then sorts   *)
(* the rows it kept by what they read, then cuts the window.               *)
ProjectRecords(r, rows, g) ==
    LET items == r.layers[1].items
        cells(row) == [v \in ItemNames(items) |-> Value((CHOOSE i \in Range(items) : ItemName(i) = v)[1], row, g)]
        first(i) == \A j \in 1..(i - 1) : cells(rows[j]) # cells(rows[i])
        kept == SelectSeq([i \in DOMAIN rows |-> i], LAMBDA i : r.limits # <<>> /\ r.distinct => first(i))
        sorted == SortRows([i \in DOMAIN kept |-> rows[kept[i]]], ResolveSortKeys(r.keys, items, r.chain), g)
        cut == Windowed(sorted, r.limits)
    IN [i \in DOMAIN cut |-> cells(cut[i])]

(* The regular operators over the few rows of an aggregate.                *)
Above(r, rows, g) ==
    LET layer(rs, p) == [i \in DOMAIN rs |-> ProjectRow(rs[i], p.items, p.barrier, g)]
    IN Windowed(SortRows(FoldLeft(layer, rows, r.layers), r.keys, g), r.limits)

(* node_prop_group_codes: per row the place of its value among the values  *)
(* of the column.                                                          *)
GroupCodes(rows, e, g) ==
    LET cell(i) == Value(e, rows[i], g)
        firsts == SelectSeq([i \in DOMAIN rows |-> i], LAMBDA i : \A j \in 1..(i - 1) : cell(j) # cell(i))
        reps == [k \in DOMAIN firsts |-> cell(firsts[k])]
    IN [codes |-> [i \in DOMAIN rows |-> (CHOOSE k \in DOMAIN reps : reps[k] = cell(i)) - 1], reps |-> reps]

(* The codes of the columns packed into one number, and taken out again.   *)
Width(col) == IF col.reps = <<>> THEN 1 ELSE Len(col.reps)
Stride(cols, k) == FoldLeft(LAMBDA acc, col : acc * Width(col), 1, SubSeq(cols, k + 1, Len(cols)))
KeyOf(cols, i) == FoldLeftDomain(LAMBDA acc, k : acc + cols[k].codes[i] * Stride(cols, k), 0, cols)
Decoded(cols, key, k) == cols[k].reps[((key \div Stride(cols, k)) % Width(cols[k])) + 1]

(* The groups with a qualifying row and the sum of what their rows add;    *)
(* one group, even of no rows, when nothing groups.                        *)
Slots(keys, qualifies) ==
    FoldLeftDomain(LAMBDA s, i : IF qualifies[i] /\ ~Contains(s, keys[i]) THEN Append(s, keys[i]) ELSE s, <<>>, keys)
Total(keys, key, qualifies, adds) ==
    FoldLeftDomain(LAMBDA t, i : IF qualifies[i] /\ keys[i] = key THEN t + adds[i] ELSE t, 0, keys)

(* Each slot with its count, those the window drops taken out.             *)
Tallied(slots, keys, qualifies, adds) == [s \in DOMAIN slots |-> <<slots[s], Total(keys, slots[s], qualifies, adds)>>]
Emitted(tallied, window) ==
    LET kept == Survivors([s \in DOMAIN tallied |-> tallied[s][2]], window)
    IN SelectSeq(tallied, LAMBDA q : \E s \in kept : tallied[s] = q)

GroupRow(agg, cols, q) ==
    Bind(FoldLeftDomain(LAMBDA w, k : Bind(w, ItemName(agg.group[k]), Decoded(cols, q[1], k)), <<>>, agg.group),
         agg.out, Scalar(q[2]))

FoldGroups(agg, rows, qualifies, adds, window, g) ==
    LET of(keys) == Tallied(IF agg.group = <<>> THEN <<0>> ELSE Slots(keys, qualifies), keys, qualifies, adds)
        emit(cols, out) == InKeyOrder([i \in DOMAIN out |-> GroupRow(agg, cols, out[i])], agg.group, g)
        fold(cols) == emit(cols, Emitted(of([i \in DOMAIN rows |-> KeyOf(cols, i)]), window))
    IN fold([k \in DOMAIN agg.group |-> GroupCodes(rows, agg.group[k][1], g)])

NoWindow == [bound |-> 0, desc |-> FALSE]

AggregateGroups(r, rows, g) ==
    LET agg == r.agg[1]
        adds == [i \in DOMAIN rows |-> IF agg.arg[1] = "x" /\ Value(agg.arg, rows[i], g) = Null THEN 0 ELSE 1]
    IN FoldGroups(agg, rows, [i \in DOMAIN rows |-> TRUE], adds, NoWindow, g)

-----------------------------------------------------------------------------
(* execute_collapsed_count: the last hop is counted per source.            *)

(* typed_neighbor_counts: <<qualifying, counted>> of one source.  The name *)
(* of an alternation is no type the kernel knows.                          *)
TypedNeighborCounts(g, s, hop, labels, allow, nonnull) ==
    LET known == Cardinality(hop.types) <= 1
        next == SelectSeq(Neighbours(g, s, hop.types, hop.dir),
                          LAMBDA q : known /\ (\A i \in DOMAIN labels : labels[i] \in g.labels[q[2]]) /\ q[2] \in allow)
        counted == SelectSeq(next, LAMBDA q : nonnull => X(g, q[2]) # Null)
    IN <<Len(next), Len(counted)>>

(* expanded_neighbor_tallies                                               *)
ExpandedTallies(g, s, hop, stages, nonnull) ==
    LET qualifies(q) == ApplyStages(<<[v \in {hop.dst} |-> Node(q[2])]>>, stages, hop.dst, g) # <<>>
        next == SelectSeq(Neighbours(g, s, hop.types, hop.dir), qualifies)
        counted == SelectSeq(next, LAMBDA q : nonnull => X(g, q[2]) # Null)
    IN <<Len(next), Len(counted)>>

AdjacencySpan(g, sources, dir) ==
    Cardinality({e \in DOMAIN g.edges : (IF dir = "in" THEN g.edges[e].dst ELSE g.edges[e].src) \in sources})

(* resolve_terminal_allow: the nodes of the first label that pass the      *)
(* other filters, or nothing where expanding costs less.                   *)
TerminalAllow(g, hop, labels, others, sources) ==
    LET all == NodesWhere(g, LAMBDA n : labels[1] \in g.labels[n])
        pass == ApplyStages(NodeRows(hop.dst, all), others, hop.dst, g)
    IN IF labels = <<>> \/ 2 * AdjacencySpan(g, sources, hop.dir) < Len(all) THEN {}
       ELSE {{pass[i][hop.dst][2] : i \in DOMAIN pass}}

(* The kernel knows one type, and reads a snapshot that may be stale.      *)
KernelDeclines(hop, pointCheaper) == Cardinality(hop.types) > 1 \/ pointCheaper

CollapsedGroups(r, pre, pointCheaper, g) ==
    LET hop == Last(r.chain.hops)
        agg == r.agg[1]
        stages == Last(r.chain.stages)
        tests == SelectSeq(stages, IsLabel)
        labels == [i \in DOMAIN tests |-> tests[i][3]]
        others == SelectSeq(stages, LAMBDA f : ~IsLabel(f))
        sources == {pre[i][hop.src][2] : i \in DOMAIN pre}
        nonnull == agg.arg[1] = "x"
        allow == IF others = <<>> THEN {DOMAIN g.labels} ELSE TerminalAllow(g, hop, labels, others, sources)
        masked == IF others = <<>> THEN labels ELSE Tail(labels)
        tally == [s \in sources |->
            IF KernelDeclines(hop, pointCheaper) \/ allow = {} THEN ExpandedTallies(g, s, hop, stages, nonnull)
            ELSE TypedNeighborCounts(g, s, hop, masked, CHOOSE a \in allow : TRUE, nonnull)]
        of == [i \in DOMAIN pre |-> tally[pre[i][hop.src][2]]]
        window == IF r.limits # <<>> /\ LeadsWithCount(r.keys, r.layers[1].items, agg.out)
                  THEN [bound |-> r.limits[1].skip + r.limits[1].count, desc |-> ~r.keys[1][2]] ELSE NoWindow
    IN FoldGroups(agg, pre, [i \in DOMAIN pre |-> of[i][1] > 0],
                  [i \in DOMAIN pre |-> IF nonnull THEN of[i][2] ELSE of[i][1]], window, g)

-----------------------------------------------------------------------------
(* try_execute_vectorized on a plan it takes.                              *)

Groups(r, rows, pointCheaper, g) ==
    IF Collapses(r) THEN CollapsedGroups(r, rows, pointCheaper, g)
    ELSE IF AggregateRoot(r) THEN AggregateGroups(r, rows, g)
    ELSE AggregateRows(rows, r.agg[1].group, r.agg[1].arg, r.agg[1].out, g)

(* Only a general root reads the edges; a collapsed count leaves the last  *)
(* hop to the kernel.                                                      *)
RootRows(r, g) ==
    Materialized(r.chain, Len(r.chain.hops) - (IF r.agg # <<>> /\ Collapses(r) THEN 1 ELSE 0),
                 r.agg # <<>> /\ ~AggregateRoot(r), g)
OfRoot(r, rows, pointCheaper, g) ==
    IF r.agg = <<>> THEN ProjectRecords(r, rows, g) ELSE Above(r, Groups(r, rows, pointCheaper, g), g)

VectorizedRows(plan, pointCheaper, g) ==
    LET of(r) == OfRoot(r, RootRows(r, g), pointCheaper, g) IN of(Peel(plan))

=============================================================================
