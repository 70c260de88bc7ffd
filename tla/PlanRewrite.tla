---------------------------- MODULE PlanRewrite ----------------------------
(***************************************************************************)
(* Optimizer::optimize_impl: the passes that turn the plan of a query into *)
(* the plan that runs.  Each pass is a rewriting of whole plans and one    *)
(* action; the answer of the last plan must be the answer of the query.    *)
(*                                                                         *)
(* env is what the optimizer asks its statistics: the graph (for label and *)
(* type counts and the schema), the labels whose x is indexed, whether the *)
(* right side of a join is estimated heavier (swap), and the row-pipeline- *)
(* only switch (rows).                                                     *)
(***************************************************************************)
EXTENDS CypherPlan, Vectorized

CONSTANTS
    Graphs,      \* the graphs a query may run on
    Queries,     \* the queries
    Indexed,     \* the sets of labels that may have x indexed
    Swaps        \* may the right side of a join be estimated heavier?

-----------------------------------------------------------------------------
(* Walking plans.                                                          *)

(* map_inputs, except below the operators a pass does not look into.       *)
Below(F(_), p, leaves) ==
    IF p.op \in leaves THEN p
    ELSE IF p.op = "HashJoin" THEN HashJoin(F(p.left), F(p.right))
    ELSE IF HasInput(p) THEN [p EXCEPT !.in = F(p.in)]
    ELSE p

Over(p, preds) == FoldLeft(Filter, p, preds)
Barrier(p) == p.op = "Project" /\ p.barrier
LabelCount(g, label) == Cardinality({n \in DOMAIN g.labels : label \in g.labels[n]})

-----------------------------------------------------------------------------
(* Predicates wait in pending between extraction and push-down.  crossable *)
(* counts the LIMITs a predicate came from below, split marks a conjunct.  *)

RECURSIVE Conjuncts(_)
Conjuncts(f) == IF f[1] = "and" THEN Conjuncts(f[2]) \o Conjuncts(f[3]) ELSE <<f>>

SplitConjuncts(pending) ==
    FlattenSeq([i \in DOMAIN pending |->
        LET parts == Conjuncts(pending[i].pred)
        IN [k \in DOMAIN parts |-> [pred |-> parts[k], crossable |-> pending[i].crossable, split |-> Len(parts) > 1]]])

Simplified(pending) == SelectSeq(SplitConjuncts(pending), LAMBDA f : f.pred # <<"true">>)

Crossing(pending, by) == [i \in DOMAIN pending |-> [pending[i] EXCEPT !.crossable = @ + by]]

(* Mutant: one variable in common is enough.                               *)
TouchingVars(pending, vs) == SelectSeq(pending, LAMBDA f : FilterVars(f.pred) \cap vs # {})

(* The predicates that read only vs, and the others.                       *)
WithinVars(pending, vs) == SelectSeq(pending, LAMBDA f : FilterVars(f.pred) \subseteq vs)
OutsideVars(pending, vs) == SelectSeq(pending, LAMBDA f : ~(FilterVars(f.pred) \subseteq vs))
Preds(pending) == [i \in DOMAIN pending |-> pending[i].pred]

(* Only what came from below a LIMIT may go back below it.                 *)
Crossers(pending) == SelectSeq(pending, LAMBDA f : f.crossable > 0)
Stayers(pending) == SelectSeq(pending, LAMBDA f : f.crossable = 0)

(* extract_filters: a plan without its predicates, and the predicates.  A  *)
(* WITH is a scope of its own and is optimized on its own, here.           *)
RECURSIVE Extract(_, _), Optimize(_, _)
Extract(p, env) ==
    LET in == Extract(p.in, env)
        l == Extract(p.left, env)
        r == Extract(p.right, env)
    IN CASE p.op = "Filter" -> <<in[1], Append(in[2], [pred |-> p.pred, crossable |-> 0, split |-> FALSE])>>
         [] p.op = "HashJoin" -> <<HashJoin(l[1], r[1]), l[2] \o r[2]>>
         [] p.op = "Limit" -> <<[p EXCEPT !.in = in[1]], Crossing(in[2], 1)>>
         [] Barrier(p) -> <<[p EXCEPT !.in = Optimize(p.in, env)], <<>>>>
         [] p.op = "OptionalMatch" \/ (p.op # "HashJoin" /\ ~HasInput(p)) -> <<p, <<>>>>
         [] OTHER -> <<[p EXCEPT !.in = in[1]], in[2]>>

(* reorder_operators: the heavier side of a join goes left.                *)
RECURSIVE Reorder(_, _)
Reorder(p, env) ==
    LET q == Below(LAMBDA c : Reorder(c, env), p, {})
    IN IF Barrier(p) THEN p
       ELSE IF p.op = "HashJoin" /\ env.swap THEN HashJoin(q.right, q.left)
       ELSE q

-----------------------------------------------------------------------------
(* select_scan_node: start a chain at its cheaper end.                     *)

(* The hops of a chain over a labelled scan, top hop first.                *)
RECURSIVE ChainOf(_)
ChainOf(p) == IF SingleHop(p) THEN <<p>> \o ChainOf(p.in) ELSE <<>>
RECURSIVE ChainRoot(_)
ChainRoot(p) == IF SingleHop(p) THEN ChainRoot(p.in) ELSE p

Linear(hops, start) ==
    LET k == Len(hops)
        nodes == {start} \cup {hops[i].dst : i \in 1..k}
    IN /\ \A i \in 1..(k - 1) : hops[i].src = hops[i + 1].dst
       /\ hops[k].src = start
       /\ Cardinality(nodes) = k + 1

IndexedEq(v, label, pending, env) ==
    label \in env.indexed /\ \E i \in DOMAIN pending : ~pending[i].split /\ \E b \in PropLiteral(pending[i].pred, v) : b[1] = "="

(* An indexed end wins, then the rarer label.                              *)
Cheaper(to, toLabel, from, fromLabel, pending, env) ==
    LET t == IndexedEq(to, toLabel, pending, env)
        f == IndexedEq(from, fromLabel, pending, env)
    IN IF t # f THEN t ELSE LabelCount(env.g, toLabel) < LabelCount(env.g, fromLabel)

(* Mutant: a reversed hop keeps the constraint of its old position.        *)
SameUnique(hops, i) == hops[i].unique

(* The relationships the i-th hop of a rebuilt chain must differ from.     *)
PriorRels(hops, i) == {hops[j].rel : j \in 1..(i - 1)}

Reversed(hops, scan) ==
    FoldLeftDomain(LAMBDA p, i : Expand(p, hops[i].dst, hops[i].rel, hops[i].src, hops[i].types,
                                        Flip(hops[i].dir), 1, 1, FALSE, PriorRels(hops, i)), scan, hops)

(* try_reverse_chain: the far label becomes the scan's, the near one a     *)
(* predicate born at this depth of LIMITs.                                 *)
ReverseChain(p, pending, env, depth) ==
    LET hops == ChainOf(p)
        root == ChainRoot(p)
        far == hops[1].dst
        named == SelectSeq(pending, LAMBDA f : IsLabel(f.pred) /\ f.pred[2] = far)
        label == named[1].pred[3]
        rest == SelectSeq(pending, LAMBDA f : f.pred # <<"label", far, label>>)
        near == [pred |-> <<"label", root.var, root.label>>, crossable |-> depth, split |-> FALSE]
    IN IF /\ hops # <<>> /\ root.op = "LabelScan" /\ root.label # NoLabel
          /\ Linear(hops, root.var) /\ named # <<>>
          /\ Cheaper(far, label, root.var, root.label, pending, env)
       THEN <<Reversed(hops, LabelScan(far, label)), Append(rest, near)>>
       ELSE <<p, pending>>

RECURSIVE SelectScan(_, _, _, _)
SelectScan(p, pending, env, depth) ==
    LET l == SelectScan(p.left, pending, env, depth)
        r == SelectScan(p.right, l[2], env, depth)
        in == SelectScan(p.in, pending, env, IF p.op = "Limit" THEN depth + 1 ELSE depth)
    IN CASE p.op = "HashJoin" -> <<HashJoin(l[1], r[1]), r[2]>>
         [] p.op = "Expand" -> ReverseChain(p, pending, env, depth)
         [] p.op \in {"Project", "Aggregate", "Sort", "Limit", "Distinct"} /\ ~Barrier(p) ->
                <<[p EXCEPT !.in = in[1]], in[2]>>
         [] OTHER -> <<p, pending>>

-----------------------------------------------------------------------------
(* push_down_filters: each predicate to the lowest operator that binds its *)
(* variables; the plan, and the predicates no operator took.               *)

WrapBound(p, pending) == <<Over(p, Preds(WithinVars(pending, BoundVars(p)))), OutsideVars(pending, BoundVars(p))>>

RECURSIVE PushDown(_, _)
PushDown(p, pending) ==
    LET left == BoundVars(p.left)
        right == BoundVars(p.right)
        l == PushDown(p.left, WithinVars(pending, left))
        r == PushDown(p.right, WithinVars(OutsideVars(pending, left), right))
        neither == OutsideVars(OutsideVars(pending, left), right)
        inner == BoundVars(p.in)
        in == PushDown(p.in, WithinVars(pending, inner))
        all == PushDown(p.in, pending)
        cross == PushDown(p.in, Crossing(Crossers(pending), -1))
    IN CASE p.op = "HashJoin" -> WrapBound(HashJoin(l[1], r[1]), neither \o l[2] \o r[2])
         [] p.op \in {"Expand", "MultiwayJoin", "Project"} /\ ~Barrier(p) ->
                WrapBound([p EXCEPT !.in = in[1]], OutsideVars(pending, inner) \o in[2])
         [] p.op \in {"Aggregate", "Sort", "Distinct"} -> <<[p EXCEPT !.in = all[1]], all[2]>>
         [] p.op = "Limit" -> <<[p EXCEPT !.in = cross[1]], Stayers(pending) \o Crossing(cross[2], 1)>>
         [] p.op = "OptionalMatch" -> <<p, pending>>
         [] OTHER -> WrapBound(p, pending)

(* What no operator binds is kept above the root.                          *)
Pushed(p, pending) == LET r == PushDown(p, pending) IN Over(r[1], Preds(r[2]))

-----------------------------------------------------------------------------
(* optimize_index_scans: a predicate over a scan becomes a seek.           *)

IdLiteral(f, v) ==
    IF f[1] # "=" THEN {}
    ELSE {f[i] : i \in {i \in {2, 3} : f[i][1] = "lit" /\ f[5 - i] = <<"id", v>>}}

Lower(b) == b[1] \in {">", ">="}

(* Only an open side of a range takes another bound.                       *)
OpenSide(bounds, b) == \A c \in bounds : Lower(c) # Lower(b)

ScanFor(scan, f, env) ==
    LET ids == IdLiteral(f, scan.var)
        cmps == PropLiteral(f, scan.var)
        b == CHOOSE b \in cmps : TRUE
        usable == cmps # {} /\ scan.label \in env.indexed
    IN CASE scan.op = "LabelScan" /\ ids # {} ->
                [op |-> "NodeByIdSeek", var |-> scan.var, label |-> scan.label, id |-> CHOOSE i \in ids : TRUE]
         [] scan.op = "LabelScan" /\ ids = {} /\ usable /\ b[1] = "=" ->
                [op |-> "NodeIndexScan", var |-> scan.var, label |-> scan.label, val |-> b[2]]
         [] scan.op = "LabelScan" /\ ids = {} /\ usable /\ b[1] # "=" ->
                [op |-> "NodeRangeScan", var |-> scan.var, label |-> scan.label, bounds |-> {b}]
         [] scan.op = "NodeRangeScan" /\ usable /\ b[1] # "=" /\ OpenSide(scan.bounds, b) ->
                [scan EXCEPT !.bounds = @ \cup {b}]
         [] OTHER -> Filter(scan, f)

RECURSIVE IndexScans(_, _)
IndexScans(p, env) ==
    LET q == Below(LAMBDA c : IndexScans(c, env), p, {"CorrelatedIndexSeek", "ExpandIntersect"})
    IN IF q.op = "Filter" /\ q.in.op \in {"LabelScan", "NodeRangeScan"} THEN ScanFor(q.in, q.pred, env) ELSE q

-----------------------------------------------------------------------------
(* rewrite_correlated_seek: an equality above a join with a bare scan.     *)

(* correlated_seek_decision for one orientation of the equality.           *)
Oriented(target, key, left, right, env) ==
    LET v == target[2]
        scans(p) == p.op = "LabelScan" /\ p.var = v
        scan == IF scans(left) THEN left ELSE right
        driver == IF scans(left) THEN right ELSE left
    IN IF /\ target[1] \in {"x", "id"} /\ v \notin ExprVars(key)
          /\ scans(left) \/ scans(right)
          /\ ExprVars(key) \subseteq BoundVars(driver)
          /\ target[1] = "x" => scan.label \in env.indexed
       THEN {[op |-> "CorrelatedIndexSeek", in |-> driver, var |-> v, label |-> scan.label,
              byId |-> target[1] = "id", key |-> key]}
       ELSE {}

SeekDecision(f, left, right, env) ==
    LET one == Oriented(f[2], f[3], left, right, env)
    IN IF f[1] # "=" THEN {} ELSE IF one # {} THEN one ELSE Oriented(f[3], f[2], left, right, env)

RECURSIVE CorrelatedSeek(_, _)
CorrelatedSeek(p, env) ==
    LET q == Below(LAMBDA c : CorrelatedSeek(c, env), p, {})
        seeks == IF q.op = "Filter" /\ q.in.op = "HashJoin" THEN SeekDecision(q.pred, q.in.left, q.in.right, env) ELSE {}
    IN IF seeks = {} THEN q ELSE CHOOSE k \in seeks : TRUE

-----------------------------------------------------------------------------
(* rewrite_join_to_expand: thread a chain off a variable already bound.    *)

RECURSIVE GraftRoot(_)
GraftRoot(p) == IF p.op = "Filter" \/ (p.op = "Expand" /\ p.min = 1 /\ p.max = 1) THEN GraftRoot(p.in) ELSE p

RECURSIVE GraftOnto(_, _)
GraftOnto(chain, driver) ==
    IF chain.op # "LabelScan" THEN [chain EXCEPT !.in = GraftOnto(chain.in, driver)]
    ELSE IF chain.label = NoLabel THEN driver
    ELSE Filter(driver, <<"label", chain.var, chain.label>>)

(* The scanned variable must be the only one the two sides share.          *)
Graftable(driver, chain) ==
    GraftRoot(chain).op = "LabelScan" /\ BoundVars(driver) \cap BoundVars(chain) = {GraftRoot(chain).var}

RECURSIVE JoinToExpand(_)
JoinToExpand(p) ==
    LET q == Below(JoinToExpand, p, {"CorrelatedIndexSeek", "MultiwayJoin", "ExpandIntersect"})
    IN CASE q.op # "HashJoin" -> q
         [] q.op = "HashJoin" /\ "OptionalMatch" \in {q.left.op, q.right.op} -> q
         [] q.op = "HashJoin" /\ "OptionalMatch" \notin {q.left.op, q.right.op} ->
                IF Graftable(q.left, q.right) THEN GraftOnto(q.right, q.left)
                ELSE IF Graftable(q.right, q.left) THEN GraftOnto(q.left, q.right)
                ELSE q

(* rewrite_closing_expands: a hop to a bound node checks one edge.         *)
RECURSIVE ClosingExpands(_)
ClosingExpands(p) ==
    LET q == Below(ClosingExpands, p, {"CorrelatedIndexSeek", "ExpandIntersect"})
    IN IF SingleHop(q) /\ q.dst \in BoundVars(q.in)
       THEN [op |-> "MultiwayJoin", in |-> q.in, src |-> q.src, dst |-> q.dst, types |-> q.types,
             rel |-> q.rel, dir |-> q.dir, unique |-> q.unique]
       ELSE q

-----------------------------------------------------------------------------
(* Counting without rows.  A recognizer returns the kernel that replaces   *)
(* an aggregate, or nothing; First applies it to the topmost that fits.    *)

RECURSIVE First(_, _, _)
First(Try(_), p, through) ==
    IF Try(p) # {} THEN CHOOSE k \in Try(p) : TRUE
    ELSE IF p.op \in through THEN [p EXCEPT !.in = First(Try, p.in, through)]
    ELSE p

RootOps == {"Project", "Limit", "Sort", "Distinct", "Filter"}
PlainCount(p) == p.op = "Aggregate" /\ p.group = <<>>
CountsAny(arg, vars) == arg = <<"star">> \/ (arg[1] = "var" /\ arg[2] \in vars)
ForwardHop(p) == SingleHop(p) /\ p.dir = "out" /\ Cardinality(p.types) <= 1

(* reduce_count: a count that label or type metadata already holds; a zero *)
(* is left to the scan.                                                    *)
MetadataCount(p, g) ==
    CASE p.op = "LabelScan" /\ p.label # NoLabel -> LabelCount(g, p.label)
      [] /\ p.op = "Expand" /\ p.min = 1 /\ p.max = 1 /\ p.dir # "both" /\ Cardinality(p.types) = 1
         /\ p.in.op = "LabelScan" /\ p.in.label = NoLabel -> Cardinality(EdgesOf(g, p.types))
      [] OTHER -> 0

RECURSIVE ReduceCount(_, _)
ReduceCount(p, env) ==
    LET n == MetadataCount(p.in, env.g)
    IN IF PlainCount(p) /\ (p.arg = <<"star">> \/ p.arg[1] = "var") /\ n > 0
       THEN Project(SingleRow, << <<<<"lit", n>>, p.out>> >>, FALSE)
       ELSE IF p.op \in {"Project", "Sort", "Limit", "Distinct"} /\ ~Barrier(p)
       THEN [p EXCEPT !.in = ReduceCount(p.in, env)]
       ELSE p

(* try_triangle_count: three forward hops of one pattern, the last closing *)
(* on the first node, at most a label on each.                             *)
PeelLabel(p) == IF p.op = "Filter" /\ IsLabel(p.pred) THEN p.in ELSE p
PeeledLabel(p) == IF p.op = "Filter" /\ IsLabel(p.pred) THEN <<p.pred[2], p.pred[3]>> ELSE <<"", NoLabel>>
LabelOn(peeled, v) == peeled[2] = NoLabel \/ peeled[1] = v

TryTriangle(p) ==
    LET close == p.in
        second == PeelLabel(close.in)
        c == PeeledLabel(close.in)
        first == PeelLabel(second.in)
        b == PeeledLabel(second.in)
        scan == first.in
    IN IF /\ PlainCount(p)
          /\ close.op = "MultiwayJoin" /\ close.dir = "out" /\ Cardinality(close.types) <= 1
          /\ ForwardHop(second) /\ ForwardHop(first) /\ scan.op = "LabelScan"
          /\ first.src = scan.var /\ second.src = first.dst /\ close.src = second.dst /\ close.dst = scan.var
          /\ Cardinality({scan.var, first.dst, second.dst}) = 3
          /\ LabelOn(c, second.dst) /\ LabelOn(b, first.dst)
          /\ first.unique = {} /\ second.unique = {first.rel} /\ close.unique = {first.rel, second.rel}
          /\ CountsAny(p.arg, {scan.var, first.dst, second.dst, first.rel, second.rel, close.rel})
       THEN {[op |-> "TriangleCount", types |-> <<first.types, second.types, close.types>>,
              labels |-> <<scan.label, b[2], c[2]>>, out |-> p.out]}
       ELSE {}

(* peel_vertex_constraints and resolve_vertex_constraints: the predicates  *)
(* above an operator, each on one vertex, and what they say of v.          *)
OnOneVertex(f) ==
    \/ IsLabel(f)
    \/ IsComparison(f) /\ \E i \in {2, 3} : f[i][1] = "x" /\ f[5 - i][1] = "lit"

RECURSIVE Peeled(_), Constraints(_)
Peeled(p) == IF p.op = "Filter" /\ OnOneVertex(p.pred) THEN Peeled(p.in) ELSE p
Constraints(p) == IF p.op = "Filter" /\ OnOneVertex(p.pred) THEN {p.pred} \cup Constraints(p.in) ELSE {}

LabelsIn(cons) == {f[3] : f \in {f \in cons : IsLabel(f)}}
Resolves(cons, v) == (\A f \in cons : FilterVars(f) = {v}) /\ Cardinality(LabelsIn(cons)) <= 1
PredsIn(cons, v) == UNION {PropLiteral(f, v) : f \in cons}

(* merge_scan_label, as the set of labels; one at most can be masked.      *)
MaskLabels(cons, scanLabel) == LabelsIn(cons) \cup ({scanLabel} \ {NoLabel})
TheLabel(labels) == IF labels = {} THEN NoLabel ELSE CHOOSE l \in labels : TRUE
(* The property index is scoped by label: a predicate needs one.           *)
Maskable(labels, preds) == Cardinality(labels) <= 1 /\ (preds # {} => labels # {})

TryPathCount(p) ==
    LET last == Peeled(p.in)
        mid == Peeled(last.in)
        two == ForwardHop(mid)
        scan == IF two THEN Peeled(mid.in) ELSE mid
        cons == IF two THEN <<Constraints(mid.in), Constraints(last.in), Constraints(p.in)>>
                ELSE <<Constraints(last.in), Constraints(p.in)>>
        vars == IF two THEN <<scan.var, mid.dst, last.dst>> ELSE <<scan.var, last.dst>>
        rels == IF two THEN {mid.rel, last.rel} ELSE {last.rel}
        labels(i) == MaskLabels(cons[i], IF i = 1 THEN scan.label ELSE NoLabel)
        preds(i) == PredsIn(cons[i], vars[i])
    IN IF /\ PlainCount(p) /\ ForwardHop(last) /\ scan.op = "LabelScan"
          /\ IF two THEN mid.src = scan.var /\ last.src = mid.dst /\ mid.unique = {} /\ last.unique = {mid.rel}
             ELSE last.src = scan.var /\ last.unique = {}
          /\ IsInjective(vars)
          /\ CountsAny(p.arg, rels \cup {vars[i] : i \in DOMAIN vars})
          /\ \A i \in DOMAIN vars : Resolves(cons[i], vars[i]) /\ Maskable(labels(i), preds(i))
       THEN {[op |-> "PathCount", types |-> IF two THEN <<mid.types, last.types>> ELSE <<last.types>>,
              labels |-> [i \in DOMAIN vars |-> TheLabel(labels(i))],
              filters |-> [i \in DOMAIN vars |-> preds(i)], out |-> p.out]}
       ELSE {}

(* try_grouped_degree: a count grouped by x of the far end of one hop.  A  *)
(* predicate on the group end would decide which groups exist.             *)
TryGroupedDegree(p) ==
    LET hop == Peeled(p.in)
        scan == Peeled(hop.in)
        far == Constraints(p.in)
        near == Constraints(hop.in)
        labels == MaskLabels(near, scan.label)
    IN IF /\ p.op = "Aggregate" /\ p.group # <<>>
          /\ DirectedHop(hop) /\ hop.unique = {} /\ hop.src # hop.dst /\ Cardinality(hop.types) <= 1
          /\ scan.op \in {"LabelScan", "NodeIndexScan", "NodeRangeScan"} /\ scan.var = hop.src
          /\ \A i \in DOMAIN p.group : p.group[i][1] = <<"x", hop.dst>>
          /\ p.arg \in {<<"star">>, <<"var", hop.src>>, <<"x", hop.src>>}
          /\ Resolves(far, hop.dst) /\ Resolves(near, hop.src)
          /\ PredsIn(far, hop.dst) = {} /\ Maskable(labels, PredsIn(near, hop.src))
       THEN {[op |-> "GroupedDegree", types |-> hop.types, groupIsDst |-> hop.dir = "out",
              groupLabel |-> TheLabel(LabelsIn(far)), countedLabel |-> TheLabel(labels),
              filters |-> PredsIn(near, hop.src), leaf |-> IF scan.op = "LabelScan" THEN {} ELSE {scan},
              nonnull |-> p.arg[1] = "x", group |-> p.group, out |-> p.out, window |-> NoWindow]}
       ELSE {}

(* rewrite_grouped_degree_window: ORDER BY the count LIMIT n, when nothing *)
(* lies between but the projection.                                        *)
RECURSIVE CountWindow(_)
CountWindow(p) ==
    LET q == IF p.op \in RootOps THEN [p EXCEPT !.in = CountWindow(p.in)] ELSE p
        kernel == q.in.in.in
    IN IF /\ q.op = "Limit" /\ q.in.op = "Sort" /\ q.in.in.op = "Project" /\ kernel.op = "GroupedDegree"
          /\ LeadsWithCount(q.in.keys, q.in.in.items, kernel.out)
       THEN [q EXCEPT !.in.in.in.window = [bound |-> q.skip + q.count, desc |-> ~q.in.keys[1][2]]]
       ELSE q

Kernels(p, env) ==
    IF env.rows THEN p
    ELSE CountWindow(First(TryGroupedDegree, First(TryPathCount, First(TryTriangle, ReduceCount(p, env), RootOps),
                                                RootOps), RootOps))

-----------------------------------------------------------------------------
(* prune_unsatisfiable: a typed hop between labels that no edge connects.  *)

(* The labels a scope demands of its variables: not those of a WITH below  *)
(* it, nor those of an OPTIONAL MATCH, which demands nothing.              *)
RECURSIVE DemandedLabels(_)
DemandedLabels(p) ==
    LET own == CASE p.op = "Filter" /\ IsLabel(p.pred) -> {<<p.pred[2], p.pred[3]>>}
                 [] p.op \in {"LabelScan", "NodeByIdSeek", "NodeIndexScan", "NodeRangeScan", "CorrelatedIndexSeek"}
                    /\ p.label # NoLabel -> {<<p.var, p.label>>}
                 [] OTHER -> {}
    IN CASE Barrier(p) \/ p.op = "OptionalMatch" -> {}
         [] p.op = "HashJoin" -> DemandedLabels(p.left) \cup DemandedLabels(p.right)
         [] HasInput(p) /\ ~Barrier(p) /\ p.op # "OptionalMatch" -> own \cup DemandedLabels(p.in)
         [] OTHER -> own

(* schema_has_edge answers FALSE; a name the graph does not know is        *)
(* undecided.                                                              *)
NoSuchEdge(g, from, type, to) ==
    /\ LabelCount(g, from) > 0 /\ LabelCount(g, to) > 0 /\ EdgesOf(g, {type}) # {}
    /\ \A e \in EdgesOf(g, {type}) : ~(from \in g.labels[g.edges[e].src] /\ to \in g.labels[g.edges[e].dst])

HopIsImpossible(g, hop, demanded) ==
    LET labels(v) == {d[2] : d \in {d \in demanded : d[1] = v}}
        absent(us, vs) == \E u \in us, v \in vs, t \in hop.types : NoSuchEdge(g, u, t, v)
    IN /\ Cardinality(hop.types) = 1
       /\ hop.dir # "in" => absent(labels(hop.src), labels(hop.dst))
       /\ hop.dir # "out" => absent(labels(hop.dst), labels(hop.src))

RECURSIVE PruneBy(_, _, _)
PruneBy(p, demanded, g) ==
    LET q == Below(LAMBDA c : PruneBy(c, demanded, g), p, {})
    IN IF Barrier(p) THEN p
       ELSE IF q.op = "Expand" /\ q.min = 1 /\ q.max = 1 /\ HopIsImpossible(g, q, demanded)
       THEN [op |-> "Limit", in |-> q, skip |-> 0, count |-> 0]
       ELSE q

Prune(p, env) == IF env.rows THEN p ELSE PruneBy(p, DemandedLabels(p), env.g)

(* rewrite_expand_intersect: a hop and the edge that closes on it become   *)
(* one step; predicates between them that cannot raise move above.         *)
CannotRaise(f) == IsLabel(f) \/ (IsComparison(f) /\ {f[2][1], f[3][1]} \subseteq {"x", "lit"})

RECURSIVE ExpandIntersect(_, _)
ExpandIntersect(p, env) ==
    LET q == Below(LAMBDA c : ExpandIntersect(c, env), p, {})
        hop == UnderFilters(q.in)
        preds == FiltersOver(q.in)
    IN IF /\ ~env.rows /\ q.op = "MultiwayJoin" /\ q.dir # "both"
          /\ \A i \in DOMAIN preds : CannotRaise(preds[i])
          /\ DirectedHop(hop) /\ hop.dst = q.src /\ q.dst \in BoundVars(hop.in)
       THEN Over([op |-> "ExpandIntersect", in |-> hop.in, src |-> hop.src, rel |-> hop.rel, dst |-> hop.dst,
                  types |-> hop.types, dir |-> hop.dir, unique |-> hop.unique, cdst |-> q.dst,
                  ctypes |-> q.types, crel |-> q.rel, cdir |-> q.dir, cunique |-> q.unique], preds)
       ELSE q

-----------------------------------------------------------------------------
(* optimize_impl as one function, for the scopes inside a WITH.            *)

Structure(p, env) == ClosingExpands(JoinToExpand(CorrelatedSeek(IndexScans(p, env), env)))

Optimize(p, env) ==
    LET bare == Extract(p, env)
        chosen == SelectScan(Reorder(bare[1], env), Simplified(bare[2]), env, 0)
        pushed == Pushed(chosen[1], chosen[2])
    IN ExpandIntersect(Prune(Kernels(Structure(pushed, env), env), env), env)

-----------------------------------------------------------------------------
(* A query on its way: planned, rewritten pass by pass, executed.          *)

VARIABLES env, query, plan, pending, pass, rows
vars == <<env, query, plan, pending, pass, rows>>

Init ==
    /\ env \in [g : Graphs, indexed : Indexed, swap : Swaps, rows : BOOLEAN]
    /\ query \in Queries
    /\ plan = Plan(query) /\ pending = <<>> /\ pass = "planned" /\ rows = <<>>

Rewrite(from, to, p, fs) ==
    /\ pass = from /\ pass' = to
    /\ plan' = p /\ pending' = fs
    /\ UNCHANGED <<env, query, rows>>

ExtractFilters ==
    \E r \in {Extract(plan, env)} : Rewrite("planned", "extracted", r[1], Simplified(r[2]))
ReorderOperators == Rewrite("extracted", "ordered", Reorder(plan, env), pending)
SelectScanNode ==
    LET r == SelectScan(plan, pending, env, 0) IN Rewrite("ordered", "rooted", r[1], r[2])
PushDownFilters == Rewrite("rooted", "pushed", Pushed(plan, pending), <<>>)
OptimizeIndexScans == Rewrite("pushed", "scanned", IndexScans(plan, env), pending)
RewriteCorrelatedSeek == Rewrite("scanned", "sought", CorrelatedSeek(plan, env), pending)
RewriteJoinToExpand == Rewrite("sought", "grafted", JoinToExpand(plan), pending)
RewriteClosingExpands == Rewrite("grafted", "closed", ClosingExpands(plan), pending)
CountWithoutRows == Rewrite("closed", "counted", Kernels(plan, env), pending)
PruneUnsatisfiable == Rewrite("counted", "pruned", Prune(plan, env), pending)
RewriteExpandIntersect == Rewrite("pruned", "ready", ExpandIntersect(plan, env), pending)

(* A plan the columns can answer runs on them, unless rows are asked for;  *)
(* whether expanding a few sources beats refreshing the snapshot is not    *)
(* the plan's to say.                                                      *)
Execute ==
    /\ pass = "ready" /\ pass' = "answered"
    /\ IF ~env.rows /\ Recognized(plan, query.items)
       THEN \E pointCheaper \in BOOLEAN :
                rows' = Once(VectorizedRows(plan, pointCheaper, env.g), query)
       ELSE rows' = Rows(plan, NoSip, env.g)
    /\ UNCHANGED <<env, query, plan, pending>>

Next ==
    \/ ExtractFilters \/ ReorderOperators \/ SelectScanNode \/ PushDownFilters
    \/ OptimizeIndexScans \/ RewriteCorrelatedSeek \/ RewriteJoinToExpand \/ RewriteClosingExpands
    \/ CountWithoutRows \/ PruneUnsatisfiable \/ RewriteExpandIntersect \/ Execute

Spec == Init /\ [][Next]_vars

-----------------------------------------------------------------------------
(* Properties.                                                             *)

SameBag(a, b) ==
    /\ Len(a) = Len(b)
    /\ \A i \in DOMAIN a : Cardinality({j \in DOMAIN a : a[j] = a[i]}) = Cardinality({j \in DOMAIN b : b[j] = a[i]})

SameAnswer(have, want, ordered) == IF ordered THEN have = want ELSE SameBag(have, want)

(* The optimized plan, whatever the statistics said and whichever operators *)
(* and kernels it runs on, answers the query with exactly the rows the     *)
(* clauses mean, and in their order when the query asks for one.           *)
AnsweredRight ==
    pass = "answered" =>
        SameAnswer(Narrowed(rows, ItemNames(query.items)), Answer(query, env.g), query.order # <<>>)

(* Every predicate, hop and seek of a plan that runs reads only variables  *)
(* the operators below it bind: reading an unbound one fails the whole     *)
(* statement, and testing its label drops the row.                         *)
RECURSIVE Scoped(_)
Scoped(p) ==
    LET in == BoundVars(p.in)
    IN /\ p.op = "Filter" => FilterVars(p.pred) \subseteq in
       /\ p.op = "Expand" => p.src \in in
       /\ p.op = "MultiwayJoin" => {p.src, p.dst} \subseteq in
       /\ p.op = "ExpandIntersect" => {p.src, p.cdst} \subseteq in
       /\ p.op = "CorrelatedIndexSeek" => ExprVars(p.key) \subseteq in
       /\ p.op = "HashJoin" => Scoped(p.left) /\ Scoped(p.right)
       /\ HasInput(p) => Scoped(p.in)

WellScoped == pass = "ready" => Scoped(plan)

=============================================================================
