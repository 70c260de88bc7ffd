----------------------------- MODULE Validate -----------------------------
(* Between the parser and the planner: how a sequence of clauses becomes a  *)
(* statement, how a star beside other items is spelled out, and every pass  *)
(* that accepts or refuses a statement before anything runs.                *)
(*                                                                          *)
(* An expression keeps what the passes look at: its form, the name it       *)
(* reads or calls, the operands evaluated in its own scope, and the         *)
(* operands evaluated with the names it binds itself.                       *)
EXTENDS Naturals, Sequences, FiniteSets, SequencesExt

-----------------------------------------------------------------------------
(* Patterns and expressions.                                               *)

None == ""

Node(v, labelled, props) == [var |-> v, labelled |-> labelled, props |-> props]
Rel(v, types, directed, ranged, props) ==
    [var |-> v, types |-> types, directed |-> directed, ranged |-> ranged, props |-> props]
Pattern(path, node, hops) == [path |-> path, node |-> node, hops |-> hops]

NodesOf(p) == <<p.node>> \o [i \in DOMAIN p.hops |-> p.hops[i][2]]
RelsOf(p) == [i \in DOMAIN p.hops |-> p.hops[i][1]]
Named(seq) == {seq[i].var : i \in DOMAIN seq} \ {None}
PatternProps(p) == FlattenSeq([i \in DOMAIN (NodesOf(p) \o RelsOf(p)) |-> (NodesOf(p) \o RelsOf(p))[i].props])
NoPattern == Pattern(None, Node(None, FALSE, <<>>), <<>>)

collect_pattern_vars(p) == (Named(NodesOf(p)) \cup Named(RelsOf(p)) \cup {p.path}) \ {None}
collect_pattern_bound_vars(p) == collect_pattern_vars(p)

Form(form, name, prop, args, local, inner, pat) ==
    [form |-> form, name |-> name, prop |-> prop, args |-> args, local |-> local, inner |-> inner, pat |-> pat]
Plain(form, name, args) == Form(form, name, None, args, {}, <<>>, NoPattern)

Prop(v, p) == Form("ref", v, p, <<>>, {}, <<>>, NoPattern)
Ref(v) == Prop(v, None)
HasLabel(v) == Plain("label", v, <<>>)
Lit == Plain("lit", None, <<>>)
Null == Plain("null", None, <<>>)
Op(args) == Plain("op", None, args)
Index(e, i) == Plain("index", None, <<e, i>>)
Slice(args) == Plain("slice", None, args)
Case(args) == Plain("case", None, args)
Call(f, args) == Plain("call", f, args)
Agg(e) == Plain("agg", None, <<e>>)
CountStar == Plain("countstar", None, <<>>)
Each(v, list, body) == Form("each", None, None, <<list>>, {v}, body, NoPattern)
Reduce(acc, v, init, list, body) == Form("reduce", None, None, <<init, list>>, {acc, v}, <<body>>, NoPattern)
Quantifier(v, list, pred) == Form("quant", None, None, <<list>>, {v}, <<pred>>, NoPattern)
PatternPredicate(p) == Form("patpred", None, None, PatternProps(p), {}, <<>>, p)
ExistsSubquery(p, preds) ==
    Form("exists", None, None, <<>>, collect_pattern_vars(p), preds \o PatternProps(p), p)
PatternComprehension(p, preds, out) ==
    Form("patcomp", None, None, <<>>, (collect_pattern_vars(p) \ {p.node.var}) \cup (Named(Tail(NodesOf(p)))),
         preds \o <<out>> \o PatternProps(p), p)
Star == Plain("call", "__star__", <<>>)

-----------------------------------------------------------------------------
(* What the passes ask of an expression.                                   *)

OwnVars(e) ==
    CASE e.form \in {"ref", "label"} -> {e.name}
      [] e.form = "patpred" -> Named(NodesOf(e.pat)) \cup Named(RelsOf(e.pat))
      [] e.form = "patcomp" -> {e.pat.node.var} \ {None}
      [] OTHER -> {}

RECURSIVE collect_expr_vars(_)
collect_expr_vars(e) ==
    OwnVars(e)
    \cup UNION {collect_expr_vars(a) : a \in Range(e.args)}
    \cup (UNION {collect_expr_vars(a) : a \in Range(e.inner)} \ e.local)

VarsOf(seq) == UNION {collect_expr_vars(e) : e \in Range(seq)}

\* The subexpressions a walker reaches that descends only through some forms.
RECURSIVE Reached(_, _)
Reached(e, through) ==
    {e} \cup IF e.form \in through
             THEN UNION {Reached(a, through) : a \in Range(e.args \o e.inner)}
             ELSE {}

Aggregates == {"agg", "countstar"}
Operators == {"op", "call", "index", "case"}
Compound == Operators \cup {"slice", "each", "reduce", "quant"}

collect_agg_exprs(e) == {s \in Reached(e, Compound) : s.form \in Aggregates}
expr_has_aggregation(e) == collect_agg_exprs(e) # {}
has_aggregation(e) == \E s \in Reached(e, Compound) : s.form \in Aggregates
expr_contains_aggregate(e) == \E s \in Reached(e, Operators) : s.form \in Aggregates
expr_contains_rand(e) == \E s \in Reached(e, Operators \cup {"agg"}) : s.form = "call" /\ s.name = "rand"
expr_contains_pattern_predicate(e) ==
    \E s \in Reached(e, Compound \cup {"agg", "patcomp"}) : s.form = "patpred"

check_aggregation_arg(e) ==
    \A s \in Reached(e, Operators \cup {"agg"}) :
        s.form = "agg" => ~expr_contains_aggregate(s.args[1]) /\ ~expr_contains_rand(s.args[1])

\* Variable and property of every read outside an aggregate.
RECURSIVE collect_non_agg_props_in_expr(_)
collect_non_agg_props_in_expr(e) ==
    IF e.form \in Aggregates \cup {"patpred"} THEN {}
    ELSE (CASE e.form = "ref" -> {<<e.name, e.prop>>}
            [] e.form = "label" -> {<<e.name, None>>}
            [] e.form = "patcomp" -> {<<v, None>> : v \in {e.pat.node.var} \ {None}}
            [] OTHER -> {})
         \cup UNION {collect_non_agg_props_in_expr(a) : a \in Range(e.args)}
         \cup {r \in UNION {collect_non_agg_props_in_expr(a) : a \in Range(e.inner)} : r[1] \notin e.local}

\* Every read outside an aggregate is of a grouping key.
RECURSIVE check_expr_non_agg(_, _, _, _)
check_expr_non_agg(e, exprs, aliases, local) ==
    CASE e.form = "ref" ->
            \/ e \in exprs
            \/ e.prop = None /\ e.name \in aliases
            \/ e.name \in local
      [] e.form = "label" -> e.name \in aliases \cup local
      [] e.form \in Compound ->
            /\ \A a \in Range(e.args) : check_expr_non_agg(a, exprs, aliases, local)
            /\ \A a \in Range(e.inner) : check_expr_non_agg(a, exprs, aliases, local \cup e.local)
      [] e.form = "patcomp" ->
            LET count == Len(e.inner) - Len(PatternProps(e.pat))
            IN  \A i \in 1..count :
                    check_expr_non_agg(e.inner[i], exprs, aliases, local \cup collect_pattern_vars(e.pat))
      [] OTHER -> TRUE

-----------------------------------------------------------------------------
(* Clauses.  An absent WHERE, ORDER BY or page is an empty sequence.       *)

Item(e, alias) == [expr |-> e, alias |-> alias]
Empty == [c |-> "", pats |-> <<>>, where |-> <<>>, items |-> <<>>, after |-> <<>>, order |-> <<>>, page |-> <<>>,
          distinct |-> FALSE, exprs |-> <<>>, var |-> None, sets |-> <<>>, removes |-> {}, yields |-> {},
          body |-> <<>>]

Match(pats, where) == [Empty EXCEPT !.c = "match", !.pats = pats, !.where = where]
Optional(pats, where) == [Match(pats, where) EXCEPT !.c = "optional"]
With(items, where, order, after) ==
    [Empty EXCEPT !.c = "with", !.items = items, !.where = where, !.order = order, !.after = after]
Unwind(e, v) == [Empty EXCEPT !.c = "unwind", !.exprs = <<e>>, !.var = v]
Create(pats) == [Empty EXCEPT !.c = "create", !.pats = pats]
\* A set item is the variable it writes and the expressions it reads.
SetItem(v, exprs) == [var |-> v, exprs |-> exprs]
Merge(pat, sets) == [Empty EXCEPT !.c = "merge", !.pats = <<pat>>, !.sets = sets]
SetClause(sets) == [Empty EXCEPT !.c = "set", !.sets = sets]
Delete(targets) == [Empty EXCEPT !.c = "delete", !.exprs = targets]
RemoveClause(vars) == [Empty EXCEPT !.c = "remove", !.removes = vars]
CallClause(args, yields) == [Empty EXCEPT !.c = "call", !.exprs = args, !.yields = yields]
Foreach(v, list, body) == [Empty EXCEPT !.c = "foreach", !.var = v, !.exprs = <<list>>, !.body = body]
Return(items, order, distinct) ==
    [Empty EXCEPT !.c = "return", !.items = items, !.order = order, !.distinct = distinct]

BindsPatterns(c) == c.c \in {"match", "optional", "create", "merge"}
BoundBy(c) == UNION {collect_pattern_bound_vars(p) : p \in Range(c.pats)}

is_star_item(item) == item.expr = Star

-----------------------------------------------------------------------------
(* Clauses to a statement.                                                 *)

\* MATCH clauses of one pattern, a WHERE after the last of them only, and
\* then one clause of the kind.
MatchesThen(cs, kind) ==
    /\ Len(cs) > 1
    /\ cs[Len(cs)].c = kind
    /\ \A i \in 1..(Len(cs) - 1) :
        /\ cs[i].c = "match" /\ Len(cs[i].pats) = 1
        /\ i < Len(cs) - 1 => cs[i].where = <<>>

Only(cs, kind) == Len(cs) = 1 /\ cs[1].c = kind

\* The alternatives of the parser in their order: a dedicated statement where
\* the clauses are exactly its shape, and otherwise a query.
base_stmt(cs) ==
    LET ret == cs[Len(cs)].c = "return"
        front == IF ret THEN Front(cs) ELSE cs
        kind ==
            CASE ret /\ Only(front, "create") -> "create_return"
              [] ret /\ MatchesThen(front, "set") -> "set_return"
              [] ret /\ MatchesThen(front, "delete") -> "delete_return"
              [] ret /\ MatchesThen(front, "remove") -> "remove_return"
              [] ret /\ Only(front, "merge") -> "merge_return"
              [] ~ret /\ Only(front, "create") -> "create"
              [] ~ret /\ Len(front) = 2 /\ front[1].c = "match" /\ front[2].c = "delete" -> "delete"
              [] ~ret /\ Only(front, "merge") -> "merge"
              [] ~ret /\ MatchesThen(front, "set") -> "set"
              [] ~ret /\ MatchesThen(front, "remove") -> "remove"
              [] ~ret /\ Only(front, "foreach") -> "foreach"
              [] OTHER -> "query"
    IN  [kind |-> kind, clauses |-> cs, stmts |-> <<>>]

Several(kind, stmts) == [kind |-> kind, clauses |-> <<>>, stmts |-> stmts]

\* UNION takes everything after it as its right side; one statement is no
\* pipeline.
RECURSIVE statement_union_parser(_)
statement_union_parser(branches) ==
    IF Len(branches) = 1 THEN base_stmt(branches[1])
    ELSE Several("union", <<base_stmt(branches[1]), statement_union_parser(Tail(branches))>>)

pipeline_parser(segments) ==
    IF Len(segments) = 1 THEN statement_union_parser(segments[1])
    ELSE Several("pipeline", [i \in DOMAIN segments |-> statement_union_parser(segments[i])])

Body(c) == base_stmt(c.body)

-----------------------------------------------------------------------------
(* The scope in front of a clause.  The passes differ in which clauses they *)
(* let bind, and in whether WITH * drops, keeps or extends what was bound. *)

OutputName(item) ==
    IF item.alias # None THEN item.alias
    ELSE IF item.expr.form = "ref" /\ item.expr.prop = None THEN item.expr.name ELSE None

HasStar(items) == \E i \in DOMAIN items : is_star_item(items[i])
with_output_scope(items) == {OutputName(items[i]) : i \in DOMAIN items} \ {None}
AliasesOf(items) == {items[i].alias : i \in DOMAIN items} \ {None}

\* The scope if WITH added its names to those before it.
ScopeOfAdding(cs, upto, initial, binding, star) ==
    initial \cup UNION {CASE cs[i].c = "with" -> with_output_scope(cs[i].items)
                          [] cs[i].c = "unwind" -> {cs[i].var}
                          [] OTHER -> BoundBy(cs[i]) \cup cs[i].yields : i \in 1..upto}

Scope(cs, upto, initial, binding, star) ==
    LET Step(scope, c) ==
            CASE c.c \in binding /\ BindsPatterns(c) -> scope \cup BoundBy(c)
              [] c.c = "call" /\ "call" \in binding -> scope \cup c.yields
              [] c.c = "unwind" -> scope \cup {c.var}
              [] c.c = "with" /\ ~HasStar(c.items) -> with_output_scope(c.items)
              [] c.c = "with" /\ HasStar(c.items) ->
                    [drop |-> {}, keep |-> scope, extend |-> scope \cup AliasesOf(c.items)][star]
              [] OTHER -> scope
    IN  FoldLeft(Step, initial, SubSeq(cs, 1, upto))

Patterned == {"match", "optional", "create", "merge"}
Everything == Patterned \cup {"call"}

-----------------------------------------------------------------------------
(* A star beside other items.                                              *)

expand_star_list(items, scope) ==
    IF Len(items) < 2 \/ ~HasStar(items) THEN items
    ELSE LET vars == SetToSeq(scope)
         IN  FlattenSeq([i \in DOMAIN items |->
                IF is_star_item(items[i]) THEN [j \in DOMAIN vars |-> Item(Ref(vars[j]), None)]
                ELSE <<items[i]>>])

expand_star_in_query(cs) ==
    LET Step(out, c) ==
            Append(out, IF c.c \in {"with", "return"}
                        THEN [c EXCEPT !.items = expand_star_list(@, Scope(out, Len(out), {}, Patterned, "extend"))]
                        ELSE c)
    IN  FoldLeft(Step, <<>>, cs)

RECURSIVE expand_star_items(_)
expand_star_items(s) ==
    CASE s.kind = "query" -> [s EXCEPT !.clauses = expand_star_in_query(@)]
      [] s.kind = "union" -> [s EXCEPT !.stmts = [i \in DOMAIN @ |-> expand_star_items(@[i])]]
      [] OTHER -> s

-----------------------------------------------------------------------------
(* Variables in scope.                                                     *)

validate_pattern_exprs(pats, active) ==
    \A i \in DOMAIN pats :
        VarsOf(PatternProps(pats[i])) \subseteq
            active \cup UNION {collect_pattern_bound_vars(pats[j]) : j \in 1..(i - 1)}

validate_set_item_vars(sets, active) ==
    \A i \in DOMAIN sets : sets[i].var \in active /\ VarsOf(sets[i].exprs) \subseteq active

ItemVars(items) == UNION {collect_expr_vars(items[i].expr) : i \in DOMAIN items}

\* One clause of a statement against the scope in front of it.
ClauseInScope(c, kind, active) ==
    CASE BindsPatterns(c) ->
            LET inside == active \cup BoundBy(c)
            IN  /\ validate_pattern_exprs(c.pats, active)
                /\ VarsOf(c.where) \subseteq inside
                /\ validate_set_item_vars(c.sets, inside)
      [] c.c = "with" ->
            LET inside == active \cup with_output_scope(c.items)
            IN  /\ ItemVars(c.items) \cup VarsOf(c.page) \subseteq active
                /\ VarsOf(c.where) \cup VarsOf(c.order) \subseteq inside
      [] c.c \in {"unwind", "delete", "call", "foreach"} -> VarsOf(c.exprs) \subseteq active
      [] c.c = "set" -> validate_set_item_vars(c.sets, active)
      [] c.c = "remove" -> c.removes \subseteq active
      [] c.c = "return" ->
            /\ ItemVars(c.items) \subseteq active
            /\ kind = "query" =>
                /\ VarsOf(c.order) \subseteq active \cup AliasesOf(c.items)
                /\ VarsOf(c.page) \subseteq active

\* MERGE alone, and CREATE or MERGE with RETURN, have no such pass.
RECURSIVE validate_statement_undefined_vars_impl(_, _)
validate_statement_undefined_vars_impl(s, initial) ==
    CASE s.kind \in {"merge", "create_return", "merge_return", "pipeline"} -> TRUE
      [] s.kind = "union" ->
            \A i \in DOMAIN s.stmts : validate_statement_undefined_vars_impl(s.stmts[i], initial)
      [] OTHER ->
            \A i \in DOMAIN s.clauses :
                LET c == s.clauses[i]
                    active == Scope(s.clauses, i - 1, initial, Everything, "keep")
                IN  /\ ClauseInScope(c, s.kind, active)
                    /\ c.c = "foreach" => validate_statement_undefined_vars_impl(Body(c), active \cup {c.var})

validate_statement_undefined_vars(s) == validate_statement_undefined_vars_impl(s, {})

-----------------------------------------------------------------------------
(* CREATE, MERGE and DELETE.                                               *)

\* The statements inside a statement that a pass visits one by one.
RECURSIVE Leaves(_)
Leaves(s) ==
    CASE s.kind \in {"union", "pipeline"} -> UNION {Leaves(s.stmts[i]) : i \in DOMAIN s.stmts}
      [] s.kind = "foreach" -> {s} \cup Leaves(Body(s.clauses[1]))
      [] OTHER -> {s}

\* The nodes of a clause in order, each with whether a relationship is beside it.
Occurrences(pats) ==
    FlattenSeq([i \in DOMAIN pats |->
        [j \in DOMAIN NodesOf(pats[i]) |-> <<NodesOf(pats[i])[j], pats[i].hops # <<>>>>]])

check_create_node(pats, bound) ==
    LET occ == Occurrences(pats)
    IN  \A i \in DOMAIN occ :
            LET node == occ[i][1]
                redeclares == node.labelled \/ node.props # <<>>
            IN  node.var # None =>
                    /\ node.var \in bound => occ[i][2] /\ ~redeclares
                    /\ (\E j \in 1..(i - 1) : occ[j][1].var = node.var) => ~redeclares

check_create_rel(r, bound) == r.types = 1 /\ r.directed /\ ~r.ranged /\ r.var \notin bound
check_merge_rel(r, bound) == r.types = 1 /\ ~r.ranged /\ r.var \notin bound

validate_create_patterns(pats, bound) ==
    /\ check_create_node(pats, bound)
    /\ \A p \in Range(pats) : \A r \in Range(RelsOf(p)) : check_create_rel(r, bound)

validate_create_semantics(s) ==
    \A q \in Leaves(s) : \A i \in DOMAIN q.clauses :
        q.clauses[i].c = "create" /\ q.kind \in {"query", "create", "create_return"} =>
            validate_create_patterns(q.clauses[i].pats,
                Scope(q.clauses, i - 1, {}, {"match", "optional", "create"}, "drop"))

check_merge_pattern(p, bound) ==
    /\ check_create_node(<<p>>, bound)
    /\ \A r \in Range(RelsOf(p)) : check_merge_rel(r, bound)
    /\ Null \notin Range(PatternProps(p))

check_merge_on_clauses(sets, available) == \A i \in DOMAIN sets : sets[i].var \in available

validate_merge_semantics(s) ==
    \A q \in Leaves(s) : \A i \in DOMAIN q.clauses :
        LET c == q.clauses[i]
            bound == Scope(q.clauses, i - 1, {}, Patterned, "drop")
        IN  c.c = "merge" => /\ check_merge_pattern(c.pats[1], bound)
                             /\ check_merge_on_clauses(c.sets, bound \cup BoundBy(c))

check_delete_target(e) == e.form \notin {"label", "lit", "null", "op", "quant"} \cup Aggregates

validate_delete_semantics(s) ==
    \A q \in Leaves(s) : \A c \in Range(q.clauses) :
        c.c = "delete" => \A e \in Range(c.exprs) : check_delete_target(e)

-----------------------------------------------------------------------------
(* Projections.                                                            *)

\* The statements a projection pass visits: not the body of a FOREACH.
RECURSIVE Branches(_)
Branches(s) ==
    IF s.kind \in {"union", "pipeline"} THEN UNION {Branches(s.stmts[i]) : i \in DOMAIN s.stmts} ELSE {s}

projection_lists(s) ==
    {c.items : c \in {c \in UNION {Range(q.clauses) : q \in Branches(s)} : c.c \in {"with", "return"}}}

check_duplicate_columns(items) ==
    \A i, j \in DOMAIN items :
        i # j /\ OutputName(items[i]) # None => OutputName(items[i]) # OutputName(items[j])

check_ambiguous_aggregations(items) ==
    LET keys == {item \in Range(items) : ~expr_contains_aggregate(item.expr)}
    IN  \A item \in Range(items) \ keys :
            check_expr_non_agg(item.expr, {k.expr : k \in keys}, {OutputName(k) : k \in keys} \ {None}, {})

check_with_aliasing(s) ==
    \A q \in Branches(s) : \A c \in Range(q.clauses) :
        q.kind = "query" /\ c.c = "with" =>
            \A item \in Range(c.items) : OutputName(item) # None \/ is_star_item(item)

check_no_aggregate_in_where(s) ==
    \A q \in Branches(s) : \A c \in Range(q.clauses) :
        q.kind = "query" => \A e \in Range(c.where) : ~expr_contains_aggregate(e)

validate_projection_semantics(s) ==
    /\ \A items \in projection_lists(s) :
        /\ check_duplicate_columns(items)
        /\ \A item \in Range(items) : check_aggregation_arg(item.expr)
        /\ check_ambiguous_aggregations(items)
    /\ check_with_aliasing(s)
    /\ check_no_aggregate_in_where(s)

-----------------------------------------------------------------------------
(* What a variable stands for.                                             *)

is_value_expr(e, elements) ==
    CASE e.form = "ref" /\ e.prop = None -> e.name \notin elements
      [] e.form \in {"null", "index"} -> FALSE
      [] e.form = "call" -> e.name \notin {"coalesce", "head", "last"}
      [] OTHER -> TRUE

is_value_only_list(e, elements) ==
    \/ e.form = "lit"
    \/ e.form = "call" /\ e.name = "range"
    \/ e.form = "call" /\ e.name = "__list__" /\ \A a \in Range(e.args) : is_value_expr(a, elements)

check_pattern_value_conflict(p, values) ==
    ({p.path} \cup Named(NodesOf(p)) \cup {r.var : r \in {r \in Range(RelsOf(p)) : ~r.ranged}}) \cap values = {}

\* Names move into the elements and the values and never out of them.
validate_value_var_conflicts(q) ==
    LET Name(st, name, value) ==
            IF value THEN [st EXCEPT !.values = @ \cup {name}] ELSE [st EXCEPT !.elements = @ \cup {name}]
        Alias(st, item) ==
            IF item.alias = None THEN st ELSE Name(st, item.alias, is_value_expr(item.expr, st.elements))
        Step(st, c) ==
            CASE BindsPatterns(c) ->
                    [st EXCEPT !.ok = @ /\ \A p \in Range(c.pats) : check_pattern_value_conflict(p, st.values),
                               !.elements = @ \cup BoundBy(c)]
              [] c.c = "with" -> FoldLeft(Alias, st, c.items)
              [] c.c = "unwind" -> Name(st, c.var, is_value_only_list(c.exprs[1], st.elements))
              [] OTHER -> st
    IN  q.kind = "query" => FoldLeft(Step, [ok |-> TRUE, elements |-> {}, values |-> {}], q.clauses).ok

PatternsOf(s) == UNION {UNION {Range(c.pats) : c \in Range(q.clauses)} : q \in Leaves(s)}
collect_path_vars_in_stmt(s) == {p.path : p \in PatternsOf(s)} \ {None}
collect_node_and_rel_vars_in_stmt(s) ==
    [nodes |-> UNION {Named(NodesOf(p)) : p \in PatternsOf(s)},
     rels |-> UNION {Named(RelsOf(p)) : p \in PatternsOf(s)}]

is_known_function(f) ==
    f \in {"__star__", "__list__", "size", "length", "type", "labels", "coalesce", "head", "last", "range", "rand"}

\* A function that takes one kind of variable is not given another.
ArgumentFits(f, v, kinds) ==
    CASE f = "size" -> v \notin kinds.paths
      [] f = "length" -> v \notin kinds.nodes \cup kinds.rels
      [] f = "type" -> v \notin kinds.nodes \cup kinds.paths
      [] f = "labels" -> v \notin kinds.rels \cup kinds.paths
      [] OTHER -> TRUE

check_expr_size_on_path(e, kinds) ==
    \A x \in Reached(e, (Compound \ {"quant"}) \cup {"agg"}) :
        /\ x.form = "ref" /\ x.prop # None => x.name \notin kinds.paths
        /\ x.form = "call" =>
            /\ is_known_function(x.name)
            /\ Len(x.args) = 1 /\ x.args[1].form = "ref" /\ x.args[1].prop = None =>
                ArgumentFits(x.name, x.args[1].name, kinds)
        /\ x.form = "each" => \A a \in Range(x.inner) : ~has_aggregation(a)
        /\ x.form = "reduce" => \A a \in Range(x.args \o x.inner) : ~has_aggregation(a)

check_where_clause(e, kinds) ==
    /\ e.form = "ref" /\ e.prop = None => e.name \notin kinds.nodes \cup kinds.rels
    /\ check_expr_size_on_path(e, kinds)

ItemExprs(c) == [i \in DOMAIN c.items |-> c.items[i].expr]
SetExprs(c) == FlattenSeq([i \in DOMAIN c.sets |-> c.sets[i].exprs])

check_query_part_exprs(c, kinds) ==
    /\ \A e \in Range(c.where) : check_where_clause(e, kinds)
    /\ \A e \in Range(ItemExprs(c) \o c.order \o c.page) : check_expr_size_on_path(e, kinds)
    /\ c.c = "unwind" => \A e \in Range(c.exprs) : check_expr_size_on_path(e, kinds)
    /\ c.c = "set" => \A e \in Range(SetExprs(c)) : check_expr_size_on_path(e, kinds)

\* The kinds are those of the whole statement, every branch of it included.
check_statement_exprs(s) ==
    LET found == collect_node_and_rel_vars_in_stmt(s)
        kinds == [paths |-> collect_path_vars_in_stmt(s), nodes |-> found.nodes, rels |-> found.rels]
        Fits(seq) == \A e \in Range(seq) : check_expr_size_on_path(e, kinds)
    IN  \A q \in Leaves(s) : \A c \in Range(q.clauses) :
            CASE q.kind = "query" -> check_query_part_exprs(c, kinds)
              [] q.kind = "set" -> \A p \in Range(c.pats) : Fits(PatternProps(p))
              [] q.kind \in {"set_return", "delete_return", "remove_return"} -> Fits(ItemExprs(c))
              [] q.kind = "foreach" -> Fits(c.exprs)
              [] OTHER -> TRUE

check_pattern_predicate_placement(s) ==
    \A q \in Leaves(s) : \A c \in Range(q.clauses) :
        \A e \in Range(ItemExprs(c) \o c.order \o c.page \o (IF c.c = "set" THEN SetExprs(c) ELSE <<>>)
                      \o (IF c.c \in {"unwind", "foreach"} THEN c.exprs ELSE <<>>)) :
            ~expr_contains_pattern_predicate(e)

\* The variables of patterns in the order they are read, each with its kind.
Uses(pats) ==
    FlattenSeq([i \in DOMAIN pats |->
        <<<<"path", pats[i].path>>, <<"node", pats[i].node.var>>>>
        \o FlattenSeq([j \in DOMAIN pats[i].hops |->
            <<<<"rel", pats[i].hops[j][1].var>>, <<"node", pats[i].hops[j][2].var>>>>])])

validate_match_clause_variables(pats) ==
    LET uses == Uses(pats)
    IN  \A i, j \in DOMAIN uses :
            i < j /\ uses[i][2] = uses[j][2] /\ uses[i][2] # None => uses[i][1] = "node" /\ uses[j][1] = "node"

\* WITH and UNWIND start over.
validate_cross_clause_variable_types(cs) ==
    \A i, j \in DOMAIN cs :
        (/\ i <= j
         /\ {cs[i].c, cs[j].c} \subseteq {"match", "optional"}
         /\ \A k \in i..j : cs[k].c \notin {"with", "unwind"}) =>
            \A u \in Range(Uses(cs[i].pats)), w \in Range(Uses(cs[j].pats)) :
                u[2] = w[2] /\ u[2] # None => u[1] = w[1]

-----------------------------------------------------------------------------
(* ORDER BY.                                                               *)

get_grouping_keys(items) ==
    LET keys == {item \in Range(items) : ~expr_has_aggregation(item.expr)}
    IN  {<<k.alias, None>> : k \in {k \in keys : k.alias # None}}
        \cup {<<k.expr.name, k.expr.prop>> : k \in {k \in keys : k.expr.form = "ref"}}

\* In an aggregating projection a sort key reads grouping keys and aliases.
OrderedByKeys(items, order) ==
    \A e \in Range(order) : \A read \in collect_non_agg_props_in_expr(e) :
        read \in get_grouping_keys(items) \/ <<read[1], None>> \in get_grouping_keys(items)
        \/ read[1] \in AliasesOf(items)

AnyAggregate(exprs) == \E e \in Range(exprs) : expr_has_aggregation(e)

validate_order_by_scope(cs) ==
    \A i \in DOMAIN cs :
        LET c == cs[i]
            bound == Scope(cs, i - 1, {}, Everything, "extend")
        IN  c.c = "with" =>
                /\ HasStar(c.items) \/ VarsOf(c.order) \subseteq bound \cup with_output_scope(c.items)
                /\ AnyAggregate(c.order) => AnyAggregate(ItemExprs(c))
                /\ UNION {collect_agg_exprs(e) : e \in Range(c.order)}
                        \subseteq UNION {collect_agg_exprs(e) : e \in Range(ItemExprs(c))}
                /\ AnyAggregate(ItemExprs(c)) => OrderedByKeys(c.items, c.order)

validate_query_order_by(cs) ==
    LET c == cs[Len(cs)]
        bound == Scope(cs, Len(cs) - 1, {}, Everything, "extend")
        columns == {<<c.items[i].alias, None>> : i \in {i \in DOMAIN c.items : c.items[i].alias # None}}
                   \cup {<<c.items[i].expr.name, c.items[i].expr.prop>> :
                            i \in {i \in DOMAIN c.items : c.items[i].alias = None /\ c.items[i].expr.form = "ref"}}
    IN  c.c = "return" =>
            /\ c.items = <<Item(Star, None)>> => bound # {}
            /\ VarsOf(c.order) \subseteq bound \cup {n[1] : n \in {n \in columns : n[2] = None}}
            /\ c.distinct => \A e \in Range(c.order) : \A read \in collect_non_agg_props_in_expr(e) :
                                read \in columns \/ <<read[1], None>> \in columns
            /\ AnyAggregate(c.order) => AnyAggregate(ItemExprs(c))
            /\ AnyAggregate(ItemExprs(c)) => OrderedByKeys(c.items, c.order)

-----------------------------------------------------------------------------
(* The verdict: the first pass that refuses, in the order they run.        *)

\* What is checked of one statement once the passes over the whole are done.
LeafChecks(q) ==
    LET matched == FlattenSeq([i \in DOMAIN q.clauses |->
                        IF q.clauses[i].c \in {"match", "optional"} THEN q.clauses[i].pats ELSE <<>>])
    IN  CASE q.kind = "query" ->
                IF ~validate_cross_clause_variable_types(q.clauses) THEN "kinds"
                ELSE IF ~validate_order_by_scope(q.clauses) \/ ~validate_query_order_by(q.clauses) THEN "order"
                ELSE IF \A c \in Range(q.clauses) :
                            c.c \in {"match", "optional"} => validate_match_clause_variables(c.pats)
                     THEN "accept" ELSE "kinds"
          [] OTHER -> IF validate_match_clause_variables(matched) THEN "accept" ELSE "kinds"

\* The passes over a statement as a whole, and what they say of it.
Passes(s) ==
    LET inner == IF s.kind = "foreach" THEN {Body(s.clauses[1])} ELSE {}
    IN  <<<<"undefined", validate_statement_undefined_vars(s)>>,
          <<"create", validate_create_semantics(s)>>,
          <<"merge", validate_merge_semantics(s)>>,
          <<"delete", validate_delete_semantics(s)>>,
          <<"projection", validate_projection_semantics(s)>>,
          <<"value", validate_value_var_conflicts(s)>>,
          <<"argument", check_statement_exprs(s)>>,
          <<"pattern", check_pattern_predicate_placement(s)>>,
          <<"projection", \A b \in inner : validate_projection_semantics(b)>>,
          <<"value", \A b \in inner : validate_value_var_conflicts(b)>>>>

RECURSIVE validate_statement(_)
validate_statement(s) ==
    LET first(refusals, otherwise) == IF refusals = <<>> THEN otherwise ELSE refusals[1][1]
        nested == [i \in DOMAIN s.stmts |-> <<validate_statement(s.stmts[i])>>]
    IN  first(SelectSeq(Passes(s), LAMBDA p : ~p[2]),
              first(SelectSeq(nested, LAMBDA v : v[1] # "accept"),
                    IF s.kind \in {"union", "pipeline", "foreach"} THEN "accept" ELSE LeafChecks(s)))

\* What the parser hands on: the statement with its stars spelled out.
parse_uncached(segments) ==
    LET checked(s) == [stmt |-> s, verdict |-> validate_statement(s)]
    IN  checked(expand_star_items(pipeline_parser(segments)))

-----------------------------------------------------------------------------
(* What the verdict must mean, against the rows the clauses really make.   *)

\* The variables of the rows in front of a clause.
RECURSIVE RowsHold(_, _, _)
RowsHold(cs, i, initial) ==
    IF i = 1 THEN initial
    ELSE LET c == cs[i - 1]
             before == RowsHold(cs, i - 1, initial)
             names == {OutputName(item) : item \in {item \in Range(c.items) : ~is_star_item(item)}} \ {None}
         IN  CASE c.c = "with" -> names \cup (IF HasStar(c.items) THEN before ELSE {})
               [] OTHER -> before \cup BoundBy(c) \cup c.yields \cup ({c.var} \ {None})

\* What evaluating an expression reads that its row does not hold.
RECURSIVE Missing(_, _)
Missing(e, row) ==
    (OwnVars(e) \ row)
    \cup UNION {Missing(a, row) : a \in Range(e.args)}
    \cup UNION {Missing(a, row \cup e.local) : a \in Range(e.inner)}

\* Every expression a clause evaluates, with the row it is evaluated on.  The
\* WHERE of an aggregating WITH and a WHERE behind its LIMIT have no pass.
Evaluated(c, row) ==
    LET on(seq, r) == {<<e, r>> : e \in Range(seq)}
        bound == row \cup BoundBy(c)
        named == row \cup ({OutputName(item) : item \in Range(c.items)} \ {None})
        grouped == AnyAggregate(ItemExprs(c))
    IN  UNION {on(PatternProps(c.pats[i]), row \cup UNION {collect_pattern_vars(c.pats[j]) : j \in 1..(i - 1)}) :
                    i \in DOMAIN c.pats}
        \cup (IF c.c = "with" THEN IF grouped THEN {} ELSE on(c.where, named) ELSE on(c.where, bound))
        \cup on(SetExprs(c) \o [i \in DOMAIN c.sets |-> Ref(c.sets[i].var)], bound)
        \cup on(SelectSeq(ItemExprs(c), LAMBDA e : e # Star) \o c.exprs, row)
        \cup on(SetToSeq({Ref(v) : v \in c.removes}), row)
        \cup (IF grouped THEN {} ELSE on(c.order, named))

\* The statements whose variables are checked at all, and the order of a
\* query only.
Checked(q) == q.kind \notin {"merge", "create_return", "merge_return"}
UnorderedIn(q, c) == IF q.kind = "query" THEN c ELSE [c EXCEPT !.order = <<>>]

Unresolved(q, initial) ==
    \E i \in DOMAIN q.clauses :
        LET row == RowsHold(q.clauses, i, initial)
        IN  \E ev \in Evaluated(UnorderedIn(q, q.clauses[i]), row) : Missing(ev[1], ev[2]) # {}

UnresolvedIn(s) ==
    \E q \in Branches(s) :
        \/ Checked(q) /\ Unresolved(q, {})
        \/ q.kind = "foreach" /\ Checked(Body(q.clauses[1]))
           /\ Unresolved(Body(q.clauses[1]), {q.clauses[1].var})

\* A variable that a clause creates is new, or is the bare end of a new
\* relationship.  What CALL, MERGE and WITH * leave bound is not looked at.
CreatesBound(q) ==
    \E i \in DOMAIN q.clauses :
        LET c == q.clauses[i]
            row == RowsHold(q.clauses, i, {})
            before == Range(SubSeq(q.clauses, 1, i - 1))
        IN  /\ c.c \in {"create", "merge"}
            /\ \A b \in before : b.c # "call" /\ ~(b.c = "with" /\ HasStar(b.items)) /\ (c.c = "create" => b.c # "merge")
            /\ \/ \E occ \in Range(Occurrences(c.pats)) :
                    occ[1].var \in row /\ (occ[1].labelled \/ occ[1].props # <<>> \/ ~occ[2])
               \/ \E p \in Range(c.pats) : Named(RelsOf(p)) \cap row # {}

\* A name that the patterns between two WITH or UNWIND use as two things.
TwoKinds(q) ==
    \E i, j \in DOMAIN q.clauses :
        /\ i <= j
        /\ {q.clauses[i].c, q.clauses[j].c} \subseteq {"match", "optional"}
        /\ \A k \in i..j : q.clauses[k].c \notin {"with", "unwind"}
        /\ \E u \in Range(Uses(q.clauses[i].pats)), w \in Range(Uses(q.clauses[j].pats)) :
            u[2] = w[2] /\ u[2] # None /\ u[1] # w[1]

\* A query with its stars spelled out projects what its rows hold.
StarsExact(before, after) ==
    \A i \in DOMAIN before :
        /\ Len(before[i].items) > 1 /\ HasStar(before[i].items)
        /\ \A k \in 1..(i - 1) : before[k].c # "call"
        => {OutputName(item) : item \in Range(after[i].items)} \ {None}
           = RowsHold(before, i, {}) \cup (with_output_scope(before[i].items))

=============================================================================
