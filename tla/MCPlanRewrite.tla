--------------------------- MODULE MCPlanRewrite ---------------------------
(* The planner and both executors on small multigraphs.                    *)
EXTENDS PlanRewrite

-----------------------------------------------------------------------------
(* Graphs: three nodes and up to three edges, loops and parallels included. *)

Pairs == {1, 2, 3} \X {1, 2, 3}
E(q, t) == [src |-> q[1], dst |-> q[2], type |-> t]
G(labels, x, edges) == [labels |-> labels, x |-> x, edges |-> edges]
Rank(q) == 3 * q[1] + q[2]

Mixed == <<{"A"}, {"A", "B"}, {}>>
Apart == <<{"A"}, {"B"}, {"A"}>>

UpToTwo(labels, x) ==
    {G(labels, x, <<>>)}
    \cup {G(labels, x, <<E(q, "T")>>) : q \in Pairs}
    \cup {G(labels, x, <<E(q[1], "T"), E(q[2], "T")>>) : q \in {q \in Pairs \X Pairs : Rank(q[1]) <= Rank(q[2])}}

Threes(labels, x) ==
    {G(labels, x, <<E(q[1], "T"), E(q[2], "T"), E(q[3], t)>>) :
        t \in {"T", "U"},
        q \in { <<<<1, 2>>, <<2, 3>>, <<3, 1>>>>, <<<<1, 1>>, <<1, 1>>, <<1, 1>>>>, <<<<1, 1>>, <<1, 2>>, <<2, 1>>>>,
                <<<<1, 2>>, <<2, 3>>, <<3, 2>>>>, <<<<1, 2>>, <<1, 2>>, <<2, 2>>>>, <<<<1, 3>>, <<2, 3>>, <<2, 3>>>>,
                <<<<2, 1>>, <<2, 2>>, <<1, 3>>>> }}

Small == UpToTwo(Mixed, <<1, 2, 0>>) \cup Threes(Mixed, <<1, 2, 0>>) \cup Threes(Apart, <<1, 1, 2>>)

-----------------------------------------------------------------------------
(* Queries.                                                                *)

n(v) == N(v, <<>>, 0)
l(v, label) == N(v, <<label>>, 0)
to(r, node) == Hop(r, {}, "out", 1, 1, FALSE, node)
tt(r, type, node) == Hop(r, {type}, "out", 1, 1, FALSE, node)
un(r, node) == Hop(r, {}, "both", 1, 1, FALSE, node)
star(r, lo, hi, node) == Hop(r, {}, "out", lo, hi, TRUE, node)

M(pats) == MatchPart(pats, NoWhere)
MW(pats, where) == MatchPart(pats, where)
O(pat, where) == OptionalPart(<<pat>>, where)
vs(names) == [i \in DOMAIN names |-> <<<<"var", names[i]>>, names[i]>>]
Q(parts, names) == Query(parts, vs(names), FALSE, <<>>, Unlimited)
QC(parts, arg) == Query(parts, <<<<<<"count", arg>>, "c">>>>, FALSE, <<>>, Unlimited)
W(items, where) == WithPart(items, where, <<>>, Unlimited, NoWhere)

x(v) == <<"x", v>>
lit(k) == <<"lit", k>>
All == <<"star">>

Chain2 == Path(l("a", "A"), <<to("r", n("b")), to("s", l("c", "B"))>>)
Triangle(a) == Path(a, <<to("r", n("b")), to("s", n("c")), to("t", n("a"))>>)

Matches == {
    Q(<<M(<<Path(l("a", "A"), <<to("r", l("b", "B"))>>)>>)>>, <<"a", "r", "b">>),
    Q(<<M(<<Chain2>>)>>, <<"r", "s">>),
    Q(<<M(<<Path(l("a", "A"), <<un("r", n("b")), un("s", l("c", "B"))>>)>>)>>, <<"a", "r", "s", "c">>),
    Q(<<M(<<Triangle(l("a", "A"))>>)>>, <<"r", "s", "t">>),
    Q(<<M(<<Path(n("a"), <<to("r", n("b")), to("s", n("a"))>>)>>)>>, <<"r", "s">>),
    Q(<<M(<<Path(l("a", "A"), <<to("r", n("a"))>>)>>)>>, <<"r">>),
    Q(<<M(<<Path(n("a"), <<to("r", n("b")), to("s", n("c")), to("t", n("b"))>>)>>)>>, <<"r", "s", "t">>),
    Q(<<M(<<Path(n("a"), <<star("r", 1, 2, l("b", "A")), to("s", n("c"))>>)>>)>>, <<"r", "s">>),
    Q(<<M(<<Path(l("a", "B"), <<star("r", 0, 1, n("b"))>>)>>)>>, <<"a", "b">>) }

Wheres == {
    Q(<<MW(<<Path(l("a", "A"), <<>>)>>, <<"and", <<">", x("a"), lit(0)>>, <<"<", x("a"), lit(2)>>>>)>>, <<"a">>),
    Q(<<MW(<<Path(l("a", "A"), <<>>)>>, <<"and", <<">", x("a"), lit(0)>>, <<"<", lit(1), x("a")>>>>)>>, <<"a">>),
    Q(<<MW(<<Path(l("a", "A"), <<to("r", l("b", "A"))>>)>>,
           <<"and", <<"=", x("a"), lit(1)>>, <<"=", x("b"), lit(2)>>>>)>>, <<"r">>),
    Q(<<MW(<<Path(l("a", "A"), <<to("r", n("b"))>>)>>, <<"=", <<"id", "a">>, lit(2)>>)>>, <<"r">>),
    Q(<<MW(<<Path(l("a", "A"), <<to("r", n("b")), to("s", n("a"))>>)>>, <<">", x("b"), lit(1)>>)>>, <<"r", "s">>),
    Q(<<M(<<Path(N("a", <<"A", "B">>, 2), <<to("r", N("b", <<"A">>, 1))>>)>>)>>, <<"r">>) }

Joins == {
    Q(<<MW(<<Path(l("a", "A"), <<>>), Path(l("b", "B"), <<>>)>>, <<"=", x("a"), x("b")>>)>>, <<"a", "b">>),
    Q(<<MW(<<Path(n("a"), <<>>), Path(l("b", "B"), <<>>)>>, <<"=", x("b"), <<"id", "a">>>>)>>, <<"a", "b">>),
    Q(<<M(<<Path(l("a", "A"), <<to("r", n("b"))>>)>>), M(<<Path(l("a", "A"), <<to("s", l("c", "B"))>>)>>)>>, <<"r", "s">>),
    Q(<<M(<<Path(n("a"), <<to("r", n("b"))>>)>>), M(<<Path(n("a"), <<to("s", n("b"))>>)>>)>>, <<"r", "s">>),
    Q(<<M(<<Path(l("a", "A"), <<to("r", n("b"))>>), Path(n("b"), <<to("s", n("c")), to("t", n("a"))>>)>>)>>,
      <<"r", "s", "t">>),
    Q(<<M(<<Path(l("a", "A"), <<>>)>>), O(Path(n("a"), <<to("r", l("b", "B"))>>), NoWhere)>>, <<"a", "r">>),
    Q(<<MW(<<Path(l("a", "A"), <<>>)>>, <<">", x("a"), lit(1)>>),
        O(Path(n("a"), <<to("r", n("b"))>>), <<"=", x("a"), x("b")>>)>>, <<"a", "r">>),
    Q(<<O(Path(l("a", "B"), <<to("r", l("b", "B"))>>), NoWhere)>>, <<"a", "r">>) }

Withs == {
    Q(<<M(<<Path(l("a", "A"), <<>>)>>),
        WithPart(vs(<<"a">>), NoWhere, <<<<x("a"), TRUE>>>>, 1, <<">", x("a"), lit(1)>>)>>, <<"a">>),
    Q(<<M(<<Path(l("a", "A"), <<to("r", n("b"))>>)>>),
        W(vs(<<"a">>) \o <<<<<<"count", All>>, "c">>>>, <<">", <<"var", "c">>, lit(1)>>)>>, <<"a", "c">>),
    Q(<<M(<<Path(l("a", "A"), <<tt("r", "T", n("b"))>>)>>), W(<<<<<<"var", "b">>, "a">>>>, NoWhere),
        M(<<Path(l("a", "B"), <<tt("s", "T", l("c", "A"))>>)>>)>>, <<"a", "s">>),
    Q(<<M(<<Path(n("a"), <<to("r", l("b", "A"))>>)>>), W(vs(<<"b">>), <<"=", x("b"), lit(1)>>),
        M(<<Path(n("b"), <<to("s", n("c"))>>)>>)>>, <<"b", "s">>),
    Query(<<M(<<Path(n("a"), <<to("r", n("b"))>>)>>)>>, <<<<x("b"), "k">>>>, TRUE, <<<<<<"var", "k">>, FALSE>>>>, 2) }

(* Longer statements: several clauses, scopes and joins in one.            *)
Statements == {
    Q(<<M(<<Path(l("a", "A"), <<>>)>>), WithPart(vs(<<"a">>), NoWhere, <<<<x("a"), TRUE>>>>, 1, NoWhere),
      MW(<<Path(n("a"), <<to("r", n("b"))>>)>>, <<"=", x("b"), lit(2)>>)>>, <<"a", "r">>),
    Q(<<M(<<Path(l("a", "A"), <<to("q", l("b", "A"))>>)>>), WithPart(vs(<<"a", "b">>), NoWhere, <<<<x("a"),
      TRUE>>, <<x("b"), TRUE>>>>, 1, NoWhere), MW(<<Path(n("a"), <<to("r", n("b"))>>)>>, NoWhere)>>, <<"a",
      "r">>),
    Q(<<M(<<Path(l("a", "A"), <<to("r", n("b"))>>)>>), W(vs(<<"b">>) \o <<<<<<"count", <<"var", "a">>>>,
      "c">>>>, NoWhere), O(Path(n("b"), <<to("s", l("d", "B"))>>), <<"<", <<"var", "c">>, x("d")>>)>>, <<"b",
      "c", "d">>),
    Q(<<M(<<Path(l("a", "A"), <<Hop("r", {"T", "U"}, "in", 1, 1, FALSE, l("b", "A")), Hop("s", {"U"}, "out", 1,
      1, FALSE, n("c"))>>)>>)>>, <<"r", "s">>),
    Q(<<M(<<Path(l("a", "A"), <<to("r", n("b"))>>)>>), O(Path(n("b"), <<to("s", n("a"))>>), NoWhere)>>, <<"r",
      "s">>),
    Q(<<M(<<Path(l("a", "A"), <<>>)>>), O(Path(n("a"), <<to("r", n("b"))>>), NoWhere), O(Path(n("b"), <<to("s",
      n("c"))>>), NoWhere)>>, <<"a", "r", "s">>),
    Query(<<M(<<Path(n("a"), <<un("r", l("b", "A"))>>)>>)>>, <<<<x("a"), "k">>, <<<<"count", <<"var", "b">>>>,
      "c">>>>, FALSE, <<>>, Unlimited),
    Q(<<M(<<Path(l("a", "A"), <<>>), Path(l("b", "B"), <<>>), Path(n("c"), <<to("r", n("d"))>>)>>),
      MW(<<Path(n("a"), <<to("s", n("b"))>>)>>, <<"=", x("c"), x("b")>>)>>, <<"a", "b", "r", "s">>),
    Q(<<M(<<Path(l("a", "A"), <<to("r", n("b"))>>)>>), M(<<Path(l("b", "B"), <<star("s", 1, 1, n("c"))>>)>>)>>,
      <<"r", "s">>),
    Q(<<M(<<Path(l("a", "A"), <<>>)>>), O(Path(n("a"), <<to("r", l("b", "B"))>>), NoWhere), M(<<Path(n("a"),
      <<to("s", n("c"))>>)>>)>>, <<"r", "s">>),
    Query(<<M(<<Path(l("a", "A"), <<to("r", n("b"))>>)>>), WithPart(<<<<x("b"), "k">>>>, NoWhere, <<<<x("a"),
      FALSE>>, <<x("b"), TRUE>>>>, 2, NoWhere)>>, <<<<<<"var", "k">>, "k">>>>, FALSE, <<<<<<"var", "k">>,
      TRUE>>>>, Unlimited) }

Counts == {
    QC(<<M(<<Path(l("a", "A"), <<>>)>>)>>, All),
    QC(<<M(<<Path(n("a"), <<tt("r", "T", n("b"))>>)>>)>>, <<"var", "r">>),
    QC(<<M(<<Path(l("a", "A"), <<tt("r", "T", l("b", "B"))>>)>>)>>, All),
    QC(<<MW(<<Path(l("a", "A"), <<to("r", n("b")), to("s", n("c"))>>)>>, <<"=", x("a"), lit(1)>>)>>, <<"var", "s">>),
    QC(<<M(<<Path(n("a"), <<tt("r", "T", n("b")), tt("s", "U", n("c"))>>)>>)>>, All),
    QC(<<M(<<Triangle(n("a"))>>)>>, All),
    QC(<<M(<<Path(l("a", "A"), <<>>)>>), O(Path(n("a"), <<tt("r", "T", l("b", "B"))>>), NoWhere)>>, <<"var", "b">>),
    Query(<<M(<<Path(n("a"), <<to("r", l("b", "A"))>>)>>)>>, <<<<x("b"), "k">>, <<<<"count", <<"var", "a">>>>, "c">>>>,
          FALSE, <<<<<<"var", "c">>, FALSE>>, <<<<"var", "k">>, TRUE>>>>, 1),
    Query(<<MW(<<Path(l("a", "A"), <<to("r", n("b"))>>)>>, <<"<", x("a"), lit(2)>>)>>,
          <<<<x("b"), "k">>, <<<<"count", x("a")>>, "c">>>>, FALSE, <<>>, Unlimited) }

(* Projections and counts that run on columns, and near misses of them.    *)
ByCount == <<<<<<"var", "c">>, FALSE>>, <<<<"var", "k">>, TRUE>>>>
alt(r, node) == Hop(r, {"T", "U"}, "out", 1, 1, FALSE, node)
c(arg) == <<<<"count", arg>>, "c">>
TU(far) == Path(l("a", "A"), <<tt("r", "T", n("b")), tt("s", "U", far)>>)

Columns == {
    Query(<<M(<<Path(l("a", "A"), <<to("r", n("b"))>>)>>)>>, <<<<x("a"), "k">>, <<x("b"), "m">>>>, FALSE,
          <<<<<<"var", "m">>, FALSE>>, <<x("a"), TRUE>>>>, 2),
    Query(<<MW(<<Path(l("a", "A"), <<alt("r", n("b"))>>)>>, <<"<", x("a"), x("b")>>)>>, <<<<x("b"), "k">>>>, TRUE,
          <<<<<<"var", "k">>, TRUE>>>>, 1),
    Query(<<MW(<<Path(l("a", "A"), <<>>)>>, <<">=", lit(1), x("a")>>)>>, <<<<x("a"), "k">>>>, TRUE, <<>>, Unlimited),
    Query(<<M(<<Path(n("a"), <<to("r", n("b"))>>)>>)>>, <<<<x("a"), "b">>>>, FALSE, <<<<<<"var", "b">>, TRUE>>>>, 2),
    Query(<<M(<<Path(n("a"), <<tt("r", "T", n("b")), alt("s", n("d"))>>)>>)>>, <<<<x("a"), "k">>, c(All)>>, FALSE, ByCount, 1),
    Query(<<M(<<Path(n("a"), <<tt("r", "T", n("b")), tt("s", "U", n("d")), tt("t", "V", n("e"))>>)>>)>>,
          <<<<x("a"), "k">>>>, FALSE, <<>>, Unlimited),
    Query(<<M(<<Path(l("a", "A"), <<alt("r", l("b", "A"))>>)>>)>>, <<<<x("a"), "k">>, c(<<"var", "b">>)>>, FALSE, ByCount, 1),
    Query(<<MW(<<TU(l("d", "A"))>>, <<">", x("d"), lit(1)>>)>>, <<<<x("a"), "k">>, c(All)>>, FALSE, ByCount, 1),
    Query(<<M(<<TU(n("d"))>>)>>, <<<<x("a"), "k">>, <<x("b"), "m">>, c(x("d"))>>, FALSE, <<>>, Unlimited),
    Query(<<M(<<TU(n("d"))>>)>>, <<<<x("d"), "k">>, <<x("a"), "m">>, c(x("b"))>>, FALSE, <<>>, Unlimited),
    QC(<<M(<<Path(N("a", <<"A">>, 1), <<tt("r", "T", n("b")), tt("s", "U", N("d", <<"A", "B">>, 2))>>)>>)>>, x("d")),
    Q(<<M(<<TU(n("d"))>>), W(<<<<x("d"), "k">>, c(x("a"))>>, NoWhere)>>, <<"k", "c">>),
    Query(<<MW(<<Path(l("a", "B"), <<to("r", n("b"))>>)>>, <<">", x("a"), lit(2)>>)>>, <<<<x("b"), "k">>>>, FALSE, <<>>, Unlimited),
    Query(<<M(<<Path(n("a"), <<to("r", n("b"))>>)>>)>>, <<<<x("r"), "k">>, c(x("b"))>>, FALSE, ByCount, 1) }

MCGraphs == Small
MCQueries == Matches \cup Wheres \cup Joins \cup Withs \cup Statements \cup Counts \cup Columns
NoneOrA == {{}, {"A"}}

=============================================================================
