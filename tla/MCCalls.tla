------------------------------ MODULE MCCalls ------------------------------
(***************************************************************************)
(* The graph kernels and the query language, called one question at a      *)
(* time: the multigraphs the kernels run on, and the texts, dates and      *)
(* values the language is asked about.                                     *)
(***************************************************************************)
EXTENDS KernelCalls, TextCalls

-----------------------------------------------------------------------------
(* Graphs *)

\* Shapes as <<tail, head, type>> in edge id order.
Shapes == {
  <<<<1, 2, 1>>, <<1, 3, 1>>, <<2, 4, 1>>, <<3, 4, 1>>, <<2, 3, 2>>>>,   \* diamond with a chord
  <<<<1, 2, 1>>, <<2, 1, 2>>, <<2, 3, 1>>, <<3, 4, 1>>, <<4, 2, 2>>>>,   \* two cycles at a node
  <<<<1, 2, 2>>, <<1, 2, 1>>, <<2, 4, 1>>, <<4, 4, 2>>, <<1, 3, 1>>>>,   \* parallel edges, a loop
  <<<<4, 3, 1>>, <<3, 2, 1>>, <<2, 1, 1>>, <<1, 3, 2>>, <<4, 1, 1>>>>,   \* against the id order
  <<<<1, 1, 1>>, <<1, 1, 1>>, <<1, 1, 2>>, <<1, 2, 1>>, <<2, 1, 1>>>>,   \* loops on one node
  <<<<2, 3, 1>>, <<2, 3, 2>>, <<3, 2, 1>>, <<4, 2, 1>>, <<3, 4, 2>>>> }  \* a node apart, parallel both ways

Edges(shape, w) == [e \in DOMAIN shape |->
  [src |-> shape[e][1], dst |-> shape[e][2], type |-> shape[e][3], w |-> w[e]]]

\* Ids with a gap; the second node is unlabelled and the third has no value.
Snapshot(shape, w) ==
  [ids |-> <<1, 3, 4, 7>>, edges |-> Edges(shape, w),
   labels |-> <<{"A"}, {}, {"A"}, {"A", "B"}>>, present |-> {1, 2, 4}]

\* Every multigraph of three edges on three nodes, the edges in one order.
Pair(i) == <<(i - 1) \div 3 + 1, ((i - 1) % 3) + 1>>
Small == {[ids |-> <<1, 3, 4>>, labels |-> <<{"A"}, {}, {"A"}>>, present |-> {1, 2},
           edges |-> [e \in 1 .. 3 |-> [src |-> Pair(t[e])[1], dst |-> Pair(t[e])[2],
                                        type |-> (e % 2) + 1, w |-> 1]]] :
            t \in {x \in [1 .. 3 -> 1 .. 9] : x[1] <= x[2] /\ x[2] <= x[3]}}

MCGraphs ==
  Small
  \cup {[ids |-> <<2>>, edges |-> <<>>, labels |-> <<{"A"}>>, present |-> {}]}
  \cup {Snapshot(s, w) : s \in Shapes, w \in [1 .. 5 -> {0, 1, 3}]}
  \cup {Snapshot(s, w) : s \in Shapes, w \in {<<1, 2, -1, 3, 0>>, <<2, 1, 0, -2, 1>>,
                                            <<-1, 1, 2, 1, -2>>, <<3, 1, -3, 0, 2>>}}

-----------------------------------------------------------------------------
(* Texts *)

Plainly(v) == V!Node(v, FALSE, <<>>)
Labelled(v) == V!Node(v, TRUE, <<>>)
One(v) == V!Pattern("", Plainly(v), <<>>)
Hop(a, r, b) == V!Pattern("", Plainly(a), <<<<V!Rel(r, 1, TRUE, FALSE, <<>>), Plainly(b)>>>>)

Clauses == {
  V!Match(<<One("a")>>, <<>>),
  V!Match(<<V!Pattern("p", Plainly("a"), <<<<V!Rel("r", 0, FALSE, TRUE, <<>>), Plainly("b")>>>>)>>, <<>>),
  V!Match(<<Hop("a", "b", "c")>>,
          <<V!ExistsSubquery(Hop("a","", "x"), <<V!Op(<<V!Prop("x","k"), V!Prop("b","k")>>)>>)>>),
  V!Match(<<V!Pattern("", V!Node("c", FALSE, <<V!Prop("a","k")>>), <<>>)>>, <<V!Op(<<V!Prop("c", "k"), V!Lit>>)>>),
  V!Optional(<<Hop("b", "r", "a"), One("c")>>, <<V!PatternPredicate(Hop("a","","c"))>>),
  V!With(<<V!Item(V!Ref("a"), "b")>>, <<V!Op(<<V!Prop("a","k"), V!Prop("b","k")>>)>>, <<>>, <<>>),
  V!With(<<V!Item(V!Star,""), V!Item(V!Prop("a","k"), "x")>>, <<>>, <<>>, <<>>),
  V!With(<<V!Item(V!Star,"")>>, <<>>, <<V!Ref("a")>>, <<>>),
  V!With(<<V!Item(V!Ref("a"), ""), V!Item(V!Agg(V!Ref("b")), "c")>>, <<>>,
         <<V!Agg(V!Ref("b")), V!Prop("a","k")>>, <<>>),
  V!With(<<V!Item(V!Each("x", V!Ref("a"), <<V!Prop("x","k"), V!Ref("b")>>), "a")>>, <<>>, <<V!Ref("b")>>, <<>>),
  V!Unwind(V!Call("__list__", <<V!Lit, V!Ref("a")>>), "x"),
  V!Unwind(V!Call("range", <<V!Lit>>), "a"),
  V!Create(<<One("a")>>), V!Create(<<Hop("a", "r", "c"), V!Pattern("", Labelled("c"), <<>>)>>),
  V!Merge(V!Pattern("", Labelled("a"), <<>>), <<V!SetItem("a", <<V!Prop("a","k")>>)>>),
  V!Merge(Hop("a", "r", "b"), <<V!SetItem("c", <<>>)>>),
  V!SetClause(<<V!SetItem("a", <<V!Prop("b","k")>>)>>),
  V!Delete(<<V!Ref("r")>>), V!RemoveClause({"a"}),
  V!CallClause(<<V!Ref("a")>>, {"y"}) }
Returns == {
  V!Return(<<V!Item(V!Ref("a"),""), V!Item(V!Prop("b", "k"), "x")>>, <<V!Ref("x"), V!Prop("a","k")>>, FALSE),
  V!Return(<<V!Item(V!Star,"")>>, <<>>, FALSE),
  V!Return(<<V!Item(V!Star,""), V!Item(V!Lit,"z")>>, <<V!Ref("z")>>, FALSE),
  V!Return(<<V!Item(V!Ref("a"),"")>>, <<V!Prop("a","k")>>, TRUE),
  V!Return(<<V!Item(V!Op(<<V!CountStar, V!Ref("a")>>),"c"), V!Item(V!Ref("a"),"d")>>, <<V!Ref("c")>>, FALSE),
  V!Return(<<V!Item(V!PatternComprehension(Hop("a","r","x"), <<>>, V!Prop("x","k")),"l"),
             V!Item(V!Reduce("s","x",V!Lit,V!Ref("a"),V!Op(<<V!Ref("s"),V!Ref("x")>>)), "m")>>, <<>>, FALSE),
  V!Return(<<V!Item(V!Call("type", <<V!Ref("r")>>),"t")>>, <<>>, FALSE) }

Singles == {<<c>> : c \in Clauses} \cup {<<r>> : r \in Returns}
  \cup {<<c, d>> : c \in Clauses, d \in Clauses \cup Returns}
  \cup {<<c, d, e>> : c \in Clauses, d \in Clauses, e \in Clauses \cup Returns}
Short == {
   <<V!Match(<<One("a")>>, <<>>), V!Return(<<V!Item(V!Ref("a"),"")>>, <<>>, FALSE)>>,
   <<V!Match(<<Hop("x", "a", "y")>>, <<>>), V!Return(<<V!Item(V!Call("type",<<V!Ref("a")>>),"a")>>, <<>>, FALSE)>>,
   <<V!Create(<<One("a")>>)>>,
   <<V!Foreach("x", V!Call("range",<<V!Lit>>), <<V!Create(<<V!Pattern("", V!Node("a", TRUE, <<V!Ref("x")>>), <<>>)>>)>>)>>,
   <<V!Foreach("x", V!Ref("q"), <<V!Merge(One("a"), <<>>)>>)>>}
MCTexts == {<<<<s>>>> : s \in Singles}
  \cup {<<<<s, t>>>> : s \in Short, t \in Short}
  \cup {<<<<s>>, <<t>>>> : s \in Short, t \in Short}

-----------------------------------------------------------------------------
(* Dates and times: leap years, month ends, year ends, and the days the     *)
(* clock of the named zone moves.                                           *)

Ymd(y, m, d) == [y |-> y, m |-> m, d |-> d]
MCDates == {Ymd(2000, 1, 31), Ymd(2000, 2, 29), Ymd(2000, 10, 29), Ymd(1999, 12, 31), Ymd(2001, 2, 28)}
MCFarDates == {Ymd(1900, 2, 28), Ymd(2100, 3, 1), Ymd(1969, 12, 31),
               Ymd(400, 2, 29), Ymd(2004, 12, 31), Ymd(2001, 1, 1)}
OneHour == 3600 * Kilo * Kilo * Kilo
MCClocks == {0, 2 * OneHour + OneHour \div 2, 23 * OneHour + 5}
Offset(o) == [name |-> "", num |-> TRUE, off |-> o]
MCZones == {Offset(0), Offset(-19800), Offset(3208), [name |-> "zone", num |-> FALSE, off |-> 0]}
MCDurations == {<<0, 0, 0, 0>>, <<1, 0, 0, 0>>, <<-13, 5, 0, 0>>, <<0, 1, 86399, 26>>, <<0, -3, -1, 1>>,
                <<0, 0, -86400, 0>>, <<2, -1, 7200, -5>>}
MCMaps == {<<>>, [hour |-> 25], [hour |-> 5, second |-> 59], [microsecond |-> 3], [microsecond |-> 2, nanosecond |-> 3],
           [millisecond |-> 2, microsecond |-> 3], [nanosecond |-> 27], [millisecond |-> 2, microsecond |-> 2]}

-----------------------------------------------------------------------------
(* Values *)

Ints == {X!Num(n) : n \in {-MaxInt - 1, -1, 0, 1, 2, MaxInt}}
Floats == {X!Float(1, 1), X!Float(-3, 2), X!Float(0, 1), X!Float(5, 2)}
MCOperands == {X!Null, X!NaN, X!True, X!False, X!Str(<<1>>)} \cup Ints \cup Floats
MCCells == {X!Null, X!NaN, X!Num(1), X!Float(1, 1), X!Float(1, 2), X!Num(MaxInt), X!Str(<<1>>)}
Lists == {X!List(l) : l \in {<<>>, <<X!Num(1)>>, <<X!Float(1, 1)>>, <<X!Null>>, <<X!Null, X!Num(2)>>,
                             <<X!Str(<<1>>)>>, <<X!NaN, X!Num(1)>>, <<X!Edge(1)>>}}
MCThings == {X!Null, X!NaN, X!True, X!False, X!Num(0), X!Num(1), X!Float(1, 1), X!Float(1, 2), X!Float(1, 0),
             X!Str(<<>>), X!Str(<<1>>), X!Str(<<1, 2>>), X!Node(1), X!Node(2), X!Edge(1),
             X!MapOf([a |-> X!Num(1)]), X!MapOf([a |-> X!Null]),
             X!Temporal("d", 1, "z"), X!Temporal("d", 1, "y"), X!Temporal("d", 2, "z"), X!Temporal("t", 1, "z")} \cup Lists

-----------------------------------------------------------------------------
(* Columns: every kind a column can take, and values that make it give one  *)
(* up; ids with and without a gap.                                          *)

MCProps == {Absent, P!Null, P!Num(1), P!Float(1, 1), P!Float(1, 2), P!True, P!Str(<<>>), P!Str(<<2, 1>>), P!NaN}
MCConstants == {P!Null, P!NaN, P!Num(0), P!Num(1), P!Float(3, 2), P!False, P!Str(<<1>>), P!Str(<<2, 1>>)}
MCEntities == {1, 2, 4}
MCSamples == UNION {[1 .. n -> vs] : n \in 1 .. 4, vs \in {{Absent, P!Num(0), P!Num(1), P!Num(3)},
                                                         {P!Float(1, 2), P!Float(3, 1)}, {P!Str(<<1>>), P!Str(<<2, 1>>)}}}

-----------------------------------------------------------------------------
(* Documents: the frequencies of two terms in three of them. *)

Docs(tfs) == [1 .. 3 -> tfs]
Index(property, docs) == [label |-> "A", property |-> property, docs |-> docs]
MCFiltered == {<<>>, <<Index("x", <<<<1, 0>>, <<4, 1>>>>), Index("y", <<<<0, 1>>, <<0, 4>>>>)>>}
MCCorpora ==
  {<<Index("x", d)>> : d \in Docs({<<0, 0>>, <<1, 0>>, <<0, 1>>, <<1, 4>>, <<4, 1>>})}
  \cup {<<Index("x", d), Index("y", e)>> : d \in Docs({<<0, 0>>, <<1, 0>>, <<1, 4>>}),
                                          e \in Docs({<<4, 0>>, <<0, 1>>})}
MCQueries == {S!Query(<<1, 1>>), S!Query(<<1, 3>>)}

-----------------------------------------------------------------------------
(* A behaviour asks one question: of the language, of the columns, of the   *)
(* text indexes or of a kernel.                                             *)

About(topic) == [ids |-> <<>>, about |-> topic]
Topics == {About("language"), About("columns"), About("texts")}
AllVars == <<graph, call, asked>>
CallsInit == AskInit /\ call = NoCall /\ graph \in Topics \cup Graphs
CallsNext == \/ graph = About("language") /\ AskNext /\ UNCHANGED <<graph, call>>
             \/ graph = About("columns") /\ ColumnNext /\ UNCHANGED <<graph, call>>
             \/ graph = About("texts") /\ TextNext /\ UNCHANGED <<graph, call>>
             \/ graph \notin Topics /\ Next /\ UNCHANGED asked
CallsSpec == CallsInit /\ [][CallsNext]_AllVars

\* What is retrieved is what was asked for: the ranked documents of a text
\* search, and the subgraph around the hits of one or both searches (issundb-
\* text text_search, issundb-retrieval retrieve_with and retrieve_hybrid).
RetrievalRight == RanksRight /\ SubgraphsRight
=============================================================================
