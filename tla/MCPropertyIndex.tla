--------------------------- MODULE MCPropertyIndex ---------------------------
EXTENDS PropertyIndex, TLC

CONSTANTS n1, n2, e1, e2

Number(f64, int) == [fam |-> "number", f64 |-> f64, int |-> int, long |-> FALSE]
Text(int, long) == [fam |-> "string", f64 |-> 0, int |-> int, long |-> long]

\* 0, -0.0, and two integers beyond 2^53 that round to one f64.
Numbers == {Number(0, 0), Number(-1, 0), Number(2, 2), Number(2, 3)}

\* Two short strings and an over-long one.
Short == Text(1, FALSE)
Other == Text(2, FALSE)
Long == Text(3, TRUE)

MCTokens ==
    [x \in {"en", "es"} |->
        [v \in {Short, Other, Long} |->
            CASE v = Short -> IF x = "en" THEN [a |-> 2] ELSE [a |-> 1, b |-> 1]
              [] v = Other -> IF x = "en" THEN <<>> ELSE [c |-> 1]
              [] OTHER -> [a |-> 1, b |-> 1]]]

Base == [nodes |-> {n1, n2}, edges |-> {}, labels |-> {"L"}, types |-> {},
         values |-> {}, owners |-> {"L"}, texts |-> {}]

MCProfiles ==
    { [Base EXCEPT !.values = Numbers],
      [Base EXCEPT !.values = {None, Null, Number(1, 1), Short, Long}],
      [Base EXCEPT !.values = {None, Number(1, 1), Short}, !.labels = {"L", "M"},
                   !.owners = {"L", "M"}, !.nodes = {n1}],
      [Base EXCEPT !.nodes = {n1}, !.edges = {e1, e2}, !.types = {"T"},
                   !.owners = {"T"}, !.labels = {},
                   !.values = {None, Null, Number(1, 1), Number(-1, 0), Number(0, 0), Long}],
      [Base EXCEPT !.values = {None, Number(1, 1), Short, Other, Long}, !.texts = {"L"},
                   !.owners = {}] }

Symmetry == Permutations({n1, n2}) \cup Permutations({e1, e2})

MCEndsOf == [e \in {e1, e2} |-> {n1}]
=============================================================================
