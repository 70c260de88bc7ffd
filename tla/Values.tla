------------------------------ MODULE Values ------------------------------
(***************************************************************************)
(* The values of the query language and what the executor does with them:  *)
(* equality and order (expr.rs, read.rs), operators with null and errors,  *)
(* list and text functions, grouping keys, aggregates and the sort.        *)
(* A float is an exact fraction, so rounding is left out; a text is a      *)
(* sequence of characters; a temporal value is its sort key and its zone.  *)
(***************************************************************************)
EXTENDS Integers, Sequences, SequencesExt, FiniteSets

CONSTANT MaxInt  \* the largest integer; the smallest is -MaxInt - 1

Null == [k |-> "null"]
NaN  == [k |-> "nan"]
Err  == [k |-> "err"]
Bool(b) == [k |-> "bool", b |-> b]
True  == Bool(TRUE)
False == Bool(FALSE)
Num(n)  == [k |-> "int", n |-> n]
Str(s)  == [k |-> "str", s |-> s]
List(l) == [k |-> "list", l |-> l]
MapOf(m) == [k |-> "map", m |-> m]
Node(id) == [k |-> "node", id |-> id]
Edge(id) == [k |-> "edge", id |-> id]
Temporal(ty, key, zone) == [k |-> "temporal", ty |-> ty, key |-> key, zone |-> zone]

AbsInt(n) == IF n < 0 THEN -n ELSE n
Divides(g, n) == n % g = 0
Common(p, d) == CHOOSE g \in 1 .. d : Divides(g, AbsInt(p)) /\ Divides(g, d)
                  /\ \A h \in (g + 1) .. d : ~(Divides(h, AbsInt(p)) /\ Divides(h, d))
Lowered(p, d, g) == [k |-> "float", p |-> IF p < 0 THEN -(-p \div g) ELSE p \div g, d |-> d \div g]
Reduced(p, d) == Lowered(p, d, Common(p, d))

\* A computed fraction: dividing zero by zero, or anything else by it.
float_result(p, d) ==
  CASE d = 0 /\ p = 0 -> NaN
    [] d = 0 -> [k |-> "inf", neg |-> p < 0]
    [] OTHER -> Reduced(IF d < 0 THEN -p ELSE p, AbsInt(d))
Float(p, d) == float_result(p, d)

is_nan(v)  == v.k = "nan"
IsNull(v)  == v.k = "null"
IsErr(v)   == v.k = "err"
IsTrue(v)  == v = True
IsInt(v)   == v.k = "int"
IsNum(v)   == v.k \in {"int", "float"}
Logical(v) == v.k \in {"bool", "null"}
Both(l, r, kind) == l.k = kind /\ r.k = kind
P(v) == IF IsInt(v) THEN v.n ELSE v.p
D(v) == IF IsInt(v) THEN 1 ELSE v.d

-----------------------------------------------------------------------------
(* Equality and order *)

IntCmp(a, b) == IF a < b THEN "lt" ELSE IF a = b THEN "eq" ELSE "gt"
Reversed(ord) == CASE ord = "lt" -> "gt" [] ord = "gt" -> "lt" [] OTHER -> ord

\* Two sequences compared at the first place where Same fails, else by length.
FirstUnlike(a, b, Same(_, _)) ==
  LET short == IF Len(a) < Len(b) THEN Len(a) ELSE Len(b)
      least(unlike) == IF unlike = {} THEN 0 ELSE CHOOSE i \in unlike : \A j \in unlike : i <= j
  IN  least({i \in 1 .. short : ~Same(a[i], b[i])})
ByFirst(a, b, Same(_, _), At(_, _)) ==
  LET by(i) == IF i = 0 THEN IntCmp(Len(a), Len(b)) ELSE At(a[i], b[i]) IN by(FirstUnlike(a, b, Same))

IdentChar(x, y) == x = y
TextCmp(a, b) == ByFirst(a, b, IdentChar, IntCmp)
NumCmp(l, r) == IntCmp(P(l) * D(r), P(r) * D(l))

\* False decides, then null, over the pairs compared.
And3(verdicts) == IF False \in verdicts THEN False ELSE IF Null \in verdicts THEN Null ELSE True

RECURSIVE cypher_eq(_, _)
cypher_eq(l, r) ==
  CASE IsNull(l) \/ IsNull(r) -> Null
    [] is_nan(l) \/ is_nan(r) -> False
    [] Both(l, r, "list") ->
         IF Len(l.l) # Len(r.l) THEN False
         ELSE And3({cypher_eq(l.l[i], r.l[i]) : i \in DOMAIN l.l})
    [] Both(l, r, "map") ->
         IF DOMAIN l.m # DOMAIN r.m THEN False
         ELSE And3({cypher_eq(l.m[x], r.m[x]) : x \in DOMAIN l.m})
    [] Both(l, r, "temporal") -> Bool(l.ty = r.ty /\ l.key = r.key)
    [] IsNum(l) /\ IsNum(r) -> Bool(NumCmp(l, r) = "eq")
    [] OTHER -> Bool(l = r)

Equal(l, r) == IsTrue(cypher_eq(l, r))

RECURSIVE json_cmp(_, _)
json_cmp(l, r) ==
  LET at(a, b) == IF IsNull(cypher_eq(a, b)) THEN "none" ELSE json_cmp(a, b)
  IN  CASE IsNum(l) /\ IsNum(r) -> NumCmp(l, r)
        [] Both(l, r, "str") -> TextCmp(l.s, r.s)
        [] Both(l, r, "bool") -> IF l.b = r.b THEN "eq" ELSE IF r.b THEN "lt" ELSE "gt"
        [] Both(l, r, "list") -> ByFirst(l.l, r.l, Equal, at)
        [] Both(l, r, "temporal") -> IF l.ty = r.ty THEN IntCmp(l.key, r.key) ELSE "none"
        [] OTHER -> "none"

\* Infinities and temporal values are objects with a type name.
type_rank(v) == CASE v.k = "map"  -> 0 [] v.k = "node" -> 1 [] v.k = "edge" -> 2 [] v.k = "list" -> 3
                  [] v.k \in {"temporal", "inf"} -> 5 [] v.k = "str" -> 6 [] v.k = "bool" -> 7
                  [] v.k \in {"int", "float", "nan"} -> 8 [] v.k = "null" -> 9

RECURSIVE json_cmp_total(_, _)
json_cmp_total_lists(a, b) ==
  LET same(x, y) == json_cmp_total(x, y) = "eq" IN ByFirst(a, b, same, json_cmp_total)
json_cmp_total(l, r) ==
  LET some(known) == IF known = "none" THEN "eq" ELSE known
  IN  CASE is_nan(l) /\ is_nan(r) -> "eq"
        [] is_nan(l) /\ IsNum(r) -> "gt"
        [] is_nan(r) /\ IsNum(l) -> "lt"
        [] type_rank(l) # type_rank(r) -> IntCmp(type_rank(l), type_rank(r))
        [] Both(l, r, "list") -> json_cmp_total_lists(l.l, r.l)
        [] type_rank(l) \in {1, 2} -> IntCmp(l.id, r.id)
        [] OTHER -> some(json_cmp(l, r))

\* One key of ORDER BY.
SortCmp(l, r) == LET or(known) == IF known = "none" THEN json_cmp_total(l, r) ELSE known IN or(json_cmp(l, r))

Comparisons == {"=", "<>", "<", ">", "<=", ">="}
Negated(v) == IF IsNull(v) THEN Null ELSE Bool(~v.b)

compare_values(l, r, op) ==
  LET other == IF is_nan(l) THEN r ELSE l
      wanted == CASE op = "<"  -> {"lt"} [] op = ">"  -> {"gt"}
                  [] op = "<=" -> {"lt", "eq"} [] op = ">=" -> {"gt", "eq"}
      by(ord) == IF ord = "none" THEN Null ELSE Bool(ord \in wanted)
      is(eq) == IF op = "=" THEN eq ELSE Negated(eq)
  IN  CASE IsNull(l) \/ IsNull(r) -> Null
        [] op \in {"=", "<>"} -> is(cypher_eq(l, r))
        [] is_nan(l) \/ is_nan(r) -> IF IsNum(other) \/ is_nan(other) THEN False ELSE Null
        [] OTHER -> by(json_cmp(l, r))

-----------------------------------------------------------------------------
(* Arithmetic *)

InWidth(n) == n \in (-MaxInt - 1) .. MaxInt
Checked(n) == IF InWidth(n) THEN Num(n) ELSE Err
Quotient(a, b) == LET q == AbsInt(a) \div AbsInt(b) IN IF (a < 0) = (b < 0) THEN q ELSE -q
Remainder(a, b) == a - b * Quotient(a, b)

\* The text of a number: one symbol no other text holds.
Shown(v) == IF is_nan(v) THEN <<99>> ELSE IF IsInt(v) THEN <<1000 + v.n>> ELSE <<2000 + 20 * v.p + v.d>>

IntArithmetic(a, b, op) ==
  CASE op = "+" -> Checked(a + b)
    [] op = "-" -> Checked(a - b)
    [] op = "*" -> Checked(a * b)
    [] op = "/" -> IF b = 0 THEN Err ELSE Checked(Quotient(a, b))
    [] op = "%" -> IF b = 0 THEN Err ELSE Num(Remainder(a, b))

\* Above and below the line; a remainder of zero is zero over zero.
Fraction(a, b, c, d, op) ==
  CASE op = "+" -> <<a * d + c * b, b * d>>
    [] op = "-" -> <<a * d - c * b, b * d>>
    [] op = "*" -> <<a * c, b * d>>
    [] op = "/" -> <<a * d, b * c>>
    [] op = "%" -> IF c = 0 THEN <<0, 0>> ELSE <<Remainder(a * d, c * b), b * d>>
FloatArithmetic(l, r, op) ==
  LET of(f) == float_result(f[1], f[2]) IN of(Fraction(P(l), D(l), P(r), D(r), op))

\* Operands of a date or a duration go to Temporal.
eval_arithmetic(l, r, op) ==
  LET text(v) == v.k = "str"
      words   == text(l) \/ text(r)
      word(v) == IF text(v) THEN v.s ELSE Shown(v)
      joined  == Str(word(l) \o word(r))
  IN  CASE op = "+" /\ words /\ (is_nan(l) \/ is_nan(r)) -> joined
        [] op = "+" /\ Both(l, r, "list") -> List(l.l \o r.l)
        [] op = "+" /\ l.k = "list" -> List(Append(l.l, r))
        [] op = "+" /\ r.k = "list" -> List(<<l>> \o r.l)
        [] is_nan(l) \/ is_nan(r) -> NaN
        [] IsInt(l) /\ IsInt(r) -> IntArithmetic(l.n, r.n, op)
        [] IsNum(l) /\ IsNum(r) -> FloatArithmetic(l, r, op)
        [] op = "+" /\ words /\ (text(l) \/ IsNum(l)) /\ (text(r) \/ IsNum(r)) -> joined
        [] OTHER -> Err

-----------------------------------------------------------------------------
(* Lists and texts *)

Seq1(v) == IF v.k = "list" THEN v.l ELSE v.s
SameKind(v, s) == IF v.k = "list" THEN List(s) ELSE Str(s)
Least(a, b) == IF a < b THEN a ELSE b
Most(a, b)  == IF a > b THEN a ELSE b

subscript(v, i) ==
  LET pos == IF i.n < 0 THEN Len(v.l) + i.n ELSE i.n
  IN  CASE IsNull(v) \/ IsNull(i) -> Null
        [] v.k = "list" -> IF ~IsInt(i) THEN Err
                           ELSE IF pos \in 0 .. (Len(v.l) - 1) THEN v.l[pos + 1] ELSE Null
        [] v.k = "map" /\ i.k = "str" -> IF i.s \in DOMAIN v.m THEN v.m[i.s] ELSE Null
        [] IsNum(i) -> Err
        [] OTHER -> Null

\* A bound left out has the kind "none".
slice(v, from, to) ==
  LET len == Len(Seq1(v))
      clamped(b, default) == CASE ~IsInt(b) -> default [] b.n < 0 -> Most(len + b.n, 0) [] OTHER -> Least(b.n, len)
      f == clamped(from, 0)
      t == Least(Most(clamped(to, len), f), len)
  IN  CASE IsNull(from) \/ IsNull(to) \/ IsNull(v) -> Null
        [] v.k \in {"list", "str"} -> SameKind(v, SubSeq(Seq1(v), f + 1, t))
        [] OTHER -> Null

RECURSIVE Stepped(_, _, _)
Stepped(v, end, step) ==
  IF (step > 0 /\ v > end) \/ (step < 0 /\ v < end) THEN <<>>
  ELSE <<Num(v)>> \o IF InWidth(v + step) THEN Stepped(v + step, end, step) ELSE <<>>
range_fn(a, b, step) ==
  CASE IsNull(a) \/ IsNull(b) -> Null
    [] ~IsInt(a) \/ ~IsInt(b) -> Err
    [] IsNull(step) -> Null
    [] ~IsInt(step) -> Err
    [] step.n = 0 -> Err
    [] OTHER -> List(Stepped(a.n, b.n, step.n))

size(v) == CASE v.k \in {"list", "str"} -> Num(Len(Seq1(v))) [] IsNull(v) -> Null [] OTHER -> Err
OfList(v, Of(_)) == CASE v.k = "list" -> Of(v.l) [] IsNull(v) -> Null [] OTHER -> Err
head(v) == LET of(l) == IF l = <<>> THEN Null ELSE l[1] IN OfList(v, of)
last(v) == LET of(l) == IF l = <<>> THEN Null ELSE l[Len(l)] IN OfList(v, of)
tail(v) == LET of(l) == List(IF l = <<>> THEN <<>> ELSE Tail(l)) IN OfList(v, of)
reverse(v) == IF v.k \in {"list", "str"} THEN SameKind(v, Reverse(Seq1(v))) ELSE Null

TextAndCount(s, n, Of(_, _)) ==
  CASE IsNull(s) \/ IsNull(n) -> Null
    [] s.k # "str" \/ ~IsInt(n) -> Err
    [] n.n < 0 -> Err
    [] OTHER -> Str(Of(s.s, n.n))
left(s, n)  == LET of(t, c) == SubSeq(t, 1, Least(c, Len(t))) IN TextAndCount(s, n, of)
right(s, n) == LET of(t, c) == SubSeq(t, Most(Len(t) - c, 0) + 1, Len(t)) IN TextAndCount(s, n, of)

\* The length left out has the kind "none".
substring(s, from, len) ==
  LET count(v) == IF IsInt(v) THEN Most(v.n, 0) ELSE 0
      start == count(from)
      end   == IF len.k = "none" THEN Len(s.s) ELSE Least(start + count(len), Len(s.s))
  IN  IF s.k # "str" \/ ~IsNum(from) \/ IsNull(len) THEN Null
      ELSE Str(SubSeq(s.s, Least(start, Len(s.s)) + 1, end))

\* The pieces between the places a text is found in, from the left.
FoundAt(t, d, from) ==
  {i \in from .. (Len(t) - Len(d) + 1) : SubSeq(t, i, i + Len(d) - 1) = d}
RECURSIVE Pieces(_, _, _)
Pieces(t, d, from) ==
  LET at == FoundAt(t, d, from)
      i  == Min(at)
  IN  IF at = {} THEN <<SubSeq(t, from, Len(t))>>
      ELSE <<SubSeq(t, from, i - 1)>> \o Pieces(t, d, i + Len(d))
RECURSIVE Joined(_, _)
Joined(pieces, d) == IF Len(pieces) = 1 THEN pieces[1] ELSE pieces[1] \o d \o Joined(Tail(pieces), d)
split(t, d) ==
  IF t.k # "str" \/ d.k # "str" THEN Null
  ELSE List([i \in DOMAIN Pieces(t.s, d.s, 1) |-> Str(Pieces(t.s, d.s, 1)[i])])
replace(t, d, by) ==
  IF t.k # "str" \/ d.k # "str" \/ by.k # "str" THEN Null ELSE Str(Joined(Pieces(t.s, d.s, 1), by.s))

TextTest(l, r, Test(_, _)) == IF l.k = "str" /\ r.k = "str" THEN Bool(Test(l.s, r.s)) ELSE Null
contains(l, r)    == LET in(t, d) == FoundAt(t, d, 1) # {} IN TextTest(l, r, in)
starts_with(l, r) == LET in(t, d) == IsPrefix(d, t) IN TextTest(l, r, in)
ends_with(l, r)   == LET in(t, d) == IsSuffix(d, t) IN TextTest(l, r, in)

in_fn(needle, hay) ==
  LET eqs == {cypher_eq(needle, hay.l[i]) : i \in DOMAIN hay.l}
  IN  CASE IsNull(hay) -> Null
        [] hay.k # "list" -> Err
        [] True \in eqs -> True
        [] Null \in eqs -> Null
        [] OTHER -> False

\* Numbers: NaN passes through, anything but a number or null is an error.
OfNumber(v, Of(_)) == CASE IsNum(v) -> Of(v) [] IsNull(v) -> Null [] is_nan(v) -> NaN [] OTHER -> Err
Floor(p, d) == IF p >= 0 THEN p \div d ELSE -((-p + d - 1) \div d)
abs_fn(v) == LET of(n) == IF IsInt(n) THEN Checked(AbsInt(n.n)) ELSE Float(AbsInt(n.p), n.d) IN OfNumber(v, of)
floor_fn(v) == LET of(n) == Float(Floor(P(n), D(n)), 1) IN OfNumber(v, of)
ceil_fn(v)  == LET of(n) == Float(-Floor(-P(n), D(n)), 1) IN OfNumber(v, of)
\* Halves away from zero.
round_fn(v) == LET half(n) == Floor(2 * AbsInt(P(n)) + D(n), 2 * D(n))
                   of(n) == Float(IF P(n) < 0 THEN -half(n) ELSE half(n), 1)
               IN  OfNumber(v, of)
sign_fn(v)  == LET of(n) == Num(IF P(n) > 0 THEN 1 ELSE IF P(n) < 0 THEN -1 ELSE 0) IN OfNumber(v, of)
Saturated(n) == Most(-MaxInt - 1, Least(n, MaxInt))
tointeger(v) == CASE IsInt(v) -> v
                  [] v.k = "float" -> Num(Saturated(Quotient(v.p, v.d)))
                  [] v.k \in {"null", "str"} -> Null
                  [] OTHER -> Err

\* max(a, b, ...) and min(a, b, ...): the first of the best, nulls passed over.
RECURSIVE BestOf(_, _, _)
BestOf(vs, best, wanted) ==
  IF vs = <<>> THEN best
  ELSE BestOf(Tail(vs), IF IsNull(vs[1]) THEN best
                        ELSE IF IsNull(best) \/ json_cmp(vs[1], best) = wanted THEN vs[1] ELSE best, wanted)
max_fn(vs) == BestOf(vs, Null, "gt")
min_fn(vs) == BestOf(vs, Null, "lt")

-----------------------------------------------------------------------------
(* Expressions: an error anywhere an operand is evaluated is the answer. *)

Lit(v) == [e |-> "lit", v |-> v]
Var(x) == [e |-> "var", x |-> x]
Param  == [e |-> "param"]  \* a parameter the caller did not give
Bin(op, l, r) == [e |-> "bin", op |-> op, l |-> l, r |-> r]
Grouped(x) == [e |-> "grouped", of |-> x]

is_comparison_op(e) == e.e = "bin" /\ e.op \in Comparisons
RECURSIVE Operands(_)
Operands(e) == IF is_comparison_op(e) THEN Append(Operands(e.l), e.r) ELSE <<e>>
RECURSIVE Operators(_)
Operators(e) == IF is_comparison_op(e) THEN Append(Operators(e.l), e.op) ELSE <<>>

eval_and(l, r) == IF ~Logical(l) \/ ~Logical(r) THEN Err ELSE And3({l, r})

\* The connective if an unknown side made the answer unknown.
ConnectiveNullFirst(l, r, stop) ==
  CASE ~Logical(l) \/ ~Logical(r) -> Err
    [] IsNull(l) \/ IsNull(r) -> Null
    [] OTHER -> IF Bool(stop) \in {l, r} THEN Bool(stop) ELSE Bool(~stop)

\* AND stops at false and OR at true, whatever the right side fails with;
\* a right side that evaluates must still be logical.
Connective(l, r, stop) ==
  CASE ~Logical(l) -> Err
    [] l = Bool(stop) -> IF IsErr(r) \/ Logical(r) THEN l ELSE Err
    [] ~Logical(r) -> Err
    [] r = Bool(stop) -> r
    [] IsNull(l) \/ IsNull(r) -> Null
    [] OTHER -> Bool(~stop)
Xor(l, r) == CASE ~Logical(l) \/ ~Logical(r) -> Err
               [] IsNull(l) \/ IsNull(r) -> Null
               [] OTHER -> Bool(l.b # r.b)
Not(v) == IF Logical(v) THEN Negated(v) ELSE Err

eval_binary_op(l, r, op) ==
  CASE op = "AND" -> Connective(l, r, FALSE)
    [] op = "OR"  -> Connective(l, r, TRUE)
    [] IsErr(l) \/ IsErr(r) -> Err
    [] op = "XOR" -> Xor(l, r)
    [] IsNull(l) \/ IsNull(r) -> Null
    [] op \in Comparisons -> compare_values(l, r, op)
    [] OTHER -> eval_arithmetic(l, r, op)

AnyErr(vs) == \E i \in DOMAIN vs : IsErr(vs[i])
RECURSIVE AndAll(_)
AndAll(vs) == IF Len(vs) = 1 THEN vs[1] ELSE eval_and(AndAll(Front(vs)), vs[Len(vs)])
chained(vs, ops) ==
  IF AnyErr(vs) THEN Err
  ELSE AndAll([i \in DOMAIN ops |-> compare_values(vs[i], vs[i + 1], ops[i])])

\* What a quantifier makes of its predicate's answers, up to the one that
\* decides; an answer past that one is never asked for.
Decides(kind, answers, i) ==
  LET trues == {j \in 1 .. i : IsTrue(answers[j])}
  IN  CASE kind = "all" -> ~IsTrue(answers[i]) /\ ~IsNull(answers[i])
        [] kind = "single" -> Cardinality(trues) > 1
        [] OTHER -> trues # {}
Verdict(kind, answers, end, stopped) ==
  LET trues == Cardinality({j \in 1 .. end : IsTrue(answers[j])})
      open(value) == IF \E j \in 1 .. end : IsNull(answers[j]) THEN Null ELSE value
  IN  CASE stopped /\ IsErr(answers[end]) -> Err
        [] kind = "all" -> IF stopped THEN False ELSE open(True)
        [] kind = "any" -> IF trues > 0 THEN True ELSE open(False)
        [] kind = "none" -> IF trues > 0 THEN False ELSE open(True)
        [] kind = "single" -> IF trues > 1 THEN False ELSE open(Bool(trues = 1))
quantifier(kind, answers) ==
  LET stops == {i \in DOMAIN answers : IsErr(answers[i]) \/ Decides(kind, answers, i)}
  IN  Verdict(kind, answers, IF stops = {} THEN Len(answers) ELSE Min(stops), stops # {})

\* CASE: the first arm that matches; arms past it are not evaluated.
case_expr(simple, subject, whens) ==
  LET hit(w) == IF simple THEN json_cmp(subject, w) = "eq" ELSE IsTrue(w)
      arm(ends) == IF ends = {} THEN 0 ELSE IF IsErr(whens[Min(ends)]) THEN -1 ELSE Min(ends)
  IN  arm({i \in DOMAIN whens : IsErr(whens[i]) \/ hit(whens[i])})

Bound(env, x, v) == [y \in DOMAIN env \cup {x} |-> IF y = x THEN v ELSE env[y]]

RECURSIVE evaluate_expr(_, _)
RECURSIVE Reduce(_, _, _)
RECURSIVE Coalesce(_, _)
\* The accumulator and the item shadow what the row binds.
Reduce(env, e, items) ==
  IF items = <<>> THEN env[e.acc]
  ELSE LET with(next) == IF IsErr(next) THEN Err ELSE Reduce(Bound(env, e.acc, next), e, Tail(items))
       IN  with(evaluate_expr(Bound(env, e.x, items[1]), e.body))
Coalesce(env, args) ==
  LET or(v) == IF IsNull(v) THEN Coalesce(env, Tail(args)) ELSE v
  IN  IF args = <<>> THEN Null ELSE or(evaluate_expr(env, args[1]))

\* What an expression is for every item.
ForEach(env, e, items, body) == [i \in DOMAIN items |-> evaluate_expr(Bound(env, e.x, items[i]), body)]
list_comprehension(env, e, items) ==
  LET kept(tests) == SelectSeq([i \in DOMAIN items |-> i], LAMBDA i : IsTrue(tests[i]))
      pick(is)    == [j \in DOMAIN is |-> items[is[j]]]
      listed(vs)  == IF AnyErr(vs) THEN Err ELSE List(vs)
      where(tests) == IF AnyErr(tests) THEN Err ELSE listed(ForEach(env, e, pick(kept(tests)), e.body))
  IN  where(ForEach(env, e, items, e.where))

\* The forms that go over a list, which a null is not and nothing else is.
OverItems(env, e, items) ==
  LET from(first) == IF IsErr(first) THEN Err ELSE Reduce(Bound(env, e.acc, first), e, items)
  IN  CASE e.e = "quantifier" -> quantifier(e.kind, ForEach(env, e, items, e.where))
        [] e.e = "comprehension" -> list_comprehension(env, e, items)
        [] e.e = "reduce" -> from(evaluate_expr(env, e.init))
OverList(env, e, v) ==
  CASE IsErr(v) -> Err [] IsNull(v) -> Null [] v.k # "list" -> Err [] OTHER -> OverItems(env, e, v.l)

evaluate_expr(env, e) ==
  LET v == evaluate_expr(env, e.of)
  IN  CASE e.e = "lit" -> e.v
        [] e.e = "param" -> Err
        [] e.e = "var" -> IF e.x \in DOMAIN env THEN env[e.x] ELSE Err
        [] e.e = "grouped" -> v
        [] e.e = "isnull" -> IF IsErr(v) THEN Err ELSE Bool(IsNull(v))
        [] e.e = "not" -> Not(v)
        [] e.e = "bin" ->
             IF Len(Operators(e)) > 1
             THEN chained([i \in DOMAIN Operands(e) |-> evaluate_expr(env, Operands(e)[i])], Operators(e))
             ELSE eval_binary_op(evaluate_expr(env, e.l), evaluate_expr(env, e.r), e.op)
        [] e.e \in {"quantifier", "comprehension", "reduce"} -> OverList(env, e, v)
        [] e.e = "case" ->
             LET subject == IF e.simple THEN v ELSE Null
                 take(arm) == CASE IsErr(subject) \/ arm = -1 -> Err
                                [] arm = 0 -> evaluate_expr(env, e.else)
                                [] OTHER -> evaluate_expr(env, e.thens[arm])
             IN  take(case_expr(e.simple, subject, [i \in DOMAIN e.whens |-> evaluate_expr(env, e.whens[i])]))
        [] e.e = "coalesce" -> Coalesce(env, e.args)

\* Several expressions of one row, under their names.
Evaluated(env, exprs) == [name \in DOMAIN exprs |-> evaluate_expr(env, exprs[name])]

-----------------------------------------------------------------------------
(* Grouping keys *)

\* Numbers by value, everything else by its own text.
canonical_cell_key(v) ==
  CASE v.k = "float" -> IF v.d = 1 THEN <<"N", v.p, 1>> ELSE <<"F", v.p, v.d>>
    [] IsInt(v) -> <<"N", v.n, 1>>
    [] OTHER -> <<"J", v>>
canonical_row_key(row) == [i \in DOMAIN row |-> canonical_cell_key(row[i])]

\* A node or a relationship by identity, however it reached the row.
canonical_binding_key(b) ==
  CASE b.k = "node" -> <<"@n", b.id>>
    [] b.k = "edge" -> <<"@e", b.id>>
    [] b.k = "list" /\ b.l # <<>> /\ (\A i \in DOMAIN b.l : b.l[i].k = "edge") ->
         <<"@el", [i \in DOMAIN b.l |-> b.l[i].id]>>
    [] OTHER -> canonical_cell_key(b)

dedup_records(rows) ==
  LET fresh(i) == \A j \in 1 .. (i - 1) : canonical_row_key(rows[j]) # canonical_row_key(rows[i])
  IN  SelectSeq([i \in DOMAIN rows |-> i], fresh)

\* Dense codes in order of first appearance, and the row each code stands for.
Firsts(keys) == SelectSeq([i \in DOMAIN keys |-> i], LAMBDA i : \A j \in 1 .. (i - 1) : keys[j] # keys[i])
Coded(keys) == [i \in DOMAIN keys |-> CHOOSE c \in DOMAIN Firsts(keys) : keys[Firsts(keys)[c]] = keys[i]]
group_codes(col) == [codes |-> Coded(col), reps |-> [c \in DOMAIN Firsts(col) |-> col[Firsts(col)[c]]]]

canonicalize_group_codes(g) ==
  LET numbers == {c \in DOMAIN g.reps : IsNum(g.reps[c])}
      mergeable == Cardinality(numbers) > 1 /\ \E c \in numbers : ~IsInt(g.reps[c])
      keys == canonical_row_key(g.reps)
  IN  IF ~mergeable THEN g
      ELSE [codes |-> [i \in DOMAIN g.codes |-> Coded(keys)[g.codes[i]]],
            reps  |-> [c \in DOMAIN Firsts(keys) |-> g.reps[Firsts(keys)[c]]]]

RECURSIVE combine_group_codes(_, _)
combine_group_codes(cols, running) ==
  IF cols = <<>> THEN running
  ELSE combine_group_codes(Tail(cols), Coded([i \in DOMAIN running |-> <<running[i], cols[1].codes[i]>>]))

-----------------------------------------------------------------------------
(* Aggregates *)

AggState == [count |-> 0, sum |-> Num(0), best |-> Null, collect |-> <<>>, seen |-> {}]
Distinct(s, f, v) == f.distinct /\ canonical_cell_key(v) \in s.seen
Seen(s, f, v) == IF f.distinct THEN s.seen \cup {canonical_cell_key(v)} ELSE s.seen

\* A total of integers stays one until it leaves the width, then is a float.
AddTo(sum, v) ==
  IF IsInt(sum) /\ IsInt(v) /\ InWidth(sum.n + v.n) THEN Num(sum.n + v.n) ELSE FloatArithmetic(sum, v, "+")

fold(s, f, v) ==
  CASE IsNull(v) -> s
    [] f.name \in {"min", "max"} ->
         LET wanted == IF f.name = "min" THEN "lt" ELSE "gt"
         IN  IF IsNull(s.best) \/ json_cmp_total(v, s.best) = wanted THEN [s EXCEPT !.best = v] ELSE s
    [] f.name \in {"stdev", "stdevp", "percentiledisc", "percentilecont"} /\ ~IsNum(v) -> s
    [] Distinct(s, f, v) -> s
    [] f.name = "count" -> [s EXCEPT !.count = @ + 1, !.seen = Seen(s, f, v)]
    [] f.name = "sum" -> [s EXCEPT !.sum = IF IsNum(v) THEN AddTo(@, v) ELSE @, !.seen = Seen(s, f, v)]
    [] f.name = "avg" -> [s EXCEPT !.sum = IF IsNum(v) THEN FloatArithmetic(@, v, "+") ELSE @,
                                   !.count = IF IsNum(v) THEN @ + 1 ELSE @, !.seen = Seen(s, f, v)]
    [] OTHER -> [s EXCEPT !.collect = Append(@, v), !.seen = Seen(s, f, v)]

NumbersUp(vs) == SortSeq(vs, LAMBDA a, b : NumCmp(a, b) = "lt")
RECURSIVE SumOf(_)
SumOf(vs) == IF vs = <<>> THEN Float(0, 1) ELSE FloatArithmetic(SumOf(Front(vs)), vs[Len(vs)], "+")
Spread(vs, over) ==
  LET square(gap) == FloatArithmetic(gap, gap, "*")
      about(mean) == [i \in DOMAIN vs |-> square(FloatArithmetic(vs[i], mean, "-"))]
  IN  FloatArithmetic(SumOf(about(FloatArithmetic(SumOf(vs), Num(Len(vs)), "/"))), Num(over), "/")

\* Part of the way from one of the sorted numbers to the next.
Between(up, lower, part) ==
  LET upper == Least(IF part.p = 0 THEN lower ELSE lower + 1, Len(up) - 1)
      gap == FloatArithmetic(up[upper + 1], up[lower + 1], "-")
  IN  FloatArithmetic(up[lower + 1], FloatArithmetic(gap, part, "*"), "+")

\* The percentile is f.p / f.d; a deviation is left as its square.
finalize(s, f) ==
  LET n == Len(s.collect)
      asFloat(v) == Float(P(v), D(v))
  IN  CASE f.name = "count" -> Num(s.count)
        [] f.name = "sum" -> s.sum
        [] f.name = "avg" -> IF s.count = 0 THEN Null ELSE FloatArithmetic(asFloat(s.sum), Num(s.count), "/")
        [] f.name \in {"min", "max"} -> s.best
        [] f.name = "collect" -> List(s.collect)
        [] f.name \in {"stdev", "stdevp"} ->
             LET over == IF f.name = "stdev" THEN n - 1 ELSE n
             IN  IF over < 1 THEN Float(0, 1) ELSE Spread(s.collect, over)
        [] f.p \notin 0 .. f.d -> Err
        [] n = 0 -> Null
        [] f.name = "percentiledisc" ->
             asFloat(NumbersUp(s.collect)[Least(Most((f.p * n + f.d - 1) \div f.d - 1, 0), n - 1) + 1])
        [] f.name = "percentilecont" ->
             Between(NumbersUp(s.collect), (f.p * (n - 1)) \div f.d, Float((f.p * (n - 1)) % f.d, f.d))

RECURSIVE Folded(_, _, _)
Folded(s, f, vs) == IF vs = <<>> THEN s ELSE Folded(fold(s, f, vs[1]), f, Tail(vs))
Aggregate(f, vs) == finalize(Folded(AggState, f, vs), f)

-----------------------------------------------------------------------------
(* The sort; a row is its keys and its place in the input. *)

RECURSIVE RowCmp(_, _, _)
RowCmp(a, b, ups) ==
  IF ups = <<>> THEN "eq"
  ELSE LET by(ord) == IF ord = "eq" THEN RowCmp(Tail(a), Tail(b), Tail(ups))
                      ELSE IF ups[1] THEN ord ELSE Reversed(ord)
       IN  by(SortCmp(a[1], b[1]))

SortBefore(rows, ups, i, j) ==
  LET before(ord) == ord = "lt" \/ (ord = "eq" /\ i < j) IN before(RowCmp(rows[i], rows[j], ups))
Sorted(rows, ups, buf) == SortSeq(buf, LAMBDA i, j : SortBefore(rows, ups, i, j))
Truncated(buf, k) == SubSeq(buf, 1, Least(k, Len(buf)))

RECURSIVE Buffered(_, _, _, _, _)
Buffered(rows, ups, k, i, buf) ==
  LET full == i > Len(rows) \/ Len(buf) >= 2 * k
      kept == IF full THEN Truncated(Sorted(rows, ups, buf), k) ELSE buf
  IN  IF i > Len(rows) THEN kept ELSE Buffered(rows, ups, k, i + 1, Append(kept, i))

sort_all(rows, ups) == Sorted(rows, ups, [i \in DOMAIN rows |-> i])
sort_all_bounded(rows, ups, k) == IF k = 0 THEN <<>> ELSE Buffered(rows, ups, k, 1, <<>>)
=============================================================================
