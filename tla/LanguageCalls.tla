--------------------------- MODULE LanguageCalls ---------------------------
(***************************************************************************)
(* Calls into the query language that depend on nothing stored: a text     *)
(* handed to the parser, the functions on dates, times and durations, and  *)
(* the operators, aggregates and sorts on values.  Each answer is held     *)
(* against what it is defined to be.                                       *)
(***************************************************************************)
EXTENDS Integers, Sequences, SequencesExt, FiniteSets

CONSTANTS
  Kilo, MaxYear, Forward, Backward,  \* the calendar, as Temporal has it
  Texts,      \* statements as the parser reads their clauses
  Dates,      \* dates of the calendar
  FarDates,   \* dates only taken apart and put together
  Clocks,     \* times of day
  Zones,      \* zones of the zoned values
  Durations,  \* <<months, days, seconds, ticks>>
  Maps,       \* the fields of a time a user gives
  MaxInt,     \* the largest integer, as Values has it
  Things,     \* values of every kind, for the order
  OperandValues, \* values the operators are asked on
  CellValues     \* values that are grouped, folded and sorted

VARIABLE asked  \* the call made and its answer

V == INSTANCE Validate
T == INSTANCE Temporal
X == INSTANCE Values

NoQuestion == [op |-> "none"]
AskInit == asked = NoQuestion
Idle == asked = NoQuestion
Question(question) == asked' = question

-----------------------------------------------------------------------------
(* The calls *)

CallParse == Idle /\ \E text \in Texts :
  Question([op |-> "parse", text |-> text, got |-> V!parse_uncached(text)])

MapArg(f) == [by |-> "map", map |-> T!Map(f, T!NoValue, T!NoValue, T!NoValue, T!NoZone)]
TextArg(shape, f) == [by |-> "text", text |-> [shape |-> shape, f |-> f, t |-> 0, zone |-> T!NoZone]]
Kept(f, keys) == [k \in keys |-> f[k]]

CallDate == Idle /\ \E date \in Dates \cup FarDates :
  LET maps(f) == <<Kept(f, {"year", "month", "day"}), Kept(f, {"year", "ordinalDay"}),
                   [year |-> f.weekYear, week |-> f.week, dayOfWeek |-> f.dayOfWeek],
                   Kept(f, {"year", "quarter", "dayOfQuarter"})>>
      whole(m) == {MapArg(m[i]) : i \in 1 .. 4}
                  \cup {TextArg("YMD", m[1]), TextArg("YO", m[2]), TextArg("YWD", m[3])}
      over(f)  == {[by |-> "map", map |-> T!Map(Kept(f, keys), T!date_to_obj(date), T!NoValue, T!NoValue, T!NoZone)] :
                     keys \in {{}, {"day"}, {"month"}, {"week"}, {"quarter"}, {"ordinalDay"}}}
  IN  \E f \in {T!DateFields(date)} :
        Question([op |-> "date", date |-> date, fields |-> f, civil |-> T!CivilFields(date),
                  made |-> {T!make_date(arg) : arg \in whole(maps(f)) \cup over(f)}])

LocalValues == {T!datetime_to_obj(d, t, T!NoZone, "LocalDateTime") : d \in Dates, t \in Clocks}
               \cup {T!date_to_obj(d) : d \in Dates}
ZonedValues == {T!datetime_to_obj(d, t, z, "DateTime") : d \in Dates, t \in Clocks, z \in Zones}
TimeValues  == {T!time_to_obj(t, T!NoZone, "LocalTime") : t \in Clocks}
               \cup {T!time_to_obj(t, z, "Time") : t \in Clocks, z \in Zones}

CallBetween == Idle /\ \E a \in LocalValues \cup ZonedValues \cup TimeValues, b \in LocalValues \cup TimeValues :
  Question([op |-> "between", a |-> a, b |-> b,
       got |-> [name \in {"between", "inmonths", "indays", "inseconds"} |->
                  T!temporal_duration_between(a, b, name)],
       back |-> IF a \in LocalValues THEN T!temporal_duration_between(b, a, "between") ELSE <<>>,
       civil |-> IF {a, b} \subseteq LocalValues
                 THEN [name \in {"between", "inseconds"} |-> T!duration_between_civil(a, b, name)] ELSE <<>>])

Dur(d) == T!duration_obj(d[1], d[2], d[3], d[4])

CallShift == Idle /\ \E v \in LocalValues \cup ZonedValues \cup TimeValues, d \in Durations :
  LET plus == T!temporal_arithmetic_date_duration(v, Dur(d), 1)
  IN  Question([op |-> "shift", v |-> v, dur |-> Dur(d), plus |-> plus,
           back |-> T!temporal_arithmetic_date_duration(plus, Dur(d), -1)])

CallTruncate == Idle /\ \E v, w \in LocalValues,
                   unit \in T!TimeUnits \cup {"day", "week", "month", "quarter", "year", "weekyear", "decade"} :
  LET cut(x) == T!temporal_truncate(x.ty, unit, x, <<>>, T!NoZone)
      answer(cuts, again) == Question([op |-> "truncate", unit |-> unit, v |-> v, w |-> w,
                                       got |-> cuts[1], other |-> cuts[2], again |-> again])
  IN  /\ v.ty = w.ty
      /\ \E cuts \in {[i \in {1, 2} |-> cut(<<v, w>>[i])]} : answer(cuts, cut(cuts[1]))

\* A value selected from another one, with a zone over it or fields over it.
CallSelect == Idle /\ \E v \in ZonedValues \cup TimeValues, zone \in Zones, f \in Maps :
  LET map == T!Map(f, T!NoValue, IF T!HasTime(v) THEN v ELSE T!NoValue,
                   IF T!HasTime(v) THEN T!NoValue ELSE v, zone)
      arg == [by |-> "map", map |-> map]
  IN  Question([op |-> "select", v |-> v, zone |-> zone, f |-> f,
           got |-> IF T!HasTime(v) THEN T!make_time(arg, "Time") ELSE T!make_datetime(arg, "DateTime")])

CallClock == Idle /\ \E f \in Maps, date \in Dates :
  Question([op |-> "clock", f |-> f, time |-> T!make_localtime(MapArg(f)),
       datetime |-> T!make_localdatetime(
         [by |-> "map", map |-> T!Map(f, T!date_to_obj(date), T!NoValue, T!NoValue, T!NoZone)])])

CallDuration == Idle /\ \E d, e \in Durations, num \in {-1, 1, 2, 3}, den \in {1, 2} :
  Question([op |-> "duration", dur |-> Dur(d), num |-> num, den |-> den,
       read |-> T!parse_iso_duration(T!format_duration(Dur(d)), 1),
       made |-> T!make_duration([months |-> d[1], days |-> d[2], seconds |-> d[3], nanoseconds |-> d[4]], 1),
       scaled |-> T!scale_duration(Dur(d), num, den),
       back |-> T!DurationMinus(T!DurationPlus(Dur(d), Dur(e)), Dur(e))])

\* Three values against one another.
CallOrder == Idle /\ \E a, b, c \in Things :
  LET vs == <<a, b, c>>
  IN  Question([op |-> "order", vs |-> vs,
                sort |-> [p \in (1 .. 3) \X (1 .. 3) |-> X!SortCmp(vs[p[1]], vs[p[2]])],
                total |-> X!json_cmp_total(a, b), eq |-> X!cypher_eq(a, b),
                keys |-> <<X!canonical_cell_key(a), X!canonical_cell_key(b)>>,
                grouped |-> <<X!canonical_binding_key(a), X!canonical_binding_key(b)>>,
                case |-> X!case_expr(TRUE, a, <<c, b>>)])

\* One operator, two of them in a row, and the second over the first in brackets.
Sides == {X!Lit(v) : v \in OperandValues} \cup {X!Param}
CallOperator == Idle /\ \E l, r \in Sides, op \in X!Comparisons \cup {"AND", "OR", "XOR", "+", "-", "*", "/", "%"} :
  Question([op |-> "operator", by |-> op]
           @@ X!Evaluated(<<>>, [l |-> l, r |-> r, got |-> X!Bin(op, l, r), swapped |-> X!Bin(op, r, l)]))

Few == {X!Lit(v) : v \in {X!Null, X!NaN, X!True, X!Num(1), X!Float(1, 1), X!Num(2), X!Str(<<1>>)}} \cup {X!Param}
CallChain == Idle /\ \E a, b, c \in Few, p, q \in {"<", "=", "<>", ">="} :
  LET first == X!Bin(p, a, b)
  IN  Question([op |-> "chain", by |-> q]
               @@ X!Evaluated(<<>>, [got |-> X!Bin(q, first, c), apart |-> X!Bin("AND", first, X!Bin(q, b, c)),
                                     last |-> X!Bin(q, b, c), bracketed |-> X!Bin(q, X!Grouped(first), c),
                                     first |-> first, c |-> c]))

\* A predicate that answers with the element, and fails on the number zero.
Failing == [e |-> "case", simple |-> TRUE, of |-> X!Var("x"), whens |-> <<X!Lit(X!Num(0))>>,
            thens |-> <<X!Param>>, else |-> X!Var("x")]
Answers == {X!True, X!False, X!Null, X!Num(1), X!Num(0)}
CallOverList == Idle /\ \E items \in UNION {[1 .. n -> Answers] : n \in 0 .. 3}, kind \in {"all", "any", "none", "single"} :
  LET list == X!Lit(X!List(items))
  IN  Question([op |-> "over", items |-> items, kind |-> kind,
                in |-> X!in_fn(X!Num(1), X!List(items)), null |-> X!in_fn(X!Null, X!List(items))]
               @@ X!Evaluated([x |-> X!Null],
                    [got |-> [e |-> "quantifier", kind |-> kind, x |-> "x", of |-> list, where |-> Failing],
                     kept |-> [e |-> "comprehension", x |-> "x", of |-> list, where |-> Failing, body |-> X!Var("x")],
                     reduced |-> [e |-> "reduce", acc |-> "a", init |-> X!Lit(X!List(<<>>)), x |-> "x",
                                  of |-> list, body |-> X!Bin("+", X!Var("a"), X!Var("x"))],
                     first |-> [e |-> "coalesce", args |-> [i \in DOMAIN items |-> X!Lit(items[i])]]]))

Words == UNION {[1 .. n -> {1, 2}] : n \in 0 .. 4}
NoBound == [k |-> "none"]
CallText == Idle /\ \E t \in Words, d \in {<<1>>, <<1, 1>>, <<1, 2>>}, from \in (-5) .. 5, to \in (-5) .. 5 :
  LET s == X!Str(t)
  IN  Question([op |-> "text", t |-> t, d |-> d, from |-> from, to |-> to,
                slice |-> X!slice(s, X!Num(from), X!Num(to)), open |-> X!slice(s, X!Num(from), NoBound),
                at |-> X!subscript(X!List([i \in DOMAIN t |-> X!Num(t[i])]), X!Num(from)),
                left |-> X!left(s, X!Num(from)), right |-> X!right(s, X!Num(from)),
                mid |-> X!substring(s, X!Num(from), X!Num(to)), rest |-> X!substring(s, X!Num(from), NoBound),
                split |-> X!split(s, X!Str(d)), replaced |-> X!replace(s, X!Str(d), X!Str(<<3>>)),
                has |-> X!contains(s, X!Str(d)), starts |-> X!starts_with(s, X!Str(d)), ends |-> X!ends_with(s, X!Str(d)),
                back |-> X!reverse(X!reverse(s)), size |-> X!size(s)])

CallNumber == Idle /\ \E a, b, c \in {v \in OperandValues : X!IsNum(v) \/ X!IsNull(v)} :
  Question([op |-> "number", a |-> a, b |-> b, vs |-> <<a, b, c>>, range |-> X!range_fn(a, b, c),
            floor |-> X!floor_fn(a), ceil |-> X!ceil_fn(a), round |-> X!round_fn(a), abs |-> X!abs_fn(a),
            sign |-> X!sign_fn(a), int |-> X!tointeger(a), max |-> X!max_fn(<<a, b, c>>), min |-> X!min_fn(<<a, b, c>>)])

Functions == {[name |-> n, distinct |-> d, p |-> 0, d |-> 1] :
                n \in {"count", "sum", "avg", "collect", "stdev"}, d \in BOOLEAN}
             \cup {[name |-> n, distinct |-> FALSE, p |-> 0, d |-> 1] : n \in {"min", "max", "stdevp"}}
             \cup {[name |-> n, distinct |-> FALSE, p |-> p, d |-> 4] : n \in {"percentiledisc", "percentilecont"}, p \in 0 .. 5}
Rows(n) == UNION {[1 .. k -> CellValues] : k \in 0 .. n}

CallAggregate == Idle /\ \E vs \in Rows(3), f \in Functions :
  Question([op |-> "aggregate", vs |-> vs, f |-> f, got |-> X!Aggregate(f, vs), back |-> X!Aggregate(f, Reverse(vs))])

Two == UNION {[1 .. n -> {X!Num(1), X!Float(1, 1), X!Num(2)}] : n \in 0 .. 3}
CallGroup == Idle /\ \E one \in Rows(3), two \in Two :
  LET n == Len(one)
      rows == [i \in 1 .. n |-> <<one[i], two[i]>>]
      cols == <<X!canonicalize_group_codes(X!group_codes(one)), X!canonicalize_group_codes(X!group_codes(two))>>
  IN  /\ Len(two) = n
      /\ Question([op |-> "group", rows |-> rows, codes |-> X!combine_group_codes(cols, [i \in 1 .. n |-> 1]),
                   reps |-> cols[1].reps, first |-> cols[1].codes,
                   keys |-> [i \in 1 .. n |-> X!canonical_row_key(rows[i])], kept |-> X!dedup_records(rows)])

CallSort == Idle /\ \E one \in Rows(3), two \in Two, up, down \in BOOLEAN, k \in 0 .. 2 :
  LET rows == [i \in DOMAIN one |-> <<one[i], two[i]>>]
  IN  /\ Len(two) = Len(one)
      /\ Question([op |-> "sort", rows |-> rows, ups |-> <<up, down>>, k |-> k,
                   all |-> X!sort_all(rows, <<up, down>>), bounded |-> X!sort_all_bounded(rows, <<up, down>>, k)])

AskNext == \/ CallParse \/ CallDate \/ CallBetween \/ CallShift \/ CallTruncate \/ CallSelect \/ CallClock
           \/ CallDuration \/ CallOrder \/ CallOperator \/ CallChain \/ CallOverList \/ CallText \/ CallNumber
           \/ CallAggregate \/ CallGroup \/ CallSort

-----------------------------------------------------------------------------
(* What the answers are defined to be *)

ParseRight(c) ==
  LET s == c.got.stmt
      read == V!pipeline_parser(c.text)
  IN  /\ c.got.verdict = "accept" =>
           /\ ~V!UnresolvedIn(s)
           /\ \A q \in V!Branches(s) : ~V!CreatesBound(q) /\ ~V!TwoKinds(q)
      /\ c.got.verdict = "undefined" => V!UnresolvedIn(s)
      /\ s.kind = "query" => V!StarsExact(read.clauses, s.clauses)

(***************************************************************************)
(* The passes in front of the planner mean what they say.  An accepted     *)
(* statement reads no variable its row does not hold, whichever of its     *)
(* clauses binds, drops, renames or shadows it, creates no variable that   *)
(* is bound, and uses no name as two kinds of thing; a statement refused   *)
(* for an undefined variable really reads one; and a star beside other     *)
(* items is spelled out to exactly what the rows hold.                     *)
(***************************************************************************)
ScopesRight == asked.op = "parse" => ParseRight(asked)

DateRight(c) ==
  /\ c.made = {T!date_to_obj(c.date)}
  /\ \A k \in DOMAIN c.fields \ {"week", "weekYear"} : c.fields[k] = c.civil[k]

\* Where a value is on the wall clock and in universal time.
Wall(v) == <<T!DayNumber(v.date), v.t>>
Local(p) == T!datetime_to_obj(T!DateOf(p[1]), p[2], T!NoZone, "LocalDateTime")
InZoneOf(v, other) == T!EffectiveOffset(v, other, T!DayNumber(v.date))
Moved(p, ticks) == T!Carry(p[1], p[2] + ticks)
GapTicks(p, q) == (q[1] - p[1]) * T!Day + q[2] - p[2]
NoMonths(ticks) == T!duration_obj(0, 0, T!Trunc(ticks, T!Second), T!Rem(ticks, T!Second))

BetweenRight(c) ==
  IF ~(T!HasDate(c.a) /\ T!HasDate(c.b))
  THEN c.got["between"].months = 0 /\ c.got["between"].days = 0
       /\ (c.a.ty = c.b.ty =>
             T!SortKey(T!temporal_arithmetic_date_duration(c.a, c.got["between"], 1)) = T!SortKey(c.b))
  ELSE LET from == Wall(c.a)
           to   == Moved(Wall(c.b), (InZoneOf(c.a, c.b) - InZoneOf(c.b, c.a)) * T!Second)
           back == T!Before(to, from)
           lo   == IF back THEN to ELSE from
           hi   == IF back THEN from ELSE to
           size == IF back THEN T!Negated(c.got["between"]) ELSE c.got["between"]
           more == T!temporal_arithmetic_date_duration(Local(lo), T!duration_obj(size.months + 1, 0, 0, 0), 1)
           ticks == GapTicks(from, to)
       IN  /\ size.months >= 0 /\ size.days >= 0 /\ T!Ticks(size) \in 0 .. (T!Day - 1)
           /\ Wall(T!temporal_arithmetic_date_duration(Local(lo), size, 1)) = hi
           /\ T!Before(hi, Wall(more))
           /\ c.got["inseconds"] = NoMonths(ticks)
           /\ c.got["indays"] = T!duration_obj(0, T!Trunc(ticks, T!Day), 0, 0)
           /\ c.got["inmonths"] = T!duration_obj(c.got["between"].months, 0, 0, 0)
           /\ c.a \in LocalValues => c.back = T!Negated(c.got["between"])
           /\ c.civil # <<>> => \A name \in DOMAIN c.civil : c.civil[name] = c.got[name]

ShiftRight(c) ==
  LET whole == c.dur.seconds % T!DaySeconds = 0 /\ c.dur.ns = 0
  IN  CASE T!HasTime(c.v) -> c.back = c.v
        [] c.v.ty = "Date" -> c.dur.months = 0 /\ whole => c.back = c.v
        [] OTHER -> c.dur.months = 0 => Wall(c.back) = Wall(c.v)

\* The latest boundary of the unit that is not after the value.
TruncateRight(c) ==
  /\ ~T!Before(Wall(c.v), Wall(c.got))
  /\ c.again = c.got
  /\ (~T!Before(Wall(c.v), Wall(c.w)) /\ ~T!Before(Wall(c.w), Wall(c.got))) => c.other = c.got
  /\ T!Before(Wall(c.v), Wall(c.w)) => ~T!Before(Wall(c.other), Wall(c.got))

IsWholeMinutes(zone) == zone.off % 60 = 0

\* The instant stays where the new zone has one offset before and after the
\* move; an offset with seconds loses its minutes in a Time.
SelectRight(c) ==
  LET plain == c.f = <<>>
      instant(v) == T!Carry(T!DayNumber(v.date), v.t - v.off * T!Second)
      steady == T!resolve_zone(T!DayNumber(c.v.date), c.v.t, c.zone).off = c.got.off
  IN  CASE T!HasTime(c.v) ->
             plain /\ c.v.ty = "Time" /\ c.zone.num /\ IsWholeMinutes(c.zone) /\ c.v.zone.num /\ IsWholeMinutes(c.v.zone)
               => T!SortKey(c.got) = T!SortKey(c.v)
        [] OTHER -> plain /\ steady => instant(c.got) = instant(c.v)

\* A field is what it names; a smaller unit of a time is within the larger.
ClockRight(c) ==
  LET h == T!Field(c.f, "hour", 0)
      s == T!Field(c.f, "second", 0)
      sub == T!SubFields(c.f)
      ok == h \in 0 .. 23 /\ s \in 0 .. 59 /\ sub \in 0 .. (T!Second - 1)
      t  == h * T!Hour + s * T!Second + sub
      split == T!Field(c.f, "microsecond", 0) < Kilo /\ T!Field(c.f, "nanosecond", 0) < Kilo
  IN  /\ c.datetime = T!Bad <=> ~ok
      /\ c.time = T!Bad <=> ~ok
      /\ ok => c.datetime.t = t
      /\ ok /\ split => c.time.t = t

\* What den of one duration are longer than num of another, by the mean month.
Excess(den, l, num, r) ==
  ((den * l.months - num * r.months) * T!AVG_SECONDS_PER_MONTH + (den * l.days - num * r.days) * T!DaySeconds) * T!Second
  + den * T!Ticks(l) - num * T!Ticks(r)

DurationRight(c) ==
  /\ c.read = c.dur /\ c.made = c.dur /\ c.back = c.dur
  /\ T!Abs(Excess(c.den, c.scaled, c.num, c.dur)) < c.den

(***************************************************************************)
(* Dates, times and durations keep their meaning.  A date comes back from  *)
(* its week, quarter, ordinal and calendar fields and from its own         *)
(* overrides; counting days beyond the calendar library agrees with it;    *)
(* the duration between two values, added to the earlier, is the later,    *)
(* in the most months there are and with one sign, across zones and        *)
(* month ends; adding and subtracting a duration without months cancels;   *)
(* truncation is the latest boundary; a new zone keeps the instant; and a  *)
(* duration survives its text, its map and scaling.                        *)
(***************************************************************************)
TemporalRight ==
  /\ asked.op = "date"     => DateRight(asked)
  /\ asked.op = "between"  => BetweenRight(asked)
  /\ asked.op = "shift"    => ShiftRight(asked)
  /\ asked.op = "truncate" => TruncateRight(asked)
  /\ asked.op = "select"   => SelectRight(asked)
  /\ asked.op = "clock"    => ClockRight(asked)
  /\ asked.op = "duration" => DurationRight(asked)

-----------------------------------------------------------------------------
(* What an operator on values is defined to be *)

\* Dates beside durations or infinities have no order among themselves.
OneClock(vs) == \A i, j \in DOMAIN vs : X!type_rank(vs[i]) = 5 /\ X!type_rank(vs[j]) = 5 =>
                  vs[i].k = "temporal" /\ vs[j].k = "temporal" /\ vs[i].ty = vs[j].ty
Simple(v) == v.k \in {"int", "float", "nan", "null", "bool", "str", "node", "edge"}
AtMost == {"lt", "eq"}

OrderRight(c) ==
  LET equivalent == X!IsTrue(c.eq) \/ (c.vs[1] = c.vs[2] /\ c.vs[1].k \in {"null", "nan"})
      settled(v) == v.k \in {"int", "float", "str", "bool", "temporal"}
      want == IF c.vs[3] = c.vs[1] \/ X!Equal(c.vs[1], c.vs[3]) THEN 1 ELSE IF X!IsTrue(c.eq) THEN 2 ELSE 0
  IN  /\ c.sort[<<2, 1>>] = X!Reversed(c.sort[<<1, 2>>])
      /\ OneClock(c.vs) /\ c.sort[<<1, 2>>] \in AtMost /\ c.sort[<<2, 3>>] \in AtMost =>
           c.sort[<<1, 3>>] = IF c.sort[<<1, 2>>] = "eq" THEN c.sort[<<2, 3>>] ELSE "lt"
      /\ c.total = c.sort[<<1, 2>>]
      /\ X!IsTrue(c.eq) => c.total = "eq"
      /\ Simple(c.vs[1]) /\ Simple(c.vs[2]) =>
           /\ (c.keys[1] = c.keys[2]) = equivalent
           /\ (c.grouped[1] = c.grouped[2]) = equivalent
      /\ settled(c.vs[1]) => c.case = want

\* An unknown truth value may be either; a value all of them agree on is the answer.
Completions(v) == IF X!IsNull(v) THEN BOOLEAN ELSE {v.b}
Agreed(truths) == IF Cardinality(truths) = 1 THEN X!Bool(CHOOSE t \in truths : TRUE) ELSE X!Null
Truth(by, p, q) == CASE by = "AND" -> p /\ q [] by = "OR" -> p \/ q [] by = "XOR" -> p # q
KnownTruth(v) == IF X!IsErr(v) THEN X!Null ELSE v

LogicRight(c) ==
  LET sides == {c.l, c.r}
      wrong == \E v \in sides : ~X!IsErr(v) /\ ~X!Logical(v)
      want  == Agreed({Truth(c.by, p, q) : p \in Completions(KnownTruth(c.l)), q \in Completions(KnownTruth(c.r))})
  IN  IF wrong \/ X!IsErr(c.l) THEN X!IsErr(c.got)
      ELSE IF X!IsErr(c.r) THEN c.got = IF X!IsNull(want) \/ X!IsNull(c.l) THEN X!Err ELSE want
      ELSE c.got = want /\ c.swapped = c.got

SumOfTwo(l, r) == X!Float(X!P(l) * X!D(r) + X!P(r) * X!D(l), X!D(l) * X!D(r))
ArithmeticRight(c) ==
  LET ints == X!IsInt(c.l) /\ X!IsInt(c.r)
      q == X!IntArithmetic(c.l.n, c.r.n, "/")
      exact == CASE c.by = "+" -> c.l.n + c.r.n [] c.by = "-" -> c.l.n - c.r.n [] c.by = "*" -> c.l.n * c.r.n
  IN  IF ints /\ c.by \in {"+", "-", "*"}
      THEN c.got = IF X!InWidth(exact) THEN X!Num(exact) ELSE X!Err
      ELSE IF ints
      THEN /\ X!IsErr(c.got) <=> c.r.n = 0 \/ (c.by = "/" /\ c.l.n = -MaxInt - 1 /\ c.r.n = -1)
           /\ c.by = "/" /\ ~X!IsErr(c.got) =>
                LET rest == c.l.n - c.got.n * c.r.n
                IN  X!AbsInt(rest) < X!AbsInt(c.r.n) /\ rest * c.l.n >= 0
           /\ c.by = "%" /\ ~X!IsErr(c.got) /\ ~X!IsErr(q) => c.got.n = c.l.n - q.n * c.r.n
      ELSE /\ c.by = "+" => c.got = SumOfTwo(c.l, c.r)
           /\ c.by = "-" => SumOfTwo(c.got, c.r) = X!Float(X!P(c.l), X!D(c.l))
           /\ c.by = "/" => (X!IsNum(c.got) <=> X!P(c.r) # 0)
           /\ c.by = "/" /\ X!IsNum(c.got) =>
                X!FloatArithmetic(c.got, c.r, "*") = X!Float(X!P(c.l), X!D(c.l))

OperatorRight(c) ==
  CASE c.by \in {"AND", "OR", "XOR"} -> LogicRight(c)
    [] X!IsErr(c.l) \/ X!IsErr(c.r) -> X!IsErr(c.got)
    [] X!IsNull(c.l) \/ X!IsNull(c.r) -> X!IsNull(c.got)
    [] c.by \in X!Comparisons -> X!Logical(c.got) /\ (c.by \in {"=", "<>"} => c.swapped = c.got)
    [] X!IsNum(c.l) /\ X!IsNum(c.r) -> ArithmeticRight(c)
    [] X!is_nan(c.l) \/ X!is_nan(c.r) -> c.got.k \in {"nan"} \cup IF c.by = "+" THEN {"str", "list"} ELSE {}
    [] OTHER -> TRUE

\* A chain is its comparisons joined; brackets make the first a value of its own.
ChainRight(c) ==
  /\ IF X!IsErr(c.last) \/ X!IsErr(c.first) THEN X!IsErr(c.got) ELSE c.got = c.apart
  /\ c.bracketed = X!eval_binary_op(c.first, c.c, c.by)

Marked(items, p) == {i \in DOMAIN items : items[i] = X!True \/ (X!IsNull(items[i]) /\ p[i])}
Quantified(kind, items, n) ==
  CASE kind = "all" -> n = Len(items) [] kind = "any" -> n > 0 [] kind = "none" -> n = 0 [] kind = "single" -> n = 1
OverListRight(c) ==
  LET fails == {i \in DOMAIN c.items : c.items[i] = X!Num(0)}
      end   == IF fails = {} THEN Len(c.items) ELSE (CHOOSE i \in fails : \A j \in fails : i <= j) - 1
      known == [i \in DOMAIN c.items |-> IF i > end THEN X!Null ELSE c.items[i]]
      want  == Agreed({Quantified(c.kind, known, Cardinality(Marked(known, p))) : p \in [DOMAIN known -> BOOLEAN]})
      hits(v) == {X!cypher_eq(v, c.items[i]) : i \in DOMAIN c.items}
  IN  /\ IF fails = {} THEN c.got = want ELSE c.got = IF X!IsNull(want) THEN X!Err ELSE want
      /\ c.kept = IF fails # {} THEN X!Err ELSE X!List(SelectSeq(c.items, X!IsTrue))
      /\ c.reduced = IF \E i \in DOMAIN c.items : X!IsNull(c.items[i]) THEN X!Null ELSE X!List(c.items)
      /\ c.first = IF \A i \in DOMAIN c.items : X!IsNull(c.items[i]) THEN X!Null
                   ELSE Head(SelectSeq(c.items, LAMBDA v : ~X!IsNull(v)))
      /\ c.in = IF X!Num(1) \in Range(c.items) THEN X!True ELSE IF X!Null \in Range(c.items) THEN X!Null ELSE X!False
      /\ c.null = IF c.items = <<>> THEN X!False ELSE X!Null

\* Positions count from zero, and from the end when they are negative.
TextRight(c) ==
  LET n == Len(c.t)
      abs(i) == IF i < 0 THEN n + i ELSE i
      cut(f, t) == SelectSeq([i \in DOMAIN c.t |-> i], LAMBDA i : i - 1 >= f /\ i - 1 < t)
      text(f, t) == X!Str([j \in DOMAIN cut(f, t) |-> c.t[cut(f, t)[j]]])
      pieces == [i \in DOMAIN c.split.l |-> c.split.l[i].s]
  IN  /\ c.slice = text(abs(c.from), abs(c.to)) /\ c.open = text(abs(c.from), n)
      /\ c.at = IF abs(c.from) \in 0 .. (n - 1) THEN X!Num(c.t[abs(c.from) + 1]) ELSE X!Null
      /\ c.left = IF c.from < 0 THEN X!Err ELSE text(0, c.from)
      /\ c.right = IF c.from < 0 THEN X!Err ELSE text(n - c.from, n)
      /\ c.mid = text(X!Most(c.from, 0), X!Most(c.from, 0) + X!Most(c.to, 0)) /\ c.rest = text(c.from, n)
      /\ X!Joined(pieces, c.d) = c.t /\ \A i \in DOMAIN pieces : X!FoundAt(pieces[i], c.d, 1) = {}
      /\ c.replaced = X!Str(X!Joined(pieces, <<3>>))
      /\ X!IsTrue(c.has) <=> Len(pieces) > 1
      /\ X!IsTrue(c.starts) <=> Len(pieces) > 1 /\ pieces[1] = <<>>
      /\ X!IsTrue(c.ends) <=> \E i \in 0 .. n : SubSeq(c.t, i + 1, n) = c.d
      /\ c.back = X!Str(c.t) /\ c.size = X!Num(n)

AtOrBelow(l, r) == X!NumCmp(l, r) \in AtMost
NumberRight(c) ==
  LET some == SelectSeq(c.vs, X!IsNum)
      step == c.vs[3].n
      fits == \A i \in 1 .. 3 : X!IsInt(c.vs[i])
      runs == SelectSeq([i \in 1 .. (2 * MaxInt + 2) |-> c.a.n + (i - 1) * step],
                        LAMBDA v : IF step > 0 THEN v <= c.b.n ELSE v >= c.b.n)
  IN  /\ fits => c.range = IF step = 0 THEN X!Err ELSE X!List([i \in DOMAIN runs |-> X!Num(runs[i])])
      /\ X!IsNum(c.a) =>
           /\ AtOrBelow(c.floor, c.a) /\ AtOrBelow(c.a, c.ceil)
           /\ X!NumCmp(c.ceil, X!FloatArithmetic(c.floor, X!Num(2), "+")) = "lt"
           /\ X!NumCmp(c.floor, c.ceil) = "eq" <=> X!NumCmp(c.a, c.floor) = "eq"
           /\ c.round \in {c.floor, c.ceil}
           /\ LET gap(v) == X!FloatArithmetic(v, c.a, "-")
              IN  AtOrBelow(X!abs_fn(gap(c.round)), X!Float(1, 2))
           /\ c.int = X!Num(IF c.sign.n < 0 THEN X!P(c.ceil) ELSE X!P(c.floor))
           /\ IF c.a = X!Num(-MaxInt - 1) THEN X!IsErr(c.abs)
              ELSE X!FloatArithmetic(c.abs, c.sign, "*") = X!FloatArithmetic(c.a, X!Float(1, 1), "*")
      /\ IF some = <<>> THEN X!IsNull(c.max) /\ X!IsNull(c.min)
         ELSE /\ c.max \in Range(some) /\ c.min \in Range(some)
              /\ \A i \in DOMAIN some : AtOrBelow(some[i], c.max) /\ AtOrBelow(c.min, some[i])

\* What the rows give a function: nulls passed over, and repeats if it says so.
Given(c) ==
  LET rows == SelectSeq([i \in DOMAIN c.vs |-> i], LAMBDA i : ~X!IsNull(c.vs[i]))
      once == SelectSeq(rows, LAMBDA i : \A j \in 1 .. (i - 1) :
                X!canonical_cell_key(c.vs[j]) # X!canonical_cell_key(c.vs[i]))
      pick == IF c.f.distinct THEN once ELSE rows
  IN  [j \in DOMAIN pick |-> c.vs[pick[j]]]

AggregateRight(c) ==
  LET vs   == Given(c)
      nums == SelectSeq(vs, X!IsNum)
      n    == Len(nums)
      same(a, b) == a = b \/ (X!IsNum(a) /\ X!IsNum(b) /\ X!NumCmp(a, b) = "eq")
      below(v) == Cardinality({i \in DOMAIN nums : AtOrBelow(nums[i], v)})
      pairs == X!SumOf([i \in 1 .. (n * n) |->
                 LET d == X!FloatArithmetic(nums[((i - 1) \div n) + 1], nums[((i - 1) % n) + 1], "-")
                 IN  X!FloatArithmetic(d, d, "*")])
      whole == \A i \in DOMAIN nums : X!IsInt(nums[i])
  IN  /\ c.f.name # "collect" => same(c.got, c.back)
      /\ CASE c.f.name = "count" -> c.got = X!Num(Len(vs))
           [] c.f.name = "collect" -> c.got = X!List(vs)
           [] c.f.name = "sum" -> /\ X!NumCmp(c.got, X!SumOf(nums)) = "eq"
                                  /\ X!IsInt(c.got) => whole
                                  /\ whole /\ (\A i, j \in 0 .. n : X!InWidth(X!SumOf(SubSeq(nums, i + 1, j)).p)) => X!IsInt(c.got)
           [] c.f.name = "avg" -> IF n = 0 THEN X!IsNull(c.got)
                                  ELSE X!FloatArithmetic(c.got, X!Num(n), "*") = X!SumOf(nums)
           [] c.f.name \in {"min", "max"} ->
                IF vs = <<>> THEN X!IsNull(c.got)
                ELSE /\ c.got \in Range(vs)
                     /\ \A i \in DOMAIN vs : X!json_cmp_total(vs[i], c.got) \in {"eq", IF c.f.name = "min" THEN "gt" ELSE "lt"}
           [] c.f.name = "stdev" -> n > 1 => X!FloatArithmetic(c.got, X!Num(2 * n * (n - 1)), "*") = pairs
           [] c.f.name = "stdevp" -> n > 0 => X!FloatArithmetic(c.got, X!Num(2 * n * n), "*") = pairs
           [] c.f.p > c.f.d -> X!IsErr(c.got)
           [] n = 0 -> X!IsNull(c.got)
           [] c.f.name = "percentiledisc" ->
                /\ \E i \in DOMAIN nums : X!NumCmp(c.got, nums[i]) = "eq"
                /\ below(c.got) * c.f.d >= c.f.p * n
                /\ \A i \in DOMAIN nums : X!NumCmp(nums[i], c.got) = "lt" => below(nums[i]) * c.f.d < c.f.p * n
           [] OTHER -> /\ c.f.p = 0 => \A i \in DOMAIN nums : AtOrBelow(c.got, nums[i])
                       /\ c.f.p = c.f.d => \A i \in DOMAIN nums : AtOrBelow(nums[i], c.got)
                       /\ c.f.p * 2 = c.f.d /\ n = 2 => X!FloatArithmetic(c.got, X!Num(2), "*") = X!SumOf(nums)

GroupRight(c) ==
  /\ \A i, j \in DOMAIN c.rows : c.codes[i] = c.codes[j] <=> c.keys[i] = c.keys[j]
  /\ \A i \in DOMAIN c.rows : \A j \in 1 .. i : c.keys[j] = c.keys[i] /\ (\A h \in 1 .. (j - 1) : c.keys[h] # c.keys[i])
       => j \in Range(c.kept) /\ (i # j => i \notin Range(c.kept))
  /\ \A i \in DOMAIN c.first : X!canonical_cell_key(c.reps[c.first[i]]) = X!canonical_cell_key(c.rows[i][1])

SortRight(c) ==
  /\ ToSet(c.all) = DOMAIN c.rows
  /\ \A i, j \in DOMAIN c.all : i < j =>
       LET ord == X!RowCmp(c.rows[c.all[i]], c.rows[c.all[j]], c.ups) IN ord = "lt" \/ (ord = "eq" /\ c.all[i] < c.all[j])
  /\ c.bounded = SubSeq(c.all, 1, X!Least(c.k, Len(c.all)))

(***************************************************************************)
(* Values mean what the language says they mean.  ORDER BY, min and max    *)
(* use one order that is total and agrees with equality, and grouping and  *)
(* DISTINCT put together exactly the plain values that are equal, whether  *)
(* the rows are keyed one by one or through dense codes; a null is a value *)
(* that is unknown, so an answer every value would give is given, and an   *)
(* error is only passed over where it cannot matter; a chain of            *)
(* comparisons is their conjunction; integers are exact or an error;       *)
(* aggregates do not depend on the order of their rows; and a sort that    *)
(* keeps k rows returns the first k of the stable sort.                    *)
(***************************************************************************)
ValuesRight ==
  /\ asked.op = "order"     => OrderRight(asked)
  /\ asked.op = "operator"  => OperatorRight(asked)
  /\ asked.op = "chain"     => ChainRight(asked)
  /\ asked.op = "over"      => OverListRight(asked)
  /\ asked.op = "text"      => TextRight(asked)
  /\ asked.op = "number"    => NumberRight(asked)
  /\ asked.op = "aggregate" => AggregateRight(asked)
  /\ asked.op = "group"     => GroupRight(asked)
  /\ asked.op = "sort"      => SortRight(asked)
=============================================================================
