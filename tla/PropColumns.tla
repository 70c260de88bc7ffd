---------------------------- MODULE PropColumns ----------------------------
(***************************************************************************)
(* The typed property columns themselves (columns.rs, PropColumns): one    *)
(* column per property over the dense places of the entities, its kind     *)
(* chosen by the first value and given up for plain cells at the first     *)
(* value of another kind; what is read off them (gathers, group codes,     *)
(* comparison masks, bounds and the statistics of histogram.rs), and the   *)
(* arrays they are in the cache file (cache_file.rs).  Slots count from 0. *)
(* The generation, identity and checksum of the file are in ColumnsCache   *)
(* and CsrFile.  A signed zero, and an integer past the width, are left    *)
(* out, as Values leaves them out.                                         *)
(***************************************************************************)
EXTENDS Values

CONSTANTS
  WordBits,  \* bits in a word of a presence bitmap, 64 in the code
  Buckets,   \* HISTOGRAM_BUCKETS
  Commonest  \* MCV_LIMIT

None == [k |-> "none"]
Ok(v) == [k |-> "ok", v |-> v]
Resized(s, n, default) == [i \in 1 .. n |-> IF i <= Len(s) THEN s[i] ELSE default]

-----------------------------------------------------------------------------
(* Bitmap: a word is the set of its bits that are on. *)

words_for(len) == (len + WordBits - 1) \div WordBits
zeroed(len) == [words |-> [w \in 1 .. words_for(len) |-> {}], len |-> len]
from_words(words, len) == IF Len(words) = words_for(len) THEN [words |-> words, len |-> len] ELSE None
BitGet(b, i) == (i % WordBits) \in b.words[i \div WordBits + 1]
BitSet(b, i, on) ==
  [b EXCEPT !.words[i \div WordBits + 1] = IF on THEN @ \cup {i % WordBits} ELSE @ \ {i % WordBits}]
BitGrow(b, len) ==
  IF len > b.len THEN [words |-> Resized(b.words, words_for(len), {}), len |-> len] ELSE b

\* Nullable: a slot whose bit is off keeps a value nobody returns.
Default(kind) == CASE kind = "int" -> Num(0) [] kind = "float" -> Float(0, 1) [] kind = "bool" -> False
with_len(kind, len) == [kind |-> kind, present |-> zeroed(len), values |-> [i \in 1 .. len |-> Default(kind)]]
from_parts(kind, present, values) ==
  IF present # None /\ present.len = Len(values)
  THEN [kind |-> kind, present |-> present, values |-> values] ELSE None

-----------------------------------------------------------------------------
(* StrDict: string i lies between offsets i and i + 1. *)

NewDict == [offsets |-> <<0>>, bytes |-> <<>>]
DictLen(d) == Len(d.offsets) - 1
DictGet(d, i) == SubSeq(d.bytes, d.offsets[i + 1] + 1, d.offsets[i + 2])
DictFromParts(offsets, bytes) ==
  IF /\ offsets # <<>> /\ offsets[1] = 0 /\ offsets[Len(offsets)] = Len(bytes)
     /\ \A i \in 1 .. (Len(offsets) - 1) : offsets[i] <= offsets[i + 1]
  THEN [offsets |-> offsets, bytes |-> bytes] ELSE None

Known(d, s) == {i \in 0 .. (DictLen(d) - 1) : DictGet(d, i) = s}
Interned(d, s) ==
  IF Known(d, s) # {} THEN d
  ELSE [offsets |-> Append(d.offsets, Len(d.bytes) + Len(s)), bytes |-> d.bytes \o s]

-----------------------------------------------------------------------------
(* PropColumn *)

StrNull == -1
Typed == {"int", "float", "bool"}
kind_of(v) == IF v.k \in Typed \cup {"null", "str"} THEN v.k ELSE "other"

ColLen(c) == CASE c.kind \in Typed -> Len(c.values) [] c.kind = "str" -> Len(c.idx) [] OTHER -> Len(c.cells)

is_present(c, at) ==
  CASE c.kind \in Typed -> BitGet(c.present, at)
    [] c.kind = "str" -> c.idx[at + 1] # StrNull
    [] OTHER -> ~IsNull(c.cells[at + 1])

\* A value that is missing is the null.
get_json_opt(c, at) ==
  CASE c.kind \in Typed -> IF BitGet(c.present, at) THEN c.values[at + 1] ELSE Null
    [] c.kind = "str" -> IF c.idx[at + 1] = StrNull THEN Null ELSE Str(DictGet(c.dict, c.idx[at + 1]))
    [] OTHER -> c.cells[at + 1]

Cells(c) == [i \in 1 .. ColLen(c) |-> get_json_opt(c, i - 1)]
Json(cells) == [kind |-> "json", cells |-> cells]
degrade_to_json(c) == Json(Cells(c))

Grow(c, len) ==
  CASE c.kind \in Typed ->
         IF len > Len(c.values)
         THEN [c EXCEPT !.values = Resized(@, len, Default(c.kind)), !.present = BitGrow(@, len)] ELSE c
    [] c.kind = "str" -> IF len > Len(c.idx) THEN [c EXCEPT !.idx = Resized(@, len, StrNull)] ELSE c
    [] OTHER -> IF len > Len(c.cells) THEN [c EXCEPT !.cells = Resized(@, len, Null)] ELSE c

Clear(c, at) ==
  CASE c.kind \in Typed -> [c EXCEPT !.present = BitSet(@, at, FALSE)]
    [] c.kind = "str" -> [c EXCEPT !.idx[at + 1] = StrNull]
    [] OTHER -> [c EXCEPT !.cells[at + 1] = Null]

SetCell(c, at, v) ==
  CASE IsNull(v) -> Clear(c, at)
    [] c.kind \in Typed /\ kind_of(v) = c.kind ->
         [c EXCEPT !.values[at + 1] = v, !.present = BitSet(@, at, TRUE)]
    [] c.kind = "str" /\ v.k = "str" ->
         LET d == Interned(c.dict, v.s)
         IN  [c EXCEPT !.dict = d, !.idx[at + 1] = CHOOSE i \in Known(d, v.s) : TRUE]
    [] OTHER -> Json([Cells(c) EXCEPT ![at + 1] = v])

AllNull(c) == c.kind = "json" /\ \A i \in DOMAIN c.cells : IsNull(c.cells[i])

\* ColumnBuilder: the first value that is not null picks the kind.
Untyped(kind, n) ==
  CASE kind \in Typed -> with_len(kind, n)
    [] kind = "str" -> [kind |-> "str", dict |-> NewDict, idx |-> [i \in 1 .. n |-> StrNull]]
    [] OTHER -> Json([i \in 1 .. n |-> Null])
Push(c, at, v) ==
  LET grown == Grow(c, at + 1)
  IN  CASE IsNull(v) -> grown
        [] AllNull(grown) -> SetCell(Untyped(kind_of(v), ColLen(grown)), at, v)
        [] OTHER -> SetCell(grown, at, v)
Finish(c, n) == IF AllNull(Grow(c, n)) THEN with_len("int", n) ELSE Grow(c, n)

-----------------------------------------------------------------------------
(* DenseIndex: an id's place, by subtraction while the ids have no gap. *)

from_ids(ids) ==
  IF \A i \in DOMAIN ids : ids[i] = ids[1] + i - 1
  THEN [form |-> "contiguous", first |-> IF ids = <<>> THEN 0 ELSE ids[1], n |-> Len(ids)]
  ELSE [form |-> "map", of |-> [id \in Range(ids) |->
          (CHOOSE i \in DOMAIN ids : ids[i] = id /\ \A j \in DOMAIN ids : ids[j] = id => j <= i) - 1]]
DenseLen(x) == IF x.form = "map" THEN Cardinality(DOMAIN x.of) ELSE x.n
DensePush(x, id) ==
  LET map == IF x.form = "map" THEN x.of ELSE [i \in x.first .. (x.first + x.n - 1) |-> i - x.first]
  IN  IF x.form = "contiguous" /\ x.first + x.n = id THEN [x EXCEPT !.n = @ + 1]
      ELSE [form |-> "map", of |-> [i \in DOMAIN map \cup {id} |-> IF i = id THEN DenseLen(x) ELSE map[i]]]
Indexed(x, id) == IF x.form = "map" THEN id \in DOMAIN x.of ELSE id - x.first \in 0 .. (x.n - 1)
DenseGet(x, id) == IF x.form = "map" THEN x.of[id] ELSE id - x.first

-----------------------------------------------------------------------------
(* PropColumns: items are entities with the properties they carry. *)

Columnized(items, prop) ==
  Finish(FoldLeftDomain(LAMBDA c, i : IF prop \in DOMAIN items[i].props THEN Push(c, i - 1, items[i].props[prop]) ELSE c,
                        Json(<<>>), items), Len(items))
from_items_for(items, only) ==
  LET ids == [i \in DOMAIN items |-> items[i].id]
  IN  [dense_to_id |-> ids, id_to_dense |-> from_ids(ids),
       cols |-> [p \in only \cap UNION {DOMAIN items[i].props : i \in DOMAIN items} |-> Columnized(items, p)]]
Build(items) == from_items_for(items, UNION {DOMAIN items[i].props : i \in DOMAIN items})

Placed(set, id) ==
  IF Indexed(set.id_to_dense, id) THEN set
  ELSE [set EXCEPT !.dense_to_id = Append(@, id), !.id_to_dense = DensePush(@, id)]

\* Mutant: only the columns the record names are written.
PatchOneKeeping(set, item) ==
  LET s  == Placed(set, item.id)
      at == DenseGet(s.id_to_dense, item.id)
      n  == Len(s.dense_to_id)
  IN  [s EXCEPT !.cols = [p \in DOMAIN s.cols \cup DOMAIN item.props |->
         LET c == Grow(IF p \in DOMAIN s.cols THEN s.cols[p] ELSE Json(<<>>), n)
         IN  IF p \in DOMAIN item.props THEN SetCell(c, at, item.props[p]) ELSE c]]

\* One record of a patch: every column is cleared at its place first.
PatchOne(set, item) ==
  LET s  == Placed(set, item.id)
      at == DenseGet(s.id_to_dense, item.id)
      n  == Len(s.dense_to_id)
  IN  [s EXCEPT !.cols = [p \in DOMAIN s.cols \cup DOMAIN item.props |->
         LET c == Clear(Grow(IF p \in DOMAIN s.cols THEN s.cols[p] ELSE Json(<<>>), n), at)
         IN  IF p \in DOMAIN item.props THEN SetCell(c, at, item.props[p]) ELSE c]]
Patch(set, items) == FoldLeft(PatchOne, set, items)

-----------------------------------------------------------------------------
(* Reads; an id without a place is an error. *)

AllIndexed(set, ids) == \A i \in DOMAIN ids : Indexed(set.id_to_dense, ids[i])
CellOf(set, id, prop) ==
  IF prop \in DOMAIN set.cols THEN get_json_opt(set.cols[prop], DenseGet(set.id_to_dense, id)) ELSE Null
prop_column(set, ids, prop) ==
  IF AllIndexed(set, ids) THEN Ok([i \in DOMAIN ids |-> CellOf(set, ids[i], prop)]) ELSE Err
props_table(set, ids, props) ==
  IF AllIndexed(set, ids) THEN Ok([i \in DOMAIN ids |-> [j \in DOMAIN props |-> CellOf(set, ids[i], props[j])]])
  ELSE Err

\* Presence takes an id without a place for one without a value.
nodes_prop_present(set, ids, prop) ==
  [i \in DOMAIN ids |-> /\ Indexed(set.id_to_dense, ids[i])
                        /\ prop \in DOMAIN set.cols
                        /\ is_present(set.cols[prop], DenseGet(set.id_to_dense, ids[i]))]

\* The native key a slot is interned by: its value, or its dictionary index.
SlotKey(c, at) ==
  CASE ~is_present(c, at) -> <<"null">>
    [] c.kind = "str" -> <<"dict", c.idx[at + 1]>>
    [] OTHER -> <<"value", get_json_opt(c, at)>>
column_group_codes(set, ids, prop) ==
  IF ~AllIndexed(set, ids) THEN Err
  ELSE LET keys == [i \in DOMAIN ids |-> IF prop \in DOMAIN set.cols
                                         THEN SlotKey(set.cols[prop], DenseGet(set.id_to_dense, ids[i]))
                                         ELSE <<"null">>]
       IN  Ok([codes |-> Coded(keys),
               reps  |-> [c \in DOMAIN Firsts(keys) |-> CellOf(set, ids[Firsts(keys)[c]], prop)]])

\* A small request is grouped over columns of just its own entities.
node_prop_group_codes(items, ids, prop) ==
  LET held == SelectSeq(ids, LAMBDA id : \E i \in DOMAIN items : items[i].id = id)
      of(id) == items[CHOOSE i \in DOMAIN items : items[i].id = id]
  IN  column_group_codes(from_items_for([i \in DOMAIN held |-> of(held[i])], {prop}), ids, prop)

\* The array over node ids, and the codes read out of it.
node_prop_group_codes_by_id(set, prop) ==
  LET dense == column_group_codes(set, set.dense_to_id, prop).v
  IN  [codes |-> [id \in Range(set.dense_to_id) |-> dense.codes[DenseGet(set.id_to_dense, id) + 1]],
       reps |-> dense.reps]
id_indexed_codes(by_id, ids) ==
  IF \E i \in DOMAIN ids : ids[i] \notin DOMAIN by_id.codes THEN None
  ELSE Ok([codes |-> [i \in DOMAIN ids |-> by_id.codes[ids[i]]], reps |-> by_id.reps])

-----------------------------------------------------------------------------
(* Comparisons *)

Keeps(ord, op) ==
  ord \in CASE op = "="  -> {"eq"} [] op = "<>" -> {"lt", "gt"} [] op = "<" -> {"lt"}
            [] op = "<=" -> {"lt", "eq"} [] op = ">" -> {"gt"} [] op = ">=" -> {"gt", "eq"}
Native(c, rhs) == \/ c.kind \in {"int", "float"} /\ IsNum(rhs)
                  \/ c.kind \in {"bool", "str"} /\ rhs.k = c.kind
presence_mask(c, at, keeps) == keeps /\ is_present(c, at)
cmp_mask(set, ids, prop, op, rhs) ==
  LET c == set.cols[prop]
      keep(at) == IF Native(c, rhs) THEN is_present(c, at) /\ Keeps(json_cmp(get_json_opt(c, at), rhs), op)
                  ELSE presence_mask(c, at, ~IsNull(rhs) /\ op = "<>")
  IN  CASE ~AllIndexed(set, ids) -> Err
        [] prop \notin DOMAIN set.cols -> Ok([i \in DOMAIN ids |-> FALSE])
        [] c.kind = "json" -> None
        [] OTHER -> Ok([i \in DOMAIN ids |-> keep(DenseGet(set.id_to_dense, ids[i]))])

Flipped(op) == CASE op = "<" -> ">" [] op = ">" -> "<" [] op = "<=" -> ">=" [] op = ">=" -> "<=" [] OTHER -> op
try_typed_cmp_mask(set, ids, prop, op, const, constLeft) ==
  cmp_mask(set, ids, prop, IF constLeft THEN Flipped(op) ELSE op, const)

\* One comparison of plain values, of a filter or inside an expression.
cmp_keeps(structured, op, l, r) ==
  CASE ~structured /\ (IsNull(l) \/ IsNull(r)) -> FALSE
    [] op = "="  -> cypher_eq(l, r) = True
    [] op = "<>" -> cypher_eq(l, r) = False
    [] ~structured /\ (is_nan(l) \/ is_nan(r)) -> FALSE
    [] OTHER -> Keeps(json_cmp(l, r), op)

column_bounds(c) ==
  LET held == {v \in Range(Cells(c)) : ~IsNull(v)}
  IN  IF c.kind = "json" \/ held = {} THEN None
      ELSE [lo |-> CHOOSE v \in held : \A w \in held : json_cmp(v, w) # "gt",
            hi |-> CHOOSE v \in held : \A w \in held : json_cmp(v, w) # "lt"]
try_prune_comparison(set, prop, op, const, constLeft) ==
  LET b  == column_bounds(set.cols[prop])
      lo == json_cmp(const, b.lo)
      hi == json_cmp(const, b.hi)
  IN  /\ prop \in DOMAIN set.cols /\ b # None /\ ~IsNull(const)
      /\ CASE op = "="  -> lo = "lt" \/ hi = "gt"
           [] op = "<"  -> IF constLeft THEN hi \in {"gt", "eq"} ELSE lo \in {"lt", "eq"}
           [] op = ">"  -> IF constLeft THEN lo \in {"lt", "eq"} ELSE hi \in {"gt", "eq"}
           [] op = "<=" -> IF constLeft THEN hi = "gt" ELSE lo = "lt"
           [] op = ">=" -> IF constLeft THEN lo = "lt" ELSE hi = "gt"
           [] OTHER -> FALSE

-----------------------------------------------------------------------------
(* Statistics.  A fraction is a float; a bound left out is None. *)

sorted_non_null_values(c) ==
  SortSeq(SelectSeq(Cells(c), LAMBDA v : ~IsNull(v)), LAMBDA a, b : json_cmp(a, b) = "lt")

\* Values with one order; of two kinds they are incomparable.
ScalarCmp(a, b) == IF a.k \in {"int", "float", "str", "bool"} THEN json_cmp(a, b) ELSE "none"

Bucket(vs) ==
  [lower |-> vs[1], upper |-> vs[Len(vs)], row_count |-> Len(vs),
   distinct |-> 1 + Cardinality({i \in 1 .. (Len(vs) - 1) : vs[i] # vs[i + 1]})]
Histogram(vs) ==
  LET m == Least(Most(Buckets, 1), Len(vs))
      rows == Len(vs) \div m
      end(i) == IF i = m THEN Len(vs) ELSE i * rows
  IN  IF vs = <<>> THEN <<>> ELSE [i \in 1 .. m |-> Bucket(SubSeq(vs, (i - 1) * rows + 1, end(i)))]
TotalRows(h) == FoldLeft(LAMBDA n, b : n + b.row_count, 0, h)
Holds(b, v) == ScalarCmp(v, b.lower) \in {"eq", "gt"} /\ ScalarCmp(v, b.upper) \in {"eq", "lt"}
estimate_equality_selectivity(h, v) ==
  LET held == SelectSeq(h, LAMBDA b : Holds(b, v))
  IN  IF held = <<>> THEN Float(0, 1) ELSE Float(held[1].row_count, held[1].distinct * TotalRows(h))

bound_le(bound, v) == bound = None \/ ScalarCmp(bound, v) \in {"lt", "eq"}
bound_ge(bound, v) == bound = None \/ ScalarCmp(bound, v) \in {"gt", "eq"}
LargerOf(a, b) == IF NumCmp(a, b) = "lt" THEN b ELSE a
SmallerOf(a, b) == IF NumCmp(a, b) = "gt" THEN b ELSE a
estimate_bucket_overlap(b, lower, upper) ==
  LET width == FloatArithmetic(b.upper, b.lower, "-")
      lo == LargerOf(IF IsNum(lower) THEN lower ELSE b.lower, b.lower)
      hi == SmallerOf(IF IsNum(upper) THEN upper ELSE b.upper, b.upper)
  IN  CASE bound_le(lower, b.lower) /\ bound_ge(upper, b.upper) -> Float(1, 1)
        [] ~IsNum(b.lower) -> Float(1, 2)
        [] width.p = 0 -> Float(1, 1)
        [] NumCmp(hi, lo) = "lt" -> Float(0, 1)
        [] OTHER -> FloatArithmetic(FloatArithmetic(hi, lo, "-"), width, "/")
estimate_range_selectivity(h, lower, upper) ==
  LET over == SelectSeq(h, LAMBDA b : bound_le(lower, b.upper) /\ bound_ge(upper, b.lower))
      rows(b) == FloatArithmetic(Num(b.row_count), estimate_bucket_overlap(b, lower, upper), "*")
  IN  IF h = <<>> THEN Float(0, 1)
      ELSE FloatArithmetic(SumOf([i \in DOMAIN over |-> rows(over[i])]), Num(TotalRows(h)), "/")

\* The commonest values, equally common ones in their order.
Runs(vs, firsts) ==
  [i \in DOMAIN firsts |-> <<vs[firsts[i]], Cardinality({j \in DOMAIN vs : vs[j] = vs[firsts[i]]})>>]
MostCommon(runs) ==
  LET before(i, j) == runs[i][2] > runs[j][2] \/ (runs[i][2] = runs[j][2] /\ i < j)
      order == SortSeq([i \in DOMAIN runs |-> i], before)
  IN  [i \in 1 .. Least(Commonest, Len(runs)) |-> runs[order[i]]]
compute_prop_stats(c) ==
  LET of(vs) == IF vs = <<>> THEN None ELSE [histogram |-> Histogram(vs), mcvs |-> MostCommon(Runs(vs, Firsts(vs)))]
  IN  IF c.kind = "json" THEN None ELSE of(sorted_non_null_values(c))
equality_selectivity(stats, v) ==
  LET common == SelectSeq(stats.mcvs, LAMBDA m : m[1] = v)
  IN  IF common # <<>> THEN Float(common[1][2], TotalRows(stats.histogram))
      ELSE estimate_equality_selectivity(stats.histogram, v)

-----------------------------------------------------------------------------
(* The arrays in the cache file: an element of width w is w bytes. *)

align8(n) == ((n + 7) \div 8) * 8
Array(width, elems) == [width |-> width, elems |-> elems]
ByteLen(a) == a.width * Len(a.elems)
ColumnArrays(c) ==
  CASE c.kind \in {"int", "float"} -> <<Array(8, c.present.words), Array(8, c.values)>>
    [] c.kind = "bool" -> <<Array(8, c.present.words), Array(1, c.values)>>
    [] c.kind = "str"  -> <<Array(4, c.idx), Array(8, c.dict.offsets), Array(1, c.dict.bytes)>>
    [] OTHER -> <<Array(1, c.cells)>>

\* Where each array is placed, the first at 0.
Layout(arrays) ==
  [i \in DOMAIN arrays |-> FoldLeft(LAMBDA at, a : align8(at + ByteLen(a)), 0, SubSeq(arrays, 1, i - 1))]
Padded(region) == Resized(region, align8(Len(region)), <<None, -1>>)
Put(region, a) ==
  Padded(region \o [b \in 1 .. ByteLen(a) |-> <<a.elems[(b - 1) \div a.width + 1], (b - 1) % a.width>>])

save_columns(set) ==
  LET names == SetToSeq(DOMAIN set.cols)
      first == <<Array(8, set.dense_to_id)>>
      before(i) == FoldLeft(LAMBDA s, p : s \o ColumnArrays(set.cols[p]), first, SubSeq(names, 1, i - 1))
      all == before(Len(names) + 1)
      at == Layout(all)
      part(k) == <<at[k], Len(all[k].elems)>>
  IN  [n |-> Len(set.dense_to_id), region |-> FoldLeft(Put, <<>>, all),
       entries |-> [i \in DOMAIN names |->
         [name |-> names[i], kind |-> set.cols[names[i]].kind,
          parts |-> [j \in DOMAIN ColumnArrays(set.cols[names[i]]) |-> part(Len(before(i)) + j)]]]]

\* A view of the file lies in the region, aligned to its elements.
Fits(file, part, width) == part[1] + width * part[2] <= Len(file.region) /\ part[1] % width = 0
Mapped(file, part, width) ==
  [i \in 1 .. part[2] |-> file.region[part[1] + (i - 1) * width + 1][1]]
Widths(kind) == CASE kind \in {"int", "float"} -> <<8, 8>> [] kind = "bool" -> <<8, 1>>
                  [] kind = "str" -> <<4, 8, 1>> [] OTHER -> <<1>>
LoadColumn(file, e) ==
  LET view(i) == Mapped(file, e.parts[i], Widths(e.kind)[i])
      dict == DictFromParts(view(2), view(3))
  IN  CASE \E i \in DOMAIN e.parts : ~Fits(file, e.parts[i], Widths(e.kind)[i]) -> None
        [] e.kind \in Typed -> from_parts(e.kind, from_words(view(1), e.parts[2][2]), view(2))
        [] e.kind = "str" ->
             IF dict = None \/ (\E i \in Range(view(1)) : i # StrNull /\ i >= DictLen(dict)) THEN None
             ELSE [kind |-> "str", dict |-> dict, idx |-> view(1)]
        [] OTHER -> Json(view(1))

\* from_cache_file: every column is as long as the dense mapping.
load_columns(file) ==
  LET ids == Mapped(file, <<0, file.n>>, 8)
      named(p) == file.entries[CHOOSE i \in DOMAIN file.entries : file.entries[i].name = p]
      cols == [p \in {file.entries[i].name : i \in DOMAIN file.entries} |-> LoadColumn(file, named(p))]
  IN  IF ~Fits(file, <<0, file.n>>, 8) \/ (\E p \in DOMAIN cols : cols[p] = None \/ ColLen(cols[p]) # file.n) THEN None
      ELSE [dense_to_id |-> ids, id_to_dense |-> from_ids(ids), cols |-> cols]
=============================================================================
