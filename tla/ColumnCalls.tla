----------------------------- MODULE ColumnCalls -----------------------------
(***************************************************************************)
(* Reads off the typed property columns, after a build, the patches of     *)
(* later writes and a passage through the cache file, held against the     *)
(* properties the entities carry.                                          *)
(***************************************************************************)
EXTENDS LanguageCalls

CONSTANTS
  WordBits, Buckets, Commonest,  \* as PropColumns has them
  MaxPatches, \* bound: writes after the build
  Props,      \* values of the property, absent among them
  Constants,  \* what the property is compared with
  Entities,   \* ids a build and the patches are about
  Samples     \* columns the statistics are taken of

P == INSTANCE PropColumns

Absent == [k |-> "absent"]

\* An entity carries the property p, unless it is absent, and another one.
Item(id, v) ==
  [id |-> id, props |-> IF v = Absent THEN [q |-> P!Str(<<id>>)] ELSE [p |-> v, q |-> P!Str(<<id % 2>>)]]
Items(stored, order) == [i \in DOMAIN order |-> Item(order[i], stored[order[i]])]

\* Two entities in id order, as a scan finds them.
CallBuild == Idle /\ \E a, b \in Entities, v, w \in Props :
  /\ a < b
  /\ Question([op |-> "columns", writes |-> 0, stored |-> (a :> v) @@ (b :> w),
               set |-> P!Build(<<Item(a, v), Item(b, w)>>)])

\* A later write of an entity, new or not, and the patch that absorbs it.
CallPatch ==
  /\ asked.op = "columns" /\ asked.writes < MaxPatches
  /\ \E id \in Entities, v \in Props :
       Question([asked EXCEPT !.writes = @ + 1, !.stored = (id :> v) @@ @, !.set = P!Patch(@, <<Item(id, v)>>)])

CallStatistics == Idle /\ \E vs \in Samples, x, y \in Constants :
  LET ranges == [all |-> <<P!None, P!None>>, from |-> <<x, P!None>>, to |-> <<P!None, y>>, both |-> <<x, y>>]
  IN  \E stats \in {P!compute_prop_stats(P!Columnized([i \in DOMAIN vs |-> Item(i, vs[i])], "p"))} \ {P!None} :
        Question([op |-> "statistics", vs |-> vs, x |-> x, y |-> y, stats |-> stats,
                  equal |-> P!equality_selectivity(stats, x)]
                 @@ [r \in DOMAIN ranges |-> P!estimate_range_selectivity(stats.histogram, ranges[r][1], ranges[r][2])])

ColumnNext == CallBuild \/ CallPatch \/ CallStatistics

-----------------------------------------------------------------------------
(* What the answers are defined to be *)

Agrees(keep, op, l, r) == \A structured \in BOOLEAN : keep = P!cmp_keeps(structured, op, l, r)

\* The ids last come first, and one twice; 0 is nobody's id.
Asked(c) == Append(Reverse(c.set.dense_to_id), c.set.dense_to_id[1])
Values(c, ids) == [i \in DOMAIN ids |-> IF c.stored[ids[i]] = Absent THEN P!Null ELSE c.stored[ids[i]]]

GathersRight(c) ==
  LET ids   == Asked(c)
      held  == Values(c, ids)
      wide  == P!column_group_codes(c.set, ids, "p")
      byId  == P!id_indexed_codes(P!node_prop_group_codes_by_id(c.set, "p"), ids).v
  IN  /\ P!prop_column(c.set, ids, "p") = P!Ok(held)
      /\ P!props_table(c.set, ids, <<"r", "p">>) = P!Ok([i \in DOMAIN held |-> <<P!Null, held[i]>>])
      /\ P!IsErr(P!prop_column(c.set, Append(ids, 0), "p"))
      /\ P!nodes_prop_present(c.set, Append(ids, 0), "p") = Append([i \in DOMAIN held |-> ~P!IsNull(held[i])], FALSE)
      /\ wide = P!Ok(P!group_codes(held))
      /\ wide = P!node_prop_group_codes(Items(c.stored, c.set.dense_to_id), ids, "p")
      /\ \A i, j \in DOMAIN held : byId.codes[i] = byId.codes[j] <=> held[i] = held[j]
      /\ \A i \in DOMAIN held : byId.reps[byId.codes[i]] = held[i]

ComparesRight(c) ==
  LET ids  == c.set.dense_to_id
      held == Values(c, ids)
  IN  \A o \in P!Comparisons, k \in Constants, left \in BOOLEAN :
        LET mask == P!try_typed_cmp_mask(c.set, ids, "p", o, k, left)
            l(i) == IF left THEN k ELSE held[i]
            r(i) == IF left THEN held[i] ELSE k
        IN  /\ mask # P!None => \A i \in DOMAIN held : Agrees(mask.v[i], o, l(i), r(i))
            /\ P!try_prune_comparison(c.set, "p", o, k, left) => \A i \in DOMAIN held : Agrees(FALSE, o, l(i), r(i))

Leq(a, b) == P!NumCmp(a, b) # "gt"
StatisticsRight(c) ==
  LET held == SelectSeq(c.vs, LAMBDA v : v # Absent /\ ~P!IsNull(v))
      n    == Len(held)
      same == Cardinality({i \in DOMAIN held : held[i] = c.x})
  IN  /\ P!TotalRows(c.stats.histogram) = n
      /\ c.all = P!Float(1, 1)
      /\ Leq(P!Float(0, 1), c.both) /\ Leq(c.both, c.from) /\ Leq(c.both, c.to)
      /\ Leq(c.from, c.all) /\ Leq(c.to, c.all)
      /\ same > 0 => P!NumCmp(c.equal, P!Num(0)) = "gt"
      /\ c.equal.p > 0 => \E i \in DOMAIN held : P!ScalarCmp(held[i], c.x) # "none"
      /\ Leq(c.equal, P!Float(1, 1))
      /\ \A m \in Range(c.stats.mcvs) :
           /\ m[2] = Cardinality({i \in DOMAIN held : held[i] = m[1]})
           /\ same > m[2] => c.x \in {k[1] : k \in Range(c.stats.mcvs)}

(***************************************************************************)
(* The typed columns serve what the records hold, whatever kind a column   *)
(* took, gave up or was patched to (columns.rs): a gather, the presence of *)
(* a value and the two forms of group codes, over the whole set or over a  *)
(* column set of a few entities; a comparison evaluated in the column      *)
(* keeps exactly the rows both boxed comparisons keep, and a constant the  *)
(* bounds rule out keeps none; a set loaded from the cache file is the one *)
(* saved; and the estimates of the statistics are fractions that shrink    *)
(* with the range.                                                         *)
(***************************************************************************)
ColumnsRight ==
  /\ asked.op = "columns"    => GathersRight(asked) /\ ComparesRight(asked)
                                /\ P!load_columns(P!save_columns(asked.set)) = asked.set
  /\ asked.op = "statistics" => StatisticsRight(asked)
=============================================================================
