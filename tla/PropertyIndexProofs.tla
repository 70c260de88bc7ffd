------------------------- MODULE PropertyIndexProofs -------------------------
(***************************************************************************)
(* Proofs about PropertyIndex: for any items, owners and well-formed       *)
(* values, lookups through the index answer what the members hold now      *)
(* (LookupExact) and the declared constraints hold (ConstraintsExact).     *)
(***************************************************************************)
EXTENDS PropertyIndex, FiniteSetTheorems, WellFoundedInduction, TLAPS

-----------------------------------------------------------------------------
(* The inductive invariant *)

\* Where the entries of an owner are maintained, and for which values.
IndexedFor(o) == Declared(o) \/ AutoIndexed(o)
Indexable(v) == HasValue(v) /\ ~v.long

RecordsOK ==
    /\ profile \in Profiles
    /\ rec = [i \in Items |-> rec[i]]
    /\ \A i \in Items :
         /\ rec[i] = Record(rec[i].state, rec[i].owners, rec[i].value)
         /\ rec[i].owners \subseteq OwnersOf(i)
         /\ rec[i].state # "live" => rec[i].owners = {}
         /\ rec[i].value \in profile.values \cup {None}
    /\ role \in [Owners -> {None, "index", "unique", "required"}]
    /\ off \subseteq Labels /\ orphaned \subseteq Labels

\* Every entry that is not a null's is the present value of a member of an
\* owner that maintains its entries, unless the owner was orphaned.
Justified(x) ==
    x[1] \notin orphaned /\ x[2][1] # "null" =>
      /\ IndexedFor(x[1])
      /\ x[3] \in Members(x[1])
      /\ Indexable(rec[x[3]].value)
      /\ x[2] = Encode(rec[x[3]].value)
IsEntry(x) ==
    /\ x = <<x[1], x[2], x[3]>>
    /\ x[1] \in Owners /\ x[3] \in Items
EntriesOK == \A x \in entries : IsEntry(x) /\ Justified(x)

\* And every such value has its entry, also where the owner was orphaned.
EntriesComplete ==
    \A o \in Owners : IndexedFor(o) =>
      \A i \in Members(o) : Indexable(rec[i].value) => <<o, Encode(rec[i].value), i>> \in entries

UniqueOK ==
    \A o \in Owners : role[o] = "unique" =>
      \A i, j \in Members(o) : i # j /\ HasValue(rec[i].value) /\ HasValue(rec[j].value)
                                => ~SameValue(rec[i].value, rec[j].value)
RequiredOK == \A o \in Owners : role[o] = "required" => \A i \in Members(o) : HasValue(rec[i].value)

IndexInv == RecordsOK /\ EntriesOK /\ EntriesComplete /\ UniqueOK /\ RequiredOK

-----------------------------------------------------------------------------
(* Values and their encodings *)

\* None is nothing else.
LEMMA NoneApart ==
  /\ None # Null /\ None \notin {"index", "unique", "required"}
  /\ Labels \cap Types = {}
  /\ \A p \in Profiles : ProfileOK(p) /\ \A v \in p.values \ {None} : <<v.fam, v.f64, v.int>> # None
BY PropertyIndexAssumption

\* What a value of the profile is encoded as.
LEMMA EncodeIs ==
  ASSUME NEW p \in Profiles, NEW v \in p.values
  PROVE  /\ HasValue(v) => ValueOK(v) /\ v.long \in BOOLEAN /\ v.fam \in {"number", "string"}
         /\ v # None => (v.long => Encode(v) = None)
         /\ v # None => (~v.long => Encode(v) = <<v.fam, v.f64, v.int>> /\ Encode(v) # None)
         /\ v = Null => ~v.long /\ v.fam = "null"
<1>1. HasValue(v) => ValueOK(v)
  BY NoneApart DEF ProfileOK
<1>2. v # None => <<v.fam, v.f64, v.int>> # None
  BY NoneApart
<1> QED BY <1>1, <1>2 DEF ValueOK, Encode, Null

\* A value that can be indexed has an encoding that is not a null's.
LEMMA IndexableIs ==
  ASSUME NEW p \in Profiles, NEW v \in p.values \cup {None}
  PROVE  /\ Indexable(v) <=> HasValue(v) /\ Encode(v) # None
         /\ Indexable(v) => Encode(v) = <<v.fam, v.f64, v.int>> /\ Encode(v)[1] # "null"
         /\ v # None /\ Encode(v) # None /\ ~Indexable(v) => Encode(v)[1] = "null"
<1>1. CASE v = None
  BY <1>1 DEF Indexable, HasValue
<1>2. CASE v # None
  <2>1. v \in p.values
    BY <1>2
  <2>2. CASE v = Null
    BY <2>1, <2>2, EncodeIs DEF Indexable, HasValue
  <2>3. CASE v # Null
    <3>1. HasValue(v)
      BY <1>2, <2>3 DEF HasValue
    <3>2. /\ v.long \in BOOLEAN /\ v.fam \in {"number", "string"}
          /\ v.long => Encode(v) = None
          /\ ~v.long => Encode(v) = <<v.fam, v.f64, v.int>> /\ Encode(v) # None
      BY <1>2, <2>1, <3>1, EncodeIs
    <3> QED BY <3>1, <3>2 DEF Indexable
  <2> QED BY <2>2, <2>3
<1> QED BY <1>1, <1>2

\* The two lookups of a value find the encodings of the equal values.
LEMMA SameEncoding ==
  ASSUME NEW p \in Profiles, NEW v \in p.values, NEW w \in p.values, HasValue(v), HasValue(w)
  PROVE  /\ ~v.long /\ ~w.long => (Encode(w) \in LookupEncodings(Encode(v)) <=> SameValue(w, v))
         /\ v.long => (w = v <=> SameValue(w, v))
         /\ SameValue(w, v) => w.long = v.long /\ Identity(w) = Identity(v)
<1>1. ValueOK(v) /\ ValueOK(w) /\ Consistent(v, w) /\ Consistent(w, v)
  BY NoneApart DEF ProfileOK
<1>2. /\ v.fam \in {"number", "string"} /\ w.fam \in {"number", "string"}
      /\ v.f64 \in Int /\ w.f64 \in Int /\ v.int \in Int /\ w.int \in Int
      /\ v.long \in BOOLEAN /\ w.long \in BOOLEAN
      /\ v.fam = "number" => ~v.long /\ (v.f64 = -1 => v.int = 0)
      /\ w.fam = "number" => ~w.long /\ (w.f64 = -1 => w.int = 0)
      /\ v.fam = "string" => v.f64 = 0
      /\ w.fam = "string" => w.f64 = 0
  BY <1>1 DEF ValueOK
<1>3. /\ v = [fam |-> v.fam, f64 |-> v.f64, int |-> v.int, long |-> v.long]
      /\ w = [fam |-> w.fam, f64 |-> w.f64, int |-> w.int, long |-> w.long]
  BY <1>1 DEF ValueOK
<1>4. /\ v.long => Encode(v) = None
      /\ w.long => Encode(w) = None
      /\ ~v.long => Encode(v) = <<v.fam, v.f64, v.int>> /\ Encode(v) # None
      /\ ~w.long => Encode(w) = <<w.fam, w.f64, w.int>> /\ Encode(w) # None
  BY EncodeIs DEF HasValue
<1>5. v.fam = w.fam /\ v.int = w.int =>
        v.long = w.long /\ (v.f64 = w.f64 \/ (v.fam = "number" /\ v.int = 0 /\ v.f64 \in {-1, 0} /\ w.f64 \in {-1, 0}))
  BY <1>1, <1>2 DEF Consistent, AsF64
<1>6. ASSUME ~v.long, ~w.long PROVE Encode(w) \in LookupEncodings(Encode(v)) <=> SameValue(w, v)
  BY <1>2, <1>4, <1>5, <1>6 DEF LookupEncodings, Normalized, PositiveZero, NegativeZero, SameValue
<1>7. ASSUME v.long PROVE w = v <=> SameValue(w, v)
  <2>1. v.fam = "string"
    BY <1>2, <1>7
  <2> QED BY <1>2, <1>3, <1>5, <1>7, <2>1 DEF SameValue
<1>8. ASSUME SameValue(w, v) PROVE w.long = v.long /\ Identity(w) = Identity(v)
  <2>1. w.long = v.long /\ w.fam = v.fam /\ w.int = v.int
    BY <1>5, <1>8 DEF SameValue
  <2>2. CASE v.long
    BY <1>2, <1>4, <2>1, <2>2 DEF Identity
  <2>3. CASE ~v.long
    BY <1>2, <1>4, <1>5, <2>1, <2>3 DEF Identity, Normalized, PositiveZero, NegativeZero
  <2> QED BY <1>2, <2>2, <2>3
<1> QED BY <1>6, <1>7, <1>8

\* An equality lookup in the index finds the members with an equal value; of
\* an orphaned owner it may find more.
LEMMA MatchesExact ==
  ASSUME IndexInv, NEW o \in Owners, NEW v \in profile.values, HasValue(v), ~v.long, IndexedFor(o)
  PROVE  /\ \A j \in Members(o) : HasValue(rec[j].value) /\ SameValue(rec[j].value, v) => j \in Matches(o, Encode(v))
         /\ o \notin orphaned => \A j \in Matches(o, Encode(v)) :
               j \in Members(o) /\ HasValue(rec[j].value) /\ SameValue(rec[j].value, v)
<1>1. profile \in Profiles /\ \A j \in Items : rec[j].value \in profile.values \cup {None}
  BY DEF IndexInv, RecordsOK
<1>2. ASSUME NEW j \in Members(o), HasValue(rec[j].value), SameValue(rec[j].value, v)
      PROVE j \in Matches(o, Encode(v))
  <2>1. j \in Items /\ rec[j].value \in profile.values
    BY <1>1, <1>2 DEF Members, Live, HasValue
  <2>2. ~rec[j].value.long /\ Encode(rec[j].value) \in LookupEncodings(Encode(v))
    BY <1>1, <1>2, <2>1, SameEncoding
  <2>3. <<o, Encode(rec[j].value), j>> \in entries
    BY <1>2, <2>2 DEF IndexInv, EntriesComplete, Indexable
  <2> QED BY <2>1, <2>2, <2>3 DEF Matches
<1>3. ASSUME o \notin orphaned, NEW j \in Matches(o, Encode(v))
      PROVE  j \in Members(o) /\ HasValue(rec[j].value) /\ SameValue(rec[j].value, v)
  <2>1. PICK d \in LookupEncodings(Encode(v)) : <<o, d, j>> \in entries
    BY <1>3 DEF Matches
  <2>2. Encode(v) = <<v.fam, v.f64, v.int>> /\ v.fam # "null"
    BY <1>1, EncodeIs DEF HasValue
  <2>3. d[1] # "null"
    BY <2>1, <2>2 DEF LookupEncodings, Normalized, PositiveZero, NegativeZero
  <2>4. Justified(<<o, d, j>>) /\ IsEntry(<<o, d, j>>)
    BY <2>1 DEF IndexInv, EntriesOK
  <2>5. j \in Members(o) /\ Indexable(rec[j].value) /\ d = Encode(rec[j].value)
    BY <1>3, <2>3, <2>4 DEF Justified
  <2>6. rec[j].value \in profile.values
    BY <1>1, <2>5 DEF Members, Live, Indexable, HasValue
  <2> QED BY <1>1, <2>1, <2>5, <2>6, SameEncoding DEF Indexable
<1> QED BY <1>2, <1>3

\* check_node_property_unique and check_edge_property_unique refuse exactly
\* the values another member holds; for an orphaned owner at least those.
LEMMA ConflictExact ==
  ASSUME IndexInv, NEW o \in Owners, Declared(o), NEW i, NEW v \in profile.values, HasValue(v)
  PROVE  /\ \A j \in Members(o) \ {i} : HasValue(rec[j].value) /\ SameValue(rec[j].value, v) => Conflict(o, i, v)
         /\ o \notin orphaned /\ Conflict(o, i, v) =>
              \E j \in Members(o) \ {i} : HasValue(rec[j].value) /\ SameValue(rec[j].value, v)
<1>1. profile \in Profiles /\ \A j \in Items : rec[j].value \in profile.values \cup {None}
  BY DEF IndexInv, RecordsOK
<1>2. v.long \in BOOLEAN /\ (v.long <=> Encode(v) = None)
  BY <1>1, EncodeIs DEF HasValue
<1>3. CASE v.long
  <2>1. Conflict(o, i, v) <=> \E j \in Members(o) \ {i} : rec[j].value = v
    BY <1>2, <1>3 DEF Conflict
  <2>2. \A j \in Members(o) : HasValue(rec[j].value) => rec[j].value \in profile.values
    BY <1>1 DEF Members, Live, HasValue
  <2>3. \A j \in Members(o) : HasValue(rec[j].value) => (rec[j].value = v <=> SameValue(rec[j].value, v))
    BY <1>1, <1>3, <2>2, SameEncoding
  <2> QED BY <2>1, <2>3
<1>4. CASE ~v.long
  <2>1. IndexedFor(o)
    BY DEF IndexedFor
  <2>2. Conflict(o, i, v) <=> Matches(o, Encode(v)) \ {i} # {}
    BY <1>2, <1>4 DEF Conflict
  <2> QED BY <1>4, <2>1, <2>2, MatchesExact
<1> QED BY <1>2, <1>3, <1>4

-----------------------------------------------------------------------------
(* Writes to one item *)

\* Profiles keep nodes and edges, labels and types apart.
LEMMA ProfileIs ==
  ASSUME IndexInv
  PROVE  /\ profile.labels \subseteq Owners /\ profile.types \subseteq Owners
         /\ profile.labels \subseteq Labels /\ profile.types \subseteq Types
         /\ profile.owners \subseteq Owners
         /\ profile.nodes \subseteq Items /\ profile.edges \subseteq Items
         /\ profile.values \subseteq profile.values \cup {None}
         /\ \A n \in profile.nodes : OwnersOf(n) = profile.labels
         /\ \A e \in profile.edges : OwnersOf(e) = profile.types
         /\ \A i \in Items : OwnersOf(i) \subseteq Owners /\ rec[i].owners \subseteq Owners
<1>1. ProfileOK(profile)
  BY NoneApart DEF IndexInv, RecordsOK
<1>2. \A n \in profile.nodes : OwnersOf(n) = profile.labels
  BY DEF OwnersOf
<1>3. \A e \in profile.edges : OwnersOf(e) = profile.types
  BY <1>1 DEF OwnersOf, ProfileOK
<1>4. \A i \in Items : OwnersOf(i) \subseteq Owners
  BY <1>1 DEF OwnersOf, ProfileOK, Owners
<1>5. \A i \in Items : rec[i].owners \subseteq OwnersOf(i)
  BY DEF IndexInv, RecordsOK
<1> QED BY <1>1, <1>2, <1>3, <1>4, <1>5 DEF ProfileOK, Owners, Items

\* The entries a write takes away and puts are those of its item.
LEMMA EntriesForIs ==
  ASSUME NEW os, NEW i, NEW v, NEW x
  PROVE  /\ x \in EntriesFor(os, i, v) <=>
              /\ HasValue(v) /\ Encode(v) # None
              /\ \E o \in os : IndexedFor(o) /\ x = <<o, Encode(v), i>>
         /\ x \in EntriesDropped(os, i, v) <=>
              /\ v # None /\ Encode(v) # None
              /\ \E o \in os : (Declared(o) \/ (AutoIndexed(o) /\ HasValue(v))) /\ x = <<o, Encode(v), i>>
BY DEF EntriesFor, EntriesDropped, IndexedFor

\* A write gives item i the owners os and the value w.  The entries of the
\* owners in X go and those of the owners in Y come; an owner in neither keeps
\* its entry, so the value must be the same.  The constraints were checked for
\* the owners in Y.
LEMMA ItemStep ==
  ASSUME IndexInv, NEW i \in Items, NEW os, NEW w \in profile.values \cup {None}, NEW state, NEW X, NEW Y,
         UNCHANGED <<profile, role, off, orphaned>>,
         rec' = [rec EXCEPT ![i] = Record(state, os, w)],
         os \subseteq OwnersOf(i), state # "live" => os = {},
         rec[i].owners \ X \subseteq os, Y \subseteq os, os \subseteq (rec[i].owners \ X) \cup Y,
         w # rec[i].value => rec[i].owners \subseteq X,
         entries' = (entries \ EntriesDropped(X, i, rec[i].value)) \cup EntriesFor(Y, i, w),
         ~Refused(Y, i, w)
  PROVE  IndexInv'
<1>1. /\ profile \in Profiles /\ Items' = Items /\ rec = [j \in Items |-> rec[j]]
      /\ \A j \in Items : rec[j].value \in profile.values \cup {None}
  BY DEF IndexInv, RecordsOK, Items
<1>2. /\ rec' = [j \in Items |-> rec'[j]]
      /\ rec'[i] = Record(state, os, w) /\ \A j \in Items \ {i} : rec'[j] = rec[j]
  BY <1>1
<1>3. rec'[i].state = state /\ rec'[i].owners = os /\ rec'[i].value = w
  BY <1>2 DEF Record
<1>4. RecordsOK'
  <2>1. \A j \in Items : /\ rec'[j] = Record(rec'[j].state, rec'[j].owners, rec'[j].value)
                         /\ rec'[j].owners \subseteq OwnersOf(j)
                         /\ rec'[j].state # "live" => rec'[j].owners = {}
                         /\ rec'[j].value \in profile.values \cup {None}
    BY <1>2, <1>3 DEF IndexInv, RecordsOK
  <2> QED BY <1>1, <1>2, <2>1 DEF IndexInv, RecordsOK, OwnersOf
<1>5. \A o : (IndexedFor(o)' <=> IndexedFor(o)) /\ (Declared(o)' <=> Declared(o))
  BY DEF IndexedFor, Declared, AutoIndexed
<1>6. \A o : /\ \A j \in Items \ {i} : j \in Members(o)' <=> j \in Members(o)
             /\ i \in Members(o)' <=> o \in os
             /\ i \in Members(o) <=> o \in rec[i].owners
  BY <1>1, <1>2, <1>3 DEF Members, Live, IndexInv, RecordsOK
<1>7. \A o, j : (j \in Members(o) => j \in Items) /\ (j \in Members(o)' => j \in Items)
  BY <1>1 DEF Members, Live
<1>8. EntriesOK'
  <2>1. ASSUME NEW x \in entries' PROVE IsEntry(x)' /\ Justified(x)'
    <3>1. CASE x \in EntriesFor(Y, i, w)
      <4>1. PICK o \in Y : IndexedFor(o) /\ x = <<o, Encode(w), i>> /\ HasValue(w) /\ Encode(w) # None
        BY <3>1, EntriesForIs
      <4>2. Indexable(w)
        BY <1>1, <4>1, IndexableIs
      <4>3. x[1] = o /\ x[2] = Encode(w) /\ x[3] = i
        BY <4>1
      <4>4. IsEntry(x)'
        BY <1>1, <4>1, <4>3, ProfileIs DEF IsEntry
      <4>5. Justified(x)'
        BY <1>3, <1>5, <1>6, <4>1, <4>2, <4>3 DEF Justified
      <4> QED BY <4>4, <4>5
    <3>2. CASE x \in entries /\ x \notin EntriesDropped(X, i, rec[i].value)
      <4>1. IsEntry(x) /\ Justified(x)
        BY <3>2 DEF IndexInv, EntriesOK
      <4>2. IsEntry(x)'
        BY <1>1, <4>1 DEF IsEntry
      <4>3. CASE x[3] # i
        <5>1. x[3] \in Items \ {i}
          BY <4>1, <4>3 DEF IsEntry
        <5>2. rec'[x[3]] = rec[x[3]]
          BY <1>2, <5>1
        <5> QED BY <1>5, <1>6, <4>1, <4>2, <5>1, <5>2 DEF Justified
      <4>4. CASE x[3] = i
        <5>1. ASSUME x[1] \notin orphaned, x[2][1] # "null"
              PROVE /\ IndexedFor(x[1]) /\ x[1] \in os /\ Indexable(w) /\ x[2] = Encode(w)
          <6>1. /\ IndexedFor(x[1]) /\ i \in Members(x[1]) /\ Indexable(rec[i].value)
                /\ x[2] = Encode(rec[i].value)
            BY <4>1, <4>4, <5>1 DEF Justified
          <6>2. HasValue(rec[i].value) /\ Encode(rec[i].value) # None /\ rec[i].value # None
            BY <1>1, <6>1, IndexableIs DEF HasValue
          <6>3. x = <<x[1], Encode(rec[i].value), i>>
            BY <4>1, <4>4, <6>1 DEF IsEntry
          <6>4. x[1] \notin X
            BY <3>2, <6>1, <6>2, <6>3, EntriesForIs DEF IndexedFor
          <6>5. x[1] \in rec[i].owners
            BY <1>6, <6>1
          <6>6. w = rec[i].value /\ x[1] \in os
            BY <6>4, <6>5
          <6> QED BY <6>1, <6>6
        <5> QED BY <1>3, <1>5, <1>6, <4>2, <4>4, <5>1 DEF Justified
      <4> QED BY <4>3, <4>4
    <3> QED BY <2>1, <3>1, <3>2
  <2> QED BY <2>1 DEF EntriesOK
<1>9. EntriesComplete'
  <2>1. ASSUME NEW o \in Owners, IndexedFor(o), NEW j \in Members(o)', Indexable(rec'[j].value)
        PROVE <<o, Encode(rec'[j].value), j>> \in entries'
    <3>1. CASE j # i
      <4>1. j \in Items \ {i}
        BY <1>7, <2>1, <3>1
      <4>2. j \in Members(o) /\ rec'[j] = rec[j]
        BY <1>2, <1>6, <2>1, <4>1
      <4>3. <<o, Encode(rec[j].value), j>> \in entries
        BY <2>1, <4>2 DEF IndexInv, EntriesComplete
      <4>4. <<o, Encode(rec[j].value), j>> \notin EntriesDropped(X, i, rec[i].value)
        BY <3>1, EntriesForIs
      <4> QED BY <4>2, <4>3, <4>4
    <3>2. CASE j = i
      <4>1. o \in os /\ Indexable(w)
        BY <1>3, <1>6, <2>1, <3>2
      <4>2. HasValue(w) /\ Encode(w) # None
        BY <1>1, <4>1, IndexableIs
      <4>3. CASE o \in Y
        BY <1>3, <2>1, <3>2, <4>2, <4>3, EntriesForIs
      <4>4. CASE o \notin Y
        <5>1. o \in rec[i].owners /\ o \notin X
          BY <4>1, <4>4
        <5>2. w = rec[i].value /\ i \in Members(o)
          BY <1>6, <5>1
        <5>3. <<o, Encode(w), i>> \in entries
          BY <2>1, <4>1, <5>2 DEF IndexInv, EntriesComplete
        <5>4. <<o, Encode(w), i>> \notin EntriesDropped(X, i, rec[i].value)
          BY <5>1, EntriesForIs
        <5> QED BY <1>3, <3>2, <5>3, <5>4
      <4> QED BY <4>3, <4>4
    <3> QED BY <3>1, <3>2
  <2> QED BY <1>5, <2>1 DEF EntriesComplete
<1>10. ASSUME NEW o \in Owners, role[o] = "unique", NEW j \in Members(o) \ {i}, o \in os,
              HasValue(w), HasValue(rec[j].value)
       PROVE ~SameValue(rec[j].value, w) /\ ~SameValue(w, rec[j].value)
  <2>1. SameValue(rec[j].value, w) <=> SameValue(w, rec[j].value)
    BY DEF SameValue
  <2>2. CASE o \in Y
    <3>1. Declared(o) /\ ~Conflict(o, i, w)
      BY <1>10, <2>2, NoneApart DEF Refused, Declared
    <3>2. w \in profile.values
      BY <1>10 DEF HasValue
    <3> QED BY <1>10, <2>1, <3>1, <3>2, ConflictExact
  <2>3. CASE o \notin Y
    <3>1. o \in rec[i].owners /\ w = rec[i].value
      BY <1>10, <2>3
    <3>2. i \in Members(o)
      BY <1>6, <3>1
    <3> QED BY <1>10, <2>1, <3>1, <3>2 DEF IndexInv, UniqueOK
  <2> QED BY <2>2, <2>3
<1>11. UniqueOK'
  <2>1. ASSUME NEW o \in Owners, role[o] = "unique", NEW j \in Members(o)', NEW k \in Members(o)', j # k,
               HasValue(rec'[j].value), HasValue(rec'[k].value)
        PROVE ~SameValue(rec'[j].value, rec'[k].value)
    <3>1. j \in Items /\ k \in Items
      BY <1>7, <2>1
    <3>2. CASE j = i
      BY <1>2, <1>3, <1>6, <1>10, <2>1, <3>1, <3>2
    <3>3. CASE k = i
      BY <1>2, <1>3, <1>6, <1>10, <2>1, <3>1, <3>3
    <3>4. CASE j # i /\ k # i
      <4>1. j \in Members(o) /\ k \in Members(o) /\ rec'[j] = rec[j] /\ rec'[k] = rec[k]
        BY <1>2, <1>6, <2>1, <3>1, <3>4
      <4> QED BY <2>1, <4>1 DEF IndexInv, UniqueOK
    <3> QED BY <3>2, <3>3, <3>4
  <2>2. role' = role
    OBVIOUS
  <2> QED BY <2>1, <2>2 DEF UniqueOK, SameValue, HasValue
<1>12. RequiredOK'
  <2>1. ASSUME NEW o \in Owners, role[o] = "required", NEW j \in Members(o)' PROVE HasValue(rec'[j].value)
    <3>1. CASE j = i
      <4>1. o \in os
        BY <1>6, <2>1, <3>1
      <4>2. CASE o \in Y
        BY <1>3, <2>1, <3>1, <4>2 DEF Refused
      <4>3. CASE o \notin Y
        <5>1. o \in rec[i].owners /\ w = rec[i].value
          BY <4>1, <4>3
        <5> QED BY <1>3, <1>6, <2>1, <3>1, <5>1 DEF IndexInv, RequiredOK
      <4> QED BY <4>2, <4>3
    <3>2. CASE j # i
      <4>1. j \in Members(o) /\ rec'[j] = rec[j]
        BY <1>2, <1>6, <1>7, <2>1, <3>2
      <4> QED BY <2>1, <4>1 DEF IndexInv, RequiredOK
    <3> QED BY <3>1, <3>2
  <2> QED BY <2>1 DEF RequiredOK, HasValue
<1> QED BY <1>4, <1>8, <1>9, <1>11, <1>12 DEF IndexInv

\* Nothing is refused where nothing is put.
LEMMA NothingRefused ==
  ASSUME NEW i, NEW v
  PROVE  ~Refused({}, i, v) /\ EntriesFor({}, i, v) = {} /\ EntriesDropped({}, i, v) = {}
BY EntriesForIs DEF Refused

\* add_node_inner
LEMMA AddNodeStep ==
  ASSUME IndexInv, NEW n \in profile.nodes, NEW ls \in SUBSET profile.labels, NEW v \in profile.values,
         AddNode(n, ls, v)
  PROVE  IndexInv'
<1>1. n \in Items /\ ls \subseteq OwnersOf(n)
  BY ProfileIs
<1>2. rec[n].owners = {}
  BY <1>1 DEF AddNode, IndexInv, RecordsOK
<1>3. entries' = (entries \ EntriesDropped({}, n, rec[n].value)) \cup EntriesFor(ls, n, v)
  BY NothingRefused DEF AddNode
<1>4. UNCHANGED <<profile, role, off, orphaned>> /\ rec' = [rec EXCEPT ![n] = Record("live", ls, v)] /\ ~Refused(ls, n, v)
  BY DEF AddNode
<1> QED BY <1>1, <1>2, <1>3, <1>4, ItemStep

\* add_edge_inner
LEMMA AddEdgeStep ==
  ASSUME IndexInv, NEW e \in profile.edges, NEW t \in profile.types, NEW v \in profile.values,
         AddEdge(e, t, v)
  PROVE  IndexInv'
<1>1. e \in Items /\ {t} \subseteq OwnersOf(e)
  BY ProfileIs
<1>2. rec[e].owners = {}
  BY <1>1 DEF AddEdge, IndexInv, RecordsOK
<1>3. entries' = (entries \ EntriesDropped({}, e, rec[e].value)) \cup EntriesFor({t}, e, v)
  BY NothingRefused DEF AddEdge
<1>4. UNCHANGED <<profile, role, off, orphaned>> /\ rec' = [rec EXCEPT ![e] = Record("live", {t}, v)] /\ ~Refused({t}, e, v)
  BY DEF AddEdge
<1> QED BY <1>1, <1>2, <1>3, <1>4, ItemStep

\* A record with one field replaced.
LEMMA RecordExcept ==
  ASSUME IndexInv, NEW i \in Items, NEW w
  PROVE  /\ [rec[i] EXCEPT !.value = w] = Record(rec[i].state, rec[i].owners, w)
         /\ [rec[i] EXCEPT !.owners = w] = Record(rec[i].state, w, rec[i].value)
<1>1. rec[i] = Record(rec[i].state, rec[i].owners, rec[i].value)
  BY DEF IndexInv, RecordsOK
<1> QED BY <1>1 DEF Record

\* update_node_impl and update_edge_impl
LEMMA UpdateStep ==
  ASSUME IndexInv, NEW i \in Items, NEW v \in profile.values, Update(i, v)
  PROVE  IndexInv'
<1> DEFINE os == rec[i].owners
           s == rec[i].state
<1>1. os \subseteq OwnersOf(i) /\ s = "live"
  BY DEF Update, Live, IndexInv, RecordsOK
<1>2. rec' = [rec EXCEPT ![i] = Record(s, os, v)]
  BY RecordExcept DEF Update
<1>3. entries' = (entries \ EntriesDropped(os, i, rec[i].value)) \cup EntriesFor(os, i, v)
  BY DEF Update
<1>4. UNCHANGED <<profile, role, off, orphaned>> /\ ~Refused(os, i, v)
  BY DEF Update
<1> QED BY <1>1, <1>2, <1>3, <1>4, ItemStep

\* add_node_label
LEMMA AddLabelStep ==
  ASSUME IndexInv, NEW n \in profile.nodes, NEW l \in profile.labels, AddLabel(n, l)
  PROVE  IndexInv'
<1> DEFINE os == rec[n].owners \cup {l}
           s == rec[n].state
           v == rec[n].value
<1>1. n \in Items /\ os \subseteq OwnersOf(n) /\ s = "live" /\ v \in profile.values \cup {None}
  BY ProfileIs DEF AddLabel, Live, IndexInv, RecordsOK
<1>2. rec' = [rec EXCEPT ![n] = Record(s, os, v)]
  BY <1>1, RecordExcept DEF AddLabel
<1>3. entries' = (entries \ EntriesDropped({}, n, v)) \cup EntriesFor({l}, n, v)
  BY NothingRefused DEF AddLabel
<1>4. UNCHANGED <<profile, role, off, orphaned>> /\ ~Refused({l}, n, v)
  BY DEF AddLabel
<1>5. rec[n].owners \ {} \subseteq os /\ {l} \subseteq os /\ os \subseteq (rec[n].owners \ {}) \cup {l}
  OBVIOUS
<1>6. rec[n].value = v
  OBVIOUS
<1> HIDE DEF os, s, v
<1> QED BY <1>1, <1>2, <1>3, <1>4, <1>5, <1>6, ItemStep

\* remove_node_label
LEMMA RemoveLabelStep ==
  ASSUME IndexInv, NEW n \in profile.nodes, NEW l \in profile.labels, RemoveLabel(n, l)
  PROVE  IndexInv'
<1> DEFINE os == rec[n].owners \ {l}
           s == rec[n].state
           v == rec[n].value
<1>1. n \in Items /\ os \subseteq OwnersOf(n) /\ s = "live" /\ v \in profile.values \cup {None}
  BY ProfileIs DEF RemoveLabel, Live, IndexInv, RecordsOK
<1>2. rec' = [rec EXCEPT ![n] = Record(s, os, v)]
  BY <1>1, RecordExcept DEF RemoveLabel
<1>3. entries' = (entries \ EntriesDropped({l}, n, v)) \cup EntriesFor({}, n, v)
  BY NothingRefused DEF RemoveLabel
<1>4. UNCHANGED <<profile, role, off, orphaned>> /\ ~Refused({}, n, v)
  BY NothingRefused DEF RemoveLabel
<1>5. rec[n].owners \ {l} \subseteq os /\ {} \subseteq os /\ os \subseteq (rec[n].owners \ {l}) \cup {}
  OBVIOUS
<1>6. rec[n].value = v
  OBVIOUS
<1> HIDE DEF os, s, v
<1> QED BY <1>1, <1>2, <1>3, <1>4, <1>5, <1>6, ItemStep

\* delete_edge_inner
LEMMA DeleteEdgeStep ==
  ASSUME IndexInv, NEW e \in profile.edges, DeleteEdge(e)
  PROVE  IndexInv'
<1>1. e \in Items
  BY ProfileIs
<1>2. rec' = [rec EXCEPT ![e] = Record("gone", {}, None)]
  BY DEF DeleteEdge, Gone
<1>3. entries' = (entries \ EntriesDropped(rec[e].owners, e, rec[e].value)) \cup EntriesFor({}, e, None)
  BY NothingRefused DEF DeleteEdge
<1>4. UNCHANGED <<profile, role, off, orphaned>> /\ ~Refused({}, e, None)
  BY NothingRefused DEF DeleteEdge
<1> QED BY <1>1, <1>2, <1>3, <1>4, ItemStep

\* delete_node_inner: the node and its incident edges go with their entries.
LEMMA DeleteNodeStep ==
  ASSUME IndexInv, NEW n \in profile.nodes, DeleteNode(n)
  PROVE  IndexInv'
<1> DEFINE gone == {n} \cup {e \in profile.edges \cap Live : n \in EndsOf[e]}
           Dropped == UNION {EntriesDropped(rec[i].owners, i, rec[i].value) : i \in gone}
<1>1. /\ UNCHANGED <<profile, role, off, orphaned>>
      /\ rec' = [i \in DOMAIN rec |-> IF i \in gone THEN Gone ELSE rec[i]]
      /\ entries' = entries \ Dropped
  BY DEF DeleteNode
<1>2. /\ profile \in Profiles /\ Items' = Items /\ DOMAIN rec = Items
      /\ \A j \in Items : rec[j].value \in profile.values \cup {None}
  BY <1>1 DEF IndexInv, RecordsOK, Items, OwnersOf
<1> HIDE DEF gone
<1>3. /\ rec' = [j \in Items |-> rec'[j]]
      /\ \A j \in Items : rec'[j] = IF j \in gone THEN Gone ELSE rec[j]
  BY <1>1, <1>2
<1>4. Gone = Record(Gone.state, Gone.owners, Gone.value) /\ Gone.state # "live" /\ Gone.owners = {} /\ Gone.value = None
  BY DEF Gone, Record
<1>5. RecordsOK'
  <2>1. \A j \in Items : /\ rec'[j] = Record(rec'[j].state, rec'[j].owners, rec'[j].value)
                         /\ rec'[j].owners \subseteq OwnersOf(j)
                         /\ rec'[j].state # "live" => rec'[j].owners = {}
                         /\ rec'[j].value \in profile.values \cup {None}
    BY <1>3, <1>4 DEF IndexInv, RecordsOK
  <2> QED BY <1>1, <1>2, <1>3, <2>1 DEF IndexInv, RecordsOK, OwnersOf
<1>6. \A o : IndexedFor(o)' <=> IndexedFor(o)
  BY <1>1 DEF IndexedFor, Declared, AutoIndexed
<1>7. \A o, j : j \in Members(o)' => j \in Members(o) /\ j \notin gone /\ rec'[j] = rec[j]
  BY <1>2, <1>3, <1>4 DEF Members, Live
<1>8. \A o, j : j \in Members(o) /\ j \notin gone => j \in Members(o)' /\ rec'[j] = rec[j]
  BY <1>2, <1>3 DEF Members, Live
<1>9. EntriesOK'
  <2>1. ASSUME NEW x \in entries' PROVE IsEntry(x)' /\ Justified(x)'
    <3>1. x \in entries /\ x \notin Dropped /\ IsEntry(x) /\ Justified(x)
      BY <1>1, <2>1 DEF IndexInv, EntriesOK
    <3>2. IsEntry(x)'
      BY <1>2, <3>1 DEF IsEntry
    <3>3. ASSUME x[1] \notin orphaned, x[2][1] # "null" PROVE x[3] \notin gone
      <4>1. SUFFICES ASSUME x[3] \in gone PROVE FALSE
        OBVIOUS
      <4>2. /\ IndexedFor(x[1]) /\ x[3] \in Members(x[1]) /\ Indexable(rec[x[3]].value)
            /\ x[2] = Encode(rec[x[3]].value)
        BY <3>1, <3>3 DEF Justified
      <4>3. x[3] \in Items /\ x[1] \in rec[x[3]].owners
        BY <4>2 DEF Members, Live
      <4>4. /\ HasValue(rec[x[3]].value) /\ Encode(rec[x[3]].value) # None /\ rec[x[3]].value # None
        BY <1>2, <4>2, <4>3, IndexableIs DEF HasValue
      <4>5. x = <<x[1], Encode(rec[x[3]].value), x[3]>>
        BY <3>1, <4>2 DEF IsEntry
      <4>6. x \in EntriesDropped(rec[x[3]].owners, x[3], rec[x[3]].value)
        BY <4>2, <4>3, <4>4, <4>5, EntriesForIs DEF IndexedFor
      <4> QED BY <3>1, <4>1, <4>6
    <3>4. Justified(x)'
      BY <1>1, <1>6, <1>8, <3>1, <3>3 DEF Justified
    <3> QED BY <3>2, <3>4
  <2> QED BY <2>1 DEF EntriesOK
<1>10. EntriesComplete'
  <2>1. ASSUME NEW o \in Owners, IndexedFor(o), NEW j \in Members(o)', Indexable(rec'[j].value)
        PROVE <<o, Encode(rec'[j].value), j>> \in entries'
    <3>1. j \in Members(o) /\ j \notin gone /\ rec'[j] = rec[j]
      BY <1>7, <2>1
    <3>2. <<o, Encode(rec[j].value), j>> \in entries
      BY <2>1, <3>1 DEF IndexInv, EntriesComplete
    <3>3. <<o, Encode(rec[j].value), j>> \notin Dropped
      <4>1. \A i \in gone : <<o, Encode(rec[j].value), j>> \notin EntriesDropped(rec[i].owners, i, rec[i].value)
        BY <3>1, EntriesForIs
      <4> QED BY <4>1
    <3> QED BY <1>1, <3>1, <3>2, <3>3
  <2> QED BY <1>6, <2>1 DEF EntriesComplete
<1>11. UniqueOK'
  <2>1. ASSUME NEW o \in Owners, role[o] = "unique", NEW j \in Members(o)', NEW k \in Members(o)', j # k,
               HasValue(rec'[j].value), HasValue(rec'[k].value)
        PROVE ~SameValue(rec'[j].value, rec'[k].value)
    <3>1. j \in Members(o) /\ k \in Members(o) /\ rec'[j] = rec[j] /\ rec'[k] = rec[k]
      BY <1>7, <2>1
    <3> QED BY <2>1, <3>1 DEF IndexInv, UniqueOK
  <2>2. role' = role
    BY <1>1
  <2> QED BY <2>1, <2>2 DEF UniqueOK, SameValue, HasValue
<1>12. RequiredOK'
  BY <1>1, <1>7 DEF IndexInv, RequiredOK, HasValue
<1> QED BY <1>5, <1>9, <1>10, <1>11, <1>12 DEF IndexInv

-----------------------------------------------------------------------------
(* Declarations *)

\* create_node_index_impl and create_edge_index_impl: the backfill covers
\* every member, and the existing values passed the constraint.
LEMMA CreateIndexStep ==
  ASSUME IndexInv, NEW o \in profile.owners, NEW r \in {"index", "unique", "required"}, CreateIndex(o, r)
  PROVE  IndexInv'
<1> DEFINE Backfill == {<<o, Encode(rec[i].value), i>> :
                            i \in {j \in Members(o) : rec[j].value # None /\ Encode(rec[j].value) # None}}
<1>1. /\ UNCHANGED <<profile, rec, off, orphaned>>
      /\ role' = [role EXCEPT ![o] = r] /\ entries' = entries \cup Backfill
  BY DEF CreateIndex
<1>2. /\ o \in Owners /\ profile \in Profiles
      /\ \A j \in Items : rec[j].value \in profile.values \cup {None}
  BY ProfileIs DEF IndexInv, RecordsOK
<1>3. /\ role' \in [Owners -> {None, "index", "unique", "required"}]
      /\ role'[o] = r /\ \A p \in Owners \ {o} : role'[p] = role[p]
  BY <1>1, <1>2 DEF IndexInv, RecordsOK
<1>4. RecordsOK'
  BY <1>1, <1>3 DEF IndexInv, RecordsOK, Items, OwnersOf
<1>5. /\ \A p : Members(p)' = Members(p)
      /\ Items' = Items /\ \A j \in Members(o) : j \in Items
  BY <1>1 DEF Members, Live, Items
<1>6. IndexedFor(o)' /\ \A p \in Owners \ {o} : IndexedFor(p)' <=> IndexedFor(p)
  BY <1>1, <1>3, NoneApart DEF IndexedFor, Declared, AutoIndexed
<1>7. EntriesOK'
  <2>1. ASSUME NEW x \in entries' PROVE IsEntry(x)' /\ Justified(x)'
    <3>1. CASE x \in entries
      <4>1. IsEntry(x) /\ Justified(x)
        BY <3>1 DEF IndexInv, EntriesOK
      <4> QED BY <1>1, <1>5, <1>6, <4>1 DEF IsEntry, Justified
    <3>2. CASE x \in Backfill
      <4>1. PICK j \in Members(o) : rec[j].value # None /\ Encode(rec[j].value) # None /\ x = <<o, Encode(rec[j].value), j>>
        BY <3>2
      <4>2. x[1] = o /\ x[2] = Encode(rec[j].value) /\ x[3] = j
        BY <4>1
      <4>3. x[2][1] # "null" => Indexable(rec[j].value)
        BY <1>2, <1>5, <4>1, <4>2, IndexableIs
      <4>4. Justified(x)'
        BY <1>1, <1>5, <1>6, <4>1, <4>2, <4>3 DEF Justified
      <4>5. IsEntry(x)'
        BY <1>2, <1>5, <4>1, <4>2 DEF IsEntry
      <4> QED BY <4>4, <4>5
    <3> QED BY <1>1, <2>1, <3>1, <3>2
  <2> QED BY <2>1 DEF EntriesOK
<1>8. EntriesComplete'
  <2>1. ASSUME NEW p \in Owners, IndexedFor(p)', NEW j \in Members(p), Indexable(rec[j].value)
        PROVE <<p, Encode(rec[j].value), j>> \in entries'
    <3>1. CASE p = o
      <4>1. rec[j].value # None /\ Encode(rec[j].value) # None
        BY <1>2, <1>5, <2>1, <3>1, IndexableIs DEF HasValue
      <4> QED BY <1>1, <2>1, <3>1, <4>1
    <3>2. CASE p # o
      BY <1>1, <1>6, <2>1, <3>2 DEF IndexInv, EntriesComplete
    <3> QED BY <3>1, <3>2
  <2> QED BY <1>1, <1>5, <2>1 DEF EntriesComplete
<1>9. UniqueOK'
  <2>1. ASSUME r = "unique", NEW i \in Members(o), NEW j \in Members(o), i # j,
               HasValue(rec[i].value), HasValue(rec[j].value)
        PROVE ~SameValue(rec[i].value, rec[j].value)
    <3>1. Identity(rec[i].value) # Identity(rec[j].value)
      BY <2>1 DEF CreateIndex
    <3>2. rec[i].value \in profile.values /\ rec[j].value \in profile.values
      BY <1>2, <1>5, <2>1 DEF HasValue
    <3> QED BY <1>2, <2>1, <3>1, <3>2, SameEncoding
  <2> QED BY <1>1, <1>3, <1>5, <2>1 DEF IndexInv, UniqueOK
<1>10. RequiredOK'
  BY <1>1, <1>3, <1>5 DEF IndexInv, RequiredOK, CreateIndex
<1> QED BY <1>4, <1>7, <1>8, <1>9, <1>10 DEF IndexInv

\* drop_node_index_impl and drop_edge_index_impl: what stays of a label's
\* entries is what the auto-index maintains.
LEMMA DropIndexStep ==
  ASSUME IndexInv, NEW o \in profile.owners, DropIndex(o)
  PROVE  IndexInv'
<1>1. /\ UNCHANGED <<profile, rec, off>> /\ Declared(o)
      /\ role' = [role EXCEPT ![o] = None]
      /\ entries' = {x \in entries : x[1] = o => o \in Labels /\ x[2][1] # "null"}
      /\ orphaned' = IF o \in off THEN orphaned \cup {o} ELSE orphaned
  BY DEF DropIndex, Declared
<1>2. /\ o \in Owners /\ profile \in Profiles
      /\ \A j \in Items : rec[j].value \in profile.values \cup {None}
  BY ProfileIs DEF IndexInv, RecordsOK
<1>3. /\ role' \in [Owners -> {None, "index", "unique", "required"}]
      /\ role'[o] = None /\ \A p \in Owners \ {o} : role'[p] = role[p]
  BY <1>1, <1>2 DEF IndexInv, RecordsOK
<1>4. RecordsOK'
  <2>1. off \subseteq Labels /\ orphaned \subseteq Labels
    BY DEF IndexInv, RecordsOK
  <2>2. orphaned' \subseteq Labels
    BY <1>1, <2>1
  <2> QED BY <1>1, <1>3, <2>1, <2>2 DEF IndexInv, RecordsOK, Items, OwnersOf
<1>5. /\ \A p : Members(p)' = Members(p)
      /\ Items' = Items /\ \A p : \A j \in Members(p) : j \in Items
  BY <1>1 DEF Members, Live, Items
<1>6. /\ IndexedFor(o)' <=> o \in Labels /\ o \notin off
      /\ \A p \in Owners \ {o} : IndexedFor(p)' <=> IndexedFor(p)
  BY <1>1, <1>3 DEF IndexedFor, Declared, AutoIndexed
<1>7. EntriesOK'
  <2>1. ASSUME NEW x \in entries' PROVE IsEntry(x)' /\ Justified(x)'
    <3>1. x \in entries /\ IsEntry(x) /\ Justified(x) /\ (x[1] = o => o \in Labels /\ x[2][1] # "null")
      BY <1>1, <2>1 DEF IndexInv, EntriesOK
    <3>2. x[1] \notin orphaned' => x[1] \notin orphaned /\ (x[1] = o => o \notin off)
      BY <1>1
    <3>3. x[1] \in Owners
      BY <3>1 DEF IsEntry
    <3> QED BY <1>1, <1>5, <1>6, <3>1, <3>2, <3>3 DEF IsEntry, Justified
  <2> QED BY <2>1 DEF EntriesOK
<1>8. EntriesComplete'
  <2>1. ASSUME NEW p \in Owners, IndexedFor(p)', NEW j \in Members(p), Indexable(rec[j].value)
        PROVE <<p, Encode(rec[j].value), j>> \in entries'
    <3>1. IndexedFor(p)
      BY <1>1, <1>6, <2>1 DEF IndexedFor
    <3>2. <<p, Encode(rec[j].value), j>> \in entries
      BY <2>1, <3>1 DEF IndexInv, EntriesComplete
    <3>3. Encode(rec[j].value)[1] # "null"
      BY <1>2, <1>5, <2>1, IndexableIs
    <3>4. p = o => o \in Labels
      BY <1>6, <2>1
    <3> QED BY <1>1, <3>2, <3>3, <3>4
  <2> QED BY <1>1, <1>5, <2>1 DEF EntriesComplete
<1>9. UniqueOK' /\ RequiredOK'
  BY <1>1, <1>3, <1>5, NoneApart DEF IndexInv, UniqueOK, RequiredOK
<1> QED BY <1>4, <1>7, <1>8, <1>9 DEF IndexInv

\* set_label_auto_index: the entries of an undeclared property are deleted or
\* backfilled as a whole.
LEMMA SetLabelAutoIndexStep ==
  ASSUME IndexInv, NEW l \in profile.owners \cap Labels, SetLabelAutoIndex(l)
  PROVE  IndexInv'
<1>1. /\ UNCHANGED <<profile, rec, role, orphaned>>
      /\ off' = IF l \in off THEN off \ {l} ELSE off \cup {l}
      /\ entries' = IF Declared(l) THEN entries
                    ELSE IF l \in off THEN entries \cup AutoEntries(l) ELSE entries \ AutoEntries(l)
  BY DEF SetLabelAutoIndex
<1>2. /\ l \in Owners /\ l \in Labels /\ profile \in Profiles
      /\ \A j \in Items : rec[j].value \in profile.values \cup {None}
  BY ProfileIs DEF IndexInv, RecordsOK
<1>3. RecordsOK'
  BY <1>1, <1>2 DEF IndexInv, RecordsOK, Items, OwnersOf
<1>4. /\ \A p : Members(p)' = Members(p)
      /\ Items' = Items /\ \A p : \A j \in Members(p) : j \in Items
  BY <1>1 DEF Members, Live, Items
<1>5. /\ \A p : p # l => (IndexedFor(p)' <=> IndexedFor(p))
      /\ IndexedFor(l)' <=> Declared(l) \/ l \in off
      /\ IndexedFor(l) <=> Declared(l) \/ l \notin off
  BY <1>1, <1>2 DEF IndexedFor, Declared, AutoIndexed
<1>6. \A x : x \in AutoEntries(l) <=> \E j \in Members(l) : Indexable(rec[j].value) /\ x = <<l, Encode(rec[j].value), j>>
  <2>1. \A j \in Members(l) : Indexable(rec[j].value) <=> HasValue(rec[j].value) /\ Encode(rec[j].value) # None
    BY <1>2, <1>4, IndexableIs
  <2> QED BY <2>1 DEF AutoEntries
<1>7. EntriesOK'
  <2>1. ASSUME NEW x \in entries' PROVE IsEntry(x)' /\ Justified(x)'
    <3>1. CASE x \in entries /\ (Declared(l) \/ x[1] # l \/ l \in off)
      <4>1. IsEntry(x) /\ Justified(x)
        BY <3>1 DEF IndexInv, EntriesOK
      <4>2. IndexedFor(x[1]) => IndexedFor(x[1])'
        BY <1>5, <3>1
      <4> QED BY <1>1, <1>4, <4>1, <4>2 DEF IsEntry, Justified
    <3>2. CASE x \in entries /\ ~Declared(l) /\ x[1] = l /\ l \notin off
      <4>1. IsEntry(x) /\ Justified(x) /\ x \notin AutoEntries(l)
        BY <1>1, <2>1, <3>2 DEF IndexInv, EntriesOK
      <4>2. ~(x[1] \notin orphaned /\ x[2][1] # "null")
        <5>1. SUFFICES ASSUME x[1] \notin orphaned, x[2][1] # "null" PROVE FALSE
          OBVIOUS
        <5>2. x[3] \in Members(l) /\ Indexable(rec[x[3]].value) /\ x[2] = Encode(rec[x[3]].value)
          BY <3>2, <4>1, <5>1 DEF Justified
        <5>3. x = <<l, Encode(rec[x[3]].value), x[3]>>
          BY <3>2, <4>1, <5>2 DEF IsEntry
        <5> QED BY <1>6, <4>1, <5>2, <5>3
      <4> QED BY <1>1, <1>4, <4>1, <4>2 DEF IsEntry, Justified
    <3>3. CASE x \notin entries
      <4>1. l \in off /\ x \in AutoEntries(l)
        BY <1>1, <2>1, <3>3
      <4>2. PICK j \in Members(l) : Indexable(rec[j].value) /\ x = <<l, Encode(rec[j].value), j>>
        BY <1>6, <4>1
      <4>3. x[1] = l /\ x[2] = Encode(rec[j].value) /\ x[3] = j
        BY <4>2
      <4>4. IsEntry(x)'
        BY <1>2, <1>4, <4>2, <4>3 DEF IsEntry
      <4>5. Justified(x)'
        BY <1>1, <1>4, <1>5, <4>1, <4>2, <4>3 DEF Justified
      <4> QED BY <4>4, <4>5
    <3> QED BY <3>1, <3>2, <3>3
  <2> QED BY <2>1 DEF EntriesOK
<1>8. EntriesComplete'
  <2>1. ASSUME NEW p \in Owners, IndexedFor(p)', NEW j \in Members(p), Indexable(rec[j].value)
        PROVE <<p, Encode(rec[j].value), j>> \in entries'
    <3>1. CASE p = l
      <4>1. CASE Declared(l)
        BY <1>1, <1>5, <2>1, <3>1, <4>1 DEF IndexInv, EntriesComplete
      <4>2. CASE ~Declared(l)
        <5>1. l \in off
          BY <1>5, <2>1, <3>1, <4>2
        <5> QED BY <1>1, <1>6, <2>1, <3>1, <4>2, <5>1
      <4> QED BY <4>1, <4>2
    <3>2. CASE p # l
      <4>1. <<p, Encode(rec[j].value), j>> \in entries
        BY <1>5, <2>1, <3>2 DEF IndexInv, EntriesComplete
      <4>2. <<p, Encode(rec[j].value), j>> \notin AutoEntries(l)
        BY <1>6, <3>2
      <4> QED BY <1>1, <4>1, <4>2
    <3> QED BY <3>1, <3>2
  <2> QED BY <1>1, <1>4, <2>1 DEF EntriesComplete
<1>9. UniqueOK' /\ RequiredOK'
  BY <1>1, <1>4 DEF IndexInv, UniqueOK, RequiredOK
<1> QED BY <1>3, <1>7, <1>8, <1>9 DEF IndexInv

-----------------------------------------------------------------------------
(* Every reachable state *)

\* The text indexes are apart from the property index.
LEMMA TextStep ==
  ASSUME IndexInv, UNCHANGED <<profile, rec, role, off, entries, orphaned>>
  PROVE  IndexInv'
<1>1. RecordsOK'
  BY DEF IndexInv, RecordsOK, Items, OwnersOf
<1>2. Items' = Items /\ \A o : Members(o)' = Members(o) /\ (IndexedFor(o)' <=> IndexedFor(o))
  BY DEF Items, Members, Live, IndexedFor, Declared, AutoIndexed
<1>3. EntriesOK'
  BY <1>2 DEF IndexInv, EntriesOK, IsEntry, Justified
<1>4. EntriesComplete' /\ UniqueOK' /\ RequiredOK'
  BY <1>2 DEF IndexInv, EntriesComplete, UniqueOK, RequiredOK
<1> QED BY <1>1, <1>3, <1>4 DEF IndexInv

\* No item exists and nothing is declared at first.
LEMMA IndexInit ==
  ASSUME Init
  PROVE  IndexInv
<1>1. profile \in Profiles /\ rec = [i \in Items |-> Record("unused", {}, None)]
  BY DEF Init, Items
<1>2. \A i \in Items : /\ rec[i] = Record("unused", {}, None)
                       /\ rec[i].state = "unused" /\ rec[i].owners = {} /\ rec[i].value = None
  BY <1>1 DEF Record
<1>3. RecordsOK
  BY <1>1, <1>2 DEF RecordsOK, Init
<1>4. \A o : Members(o) = {}
  BY <1>2 DEF Members, Live
<1>5. EntriesOK /\ EntriesComplete /\ UniqueOK /\ RequiredOK
  BY <1>4 DEF Init, EntriesOK, EntriesComplete, UniqueOK, RequiredOK
<1> QED BY <1>3, <1>5 DEF IndexInv

\* Every operation keeps the invariant.
LEMMA IndexStep ==
  ASSUME IndexInv, [Next]_vars
  PROVE  IndexInv'
<1>1. CASE \E n \in profile.nodes, ls \in SUBSET profile.labels, v \in profile.values : AddNode(n, ls, v)
  BY <1>1, AddNodeStep
<1>2. CASE \E e \in profile.edges, t \in profile.types, v \in profile.values : AddEdge(e, t, v)
  BY <1>2, AddEdgeStep
<1>3. CASE \E i \in Items, v \in profile.values : Update(i, v)
  BY <1>3, UpdateStep
<1>4. CASE \E n \in profile.nodes, l \in profile.labels : AddLabel(n, l) \/ RemoveLabel(n, l)
  BY <1>4, AddLabelStep, RemoveLabelStep
<1>5. CASE \E n \in profile.nodes : DeleteNode(n)
  BY <1>5, DeleteNodeStep
<1>6. CASE \E e \in profile.edges : DeleteEdge(e)
  BY <1>6, DeleteEdgeStep
<1>7. CASE \E o \in profile.owners, r \in {"index", "unique", "required"} : CreateIndex(o, r)
  BY <1>7, CreateIndexStep
<1>8. CASE \E o \in profile.owners : DropIndex(o)
  BY <1>8, DropIndexStep
<1>9. CASE \E l \in profile.owners \cap Labels : SetLabelAutoIndex(l)
  BY <1>9, SetLabelAutoIndexStep
<1>10. CASE \E l \in profile.texts : (\E lang \in Languages : CreateTextIndex(l, lang)) \/ DropTextIndex(l)
  BY <1>10, TextStep DEF CreateTextIndex, DropTextIndex
<1>11. CASE UNCHANGED vars
  BY <1>11, TextStep DEF vars
<1> QED BY <1>1, <1>2, <1>3, <1>4, <1>5, <1>6, <1>7, <1>8, <1>9, <1>10, <1>11 DEF Next

\* Through every sequence of writes, label changes, deletions, declarations,
\* drops and opt-outs the entries of every owner that maintains them are those
\* of its members' present values, and the declared constraints hold.
THEOREM IndexInvariance == Spec => []IndexInv
BY IndexInit, IndexStep, PTL DEF Spec

\* A uniqueness or required constraint holds for as long as it is declared, and
\* check_node_property_unique and check_edge_property_unique refuse a value
\* exactly if another member holds it, whatever the constants are.
THEOREM ConstraintsHold == Spec => []ConstraintsExact
<1>1. ASSUME IndexInv PROVE ConstraintsExact
  <2>1. \A o \in profile.owners : o \in Owners
    BY <1>1, ProfileIs
  <2>2. ASSUME NEW o \in profile.owners, role[o] = "unique", NEW i \in Holding(o), NEW j \in Holding(o), i # j
        PROVE ~SameValue(rec[i].value, rec[j].value)
    BY <1>1, <2>1, <2>2 DEF IndexInv, UniqueOK, Holding
  <2>3. ASSUME NEW o \in profile.owners, role[o] = "required" PROVE Holding(o) = Members(o)
    BY <1>1, <2>1, <2>3 DEF IndexInv, RequiredOK, Holding
  <2>4. ASSUME NEW o \in profile.owners, role[o] = "unique", o \notin orphaned, NEW i \in Items, NEW v \in Asked
        PROVE Conflict(o, i, v) <=> \E j \in Holding(o) \ {i} : SameValue(rec[j].value, v)
    <3>1. Declared(o) /\ o \in Owners /\ v \in profile.values /\ HasValue(v)
      BY <2>1, <2>4, NoneApart DEF Declared, Asked
    <3>2. /\ \A j \in Members(o) \ {i} : HasValue(rec[j].value) /\ SameValue(rec[j].value, v) => Conflict(o, i, v)
          /\ Conflict(o, i, v) =>
               \E j \in Members(o) \ {i} : HasValue(rec[j].value) /\ SameValue(rec[j].value, v)
      BY <1>1, <2>4, <3>1, ConflictExact
    <3> QED BY <3>2 DEF Holding
  <2> QED BY <2>2, <2>3, <2>4 DEF ConstraintsExact
<1> QED BY <1>1, IndexInvariance, PTL

-----------------------------------------------------------------------------
(* Lookups *)

\* A scan compares as the index does the values that f64 tells apart.
LEMMA ScanTells ==
  ASSUME NEW p \in Profiles, NEW v \in p.values, NEW w \in p.values, HasValue(v), HasValue(w), Apart(w, v)
  PROVE  (IF v.fam = "number" /\ w.fam = "number" THEN AsF64(v) = AsF64(w) ELSE v = w) <=> SameValue(w, v)
<1>1. ValueOK(v) /\ ValueOK(w) /\ Consistent(v, w)
  BY NoneApart DEF ProfileOK
<1>2. /\ v.fam \in {"number", "string"} /\ w.fam \in {"number", "string"}
      /\ v.fam = "string" => v.f64 = 0
      /\ w.fam = "string" => w.f64 = 0
  BY <1>1 DEF ValueOK
<1>3. /\ v = [fam |-> v.fam, f64 |-> v.f64, int |-> v.int, long |-> v.long]
      /\ w = [fam |-> w.fam, f64 |-> w.f64, int |-> w.int, long |-> w.long]
  BY <1>1 DEF ValueOK
<1>4. v.fam = w.fam /\ v.int = w.int => AsF64(v) = AsF64(w) /\ v.long = w.long
  BY <1>1 DEF Consistent
<1>5. CASE v.fam = "number" /\ w.fam = "number"
  BY <1>4, <1>5 DEF Apart, SameValue
<1>6. CASE ~(v.fam = "number" /\ w.fam = "number")
  BY <1>2, <1>3, <1>4, <1>6 DEF SameValue
<1> QED BY <1>5, <1>6

\* nodes_by_property and edges_by_property
LEMMA EqualsRight ==
  ASSUME IndexInv
  PROVE  EqualsExact
<1>1. profile \in Profiles /\ \A j \in Items : rec[j].value \in profile.values \cup {None}
  BY DEF IndexInv, RecordsOK
<1>2. \A o : \A j \in Members(o) : j \in Items /\ (HasValue(rec[j].value) => rec[j].value \in profile.values)
  BY <1>1 DEF Members, Live, HasValue
<1>3. ASSUME NEW o \in profile.owners, NEW v \in Asked, Answerable(o)
      PROVE ByProperty(o, v) = {i \in Holding(o) : SameValue(rec[i].value, v)}
  <2>1. o \in Owners /\ o \notin orphaned /\ IndexedFor(o) /\ ~(o \in off /\ ~Declared(o))
    BY <1>3, ProfileIs DEF Answerable, IndexedFor, AutoIndexed
  <2>2. /\ v \in profile.values /\ HasValue(v) /\ v.long \in BOOLEAN /\ (v.long <=> Encode(v) = None)
        /\ ValueOK(v)
    BY <1>1, <1>3, EncodeIs DEF Asked, HasValue
  <2>3. CASE v.long
    <3>1. ByProperty(o, v) = {i \in Members(o) : v = rec[i].value}
      BY <2>2, <2>3 DEF ByProperty, Scan, ValueOK
    <3>2. \A i \in Members(o) : v = rec[i].value <=> HasValue(rec[i].value) /\ SameValue(rec[i].value, v)
      BY <1>1, <1>2, <2>2, <2>3, SameEncoding
    <3> QED BY <3>1, <3>2 DEF Holding
  <2>4. CASE ~v.long
    <3>1. ByProperty(o, v) = Matches(o, Encode(v))
      BY <2>1, <2>2, <2>4 DEF ByProperty
    <3>2. /\ \A j \in Members(o) : HasValue(rec[j].value) /\ SameValue(rec[j].value, v) => j \in Matches(o, Encode(v))
          /\ \A j \in Matches(o, Encode(v)) :
               j \in Members(o) /\ HasValue(rec[j].value) /\ SameValue(rec[j].value, v)
      BY <2>1, <2>2, <2>4, MatchesExact
    <3> QED BY <3>1, <3>2 DEF Holding
  <2> QED BY <2>2, <2>3, <2>4
<1>4. ASSUME NEW o \in profile.owners, NEW v \in Asked, Opted(o)
      PROVE  /\ ByProperty(o, v) \subseteq Holding(o)
             /\ \A i \in Holding(o) : Apart(rec[i].value, v) =>
                   (i \in ByProperty(o, v) <=> SameValue(rec[i].value, v))
  <2>1. v \in profile.values /\ HasValue(v) /\ ValueOK(v) /\ v.fam # "null"
    BY <1>1, <1>4, EncodeIs DEF Asked
  <2>2. ByProperty(o, v) = Scan(o, v)
    BY <1>4 DEF Opted, ByProperty
  <2>3. ASSUME NEW i \in Scan(o, v) PROVE i \in Holding(o)
    <3>1. i \in Members(o) /\ rec[i].value # None /\ rec[i].value # Null
      BY <2>1, <2>3 DEF Scan, HasValue, Null
    <3> QED BY <3>1 DEF Holding, HasValue
  <2>4. ASSUME NEW i \in Holding(o), Apart(rec[i].value, v)
        PROVE  i \in Scan(o, v) <=> SameValue(rec[i].value, v)
    <3>1. i \in Members(o) /\ rec[i].value \in profile.values /\ HasValue(rec[i].value) /\ rec[i].value # None
      BY <1>2 DEF Holding, HasValue
    <3>2. (IF v.fam = "number" /\ rec[i].value.fam = "number" THEN AsF64(v) = AsF64(rec[i].value)
           ELSE v = rec[i].value) <=> SameValue(rec[i].value, v)
      BY <1>1, <2>1, <2>4, <3>1, ScanTells
    <3> QED BY <3>1, <3>2 DEF Scan
  <2> QED BY <2>2, <2>3, <2>4
<1>5. \A o : ~(Answerable(o) /\ Opted(o))
  BY DEF Answerable, Opted, AutoIndexed
<1> QED BY <1>3, <1>4, <1>5 DEF EqualsExact

\* Values of one family are ordered by their ranks in either key, in a scan's
\* if f64 tells them apart.
LEMMA KeyOrder ==
  ASSUME NEW p \in Profiles, NEW v \in p.values, NEW w \in p.values, HasValue(v), HasValue(w),
         v.fam = w.fam, NEW inc \in BOOLEAN
  PROVE  /\ Apart(v, w) => (Below(ScanKey(v), ScanKey(w), inc) <=> v.int < w.int \/ (inc /\ v.int = w.int))
         /\ v.fam = "number" =>
              (Below(EncodedKey(v), EncodedKey(w), inc) <=> v.int < w.int \/ (inc /\ v.int = w.int))
<1>1. ValueOK(v) /\ ValueOK(w) /\ Consistent(v, w) /\ Consistent(w, v)
  BY NoneApart DEF ProfileOK
<1>2. /\ v.fam \in {"number", "string"}
      /\ v.f64 \in Int /\ w.f64 \in Int /\ v.int \in Int /\ w.int \in Int
      /\ v.fam = "number" => ~v.long /\ (v.f64 = -1 => v.int = 0)
      /\ w.fam = "number" => ~w.long /\ (w.f64 = -1 => w.int = 0)
  BY <1>1 DEF ValueOK
<1>3. /\ AsF64(v) \in Int /\ AsF64(w) \in Int
      /\ v.int = w.int => AsF64(v) = AsF64(w)
      /\ v.int < w.int => AsF64(v) <= AsF64(w)
      /\ w.int < v.int => AsF64(w) <= AsF64(v)
  BY <1>1, <1>2 DEF Consistent, AsF64
<1>4. ASSUME Apart(v, w)
      PROVE  Below(ScanKey(v), ScanKey(w), inc) <=> v.int < w.int \/ (inc /\ v.int = w.int)
  <2>1. CASE v.fam = "string"
    <3>1. ScanKey(v) = <<v.int, 0>> /\ ScanKey(w) = <<w.int, 0>>
      BY <2>1 DEF ScanKey
    <3> QED BY <1>2, <3>1 DEF Below
  <2>2. CASE v.fam = "number"
    <3>1. ScanKey(v) = <<AsF64(v), 0>> /\ ScanKey(w) = <<AsF64(w), 0>>
      BY <2>2 DEF ScanKey
    <3>2. AsF64(v) = AsF64(w) => v.int = w.int
      BY <1>4, <2>2 DEF Apart
    <3> QED BY <1>2, <1>3, <3>1, <3>2 DEF Below
  <2> QED BY <1>2, <2>1, <2>2
<1>5. ASSUME v.fam = "number"
      PROVE  Below(EncodedKey(v), EncodedKey(w), inc) <=> v.int < w.int \/ (inc /\ v.int = w.int)
  <2>1. Encode(v) = <<"number", v.f64, v.int>> /\ Encode(w) = <<"number", w.f64, w.int>>
    BY <1>2, <1>5 DEF Encode
  <2>2. EncodedKey(v) = <<AsF64(v), v.int>>
    BY <1>2, <1>5, <2>1 DEF EncodedKey, EntryKey, Normalized, NegativeZero, PositiveZero, AsF64
  <2>3. EncodedKey(w) = <<AsF64(w), w.int>>
    BY <1>2, <1>5, <2>1 DEF EncodedKey, EntryKey, Normalized, NegativeZero, PositiveZero, AsF64
  <2> QED BY <1>2, <1>3, <2>2, <2>3 DEF Below
<1> QED BY <1>4, <1>5

\* A range keeps the values between its bounds: over encoded keys, and over a
\* scan's keys when f64 tells the value from the bounds.
LEMMA BoundsOrder ==
  ASSUME NEW p \in Profiles, NEW v \in p.values, HasValue(v), NEW lo, NEW hi,
         lo # None => lo.v \in p.values /\ HasValue(lo.v) /\ lo.v.fam = v.fam /\ lo.inclusive \in BOOLEAN,
         hi # None => hi.v \in p.values /\ HasValue(hi.v) /\ hi.v.fam = v.fam /\ hi.inclusive \in BOOLEAN
  PROVE  /\ ApartFrom(v, lo, hi) => (InBounds(ScanKey(v), lo, hi, ScanKey) <=> Between(v, lo, hi))
         /\ v.fam = "number" => (InBounds(EncodedKey(v), lo, hi, EncodedKey) <=> Between(v, lo, hi))
<1>1. lo # None =>
        /\ Apart(lo.v, v) => (Below(ScanKey(lo.v), ScanKey(v), lo.inclusive)
             <=> lo.v.int < v.int \/ (lo.inclusive /\ lo.v.int = v.int))
        /\ v.fam = "number" => (Below(EncodedKey(lo.v), EncodedKey(v), lo.inclusive)
             <=> lo.v.int < v.int \/ (lo.inclusive /\ lo.v.int = v.int))
  BY KeyOrder
<1>2. hi # None =>
        /\ Apart(v, hi.v) => (Below(ScanKey(v), ScanKey(hi.v), hi.inclusive)
             <=> v.int < hi.v.int \/ (hi.inclusive /\ v.int = hi.v.int))
        /\ v.fam = "number" => (Below(EncodedKey(v), EncodedKey(hi.v), hi.inclusive)
             <=> v.int < hi.v.int \/ (hi.inclusive /\ v.int = hi.v.int))
  BY KeyOrder
<1>3. \A x : Apart(v, x) => Apart(x, v)
  BY DEF Apart
<1> QED BY <1>1, <1>2, <1>3 DEF InBounds, Between, ApartFrom

\* nodes_by_property_range, edges_by_property_range
LEMMA RangesRight ==
  ASSUME IndexInv
  PROVE  RangesExact
<1>1. profile \in Profiles /\ \A j \in Items : rec[j].value \in profile.values \cup {None}
  BY DEF IndexInv, RecordsOK
<1>2. \A o : \A j \in Members(o) : j \in Items /\ (HasValue(rec[j].value) => rec[j].value \in profile.values)
  BY <1>1 DEF Members, Live, HasValue
<1> SUFFICES ASSUME NEW o \in profile.owners, NEW lo \in Ends, NEW hi \in Ends, lo # None \/ hi # None,
                    Answerable(o) \/ Opted(o)
    PROVE /\ ByRange(o, lo, hi) \subseteq Holding(o)
          /\ \A i \in Holding(o) : Answerable(o) \/ ApartFrom(rec[i].value, lo, hi) =>
                (i \in ByRange(o, lo, hi) <=> Between(rec[i].value, lo, hi))
  BY DEF RangesExact
<1>3. /\ lo # None => lo.v \in profile.values /\ HasValue(lo.v) /\ lo.inclusive \in BOOLEAN
      /\ hi # None => hi.v \in profile.values /\ HasValue(hi.v) /\ hi.inclusive \in BOOLEAN
  BY DEF Ends, Asked
<1>4. CASE Mixed(lo, hi)
  <2>1. ByRange(o, lo, hi) = {}
    BY <1>4 DEF ByRange
  <2>2. lo # None /\ hi # None /\ lo.v.fam # hi.v.fam
    BY <1>4 DEF Mixed
  <2>3. \A v : ~Between(v, lo, hi)
    BY <2>2 DEF Between
  <2> QED BY <2>1, <2>3
<1>5. CASE ~Mixed(lo, hi)
  <2> DEFINE F == Family(lo, hi)
  <2>1. /\ lo # None => lo.v.fam = F
        /\ hi # None => hi.v.fam = F
    BY <1>5 DEF Mixed, Family
  <2>2. F \in {"number", "string"}
    <3>1. /\ lo # None => lo.v.fam \in {"number", "string"}
          /\ hi # None => hi.v.fam \in {"number", "string"}
      BY <1>1, <1>3, EncodeIs
    <3> QED BY <2>1, <3>1
  <2> HIDE DEF F
  <2>3. ASSUME NEW v, Between(v, lo, hi) PROVE v.fam = F
    BY <2>1, <2>3 DEF Between
  <2>4. ASSUME NEW i \in Holding(o), rec[i].value.fam = F
        PROVE  /\ ApartFrom(rec[i].value, lo, hi) =>
                    (InBounds(ScanKey(rec[i].value), lo, hi, ScanKey) <=> Between(rec[i].value, lo, hi))
               /\ F = "number" => (InBounds(EncodedKey(rec[i].value), lo, hi, EncodedKey)
                                     <=> Between(rec[i].value, lo, hi))
    <3>1. rec[i].value \in profile.values /\ HasValue(rec[i].value)
      BY <1>2 DEF Holding
    <3> QED BY <1>1, <1>3, <2>1, <2>4, <3>1, BoundsOrder
  <2>5. RangeOfScan(o, lo, hi) =
          {i \in Holding(o) : rec[i].value.fam = F /\ InBounds(ScanKey(rec[i].value), lo, hi, ScanKey)}
    <3>1. \A i \in Members(o) : rec[i].value # None /\ rec[i].value.fam = F => i \in Holding(o)
      BY <2>2 DEF Holding, HasValue, Null
    <3>2. \A i \in Holding(o) : i \in Members(o) /\ rec[i].value # None
      BY DEF Holding, HasValue
    <3> QED BY <3>1, <3>2 DEF RangeOfScan, F
  <2>6. ASSUME F = "string" \/ Opted(o)
        PROVE  /\ ByRange(o, lo, hi) \subseteq Holding(o)
               /\ \A i \in Holding(o) : ApartFrom(rec[i].value, lo, hi) =>
                     (i \in ByRange(o, lo, hi) <=> Between(rec[i].value, lo, hi))
    <3>1. ByRange(o, lo, hi) = RangeOfScan(o, lo, hi)
      BY <1>5, <2>6 DEF ByRange, F, Opted
    <3> QED BY <2>3, <2>4, <2>5, <3>1
  <2>7. ASSUME F = "string", NEW i \in Holding(o) PROVE ApartFrom(rec[i].value, lo, hi)
    BY <2>1, <2>7 DEF ApartFrom, Apart
  <2>8. ASSUME F = "number", Answerable(o)
        PROVE  /\ ByRange(o, lo, hi) \subseteq Holding(o)
               /\ \A i \in Holding(o) : i \in ByRange(o, lo, hi) <=> Between(rec[i].value, lo, hi)
    <3>1. o \in Owners /\ o \notin orphaned /\ IndexedFor(o) /\ ~(o \in off /\ ~Declared(o))
      BY <2>8, ProfileIs DEF Answerable, IndexedFor, AutoIndexed
    <3>2. ByRange(o, lo, hi) = RangeOfIndex(o, lo, hi)
      BY <1>5, <2>8, <3>1 DEF ByRange, F
    <3>3. ASSUME NEW i \in RangeOfIndex(o, lo, hi)
          PROVE i \in Holding(o) /\ rec[i].value.fam = F /\ InBounds(EncodedKey(rec[i].value), lo, hi, EncodedKey)
      <4>1. PICK x \in entries : x[1] = o /\ x[3] = i /\ x[2][1] = F /\ InBounds(EntryKey(x[2]), lo, hi, EncodedKey)
        BY <3>3 DEF RangeOfIndex, F
      <4>2. Justified(x)
        BY <4>1 DEF IndexInv, EntriesOK
      <4>3. i \in Members(o) /\ Indexable(rec[i].value) /\ x[2] = Encode(rec[i].value)
        BY <2>8, <3>1, <4>1, <4>2 DEF Justified
      <4>4. Encode(rec[i].value)[1] = rec[i].value.fam /\ HasValue(rec[i].value)
        BY <1>1, <1>2, <4>3, IndexableIs DEF Indexable
      <4> QED BY <4>1, <4>3, <4>4 DEF Holding, EncodedKey
    <3>4. ASSUME NEW i \in Holding(o), rec[i].value.fam = F, InBounds(EncodedKey(rec[i].value), lo, hi, EncodedKey)
          PROVE i \in RangeOfIndex(o, lo, hi)
      <4>1. i \in Members(o) /\ i \in Items /\ rec[i].value \in profile.values /\ HasValue(rec[i].value)
        BY <1>2 DEF Holding
      <4>2. Indexable(rec[i].value)
        BY <1>1, <2>8, <3>4, <4>1, EncodeIs DEF Indexable, ValueOK
      <4>3. <<o, Encode(rec[i].value), i>> \in entries
        BY <3>1, <4>1, <4>2 DEF IndexInv, EntriesComplete
      <4>4. Encode(rec[i].value)[1] = F
        BY <1>1, <3>4, <4>1, <4>2, IndexableIs
      <4> QED BY <3>4, <4>1, <4>3, <4>4 DEF RangeOfIndex, EncodedKey, F
    <3>5. \A i : i \in RangeOfIndex(o, lo, hi) <=>
                   i \in Holding(o) /\ rec[i].value.fam = F /\ InBounds(EncodedKey(rec[i].value), lo, hi, EncodedKey)
      BY <3>3, <3>4
    <3> QED BY <2>3, <2>4, <2>8, <3>2, <3>5
  <2>9. CASE F = "string" \/ Opted(o)
    BY <2>2, <2>6, <2>7, <2>9 DEF Answerable, Opted, AutoIndexed
  <2>10. CASE F = "number" /\ Answerable(o)
    BY <2>8, <2>10
  <2> QED BY <2>2, <2>9, <2>10
<1> QED BY <1>4, <1>5

\* Equality and range lookups answer what the members hold in every reachable
\* state and for any constants: exactly through the index; through the scan of
\* an opted-out label, for every number that f64 tells from those asked for.
\* A label whose declaration was dropped while it was opted out is left out.
THEOREM LookupsAnswer == Spec => []LookupExact
<1>1. ASSUME IndexInv PROVE LookupExact
  BY <1>1, EqualsRight, RangesRight DEF LookupExact
<1> QED BY <1>1, IndexInvariance, PTL


-----------------------------------------------------------------------------
(* Sums over finite sets *)

\* Of some subsets of a finite set one has none of the others below it.
LEMMA SmallestSubset ==
  ASSUME NEW S, IsFiniteSet(S), NEW B, B \subseteq SUBSET S, B # {}
  PROVE  \E s \in B : \A t \in B : t \subseteq s => t = s
<1> DEFINE C == {Cardinality(s) : s \in B}
<1>1. \A s \in B : IsFiniteSet(s) /\ Cardinality(s) \in Nat
  BY FS_Subset, FS_CardinalityType
<1>2. C \subseteq Nat /\ C # {}
  BY <1>1
<1> HIDE DEF C
<1>3. PICK n \in C : \A m \in C : ~(<<m, n>> \in OpToRel(<, Nat))
  BY <1>2, WFMin, NatLessThanWellFounded
<1>4. \A m \in C : n <= m
  <2>1. SUFFICES ASSUME NEW m \in C, m < n PROVE FALSE
    BY <1>2
  <2>2. <<m, n>> \in Nat \X Nat
    BY <1>2
  <2>3. <<m, n>> \in OpToRel(<, Nat)
    BY <2>1, <2>2 DEF OpToRel
  <2> QED BY <1>3, <2>3
<1>5. PICK s \in B : n = Cardinality(s)
  BY DEF C
<1>6. \A t \in B : t \subseteq s => t = s
  <2>1. SUFFICES ASSUME NEW t \in B, t \subseteq s PROVE t = s
    OBVIOUS
  <2>2. Cardinality(t) <= Cardinality(s) /\ (Cardinality(s) = Cardinality(t) => s = t)
    BY <1>1, <2>1, FS_Subset
  <2>3. Cardinality(s) <= Cardinality(t)
    BY <1>4, <1>5 DEF C
  <2> QED BY <1>1, <2>2, <2>3
<1> QED BY <1>6

\* The element a fold takes first, and what is left.
First(s) == CHOOSE x \in s : TRUE
Rest(s) == s \ {First(s)}

\* A non-empty set is its chosen element and the rest.
LEMMA FirstIs ==
  ASSUME NEW s, s # {}
  PROVE  First(s) \in s /\ Rest(s) \subseteq s /\ Rest(s) # s /\ s = Rest(s) \cup {First(s)}
BY DEF First, Rest

\* The recursion that MapThenSumSet follows.
SumStep(f, g, s) == IF s = {} THEN 0 ELSE f[First(s)] + g[Rest(s)]
Sums(f, g, S) == g = [s \in SUBSET S |-> SumStep(f, g, s)]
SumOf(f, S) == CHOOSE g : Sums(f, g, S)

\* Total is the last value of its recursion over the subsets.
LEMMA TotalDef ==
  ASSUME NEW f, NEW S
  PROVE Total(f, S) = SumOf(f, S)[S]
BY DEF Total, MapThenSumSet, MapThenFoldSet, Sums, SumStep, SumOf, First, Rest

\* Two solutions of the recursion agree where both are defined: a smallest
\* subset on which they differ would have a smaller one.
LEMMA SumsAgree ==
  ASSUME NEW f, NEW S, IsFiniteSet(S), NEW T, NEW g, NEW h, Sums(f, g, S), Sums(f, h, T), S \subseteq T
  PROVE  g[S] = h[S]
<1> DEFINE B == {s \in SUBSET S : g[s] # h[s]}
<1>1. SUFFICES ASSUME B # {} PROVE FALSE
  OBVIOUS
<1>2. PICK s \in B : \A t \in B : t \subseteq s => t = s
  <2>1. B \subseteq SUBSET S
    OBVIOUS
  <2> HIDE DEF B
  <2> QED BY <1>1, <2>1, SmallestSubset
<1>3. s \subseteq S /\ g[s] # h[s] /\ g[s] = SumStep(f, g, s) /\ h[s] = SumStep(f, h, s)
  BY DEF Sums
<1>4. CASE s = {}
  BY <1>3, <1>4 DEF SumStep
<1>5. CASE s # {}
  <2>1. Rest(s) \subseteq s /\ Rest(s) # s
    BY <1>5, FirstIs
  <2>2. g[Rest(s)] = h[Rest(s)]
    BY <1>2, <1>3, <2>1
  <2> QED BY <1>3, <1>5, <2>2 DEF SumStep
<1> QED BY <1>4, <1>5

\* The recursion has a solution over every finite set.
LEMMA SumsExist ==
  ASSUME NEW f, NEW S, IsFiniteSet(S)
  PROVE  Sums(f, SumOf(f, S), S)
<1> DEFINE B == {s \in SUBSET S : ~Sums(f, SumOf(f, s), s)}
<1>1. SUFFICES ASSUME B # {} PROVE FALSE
  OBVIOUS
<1>2. PICK s \in B : \A t \in B : t \subseteq s => t = s
  <2>1. B \subseteq SUBSET S
    OBVIOUS
  <2> HIDE DEF B
  <2> QED BY <1>1, <2>1, SmallestSubset
<1>3. \A t \in SUBSET s : t # s => Sums(f, SumOf(f, t), t)
  BY <1>2
<1>4. IsFiniteSet(s)
  BY FS_Subset
<1> DEFINE Value(t) == IF t = {} THEN 0 ELSE f[First(t)] + SumOf(f, Rest(t))[Rest(t)]
           g == [t \in SUBSET s |-> Value(t)]
<1>5. ASSUME NEW t \in SUBSET s, t # s PROVE g[t] = SumOf(f, t)[t]
  <2>1. Sums(f, SumOf(f, t), t)
    BY <1>3, <1>5
  <2>2. SumOf(f, t)[t] = SumStep(f, SumOf(f, t), t)
    BY <2>1 DEF Sums
  <2>3. CASE t = {}
    BY <2>2, <2>3 DEF SumStep
  <2>4. CASE t # {}
    <3>1. Rest(t) \subseteq t /\ Rest(t) # t /\ IsFiniteSet(Rest(t)) /\ Rest(t) \subseteq s /\ Rest(t) # s
      BY <1>4, <1>5, <2>4, FirstIs, FS_Subset
    <3>2. SumOf(f, Rest(t))[Rest(t)] = SumOf(f, t)[Rest(t)]
      BY <1>3, <2>1, <3>1, SumsAgree
    <3> QED BY <2>2, <2>4, <3>2 DEF SumStep
  <2> QED BY <2>3, <2>4
<1>6. \A t \in SUBSET s : g[t] = SumStep(f, g, t)
  <2>1. SUFFICES ASSUME NEW t \in SUBSET s PROVE g[t] = SumStep(f, g, t)
    OBVIOUS
  <2>2. CASE t = {}
    BY <2>2 DEF SumStep
  <2>3. CASE t # {}
    <3>1. Rest(t) \in SUBSET s /\ Rest(t) # s
      BY <2>3, FirstIs
    <3>2. g[Rest(t)] = SumOf(f, Rest(t))[Rest(t)]
      BY <1>5, <3>1
    <3> QED BY <2>3, <3>2 DEF SumStep
  <2> QED BY <2>2, <2>3
<1>7. Sums(f, g, s)
  BY <1>6 DEF Sums
<1> HIDE DEF g
<1>8. Sums(f, SumOf(f, s), s)
  BY <1>7 DEF SumOf
<1> QED BY <1>8

\* A sum takes its first term and goes on with the rest.
LEMMA TotalStep ==
  ASSUME NEW f, NEW S, IsFiniteSet(S)
  PROVE  Total(f, S) = IF S = {} THEN 0 ELSE f[First(S)] + Total(f, Rest(S))
<1>1. Sums(f, SumOf(f, S), S)
  BY SumsExist
<1>2. SumOf(f, S)[S] = SumStep(f, SumOf(f, S), S)
  BY <1>1 DEF Sums
<1>3. CASE S = {}
  BY <1>2, <1>3, TotalDef DEF SumStep
<1>4. CASE S # {}
  <2>1. Rest(S) \subseteq S /\ IsFiniteSet(Rest(S))
    BY <1>4, FirstIs, FS_Subset
  <2>2. SumOf(f, Rest(S))[Rest(S)] = SumOf(f, S)[Rest(S)]
    BY <1>1, <2>1, SumsExist, SumsAgree
  <2> QED BY <1>2, <1>4, <2>2, TotalDef DEF SumStep
<1> QED BY <1>3, <1>4

\* Sums of numbers are numbers.
LEMMA TotalType ==
  ASSUME NEW f, NEW S, IsFiniteSet(S), \A x \in S : f[x] \in Nat
  PROVE  Total(f, S) \in Nat
<1> DEFINE B == {s \in SUBSET S : Total(f, s) \notin Nat}
<1>1. SUFFICES ASSUME B # {} PROVE FALSE
  OBVIOUS
<1>2. PICK s \in B : \A t \in B : t \subseteq s => t = s
  <2>1. B \subseteq SUBSET S
    OBVIOUS
  <2> HIDE DEF B
  <2> QED BY <1>1, <2>1, SmallestSubset
<1>3. IsFiniteSet(s)
  BY FS_Subset
<1>4. Total(f, s) = IF s = {} THEN 0 ELSE f[First(s)] + Total(f, Rest(s))
  BY <1>3, TotalStep
<1>5. s # {} => First(s) \in S /\ Rest(s) \in SUBSET S /\ Rest(s) \subseteq s /\ Rest(s) # s
  BY FirstIs
<1>6. s # {} => Total(f, Rest(s)) \in Nat
  BY <1>2, <1>5
<1> QED BY <1>2, <1>4, <1>5, <1>6

\* Whichever term is taken out, the rest of the sum is what remains.
LEMMA TotalRemove ==
  ASSUME NEW f, NEW S, IsFiniteSet(S), \A x \in S : f[x] \in Nat, NEW y \in S
  PROVE  Total(f, S) = f[y] + Total(f, S \ {y})
<1> DEFINE B == {s \in SUBSET S : \E x \in s : Total(f, s) # f[x] + Total(f, s \ {x})}
<1>1. SUFFICES ASSUME B # {} PROVE FALSE
  OBVIOUS
<1>2. PICK s \in B : \A t \in B : t \subseteq s => t = s
  <2>1. B \subseteq SUBSET S
    OBVIOUS
  <2> HIDE DEF B
  <2> QED BY <1>1, <2>1, SmallestSubset
<1>3. PICK x \in s : Total(f, s) # f[x] + Total(f, s \ {x})
  OBVIOUS
<1>4. First(s) \in s /\ Rest(s) \in SUBSET S /\ Rest(s) \subseteq s /\ Rest(s) # s
  BY FirstIs
<1>5. IsFiniteSet(s) /\ IsFiniteSet(Rest(s)) /\ IsFiniteSet(s \ {x}) /\ IsFiniteSet(Rest(s) \ {x})
  BY <1>4, FS_Subset
<1>6. Total(f, s) = f[First(s)] + Total(f, Rest(s))
  BY <1>5, TotalStep
<1>7. x # First(s)
  BY <1>3, <1>6 DEF Rest
<1>8. Total(f, Rest(s)) = f[x] + Total(f, Rest(s) \ {x})
  <2>1. Rest(s) \notin B /\ x \in Rest(s)
    BY <1>2, <1>4, <1>7 DEF Rest
  <2> QED BY <1>4, <2>1
<1>9. Total(f, s \ {x}) = f[First(s)] + Total(f, Rest(s) \ {x})
  <2>1. s \ {x} \in SUBSET S /\ s \ {x} \subseteq s /\ s \ {x} # s /\ First(s) \in s \ {x}
    BY <1>4, <1>7
  <2>2. s \ {x} \notin B
    BY <1>2, <2>1
  <2>3. Total(f, s \ {x}) = f[First(s)] + Total(f, (s \ {x}) \ {First(s)})
    BY <2>1, <2>2
  <2>4. (s \ {x}) \ {First(s)} = Rest(s) \ {x}
    BY DEF Rest
  <2> QED BY <2>3, <2>4
<1>10. Total(f, Rest(s) \ {x}) \in Nat /\ f[x] \in Nat /\ f[First(s)] \in Nat
  <2>1. \A z \in Rest(s) \ {x} : f[z] \in Nat
    BY <1>4
  <2> QED BY <1>4, <1>5, <2>1, TotalType
<1> QED BY <1>3, <1>6, <1>8, <1>9, <1>10

\* A sum depends on its terms only.
LEMMA TotalSame ==
  ASSUME NEW f, NEW g, NEW S, IsFiniteSet(S), \A x \in S : f[x] = g[x]
  PROVE  Total(f, S) = Total(g, S)
<1> DEFINE B == {s \in SUBSET S : Total(f, s) # Total(g, s)}
<1>1. SUFFICES ASSUME B # {} PROVE FALSE
  OBVIOUS
<1>2. PICK s \in B : \A t \in B : t \subseteq s => t = s
  <2>1. B \subseteq SUBSET S
    OBVIOUS
  <2> HIDE DEF B
  <2> QED BY <1>1, <2>1, SmallestSubset
<1>3. IsFiniteSet(s)
  BY FS_Subset
<1>4. /\ Total(f, s) = IF s = {} THEN 0 ELSE f[First(s)] + Total(f, Rest(s))
      /\ Total(g, s) = IF s = {} THEN 0 ELSE g[First(s)] + Total(g, Rest(s))
  BY <1>3, TotalStep
<1>5. s # {} => First(s) \in S /\ Rest(s) \in SUBSET S /\ Rest(s) \subseteq s /\ Rest(s) # s
  BY FirstIs
<1>6. s # {} => Total(f, Rest(s)) = Total(g, Rest(s))
  BY <1>2, <1>5
<1> QED BY <1>2, <1>4, <1>5, <1>6

-----------------------------------------------------------------------------
(* What a text index holds *)

\* Only strings have terms, and a document has a length.
LEMMA TermsAre ==
  ASSUME NEW lang \in Languages, NEW v
  PROVE  /\ DocLen(TermsOf(lang, v)) \in Nat
         /\ DocLen(TermsOf(lang, v)) > 0 => v # None /\ v.fam = "string"
<1>1. CASE v # None /\ v \in DOMAIN Tokens[lang]
  <2>1. v.fam = "string" /\ TokensOK(TermsOf(lang, v))
    BY <1>1, PropertyIndexAssumption DEF TermsOf
  <2>2. Total(TermsOf(lang, v), DOMAIN TermsOf(lang, v)) \in Nat
    BY <2>1, TotalType DEF TokensOK
  <2> QED BY <1>1, <2>1, <2>2 DEF DocLen
<1>2. CASE ~(v # None /\ v \in DOMAIN Tokens[lang])
  <2>1. TermsOf(lang, v) = <<>> /\ DOMAIN TermsOf(lang, v) = {}
    BY <1>2 DEF TermsOf
  <2>2. Total(TermsOf(lang, v), {}) = 0
    BY TotalStep, FS_EmptySet
  <2> QED BY <2>1, <2>2 DEF DocLen
<1> QED BY <1>1, <1>2

Lengths(lang, S, val) == [n \in S |-> DocLen(TermsOf(lang, val[n]))]

\* The documents and the postings of those nodes.
Rows(lang, D, val) == {<<n, DocLen(TermsOf(lang, val[n]))>> : n \in D}
Posted(lang, D, val) == UNION {Postings(TermsOf(lang, val[n]), n) : n \in D}

\* The full-text index of a label, field by field.
LEMMA TextOfIs ==
  ASSUME NEW lang, NEW S, NEW val, NEW D, D = Documents(lang, S, val)
  PROVE  TextOf(lang, S, val) =
           TextIndex(lang, Rows(lang, D, val), Posted(lang, D, val), Cardinality(D), Total(Lengths(lang, S, val), D))
<1>1. {<<n, Lengths(lang, S, val)[n]>> : n \in Documents(lang, S, val)} =
      Rows(lang, Documents(lang, S, val), val)
  BY DEF Lengths, Documents, Rows
<1> QED BY <1>1 DEF TextOf, Lengths, Posted

\* The fields of an index.
LEMMA TextIndexIs ==
  ASSUME NEW lang, NEW docs, NEW postings, NEW n, NEW sum, NEW x, x = TextIndex(lang, docs, postings, n, sum)
  PROVE  x.lang = lang /\ x.docs = docs /\ x.postings = postings /\ x.n = n /\ x.sum = sum
BY DEF TextIndex

\* The lengths of documents are numbers.
LEMMA DocumentsAre ==
  ASSUME NEW lang \in Languages, NEW S, IsFiniteSet(S), NEW val
  PROVE  /\ Documents(lang, S, val) \subseteq S
         /\ IsFiniteSet(Documents(lang, S, val)) /\ Cardinality(Documents(lang, S, val)) \in Nat
         /\ \A n \in S : Lengths(lang, S, val)[n] \in Nat
         /\ Total(Lengths(lang, S, val), Documents(lang, S, val)) \in Nat
<1>1. Documents(lang, S, val) \subseteq S
  BY DEF Documents
<1>2. IsFiniteSet(Documents(lang, S, val)) /\ Cardinality(Documents(lang, S, val)) \in Nat
  BY <1>1, FS_Subset, FS_CardinalityType
<1>3. \A n \in S : Lengths(lang, S, val)[n] \in Nat
  BY TermsAre DEF Lengths
<1>4. \A n \in Documents(lang, S, val) : Lengths(lang, S, val)[n] \in Nat
  BY <1>1, <1>3
<1> QED BY <1>1, <1>2, <1>3, <1>4, TotalType

\* Where the values are the same so is the index.
LEMMA TextOfSame ==
  ASSUME NEW lang, NEW S, IsFiniteSet(S), NEW val, NEW new, \A n \in S : new[n] = val[n]
  PROVE  TextOf(lang, S, new) = TextOf(lang, S, val)
<1>1. Documents(lang, S, new) = Documents(lang, S, val) /\ Lengths(lang, S, new) = Lengths(lang, S, val)
  BY DEF Documents, Lengths
<1>2. \A n \in Documents(lang, S, val) : new[n] = val[n]
  BY DEF Documents
<1>3. /\ Rows(lang, Documents(lang, S, val), new) = Rows(lang, Documents(lang, S, val), val)
      /\ Posted(lang, Documents(lang, S, val), new) = Posted(lang, Documents(lang, S, val), val)
  BY <1>2 DEF Rows, Posted
<1> QED BY <1>1, <1>3, TextOfIs

\* add_node_prop_fts_entry puts one node more.
LEMMA AddTextIs ==
  ASSUME NEW lang \in Languages, NEW S, IsFiniteSet(S), NEW val, NEW n, n \notin S,
         NEW new, \A m \in S : new[m] = val[m]
  PROVE  AddText(TextOf(lang, S, val), n, new[n]) = TextOf(lang, S \cup {n}, new)
<1> DEFINE x == TextOf(lang, S, val)
           y == TextOf(lang, S \cup {n}, new)
           D == Documents(lang, S, val)
           E == Documents(lang, S \cup {n}, new)
           len == DocLen(TermsOf(lang, new[n]))
<1>1. /\ x = TextIndex(lang, Rows(lang, D, val), Posted(lang, D, val), Cardinality(D), Total(Lengths(lang, S, val), D))
      /\ y = TextIndex(lang, Rows(lang, E, new), Posted(lang, E, new), Cardinality(E),
                       Total(Lengths(lang, S \cup {n}, new), E))
  BY TextOfIs
<1>2. IsFiniteSet(S \cup {n})
  BY FS_AddElement
<1>3. len \in Nat /\ D \subseteq S /\ IsFiniteSet(D) /\ Cardinality(D) \in Nat
  BY TermsAre, DocumentsAre
<1>4. E = IF len > 0 THEN D \cup {n} ELSE D
  BY <1>3 DEF Documents
<1>5. \A m \in D : new[m] = val[m]
  BY DEF Documents
<1> HIDE DEF D, E, x, y
<1>6. Total(Lengths(lang, S \cup {n}, new), D) = Total(Lengths(lang, S, val), D)
  <2>1. \A m \in D : Lengths(lang, S \cup {n}, new)[m] = Lengths(lang, S, val)[m]
    BY <1>3 DEF Lengths
  <2> QED BY <1>3, <2>1, TotalSame
<1>7. CASE len = 0
  <2>1. E = D
    BY <1>4, <1>7
  <2>2. Rows(lang, D, new) = Rows(lang, D, val) /\ Posted(lang, D, new) = Posted(lang, D, val)
    BY <1>5 DEF Rows, Posted
  <2>3. y = x
    BY <1>1, <1>6, <2>1, <2>2
  <2>4. x.lang = lang
    BY <1>1, TextIndexIs
  <2>5. AddText(x, n, new[n]) = x
    BY <1>7, <2>4 DEF AddText
  <2> QED BY <2>3, <2>5 DEF x, y
<1>8. CASE len > 0
  <2>1. E = D \cup {n} /\ n \notin D
    BY <1>3, <1>4, <1>8
  <2>2. Cardinality(E) = Cardinality(D) + 1
    BY <1>3, <2>1, FS_AddElement
  <2>3. Total(Lengths(lang, S \cup {n}, new), E) = Total(Lengths(lang, S, val), D) + len
    <3>1. IsFiniteSet(E) /\ n \in E /\ E \ {n} = D
      BY <1>3, <2>1, FS_AddElement
    <3>2. \A m \in E : Lengths(lang, S \cup {n}, new)[m] \in Nat
      BY <1>2, <1>3, <2>1, DocumentsAre
    <3>3. Lengths(lang, S \cup {n}, new)[n] = len
      BY DEF Lengths
    <3>4. Total(Lengths(lang, S \cup {n}, new), E) = len + Total(Lengths(lang, S \cup {n}, new), E \ {n})
      BY <3>1, <3>2, <3>3, TotalRemove
    <3>5. Total(Lengths(lang, S, val), D) \in Nat
      BY DocumentsAre DEF D
    <3> QED BY <1>3, <1>6, <3>1, <3>4, <3>5
  <2>4. Rows(lang, E, new) = Rows(lang, D, val) \cup {<<n, len>>}
    BY <1>5, <2>1 DEF Rows
  <2>5. Posted(lang, E, new) = Posted(lang, D, val) \cup Postings(TermsOf(lang, new[n]), n)
    <3>1. Posted(lang, E, new) = Posted(lang, D, new) \cup Postings(TermsOf(lang, new[n]), n)
      BY <2>1 DEF Posted
    <3>2. Posted(lang, D, new) = Posted(lang, D, val)
      BY <1>5 DEF Posted
    <3> QED BY <3>1, <3>2
  <2>6. /\ x.lang = lang /\ x.docs = Rows(lang, D, val) /\ x.postings = Posted(lang, D, val)
        /\ x.n = Cardinality(D) /\ x.sum = Total(Lengths(lang, S, val), D)
    BY <1>1, TextIndexIs
  <2>7. AddText(x, n, new[n]) = TextIndex(lang, x.docs \cup {<<n, len>>},
            x.postings \cup Postings(TermsOf(lang, new[n]), n), x.n + 1, x.sum + len)
    BY <1>3, <1>8, <2>6 DEF AddText
  <2>8. AddText(x, n, new[n]) = y
    BY <1>1, <2>2, <2>3, <2>4, <2>5, <2>6, <2>7
  <2> QED BY <2>8 DEF x, y
<1> QED BY <1>3, <1>7, <1>8

\* remove_node_prop_fts_entry takes one out.
LEMMA RemoveTextIs ==
  ASSUME NEW lang \in Languages, NEW S, IsFiniteSet(S), NEW val, NEW n \in S
  PROVE  RemoveText(TextOf(lang, S, val), n, val[n]) = TextOf(lang, S \ {n}, val)
<1> DEFINE x == TextOf(lang, S, val)
           y == TextOf(lang, S \ {n}, val)
           D == Documents(lang, S, val)
           E == Documents(lang, S \ {n}, val)
           len == DocLen(TermsOf(lang, val[n]))
           doc == {d \in x.docs : d[1] = n}
<1>1. /\ x = TextIndex(lang, Rows(lang, D, val), Posted(lang, D, val), Cardinality(D), Total(Lengths(lang, S, val), D))
      /\ y = TextIndex(lang, Rows(lang, E, val), Posted(lang, E, val), Cardinality(E),
                       Total(Lengths(lang, S \ {n}, val), E))
  BY TextOfIs
<1>2. /\ D \subseteq S /\ IsFiniteSet(D) /\ Cardinality(D) \in Nat /\ len \in Nat
      /\ \A m \in S : Lengths(lang, S, val)[m] \in Nat
      /\ Total(Lengths(lang, S, val), D) \in Nat
  BY TermsAre, DocumentsAre
<1>3. E = D \ {n} /\ (n \in D <=> len > 0)
  BY DEF Documents
<1> HIDE DEF D, E, x, y
<1>4. IsFiniteSet(S \ {n}) /\ IsFiniteSet(E) /\ E \subseteq S \ {n}
  BY <1>2, <1>3, FS_RemoveElement
<1>5. Total(Lengths(lang, S \ {n}, val), E) = Total(Lengths(lang, S, val), E)
  <2>1. \A m \in E : Lengths(lang, S \ {n}, val)[m] = Lengths(lang, S, val)[m]
    BY <1>4 DEF Lengths
  <2> QED BY <1>4, <2>1, TotalSame
<1>6. /\ x.lang = lang /\ x.docs = Rows(lang, D, val) /\ x.postings = Posted(lang, D, val)
      /\ x.n = Cardinality(D) /\ x.sum = Total(Lengths(lang, S, val), D)
  BY <1>1, TextIndexIs
<1>7. doc = IF n \in D THEN {<<n, len>>} ELSE {}
  BY <1>6 DEF Rows
<1> HIDE DEF doc
<1>9. CASE n \notin D
  <2>1. E = D /\ doc = {}
    BY <1>3, <1>7, <1>9
  <2>2. y = x
    BY <1>1, <1>5, <2>1
  <2>3. RemoveText(x, n, val[n]) = x
    BY <2>1 DEF RemoveText, doc
  <2> QED BY <2>2, <2>3 DEF x, y
<1>8. CASE n \in D
  <2>1. doc = {<<n, len>>} /\ val[n] # None /\ val[n].fam = "string"
    BY <1>3, <1>7, <1>8, TermsAre
  <2>2. (CHOOSE d \in doc : TRUE) = <<n, len>>
    BY <2>1
  <2>3. Cardinality(E) = Cardinality(D) - 1 /\ Cardinality(D) # 0
    BY <1>2, <1>3, <1>8, FS_RemoveElement, FS_EmptySet
  <2>4. Total(Lengths(lang, S, val), D) = len + Total(Lengths(lang, S, val), E) /\ Total(Lengths(lang, S, val), E) \in Nat
    <3>1. \A m \in D : Lengths(lang, S, val)[m] \in Nat
      BY <1>2
    <3>2. Lengths(lang, S, val)[n] = len
      BY DEF Lengths
    <3>3. Total(Lengths(lang, S, val), D) = len + Total(Lengths(lang, S, val), D \ {n})
      BY <1>2, <1>8, <3>1, <3>2, TotalRemove
    <3>4. \A m \in E : Lengths(lang, S, val)[m] \in Nat
      BY <1>2, <1>3
    <3> QED BY <1>3, <1>4, <3>3, <3>4, TotalType
  <2>5. Rows(lang, E, val) = x.docs \ doc
    BY <1>3, <1>6, <2>1 DEF Rows
  <2>6. Posted(lang, E, val) = x.postings \ Postings(TermsOf(lang, val[n]), n)
    <3>1. \A m \in E : \A p : p \in Postings(TermsOf(lang, val[m]), m) => p \notin Postings(TermsOf(lang, val[n]), n)
      BY <1>3 DEF Postings
    <3>2. \A p : p \in Posted(lang, E, val) => p \notin Postings(TermsOf(lang, val[n]), n)
      BY <3>1 DEF Posted
    <3>3. Posted(lang, D, val) = Posted(lang, E, val) \cup Postings(TermsOf(lang, val[n]), n)
      BY <1>3, <1>8 DEF Posted
    <3> QED BY <1>6, <3>2, <3>3
  <2>7. RemoveText(x, n, val[n]) =
          TextIndex(lang, x.docs \ doc, x.postings \ Postings(TermsOf(lang, val[n]), n),
                    IF x.n = 0 THEN 0 ELSE x.n - 1, IF x.sum < len THEN 0 ELSE x.sum - len)
    BY <1>6, <2>1, <2>2 DEF RemoveText, doc
  <2>8. /\ (IF x.sum < len THEN 0 ELSE x.sum - len) = Total(Lengths(lang, S \ {n}, val), E)
        /\ (IF x.n = 0 THEN 0 ELSE x.n - 1) = Cardinality(E)
    BY <1>2, <1>5, <1>6, <2>3, <2>4
  <2>9. RemoveText(x, n, val[n]) = y
    BY <1>1, <2>5, <2>6, <2>7, <2>8
  <2> QED BY <2>9 DEF x, y
<1> QED BY <1>8, <1>9

\* create_node_text_index_impl adds the nodes one by one: the recursion of its
\* fold, and that a function satisfies it.
TextStepOf(lang, g, s) == IF s = {} THEN EmptyText(lang) ELSE AddText(g[Rest(s)], First(s), rec[First(s)].value)
Fills(lang, g, S) == g = [s \in SUBSET S |-> TextStepOf(lang, g, s)]
FillOf(lang, S) == CHOOSE g : Fills(lang, g, S)

\* AllTexts is the last value of its recursion over the subsets.
LEMMA AllTextsDef ==
  ASSUME NEW lang, NEW S
  PROVE AllTexts(lang, S) = FillOf(lang, S)[S]
BY DEF AllTexts, FoldSet, MapThenFoldSet, Fills, FillOf, TextStepOf, First, Rest

\* Two ways to fill an index agree where both are defined.
LEMMA FillsAgree ==
  ASSUME NEW lang, NEW S, IsFiniteSet(S), NEW T, NEW g, NEW h, Fills(lang, g, S), Fills(lang, h, T), S \subseteq T
  PROVE  g[S] = h[S]
<1> DEFINE B == {s \in SUBSET S : g[s] # h[s]}
<1>1. SUFFICES ASSUME B # {} PROVE FALSE
  OBVIOUS
<1>2. PICK s \in B : \A t \in B : t \subseteq s => t = s
  <2>1. B \subseteq SUBSET S
    OBVIOUS
  <2> HIDE DEF B
  <2> QED BY <1>1, <2>1, SmallestSubset
<1>3. s \subseteq S /\ g[s] # h[s] /\ g[s] = TextStepOf(lang, g, s) /\ h[s] = TextStepOf(lang, h, s)
  BY DEF Fills
<1>4. CASE s = {}
  BY <1>3, <1>4 DEF TextStepOf
<1>5. CASE s # {}
  <2>1. Rest(s) \subseteq s /\ Rest(s) # s
    BY <1>5, FirstIs
  <2>2. g[Rest(s)] = h[Rest(s)]
    BY <1>2, <1>3, <2>1
  <2> QED BY <1>3, <1>5, <2>2 DEF TextStepOf
<1> QED BY <1>4, <1>5

\* Every finite set of members can be filled in.
LEMMA FillsExist ==
  ASSUME NEW lang, NEW S, IsFiniteSet(S)
  PROVE  Fills(lang, FillOf(lang, S), S)
<1> DEFINE B == {s \in SUBSET S : ~Fills(lang, FillOf(lang, s), s)}
<1>1. SUFFICES ASSUME B # {} PROVE FALSE
  OBVIOUS
<1>2. PICK s \in B : \A t \in B : t \subseteq s => t = s
  <2>1. B \subseteq SUBSET S
    OBVIOUS
  <2> HIDE DEF B
  <2> QED BY <1>1, <2>1, SmallestSubset
<1>3. \A t \in SUBSET s : t # s => Fills(lang, FillOf(lang, t), t)
  BY <1>2
<1>4. IsFiniteSet(s)
  BY FS_Subset
<1> DEFINE Value(t) == IF t = {} THEN EmptyText(lang)
                       ELSE AddText(FillOf(lang, Rest(t))[Rest(t)], First(t), rec[First(t)].value)
           g == [t \in SUBSET s |-> Value(t)]
<1>5. ASSUME NEW t \in SUBSET s, t # s PROVE g[t] = FillOf(lang, t)[t]
  <2>1. Fills(lang, FillOf(lang, t), t)
    BY <1>3, <1>5
  <2>2. FillOf(lang, t)[t] = TextStepOf(lang, FillOf(lang, t), t)
    BY <2>1 DEF Fills
  <2>3. CASE t = {}
    BY <2>2, <2>3 DEF TextStepOf
  <2>4. CASE t # {}
    <3>1. Rest(t) \subseteq t /\ Rest(t) # t /\ IsFiniteSet(Rest(t)) /\ Rest(t) \subseteq s /\ Rest(t) # s
      BY <1>4, <1>5, <2>4, FirstIs, FS_Subset
    <3>2. FillOf(lang, Rest(t))[Rest(t)] = FillOf(lang, t)[Rest(t)]
      BY <1>3, <2>1, <3>1, FillsAgree
    <3> QED BY <2>2, <2>4, <3>2 DEF TextStepOf
  <2> QED BY <2>3, <2>4
<1>6. \A t \in SUBSET s : g[t] = TextStepOf(lang, g, t)
  <2>1. SUFFICES ASSUME NEW t \in SUBSET s PROVE g[t] = TextStepOf(lang, g, t)
    OBVIOUS
  <2>2. CASE t = {}
    BY <2>2 DEF TextStepOf
  <2>3. CASE t # {}
    <3>1. Rest(t) \in SUBSET s /\ Rest(t) # s
      BY <2>3, FirstIs
    <3>2. g[Rest(t)] = FillOf(lang, Rest(t))[Rest(t)]
      BY <1>5, <3>1
    <3> QED BY <2>3, <3>2 DEF TextStepOf
  <2> QED BY <2>2, <2>3
<1>7. Fills(lang, g, s)
  BY <1>6 DEF Fills
<1> HIDE DEF g
<1>8. Fills(lang, FillOf(lang, s), s)
  BY <1>7 DEF FillOf
<1> QED BY <1>8

\* Filling an index adds one member to the index of the others.
LEMMA AllTextsStep ==
  ASSUME NEW lang, NEW S, IsFiniteSet(S)
  PROVE  AllTexts(lang, S) = IF S = {} THEN EmptyText(lang)
                             ELSE AddText(AllTexts(lang, Rest(S)), First(S), rec[First(S)].value)
<1>1. Fills(lang, FillOf(lang, S), S)
  BY FillsExist
<1>2. FillOf(lang, S)[S] = TextStepOf(lang, FillOf(lang, S), S)
  BY <1>1 DEF Fills
<1>3. CASE S = {}
  BY <1>2, <1>3, AllTextsDef DEF TextStepOf
<1>4. CASE S # {}
  <2>1. Rest(S) \subseteq S /\ IsFiniteSet(Rest(S))
    BY <1>4, FirstIs, FS_Subset
  <2>2. FillOf(lang, Rest(S))[Rest(S)] = FillOf(lang, S)[Rest(S)]
    BY <1>1, <2>1, FillsExist, FillsAgree
  <2> QED BY <1>2, <1>4, <2>2, AllTextsDef DEF TextStepOf
<1> QED BY <1>3, <1>4

\* The backfill of a new text index holds every member's text, in whatever
\* order the members are visited.
LEMMA BackfillIs ==
  ASSUME NEW lang \in Languages, NEW S, IsFiniteSet(S), S \subseteq Items
  PROVE  AllTexts(lang, S) = TextOf(lang, S, Held)
<1> DEFINE B == {s \in SUBSET S : AllTexts(lang, s) # TextOf(lang, s, Held)}
<1>1. SUFFICES ASSUME B # {} PROVE FALSE
  OBVIOUS
<1>2. PICK s \in B : \A t \in B : t \subseteq s => t = s
  <2>1. B \subseteq SUBSET S
    OBVIOUS
  <2> HIDE DEF B
  <2> QED BY <1>1, <2>1, SmallestSubset
<1>3. s \in SUBSET S /\ IsFiniteSet(s) /\ AllTexts(lang, s) # TextOf(lang, s, Held)
  BY FS_Subset
<1>4. CASE s = {}
  <2>1. AllTexts(lang, s) = EmptyText(lang)
    BY <1>3, <1>4, AllTextsStep
  <2>2. Documents(lang, s, Held) = {}
    BY <1>4 DEF Documents
  <2>3. /\ Rows(lang, {}, Held) = {} /\ Posted(lang, {}, Held) = {}
        /\ Cardinality({}) = 0 /\ Total(Lengths(lang, s, Held), {}) = 0
    BY FS_EmptySet, TotalStep DEF Rows, Posted
  <2>4. TextOf(lang, s, Held) = EmptyText(lang)
    BY <2>2, <2>3, TextOfIs DEF EmptyText
  <2> QED BY <1>3, <2>1, <2>4
<1>5. CASE s # {}
  <2> DEFINE n == First(s)
             r == Rest(s)
  <2>1. r \subseteq s /\ r # s /\ s = r \cup {n} /\ n \notin r /\ IsFiniteSet(r) /\ n \in Items
    BY <1>3, <1>5, FirstIs, FS_Subset DEF Rest
  <2>2. AllTexts(lang, r) = TextOf(lang, r, Held)
    BY <1>2, <1>3, <2>1
  <2>3. Held[n] = rec[n].value
    BY <2>1 DEF Held
  <2>4. AllTexts(lang, s) = AddText(AllTexts(lang, r), n, rec[n].value)
    BY <1>3, <1>5, AllTextsStep
  <2> HIDE DEF n, r
  <2>5. AddText(TextOf(lang, r, Held), n, Held[n]) = TextOf(lang, s, Held)
    BY <2>1, AddTextIs
  <2> QED BY <1>3, <2>2, <2>3, <2>4, <2>5
<1> QED BY <1>4, <1>5

-----------------------------------------------------------------------------
(* Text indexes under writes *)

TextOK(l) == fts[l] # None => fts[l].lang \in Languages /\ fts[l] = TextOf(fts[l].lang, Members(l), Held)
TextsOK == fts = [l \in Labels |-> fts[l]] /\ \A l \in Labels : TextOK(l)

\* The members of a label are nodes.
LEMMA LabelMembers ==
  ASSUME IndexInv, NEW l \in Labels
  PROVE  Members(l) \subseteq profile.nodes /\ Members(l) \subseteq Items /\ IsFiniteSet(Members(l))
<1>1. ProfileOK(profile) /\ Labels \cap Types = {}
  BY NoneApart DEF IndexInv, RecordsOK
<1>2. ASSUME NEW i \in Members(l) PROVE i \in profile.nodes
  <2>1. i \in Items /\ l \in OwnersOf(i)
    BY <1>2 DEF Members, Live, IndexInv, RecordsOK
  <2> QED BY <1>1, <2>1 DEF Items, OwnersOf, ProfileOK
<1>3. IsFiniteSet(Members(l))
  BY <1>1, <1>2, FS_Subset DEF ProfileOK
<1> QED BY <1>2, <1>3 DEF Items

\* What a write may do to one text index: nothing, or put, take away or
\* replace the text of one node.
Kept(l) ==
    /\ fts'[l] = fts[l]
    /\ Members(l)' = Members(l) /\ \A m \in Members(l) : Held'[m] = Held[m]
Added(l, n) ==
    /\ fts'[l] = IF fts[l] # None THEN AddText(fts[l], n, Held'[n]) ELSE fts[l]
    /\ n \notin Members(l)
    /\ Members(l)' = Members(l) \cup {n} /\ \A m \in Members(l) : Held'[m] = Held[m]
Removed(l, n) ==
    /\ fts'[l] = IF fts[l] # None THEN RemoveText(fts[l], n, Held[n]) ELSE fts[l]
    /\ n \in Members(l)
    /\ Members(l)' = Members(l) \ {n} /\ \A m \in Members(l) \ {n} : Held'[m] = Held[m]
Replaced(l, n) ==
    /\ fts'[l] = IF fts[l] # None THEN AddText(RemoveText(fts[l], n, Held[n]), n, Held'[n]) ELSE fts[l]
    /\ n \in Members(l)
    /\ Members(l)' = Members(l) /\ \A m \in Members(l) \ {n} : Held'[m] = Held[m]

\* An index keeps its language.
LEMMA TextLang ==
  ASSUME NEW lang, NEW S, NEW val
  PROVE  TextOf(lang, S, val).lang = lang
BY TextOfIs, TextIndexIs

\* What a step does to one label: nothing, one member more, one fewer, or
\* one with another text.
LEMMA LabelStep ==
  ASSUME IndexInv, NEW l \in Labels, TextOK(l), NEW n, Kept(l) \/ Added(l, n) \/ Removed(l, n) \/ Replaced(l, n)
  PROVE  TextOK(l)'
<1>1. IsFiniteSet(Members(l))
  BY LabelMembers
<1>2. SUFFICES ASSUME fts'[l] # None
               PROVE  fts'[l].lang \in Languages /\ fts'[l] = TextOf(fts'[l].lang, Members(l)', Held')
  BY DEF TextOK
<1>3. fts[l] # None
  BY <1>2 DEF Kept, Added, Removed, Replaced
<1> DEFINE lang == fts[l].lang
           S == Members(l)
           S1 == Members(l)'
           val == Held
           val1 == Held'
<1>4. lang \in Languages /\ fts[l] = TextOf(lang, S, val)
  BY <1>3 DEF TextOK
<1>5. SUFFICES fts'[l] = TextOf(lang, S1, val1)
  BY <1>4, TextLang
<1> HIDE DEF lang, S, S1, val, val1
<1>6. CASE Kept(l)
  <2>1. fts'[l] = fts[l] /\ S1 = S /\ \A m \in S : val1[m] = val[m]
    BY <1>6 DEF Kept, S, S1, val, val1
  <2>2. TextOf(lang, S, val1) = TextOf(lang, S, val)
    BY <1>1, <2>1, TextOfSame DEF S
  <2> QED BY <1>4, <2>1, <2>2
<1>7. CASE Added(l, n)
  <2>1. fts'[l] = AddText(fts[l], n, val1[n]) /\ n \notin S /\ S1 = S \cup {n} /\ \A m \in S : val1[m] = val[m]
    BY <1>3, <1>7 DEF Added, S, S1, val, val1
  <2>2. AddText(TextOf(lang, S, val), n, val1[n]) = TextOf(lang, S \cup {n}, val1)
    BY <1>1, <1>4, <2>1, AddTextIs DEF S
  <2> QED BY <1>4, <2>1, <2>2
<1>8. CASE Removed(l, n)
  <2>1. fts'[l] = RemoveText(fts[l], n, val[n]) /\ n \in S /\ S1 = S \ {n} /\ \A m \in S \ {n} : val1[m] = val[m]
    BY <1>3, <1>8 DEF Removed, S, S1, val, val1
  <2>2. RemoveText(TextOf(lang, S, val), n, val[n]) = TextOf(lang, S \ {n}, val)
    BY <1>1, <1>4, <2>1, RemoveTextIs DEF S
  <2>3. IsFiniteSet(S \ {n})
    BY <1>1, FS_RemoveElement DEF S
  <2>4. TextOf(lang, S \ {n}, val1) = TextOf(lang, S \ {n}, val)
    BY <2>1, <2>3, TextOfSame
  <2> QED BY <1>4, <2>1, <2>2, <2>4
<1>9. CASE Replaced(l, n)
  <2>1. /\ fts'[l] = AddText(RemoveText(fts[l], n, val[n]), n, val1[n]) /\ n \in S /\ S1 = S
        /\ \A m \in S \ {n} : val1[m] = val[m]
    BY <1>3, <1>9 DEF Replaced, S, S1, val, val1
  <2>2. RemoveText(TextOf(lang, S, val), n, val[n]) = TextOf(lang, S \ {n}, val)
    BY <1>1, <1>4, <2>1, RemoveTextIs DEF S
  <2>3. IsFiniteSet(S \ {n}) /\ n \notin S \ {n} /\ (S \ {n}) \cup {n} = S
    BY <1>1, <2>1, FS_RemoveElement DEF S
  <2> DEFINE R == S \ {n}
  <2> HIDE DEF R
  <2>4. IsFiniteSet(R) /\ n \notin R /\ \A m \in R : val1[m] = val[m]
    BY <2>1, <2>3 DEF R
  <2>5. AddText(TextOf(lang, R, val), n, val1[n]) = TextOf(lang, R \cup {n}, val1)
    BY <1>4, <2>4, AddTextIs
  <2> QED BY <1>4, <2>1, <2>2, <2>3, <2>5 DEF R
<1> QED BY <1>6, <1>7, <1>8, <1>9

\* A write gives node or edge i the owners os and the value w, and the text
\* indexes follow its labels.
TextChange(l, i, os, w) ==
    LET old == rec[i].value
    IN \/ l \notin rec[i].owners /\ l \notin os /\ fts'[l] = fts[l]
       \/ l \in rec[i].owners /\ l \in os /\ w = old /\ fts'[l] = fts[l]
       \/ l \notin rec[i].owners /\ l \in os
          /\ fts'[l] = IF fts[l] # None THEN AddText(fts[l], i, w) ELSE fts[l]
       \/ l \in rec[i].owners /\ l \notin os
          /\ fts'[l] = IF fts[l] # None THEN RemoveText(fts[l], i, old) ELSE fts[l]
       \/ l \in rec[i].owners /\ l \in os
          /\ fts'[l] = IF fts[l] # None THEN AddText(RemoveText(fts[l], i, old), i, w) ELSE fts[l]

\* A step that writes one item, seen from every label.
LEMMA ItemText ==
  ASSUME IndexInv, TextsOK, NEW i \in Items, NEW os, NEW w, NEW state,
         profile' = profile, rec' = [rec EXCEPT ![i] = Record(state, os, w)], state # "live" => os = {},
         fts' = [l \in Labels |-> fts'[l]], \A l \in Labels : TextChange(l, i, os, w)
  PROVE  TextsOK'
<1>1. Items' = Items /\ rec = [j \in Items |-> rec[j]]
  BY DEF IndexInv, RecordsOK, Items
<1>2. rec'[i] = Record(state, os, w) /\ \A j \in Items \ {i} : rec'[j] = rec[j]
  BY <1>1
<1>3. rec'[i].state = state /\ rec'[i].owners = os /\ rec'[i].value = w
  BY <1>2 DEF Record
<1>4. /\ \A j \in Items \ {i} : Held'[j] = Held[j]
      /\ Held[i] = rec[i].value /\ Held'[i] = w
  BY <1>1, <1>2, <1>3 DEF Held
<1>5. ASSUME NEW l \in Labels PROVE TextOK(l)'
  <2>1. /\ \A j \in Items \ {i} : j \in Members(l)' <=> j \in Members(l)
        /\ i \in Members(l)' <=> l \in os
        /\ i \in Members(l) <=> l \in rec[i].owners
    BY <1>1, <1>2, <1>3 DEF Members, Live, IndexInv, RecordsOK
  <2>2. Members(l) \subseteq Items /\ Members(l)' \subseteq Items
    BY <1>1 DEF Members, Live
  <2>3. TextChange(l, i, os, w)
    OBVIOUS
  <2> DEFINE S == Members(l)
             S1 == Members(l)'
  <2> HIDE DEF S, S1
  <2>4. /\ l \notin rec[i].owners => i \notin S
        /\ l \in rec[i].owners => i \in S
        /\ (l \in rec[i].owners <=> l \in os) => S1 = S
        /\ l \notin rec[i].owners /\ l \in os => S1 = S \cup {i}
        /\ l \in rec[i].owners /\ l \notin os => S1 = S \ {i}
        /\ \A m \in S \ {i} : Held'[m] = Held[m]
    BY SMTT(60), <1>4, <2>1, <2>2 DEF S, S1
  <2>5. Kept(l) \/ Added(l, i) \/ Removed(l, i) \/ Replaced(l, i)
    <3>1. CASE l \notin rec[i].owners /\ l \notin os /\ fts'[l] = fts[l]
      BY <2>4, <3>1 DEF Kept, S, S1
    <3>2. CASE l \in rec[i].owners /\ l \in os /\ w = rec[i].value /\ fts'[l] = fts[l]
      BY <1>4, <2>4, <3>2 DEF Kept, S, S1
    <3>3. CASE l \notin rec[i].owners /\ l \in os
                 /\ fts'[l] = IF fts[l] # None THEN AddText(fts[l], i, w) ELSE fts[l]
      BY <1>4, <2>4, <3>3 DEF Added, S, S1
    <3>4. CASE l \in rec[i].owners /\ l \notin os
                 /\ fts'[l] = IF fts[l] # None THEN RemoveText(fts[l], i, rec[i].value) ELSE fts[l]
      BY <1>4, <2>4, <3>4 DEF Removed, S, S1
    <3>5. CASE l \in rec[i].owners /\ l \in os
                 /\ fts'[l] = IF fts[l] # None THEN AddText(RemoveText(fts[l], i, rec[i].value), i, w) ELSE fts[l]
      BY <1>4, <2>4, <3>5 DEF Replaced, S, S1
    <3> QED BY <2>3, <3>1, <3>2, <3>3, <3>4, <3>5 DEF TextChange
  <2>6. TextOK(l)
    BY DEF TextsOK
  <2> QED BY <2>5, <2>6, LabelStep
<1> QED BY <1>5 DEF TextsOK

\* add_node_inner, add_edge_inner
LEMMA AddNodeText ==
  ASSUME IndexInv, TextsOK, NEW n \in profile.nodes, NEW ls \in SUBSET profile.labels, NEW v \in profile.values,
         AddNode(n, ls, v)
  PROVE  TextsOK'
<1>1. n \in Items /\ rec[n].owners = {}
  BY ProfileIs DEF AddNode, IndexInv, RecordsOK
<1>2. /\ profile' = profile /\ rec' = [rec EXCEPT ![n] = Record("live", ls, v)]
      /\ fts' = TextAdded(ls, n, v)
  BY DEF AddNode
<1>3. fts' = [l \in Labels |-> fts'[l]]
  BY <1>2 DEF TextAdded
<1>4. \A l \in Labels : TextChange(l, n, ls, v)
  BY <1>1, <1>2 DEF TextAdded, TextChange
<1> QED BY <1>1, <1>2, <1>3, <1>4, ItemText

\* A new edge is a member of no label (Graph::add_edge).
LEMMA AddEdgeText ==
  ASSUME IndexInv, TextsOK, NEW e \in profile.edges, NEW t \in profile.types, NEW v \in profile.values,
         AddEdge(e, t, v)
  PROVE  TextsOK'
<1>1. e \in Items /\ rec[e].owners = {} /\ t \notin Labels
  BY ProfileIs, NoneApart DEF AddEdge, IndexInv, RecordsOK
<1>2. profile' = profile /\ rec' = [rec EXCEPT ![e] = Record("live", {t}, v)] /\ fts' = fts
  BY DEF AddEdge
<1>3. fts' = [l \in Labels |-> fts'[l]]
  BY <1>2 DEF TextsOK
<1>4. \A l \in Labels : TextChange(l, e, {t}, v)
  BY <1>1, <1>2 DEF TextChange
<1> QED BY <1>1, <1>2, <1>3, <1>4, ItemText

\* update_node_impl, update_edge_impl
LEMMA UpdateText ==
  ASSUME IndexInv, TextsOK, NEW i \in Items, NEW v \in profile.values, Update(i, v)
  PROVE  TextsOK'
<1> DEFINE os == rec[i].owners
           s == rec[i].state
<1>1. /\ profile' = profile /\ s = "live" /\ fts' = TextReplaced(os, i, rec[i].value, v)
  BY DEF Update, Live
<1>2. rec' = [rec EXCEPT ![i] = Record(s, os, v)]
  BY RecordExcept DEF Update
<1>3. fts' = [l \in Labels |-> fts'[l]]
  BY <1>1 DEF TextReplaced
<1>4. \A l \in Labels : TextChange(l, i, os, v)
  BY <1>1 DEF TextReplaced, TextChange
<1> HIDE DEF os, s
<1> QED BY <1>1, <1>2, <1>3, <1>4, ItemText

\* add_label_inner, remove_label_inner
LEMMA AddLabelText ==
  ASSUME IndexInv, TextsOK, NEW n \in profile.nodes, NEW k \in profile.labels, AddLabel(n, k)
  PROVE  TextsOK'
<1> DEFINE os == rec[n].owners \cup {k}
           s == rec[n].state
           v == rec[n].value
<1>1. /\ n \in Items /\ profile' = profile /\ s = "live" /\ k \notin rec[n].owners
      /\ fts' = TextAdded({k}, n, v)
  BY ProfileIs DEF AddLabel, Live
<1>2. rec' = [rec EXCEPT ![n] = Record(s, os, v)]
  BY <1>1, RecordExcept DEF AddLabel
<1>3. fts' = [l \in Labels |-> fts'[l]]
  BY <1>1 DEF TextAdded
<1>4. \A l \in Labels : TextChange(l, n, os, v)
  BY <1>1 DEF TextAdded, TextChange
<1> HIDE DEF os, s, v
<1> QED BY <1>1, <1>2, <1>3, <1>4, ItemText

\* A label taken off a node takes its text out of the index (remove_label).
LEMMA RemoveLabelText ==
  ASSUME IndexInv, TextsOK, NEW n \in profile.nodes, NEW k \in profile.labels, RemoveLabel(n, k)
  PROVE  TextsOK'
<1> DEFINE os == rec[n].owners \ {k}
           s == rec[n].state
           v == rec[n].value
<1>1. /\ n \in Items /\ profile' = profile /\ s = "live" /\ k \in rec[n].owners
      /\ fts' = TextRemoved({k}, n, v)
  BY ProfileIs DEF RemoveLabel, Live
<1>2. rec' = [rec EXCEPT ![n] = Record(s, os, v)]
  BY <1>1, RecordExcept DEF RemoveLabel
<1>3. fts' = [l \in Labels |-> fts'[l]]
  BY <1>1 DEF TextRemoved
<1>4. \A l \in Labels : TextChange(l, n, os, v)
  BY <1>1 DEF TextRemoved, TextChange
<1> HIDE DEF os, s, v
<1> QED BY <1>1, <1>2, <1>3, <1>4, ItemText

\* delete_edge_inner: an edge has no label.
LEMMA DeleteEdgeText ==
  ASSUME IndexInv, TextsOK, NEW e \in profile.edges, DeleteEdge(e)
  PROVE  TextsOK'
<1>1. e \in Items /\ rec[e].owners \cap Labels = {}
  <2>1. e \in Items /\ OwnersOf(e) = profile.types /\ profile.types \subseteq Types /\ Labels \cap Types = {}
    BY ProfileIs, NoneApart
  <2>2. rec[e].owners \subseteq OwnersOf(e)
    BY <2>1 DEF IndexInv, RecordsOK
  <2> QED BY <2>1, <2>2
<1>2. profile' = profile /\ rec' = [rec EXCEPT ![e] = Record("gone", {}, None)] /\ fts' = fts
  BY DEF DeleteEdge, Gone
<1>3. fts' = [l \in Labels |-> fts'[l]]
  BY <1>2 DEF TextsOK
<1>4. \A l \in Labels : TextChange(l, e, {}, None)
  BY <1>1, <1>2 DEF TextChange
<1> QED BY <1>1, <1>2, <1>3, <1>4, ItemText

\* delete_node_inner: of the items that go only the node has texts.
LEMMA DeleteNodeText ==
  ASSUME IndexInv, TextsOK, NEW n \in profile.nodes, DeleteNode(n)
  PROVE  TextsOK'
<1> DEFINE gone == {n} \cup {e \in profile.edges \cap Live : n \in EndsOf[e]}
<1>1. /\ profile' = profile /\ n \in Live
      /\ rec' = [i \in DOMAIN rec |-> IF i \in gone THEN Gone ELSE rec[i]]
      /\ fts' = TextRemoved(rec[n].owners, n, rec[n].value)
  BY DEF DeleteNode
<1>2. Items' = Items /\ DOMAIN rec = Items /\ n \in Items /\ n \in gone /\ gone \subseteq {n} \cup profile.edges
  BY <1>1, ProfileIs DEF IndexInv, RecordsOK, Items
<1> HIDE DEF gone
<1>3. /\ \A j \in Items : rec'[j] = IF j \in gone THEN Gone ELSE rec[j]
      /\ Gone.state # "live"
  BY <1>1, <1>2 DEF Gone, Record
<1>4. fts' = [l \in Labels |-> fts'[l]]
  BY <1>1 DEF TextRemoved
<1>5. ASSUME NEW l \in Labels PROVE TextOK(l)'
  <2>1. Members(l) \subseteq profile.nodes /\ Members(l) \subseteq Items /\ profile.nodes \cap profile.edges = {}
    BY LabelMembers, NoneApart DEF IndexInv, RecordsOK, ProfileOK
  <2>2. \A m \in Members(l) : m \in gone => m = n
    BY <1>2, <2>1
  <2>3. /\ Members(l)' = Members(l) \ {n}
        /\ \A m \in Members(l) \ {n} : Held'[m] = Held[m]
        /\ Held[n] = rec[n].value
    <3>1. \A m \in Members(l) \ {n} : rec'[m] = rec[m]
      BY <1>3, <2>1, <2>2
    <3>2. Members(l)' = Members(l) \ {n}
      <4>1. ASSUME NEW m \in Members(l)' PROVE m \in Members(l) \ {n}
        <5>1. m \in Items /\ rec'[m].state = "live" /\ l \in rec'[m].owners
          BY <1>2, <4>1 DEF Members, Live
        <5>2. m \notin gone /\ rec'[m] = rec[m]
          BY <1>3, <5>1
        <5> QED BY <1>2, <5>1, <5>2 DEF Members, Live
      <4>2. ASSUME NEW m \in Members(l) \ {n} PROVE m \in Members(l)'
        BY <1>2, <3>1, <4>2 DEF Members, Live
      <4> QED BY <4>1, <4>2
    <3> QED BY <1>2, <2>1, <3>1, <3>2 DEF Held
  <2>4. n \in Members(l) <=> l \in rec[n].owners
    BY <1>1, <1>2 DEF Members
  <2>5. Kept(l) \/ Removed(l, n)
    <3>1. CASE l \in rec[n].owners
      BY <1>1, <2>3, <2>4, <3>1 DEF Removed, TextRemoved
    <3>2. CASE l \notin rec[n].owners
      <4>1. fts'[l] = fts[l]
        BY <1>1, <3>2 DEF TextRemoved
      <4>2. n \notin Members(l)
        BY <2>4, <3>2
      <4> DEFINE S == Members(l)
                 S1 == Members(l)'
      <4>3. S1 = S \ {n} /\ n \notin S /\ \A m \in S \ {n} : Held'[m] = Held[m]
        BY <2>3, <4>2
      <4> HIDE DEF S, S1
      <4>4. S1 = S /\ \A m \in S : Held'[m] = Held[m]
        BY <4>3
      <4> QED BY <4>1, <4>4 DEF Kept, S, S1
    <3> QED BY <3>1, <3>2
  <2>6. TextOK(l)
    BY DEF TextsOK
  <2> QED BY <2>5, <2>6, LabelStep
<1> QED BY <1>4, <1>5 DEF TextsOK

\* Declarations do not touch the text indexes.
LEMMA DeclarationText ==
  ASSUME TextsOK, UNCHANGED <<profile, rec, fts>>
  PROVE  TextsOK'
<1>1. Held' = Held /\ \A l : Members(l)' = Members(l)
  BY DEF Held, Items, Members, Live
<1> QED BY <1>1 DEF TextsOK, TextOK

\* create_node_text_index_impl, drop_node_text_index_impl
LEMMA TextIndexText ==
  ASSUME IndexInv, TextsOK, NEW l \in profile.texts,
         (\E lang \in Languages : CreateTextIndex(l, lang)) \/ DropTextIndex(l)
  PROVE  TextsOK'
<1>1. UNCHANGED <<profile, rec>> /\ l \in Labels
  BY NoneApart DEF CreateTextIndex, DropTextIndex, IndexInv, RecordsOK, ProfileOK
<1>2. Held' = Held /\ \A k : Members(k)' = Members(k)
  BY <1>1 DEF Held, Items, Members, Live
<1>3. fts = [k \in Labels |-> fts[k]] /\ \A k \in Labels : TextOK(k)
  BY DEF TextsOK
<1>4. CASE DropTextIndex(l)
  <2>1. fts' = [k \in Labels |-> fts'[k]] /\ fts'[l] = None /\ \A k \in Labels \ {l} : fts'[k] = fts[k]
    BY <1>1, <1>3, <1>4 DEF DropTextIndex
  <2> QED BY <1>2, <1>3, <2>1 DEF TextsOK, TextOK
<1>5. CASE \E lang \in Languages : CreateTextIndex(l, lang)
  <2>1. PICK lang \in Languages : CreateTextIndex(l, lang)
    BY <1>5
  <2>2. /\ fts' = [k \in Labels |-> fts'[k]] /\ fts'[l] = AllTexts(lang, Members(l))
        /\ \A k \in Labels \ {l} : fts'[k] = fts[k]
    BY <1>1, <1>3, <2>1 DEF CreateTextIndex
  <2>3. AllTexts(lang, Members(l)) = TextOf(lang, Members(l), Held)
    BY <1>1, LabelMembers, BackfillIs
  <2>4. fts'[l] = TextOf(lang, Members(l), Held) /\ fts'[l].lang = lang
    BY <2>2, <2>3, TextLang
  <2>5. TextOK(l)'
    BY <1>2, <2>4 DEF TextOK
  <2> QED BY <1>2, <1>3, <2>2, <2>5 DEF TextsOK, TextOK
<1> QED BY <1>4, <1>5

\* Every step keeps the full-text indexes current.
LEMMA TextsStep ==
  ASSUME IndexInv, TextsOK, [Next]_vars
  PROVE  TextsOK'
<1>1. CASE \E n \in profile.nodes, ls \in SUBSET profile.labels, v \in profile.values : AddNode(n, ls, v)
  BY <1>1, AddNodeText
<1>2. CASE \E e \in profile.edges, t \in profile.types, v \in profile.values : AddEdge(e, t, v)
  BY <1>2, AddEdgeText
<1>3. CASE \E i \in Items, v \in profile.values : Update(i, v)
  BY <1>3, UpdateText
<1>4. CASE \E n \in profile.nodes, l \in profile.labels : AddLabel(n, l) \/ RemoveLabel(n, l)
  BY <1>4, AddLabelText, RemoveLabelText
<1>5. CASE \E n \in profile.nodes : DeleteNode(n)
  BY <1>5, DeleteNodeText
<1>6. CASE \E e \in profile.edges : DeleteEdge(e)
  BY <1>6, DeleteEdgeText
<1>7. CASE \E o \in profile.owners, r \in {"index", "unique", "required"} : CreateIndex(o, r)
  BY <1>7, DeclarationText DEF CreateIndex
<1>8. CASE \E o \in profile.owners : DropIndex(o)
  BY <1>8, DeclarationText DEF DropIndex
<1>9. CASE \E l \in profile.owners \cap Labels : SetLabelAutoIndex(l)
  BY <1>9, DeclarationText DEF SetLabelAutoIndex
<1>10. CASE \E l \in profile.texts : (\E lang \in Languages : CreateTextIndex(l, lang)) \/ DropTextIndex(l)
  BY <1>10, TextIndexText
<1>11. CASE UNCHANGED vars
  BY <1>11, DeclarationText DEF vars
<1> QED BY <1>1, <1>2, <1>3, <1>4, <1>5, <1>6, <1>7, <1>8, <1>9, <1>10, <1>11 DEF Next

\* The postings, the lengths and the running statistics of every text index are
\* those of its label's present texts, whether they came with the backfill or
\* with single writes, for any nodes, texts, languages and token tables.
THEOREM TextsCurrent == Spec => []TextExact
<1>1. ASSUME Init PROVE TextsOK
  <2>1. fts = [l \in Labels |-> None]
    BY <1>1 DEF Init
  <2> QED BY <2>1 DEF TextsOK, TextOK
<1>2. ASSUME IndexInv, TextsOK PROVE TextExact
  <2>1. profile.texts \subseteq Labels
    BY <1>2, NoneApart DEF IndexInv, RecordsOK, ProfileOK
  <2> QED BY <1>2, <2>1 DEF TextExact, TextsOK, TextOK
<1> QED BY <1>1, <1>2, IndexInvariance, TextsStep, PTL DEF Spec

=============================================================================
