---------------------------- MODULE PropertyIndex ----------------------------
(***************************************************************************)
(* Property indexes, uniqueness and required constraints, the auto-index   *)
(* and its opt-out, and the full-text postings, as graph/index.rs,         *)
(* graph/node.rs, graph/edge.rs and graph/fts_mod.rs maintain them from    *)
(* every write (src/crates/issundb-core/src).                              *)
(*                                                                         *)
(* One property is modelled.  An item is a node or an edge, an owner is a  *)
(* label or a relationship type: index keys begin with the owner's id.     *)
(* Every operation is one write transaction under the write lock; a        *)
(* refused one aborts it and changes nothing, so a refusal is a guard.     *)
(***************************************************************************)
EXTENDS Integers, FiniteSetsExt

CONSTANTS
    Labels, Types, \* the owners
    Profiles,      \* one behaviour's [nodes, edges, labels,
                   \* types, values, owners, texts]
    EndsOf,        \* edge -> the nodes it joins
    Languages,
    Tokens,        \* language -> string value -> term -> frequency (fts::tokenize)
    None           \* no value, no role, no index

VARIABLES
    profile,  \* the inputs of this behaviour
    rec,      \* item -> its state ("unused", "live", "gone"), owners and value
    role,     \* idx_meta: owner -> "index", "unique", "required" or None
    off,      \* autoidx_off: the labels opted out of the auto-index
    entries,  \* node_prop_idx and edge_prop_idx: <<owner, encoding, item>>
    fts,      \* label -> None or the text index of the property
    orphaned  \* history: labels whose declaration was dropped while opted out

vars == <<profile, rec, role, off, entries, fts, orphaned>>

Owners == Labels \cup Types
Items == profile.nodes \cup profile.edges
OwnersOf(i) == IF i \in profile.nodes THEN profile.labels ELSE profile.types
Live == {i \in Items : rec[i].state = "live"}

Record(state, os, v) == [state |-> state, owners |-> os, value |-> v]
Gone == Record("gone", {}, None)
Members(o) == {i \in Live : o \in rec[i].owners}

-----------------------------------------------------------------------------
(* Values.  A stored value is a record: its family, the rank of its f64    *)
(* sort key, its exact rank, and whether it is a string too long to index. *)
(* -0.0 has the sort key just below that of 0 and the same exact rank.     *)

Null == [fam |-> "null", f64 |-> 0, int |-> 0, long |-> FALSE]
HasValue(v) == v \notin {None, Null}

\* encode_property_value
Encode(v) == IF v.long THEN None ELSE <<v.fam, v.f64, v.int>>

PositiveZero == <<"number", 0, 0>>
NegativeZero == <<"number", -1, 0>>

\* normalized_property_encoding and property_lookup_encodings
Normalized(e) == IF e = NegativeZero THEN PositiveZero ELSE e
LookupEncodings(e) ==
    IF Normalized(e) = PositiveZero THEN {PositiveZero, NegativeZero} ELSE {e}

\* as_f64: both zeros are one number.
AsF64(v) == IF v.f64 = -1 THEN 0 ELSE v.f64

\* Numbers and strings.  Rounding an integer to an f64 keeps the order, and
\* whether a string is too long to index depends on the string alone.
ValueOK(v) ==
    /\ v \in [fam : {"number", "string"}, f64 : Int, int : Int, long : BOOLEAN]
    /\ v.fam = "number" => ~v.long /\ (v.f64 = -1 => v.int = 0)
    /\ v.fam = "string" => v.f64 = 0
Consistent(v, w) ==
    v.fam = w.fam => /\ v.int = w.int => AsF64(v) = AsF64(w) /\ v.long = w.long
                     /\ v.int < w.int => AsF64(v) <= AsF64(w)

ProfileOK(p) ==
    /\ p.nodes \cap p.edges = {}
    /\ p.labels \subseteq Labels /\ p.types \subseteq Types
    /\ p.owners \subseteq Owners /\ p.texts \subseteq Labels
    /\ IsFiniteSet(p.nodes)
    /\ \A v \in p.values : HasValue(v) => ValueOK(v)
    /\ \A v, w \in p.values : HasValue(v) /\ HasValue(w) => Consistent(v, w)

\* Only strings have terms, finitely many and each some number of times.
TokensOK(terms) == IsFiniteSet(DOMAIN terms) /\ \A t \in DOMAIN terms : terms[t] \in Nat

ASSUME PropertyIndexAssumption ==
    /\ Labels \cap Types = {}
    /\ None \notin Labels \cup Types \cup Languages \cup {"index", "unique", "required"}
    /\ None # Null
    /\ \A p \in Profiles : ProfileOK(p) /\ \A v \in p.values \ {None} : <<v.fam, v.f64, v.int>> # None
    /\ \A lang \in Languages : \A v \in DOMAIN Tokens[lang] :
           v.fam = "string" /\ TokensOK(Tokens[lang][v])

-----------------------------------------------------------------------------
(* The two conditions under which an owner's entries are maintained.       *)

AutoIndexed(o) == o \in Labels /\ o \notin off
Declared(o) == role[o] # None

\* Mutant: values too long for the index are filed as well.
EntriesForLong(os, i, v) ==
    IF ~HasValue(v) THEN {}
    ELSE {<<o, Encode(v), i>> : o \in {p \in os : Declared(p) \/ AutoIndexed(p)}}

\* The entries one item has for value v: index_node_for_label,
\* write_edge_index_entries_cached.  Nulls are never written here.
EntriesFor(os, i, v) ==
    IF ~HasValue(v) \/ Encode(v) = None THEN {}
    ELSE {<<o, Encode(v), i>> : o \in {p \in os : Declared(p) \/ AutoIndexed(p)}}

\* unindex_node_for_label, delete_edge_index_entries: a declared property
\* gives up its null entry too.
EntriesDropped(os, i, v) ==
    IF v = None \/ Encode(v) = None THEN {}
    ELSE {<<o, Encode(v), i>> :
             o \in {p \in os : Declared(p) \/ (AutoIndexed(p) /\ HasValue(v))}}


\* nodes_by_property's index path: the exact matches of either zero.
Matches(o, e) == {i \in Items : \E d \in LookupEncodings(e) : <<o, d, i>> \in entries}

\* Mutant: the uniqueness check looks at the index only.
ConflictIndexed(o, i, v) == Encode(v) # None /\ Matches(o, Encode(v)) \ {i} # {}

\* check_node_property_unique, check_edge_property_unique
Conflict(o, i, v) ==
    IF Encode(v) # None
    THEN Matches(o, Encode(v)) \ {i} # {}
    ELSE \E j \in Members(o) \ {i} : rec[j].value = v

\* The constraint checks made for every owner before its entry is put.
Refused(os, i, v) ==
    \E o \in os :
        \/ role[o] = "required" /\ ~HasValue(v)
        \/ role[o] = "unique" /\ HasValue(v) /\ Conflict(o, i, v)

-----------------------------------------------------------------------------
(* Full text: per label the documents' lengths, the postings, and the two  *)
(* running statistics BM25 reads.                                          *)

TermsOf(lang, v) == IF v # None /\ v \in DOMAIN Tokens[lang] THEN Tokens[lang][v] ELSE <<>>
Total(f, S) == MapThenSumSet(LAMBDA x : f[x], S)
DocLen(terms) == Total(terms, DOMAIN terms)
Postings(terms, n) == {<<t, n, terms[t]>> : t \in DOMAIN terms}

TextIndex(lang, docs, postings, n, sum) ==
    [lang |-> lang, docs |-> docs, postings |-> postings, n |-> n, sum |-> sum]
EmptyText(lang) == TextIndex(lang, {}, {}, 0, 0)

\* add_node_prop_fts_entry
AddText(x, n, v) ==
    LET terms == TermsOf(x.lang, v)
    IN IF DocLen(terms) = 0 THEN x
       ELSE TextIndex(x.lang, x.docs \cup {<<n, DocLen(terms)>>},
                      x.postings \cup Postings(terms, n),
                      x.n + 1, x.sum + DocLen(terms))

\* Mutant: the running statistics are not taken back.
RemoveTextUncounted(x, n, v) ==
    LET doc == {d \in x.docs : d[1] = n}
    IN [x EXCEPT !.docs = @ \ doc, !.postings = @ \ Postings(TermsOf(x.lang, v), n)]

\* remove_node_prop_fts_entry: the length comes from fts_docs, the terms from
\* tokenizing the old text again.
RemoveText(x, n, v) ==
    LET doc == {d \in x.docs : d[1] = n}
        text == v # None /\ v.fam = "string"
    IN IF doc = {} \/ ~text THEN x
       ELSE LET len == (CHOOSE d \in doc : TRUE)[2]
            IN TextIndex(x.lang, x.docs \ doc,
                         x.postings \ Postings(TermsOf(x.lang, v), n),
                         IF x.n = 0 THEN 0 ELSE x.n - 1,
                         IF x.sum < len THEN 0 ELSE x.sum - len)

\* index_node_fts and delete_node_fts over the labels of one node.
TextAdded(os, n, v) ==
    [l \in Labels |-> IF l \in os /\ fts[l] # None THEN AddText(fts[l], n, v) ELSE fts[l]]
TextRemoved(os, n, v) ==
    [l \in Labels |-> IF l \in os /\ fts[l] # None THEN RemoveText(fts[l], n, v) ELSE fts[l]]
TextReplaced(os, n, v, w) ==
    [l \in Labels |-> IF l \in os /\ fts[l] # None
                      THEN AddText(RemoveText(fts[l], n, v), n, w) ELSE fts[l]]

-----------------------------------------------------------------------------
(* Writes *)

Init ==
    /\ profile \in Profiles
    /\ rec = [i \in profile.nodes \cup profile.edges |-> Record("unused", {}, None)]
    /\ role = [o \in Owners |-> None]
    /\ off = {} /\ entries = {} /\ orphaned = {}
    /\ fts = [l \in Labels |-> None]

\* add_node_inner
AddNode(n, ls, v) ==
    /\ rec[n].state = "unused"
    /\ ~Refused(ls, n, v)
    /\ rec' = [rec EXCEPT ![n] = Record("live", ls, v)]
    /\ entries' = entries \cup EntriesFor(ls, n, v)
    /\ fts' = TextAdded(ls, n, v)
    /\ UNCHANGED <<profile, role, off, orphaned>>

\* add_edge_inner: both endpoints must exist.
AddEdge(e, t, v) ==
    /\ rec[e].state = "unused"
    /\ EndsOf[e] \subseteq Live
    /\ ~Refused({t}, e, v)
    /\ rec' = [rec EXCEPT ![e] = Record("live", {t}, v)]
    /\ entries' = entries \cup EntriesFor({t}, e, v)
    /\ UNCHANGED <<profile, role, off, fts, orphaned>>

\* update_node_impl and update_edge_impl: the old entries go first.
Update(i, v) ==
    /\ i \in Live
    /\ v # rec[i].value
    /\ ~Refused(rec[i].owners, i, v)
    /\ rec' = [rec EXCEPT ![i].value = v]
    /\ entries' = (entries \ EntriesDropped(rec[i].owners, i, rec[i].value))
                      \cup EntriesFor(rec[i].owners, i, v)
    /\ fts' = TextReplaced(rec[i].owners, i, rec[i].value, v)
    /\ UNCHANGED <<profile, role, off, orphaned>>

AddLabel(n, l) ==
    /\ n \in Live
    /\ l \notin rec[n].owners
    /\ ~Refused({l}, n, rec[n].value)
    /\ rec' = [rec EXCEPT ![n].owners = @ \cup {l}]
    /\ entries' = entries \cup EntriesFor({l}, n, rec[n].value)
    /\ fts' = TextAdded({l}, n, rec[n].value)
    /\ UNCHANGED <<profile, role, off, orphaned>>

RemoveLabel(n, l) ==
    /\ n \in Live
    /\ l \in rec[n].owners
    /\ rec' = [rec EXCEPT ![n].owners = @ \ {l}]
    /\ entries' = entries \ EntriesDropped({l}, n, rec[n].value)
    /\ fts' = TextRemoved({l}, n, rec[n].value)
    /\ UNCHANGED <<profile, role, off, orphaned>>

\* Mutant: the entries of the incident edges stay behind.
DeleteNodeOnly(n) ==
    /\ n \in Live
    /\ rec' = [i \in DOMAIN rec |->
                  IF i = n \/ (i \in profile.edges \cap Live /\ n \in EndsOf[i])
                  THEN Gone ELSE rec[i]]
    /\ entries' = entries \ EntriesDropped(rec[n].owners, n, rec[n].value)
    /\ fts' = TextRemoved(rec[n].owners, n, rec[n].value)
    /\ UNCHANGED <<profile, role, off, orphaned>>

\* delete_node_inner takes the incident edges and their entries with it.
DeleteNode(n) ==
    /\ n \in Live
    /\ LET gone == {n} \cup {e \in profile.edges \cap Live : n \in EndsOf[e]}
       IN /\ rec' = [i \in DOMAIN rec |-> IF i \in gone THEN Gone ELSE rec[i]]
          /\ entries' = entries \ UNION {EntriesDropped(rec[i].owners, i, rec[i].value) :
                                             i \in gone}
    /\ fts' = TextRemoved(rec[n].owners, n, rec[n].value)
    /\ UNCHANGED <<profile, role, off, orphaned>>

\* delete_edge_inner
DeleteEdge(e) ==
    /\ e \in Live
    /\ rec' = [rec EXCEPT ![e] = Gone]
    /\ entries' = entries \ EntriesDropped(rec[e].owners, e, rec[e].value)
    /\ UNCHANGED <<profile, role, off, fts, orphaned>>

-----------------------------------------------------------------------------
(* Declarations *)

\* The identity the backfill de-duplicates by: the encoding with -0.0 as 0,
\* or the exact form of a value too long to index.
Identity(v) == IF Encode(v) = None THEN <<"exact", v.f64, v.int>> ELSE Normalized(Encode(v))

\* create_node_index_impl, create_edge_index_impl.  Asking for the role in
\* force is a no-op and for another one an error.
CreateIndex(o, r) ==
    /\ role[o] = None
    /\ r = "required" => \A i \in Members(o) : HasValue(rec[i].value)
    /\ r = "unique" => \A i, j \in Members(o) :
                          /\ i # j
                          /\ HasValue(rec[i].value) /\ HasValue(rec[j].value)
                          => Identity(rec[i].value) # Identity(rec[j].value)
    /\ role' = [role EXCEPT ![o] = r]
    /\ entries' = entries \cup
           {<<o, Encode(rec[i].value), i>> :
               i \in {j \in Members(o) : /\ rec[j].value # None
                                         /\ Encode(rec[j].value) # None}}
    /\ UNCHANGED <<profile, rec, off, fts, orphaned>>

\* Mutant: a drop takes the entries of the auto-index too.
DropIndexEntries(o) ==
    /\ role[o] # None
    /\ role' = [role EXCEPT ![o] = None]
    /\ entries' = {x \in entries : x[1] # o}
    /\ orphaned' = IF o \in off THEN orphaned \cup {o} ELSE orphaned
    /\ UNCHANGED <<profile, rec, off, fts>>

\* drop_node_index_impl keeps the entries the auto-index is taken to own and
\* removes the nulls; drop_edge_index_impl removes them all.
DropIndex(o) ==
    /\ role[o] # None
    /\ role' = [role EXCEPT ![o] = None]
    /\ entries' = {x \in entries : x[1] = o => o \in Labels /\ x[2][1] # "null"}
    /\ orphaned' = IF o \in off THEN orphaned \cup {o} ELSE orphaned
    /\ UNCHANGED <<profile, rec, off, fts>>

\* set_label_auto_index, when it is a change: entries of an undeclared
\* property are deleted or backfilled.
AutoEntries(l) == UNION {IF HasValue(rec[n].value) /\ Encode(rec[n].value) # None
                  THEN {<<l, Encode(rec[n].value), n>>} ELSE {} : n \in Members(l)}

SetLabelAutoIndex(l) ==
    /\ entries' = IF Declared(l) THEN entries
                  ELSE IF l \in off THEN entries \cup AutoEntries(l) ELSE entries \ AutoEntries(l)
    /\ off' = IF l \in off THEN off \ {l} ELSE off \cup {l}
    /\ UNCHANGED <<profile, rec, role, fts, orphaned>>

\* create_node_text_index_impl adds the members one after the other; an
\* existing index is left in its language.
AllTexts(lang, S) == FoldSet(LAMBDA n, x : AddText(x, n, rec[n].value), EmptyText(lang), S)

CreateTextIndex(l, lang) ==
    /\ fts[l] = None
    /\ fts' = [fts EXCEPT ![l] = AllTexts(lang, Members(l))]
    /\ UNCHANGED <<profile, rec, role, off, entries, orphaned>>

DropTextIndex(l) ==
    /\ fts[l] # None
    /\ fts' = [fts EXCEPT ![l] = None]
    /\ UNCHANGED <<profile, rec, role, off, entries, orphaned>>

Next ==
    \/ \E n \in profile.nodes, ls \in SUBSET profile.labels, v \in profile.values :
           AddNode(n, ls, v)
    \/ \E e \in profile.edges, t \in profile.types, v \in profile.values : AddEdge(e, t, v)
    \/ \E i \in Items, v \in profile.values : Update(i, v)
    \/ \E n \in profile.nodes, l \in profile.labels : AddLabel(n, l) \/ RemoveLabel(n, l)
    \/ \E n \in profile.nodes : DeleteNode(n)
    \/ \E e \in profile.edges : DeleteEdge(e)
    \/ \E o \in profile.owners, r \in {"index", "unique", "required"} : CreateIndex(o, r)
    \/ \E o \in profile.owners : DropIndex(o)
    \/ \E l \in profile.owners \cap Labels : SetLabelAutoIndex(l)
    \/ \E l \in profile.texts : (\E lang \in Languages : CreateTextIndex(l, lang)) \/ DropTextIndex(l)

Spec == Init /\ [][Next]_vars

-----------------------------------------------------------------------------
(* Lookups *)

\* scan_label_for_property_eq: numbers by their f64, the rest structurally.
Scan(o, v) ==
    {i \in Members(o) :
        LET w == rec[i].value
        IN IF v.fam = "number" /\ w # None /\ w.fam = "number"
           THEN AsF64(v) = AsF64(w) ELSE v = w}

\* nodes_by_property_impl, edges_by_property_impl
ByProperty(o, v) ==
    IF Encode(v) = None \/ (o \in off /\ ~Declared(o)) THEN Scan(o, v)
    ELSE Matches(o, Encode(v))

\* How str_in_range, and the comparisons of a range scan, meet one bound.
Below(x, y, inclusive) ==
    \/ x[1] < y[1]
    \/ x[1] = y[1] /\ (x[2] < y[2] \/ (inclusive /\ x[2] = y[2]))

\* One bound of a range is None or [v, inclusive].
InBounds(x, lo, hi, key(_)) ==
    /\ lo # None => Below(key(lo.v), x, lo.inclusive)
    /\ hi # None => Below(x, key(hi.v), hi.inclusive)

Family(lo, hi) == IF lo # None THEN lo.v.fam ELSE hi.v.fam
Mixed(lo, hi) == lo # None /\ hi # None /\ lo.v.fam # hi.v.fam

\* The index path of nodes_by_property_range_impl compares normalised
\* encodings within the bounds' family.
EntryKey(e) == <<Normalized(e)[2], Normalized(e)[3]>>
EncodedKey(v) == EntryKey(Encode(v))
RangeOfIndex(o, lo, hi) ==
    {i \in Items : \E x \in entries :
        /\ x[1] = o /\ x[3] = i
        /\ x[2][1] = Family(lo, hi)
        /\ InBounds(EntryKey(x[2]), lo, hi, EncodedKey)}

\* scan_label_for_property_range and, for strings,
\* scan_label_for_property_str_range and scan_type_for_property_str_range.
ScanKey(v) == IF v.fam = "string" THEN <<v.int, 0>> ELSE <<AsF64(v), 0>>
RangeOfScan(o, lo, hi) ==
    {i \in Members(o) : /\ rec[i].value # None
                        /\ rec[i].value.fam = Family(lo, hi)
                        /\ InBounds(ScanKey(rec[i].value), lo, hi, ScanKey)}

ByRange(o, lo, hi) ==
    IF Mixed(lo, hi) THEN {}
    ELSE IF Family(lo, hi) = "string" \/ (o \in off /\ ~Declared(o)) THEN RangeOfScan(o, lo, hi)
    ELSE RangeOfIndex(o, lo, hi)

-----------------------------------------------------------------------------
(* Properties *)

\* Records hold values of their profile under owners of their kind, and index
\* entries are encodings of indexable values.
TypeOK ==
    /\ profile \in Profiles
    /\ \A i \in Items : /\ rec[i].state \in {"unused", "live", "gone"}
           /\ rec[i].owners \subseteq OwnersOf(i)
           /\ rec[i].value \in profile.values \cup {None}
    /\ role \in [Owners -> {None, "index", "unique", "required"}]
    /\ off \subseteq Labels /\ orphaned \subseteq Labels
    /\ \A x \in entries : x[1] \in Owners /\ x[2] # None /\ x[3] \in Items

\* Where the index can be asked: a declared owner, or a label the auto-index
\* covers, as long as no declaration was dropped while its label was opted out.
Answerable(o) == o \notin orphaned /\ (Declared(o) \/ AutoIndexed(o))
Opted(o) == o \notin orphaned /\ o \in off /\ ~Declared(o)

SameValue(v, w) == v.fam = w.fam /\ v.int = w.int
Asked == {v \in profile.values : HasValue(v)}
Holding(o) == {i \in Members(o) : HasValue(rec[i].value)}

\* Rounding to f64 keeps two numbers apart, unless they are equal.
Apart(v, w) ==
    v.fam = "number" /\ w.fam = "number" /\ AsF64(v) = AsF64(w) => v.int = w.int

\* nodes_by_property and edges_by_property return exactly the members that
\* hold an equal value now (30 and 30.0 equal, both zeros equal, large
\* integers distinct, over-long strings by content).  On a label opted out of
\* the auto-index nothing is said of a number whose f64 is that of the one
\* asked for and which differs from it.
EqualsExact ==
    \A o \in profile.owners, v \in Asked : Answerable(o) \/ Opted(o) =>
        /\ ByProperty(o, v) \subseteq Holding(o)
        /\ \A i \in Holding(o) : Answerable(o) \/ Apart(rec[i].value, v) =>
               (i \in ByProperty(o, v) <=> SameValue(rec[i].value, v))

\* The value has the bounds' type and lies between them.
Ends == {None} \cup [v : Asked, inclusive : BOOLEAN]
Between(v, lo, hi) ==
    /\ lo # None => lo.v.fam = v.fam /\ (lo.v.int < v.int \/ (lo.inclusive /\ lo.v.int = v.int))
    /\ hi # None => hi.v.fam = v.fam /\ (v.int < hi.v.int \/ (hi.inclusive /\ v.int = hi.v.int))
ApartFrom(v, lo, hi) == (lo # None => Apart(v, lo.v)) /\ (hi # None => Apart(v, hi.v))

\* A range with at least one bound returns the members whose value has the
\* bounds' type and lies between them, from the index and from a scan alike;
\* again nothing is said of a scanned number that rounds to a bound.
RangesExact ==
    \A o \in profile.owners, lo \in Ends, hi \in Ends :
        (lo # None \/ hi # None) /\ (Answerable(o) \/ Opted(o)) =>
            /\ ByRange(o, lo, hi) \subseteq Holding(o)
            /\ \A i \in Holding(o) : Answerable(o) \/ ApartFrom(rec[i].value, lo, hi) =>
                   (i \in ByRange(o, lo, hi) <=> Between(rec[i].value, lo, hi))

\* An equality and a range answer what the members hold now, whatever sequence
\* of writes, label changes, declarations, drops and opt-outs came before: from
\* the index exactly, on an opted-out label for all numbers f64 tells apart.
LookupExact == EqualsExact /\ RangesExact

\* Opting a label out "makes every lookup on it scan, with results unchanged"
\* (graph/txn.rs:1606-1607): an equality on it finds the members that hold that
\* very value, as the index does.
OptOutUnchanged ==
    \A o \in profile.owners, v \in Asked : Opted(o) =>
        ByProperty(o, v) = {i \in Holding(o) : SameValue(rec[i].value, v)}

\* While a uniqueness constraint is declared no two members hold equal values,
\* and while a required one is, none lacks a value: through updates, label
\* changes, opt-outs and over-long strings.  And a write is refused for
\* uniqueness exactly if another member holds that value.
ConstraintsExact ==
    \A o \in profile.owners :
        /\ role[o] = "unique" => \A i, j \in Holding(o) :
               i # j => ~SameValue(rec[i].value, rec[j].value)
        /\ role[o] = "required" => Holding(o) = Members(o)
        /\ role[o] = "unique" /\ o \notin orphaned => \A i \in Items, v \in Asked :
               Conflict(o, i, v) <=> \E j \in Holding(o) \ {i} : SameValue(rec[j].value, v)

\* What a text index holds once each of the nodes S is in it with its value.
Documents(lang, S, val) == {n \in S : DocLen(TermsOf(lang, val[n])) > 0}
TextOf(lang, S, val) ==
    LET docs == Documents(lang, S, val)
        len == [n \in S |-> DocLen(TermsOf(lang, val[n]))]
    IN TextIndex(lang, {<<n, len[n]>> : n \in docs},
                 UNION {Postings(TermsOf(lang, val[n]), n) : n \in docs},
                 Cardinality(docs), Total(len, docs))
Held == [i \in Items |-> rec[i].value]

\* The postings, the document lengths and the running statistics of a text
\* index are those of its label's present texts in its own language.
TextExact ==
    \A l \in profile.texts :
        fts[l] # None => fts[l] = TextOf(fts[l].lang, Members(l), Held)

=============================================================================
