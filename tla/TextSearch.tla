----------------------------- MODULE TextSearch -----------------------------
(***************************************************************************)
(* Ranked full-text search (issundb-text lib.rs): the active indexes, the  *)
(* scorers, the boolean filter, the WAND loop that skips documents which   *)
(* cannot reach the current top k, and the sum over the indexes.           *)
(*                                                                         *)
(* An index is [label, property, docs]: docs gives each node's frequency   *)
(* of every term.  Scores are integers, Scale to the unit and rounded      *)
(* down.  The logarithm of an idf is left out; what is kept is its sign    *)
(* and that it falls with the number of documents that have the term.      *)
(***************************************************************************)
EXTENDS Integers, Sequences, FiniteSets, SequencesExt, FiniteSetsExt

Scale == 1000
Unbounded == 1000000  \* usize::MAX
Unfiltered == "any"    \* no label or property asked for

Frequencies(index, n) == index.docs[n]
DocLen(index, n) == FoldFunction(+, 0, Frequencies(index, n))
\* What PropertyIndex!TextExact says the tables hold.
Docs(index) == {n \in DOMAIN index.docs : DocLen(index, n) > 0}
fts_stats(index) ==
  LET docs == Docs(index)
  IN  [n_docs |-> Cardinality(docs), sum_dl |-> MapThenSumSet(LAMBDA n : DocLen(index, n), docs)]
Having(index, t) == {n \in DOMAIN index.docs : t \in DOMAIN Frequencies(index, n) /\ Frequencies(index, n)[t] > 0}

-----------------------------------------------------------------------------
(* Scorer *)

idf(scorer, n_docs, n_term) ==
  IF scorer = "bm25" THEN n_docs - n_term + 1 ELSE Max({n_docs - n_term - 1, 0})

Sqrt(n) == CHOOSE r \in 0 .. n : r * r <= n /\ (r + 1) * (r + 1) > n

\* k1 = 6/5 and b = 3/4; the document's length against the average.
score(scorer, tf, len, stats, weight, qtf) ==
  IF scorer = "bm25"
  THEN (qtf * weight * 22 * tf * stats.sum_dl * Scale)
         \div (10 * tf * stats.sum_dl + 3 * stats.sum_dl + 9 * len * stats.n_docs)
  ELSE qtf * weight * Sqrt(tf) * Scale

upper_bound(scorer, weight, max_tf) ==
  IF scorer = "bm25" THEN (weight * 11 * Scale) \div 5 ELSE weight * Sqrt(max_tf) * Scale

-----------------------------------------------------------------------------
(* PostingCursor: what is left of a term's postings, each node with what    *)
(* the term adds to its score, and the most it can add to any.              *)

Cursor(postings, bound) == [postings |-> postings, bound |-> bound]
Current(c) == c.postings[1].node
Advance(c) == [c EXCEPT !.postings = Tail(@)]
SkipTo(c, target) == [c EXCEPT !.postings = SelectSeq(@, LAMBDA p : p.node >= target)]

Lower(p, r) == p.score < r.score \/ (p.score = r.score /\ p.node < r.node)
Lowest(heap) == CHOOSE p \in heap : \A r \in heap \ {p} : Lower(p, r)

ScoreAt(live, doc) ==
  MapThenSumSet(LAMBDA i : live[i].postings[1].score, {i \in DOMAIN live : Current(live[i]) = doc})
AdvanceAt(live, doc) == [i \in DOMAIN live |-> IF Current(live[i]) = doc THEN Advance(live[i]) ELSE live[i]]
CatchUp(live, doc) == [i \in DOMAIN live |-> IF Current(live[i]) < doc THEN SkipTo(live[i], doc) ELSE live[i]]
Pushed(heap, hit, k) ==
  LET grown == heap \cup {hit} IN IF Cardinality(grown) > k THEN grown \ {Lowest(grown)} ELSE grown
Threshold(heap, k, threshold) == IF Cardinality(heap) = k THEN Lowest(heap).score ELSE threshold

\* The live cursors by document; the pivot is the first whose bound, with
\* those before it, passes the threshold.
Live(cursors) ==
  SortSeq(SelectSeq(cursors, LAMBDA c : c.postings # <<>>), LAMBDA a, b : Current(a) < Current(b))
Pivots(live, threshold) ==
  {i \in DOMAIN live : MapThenSumSet(LAMBDA j : live[j].bound, 1 .. i) > threshold}

RECURSIVE Wand(_, _, _, _)
Wand(cursors, heap, threshold, k) ==
  LET keep(live, doc, kept) == Wand(AdvanceAt(live, doc), kept, Threshold(kept, k, threshold), k)
      weigh(live, doc, total) ==
        IF total > threshold THEN keep(live, doc, Pushed(heap, [node |-> doc, score |-> total], k))
        ELSE Wand(AdvanceAt(live, doc), heap, threshold, k)
      at(live, doc) == IF Current(live[1]) # doc THEN Wand(CatchUp(live, doc), heap, threshold, k)
                       ELSE weigh(live, doc, ScoreAt(live, doc))
      from(live, pivots) == IF pivots = {} THEN heap ELSE at(live, Current(live[Min(pivots)]))
      over(live) == from(live, Pivots(live, threshold))
  IN  over(Live(cursors))

wand_top_k(cursors, k) == IF k = 0 THEN {} ELSE Wand(cursors, {}, 0, k)

-----------------------------------------------------------------------------
(* text_search *)

Query(terms) == [blank |-> FALSE, terms |-> terms]  \* how often it has each term
BlankQuery   == [blank |-> TRUE, terms |-> <<>>]
Hits(seq)    == [error |-> "none", hits |-> seq]
Error(kind)  == [error |-> kind, hits |-> <<>>]

\* The indexes a request names, in the order they are kept.
Active(indexes, opts) ==
  SelectSeq(indexes, LAMBDA x : opts.label \in {Unfiltered, x.label} /\ opts.property \in {Unfiltered, x.property})
Missing(opts) ==
  CASE opts.label # Unfiltered /\ opts.property # Unfiltered -> Error("index not found")
    [] opts.label # Unfiltered -> Error("label not indexed")
    [] opts.property # Unfiltered -> Error("property not indexed")
    [] OTHER -> Error("no indexes")

\* Every term, if that is asked for and there are several.
boolean_candidate_set(index, terms, opts) ==
  IF opts.boolean_mode = "and" /\ Cardinality(DOMAIN terms) > 1
  THEN {n \in Docs(index) : \A t \in DOMAIN terms : n \in Having(index, t)}
  ELSE Docs(index)

UpperBoundOnce(scorer, weight, max_tf, qtf) == upper_bound(scorer, weight, max_tf)

TermBound(scorer, weight, max_tf, qtf) == upper_bound(scorer, weight, max_tf) * qtf

\* The idf is that of all documents, before the filter.
CursorOf(index, stats, opts, terms, t) ==
  LET having == Having(index, t)
      nodes  == having \cap boolean_candidate_set(index, terms, opts)
      weight == idf(opts.scorer, stats.n_docs, Cardinality(having))
      adds(n) == score(opts.scorer, Frequencies(index, n)[t], DocLen(index, n), stats, weight, terms[t])
      most   == Max({0} \cup {Frequencies(index, n)[t] : n \in nodes})
      order  == SortSeq(SetToSeq(nodes), <)
  IN  Cursor([i \in DOMAIN order |-> [node |-> order[i], score |-> adds(order[i])]],
             TermBound(opts.scorer, weight, most, terms[t]))

LimitEach(active, limit) == limit

\* Several indexes are summed, so none of them may leave out a node.
IndexLimit(active, limit) == IF Len(active) > 1 THEN Unbounded ELSE limit

Scored(index, active, opts, terms) ==
  LET ts    == SetToSeq(DOMAIN terms)
      stats == fts_stats(index)
  IN  wand_top_k([i \in DOMAIN ts |-> CursorOf(index, stats, opts, terms, ts[i])], IndexLimit(active, opts.limit))

\* A node's sum, and the first of the indexes that gave it most.
Summed(active, found, n) ==
  LET of == {i \in DOMAIN active : \E h \in found[i] : h.node = n}
      part(i) == (CHOOSE h \in found[i] : h.node = n).score
      hit(best) == [node |-> n, score |-> MapThenSumSet(part, of), label |-> best.label, property |-> best.property]
  IN  hit(active[Min({i \in of : \A j \in of : part(j) <= part(i)})])

Ranking(active, found) ==
  SortSeq(SetToSeq({Summed(active, found, n) : n \in {h.node : h \in UNION ToSet(found)}}),
          LAMBDA a, b : Lower(b, a))

text_search(indexes, query, opts) ==
  LET first(ranked) == Hits(SubSeq(ranked, 1, Min({opts.limit, Len(ranked)})))
      over(active) == IF active = <<>> THEN Missing(opts)
                      ELSE first(Ranking(active, [i \in DOMAIN active |->
                                                    Scored(active[i], active, opts, query.terms)]))
  IN  IF query.blank THEN Error("empty query") ELSE over(Active(indexes, opts))
=============================================================================
