----------------------------- MODULE TextCalls -----------------------------
(***************************************************************************)
(* Text searches over every small pair of indexes, held against the scores *)
(* of all documents.                                                       *)
(***************************************************************************)
EXTENDS ColumnCalls

CONSTANTS
  Corpora,  \* sequences of text indexes
  Filtered, \* those that requests for some of the indexes are made of
  Queries   \* term frequencies of a query

S == INSTANCE TextSearch

CallTextSearch == Idle /\
  \E corpus \in Corpora, query \in Queries, limit \in 1 .. 2, scorer \in {"bm25", "tfidf"}, mode \in {"or", "and"} :
    LET opts == [label |-> S!Unfiltered, property |-> S!Unfiltered, limit |-> limit, scorer |-> scorer,
                 boolean_mode |-> mode]
    IN  Question([op |-> "ranked", corpus |-> corpus, query |-> query, opts |-> opts,
                  got |-> S!text_search(corpus, query, opts)])

\* Requests for some of the indexes, and ones that cannot match.
CallTextIndex == Idle /\
  \E corpus \in Filtered, query \in Queries \cup {S!BlankQuery, S!Query(<<>>), S!Query(<<1>>)}, limit \in {0, 2},
     label \in {S!Unfiltered, "A", "B"}, property \in {S!Unfiltered, "x", "z"} :
    LET opts == [label |-> label, property |-> property, limit |-> limit, scorer |-> "bm25", boolean_mode |-> "or"]
    IN  Question([op |-> "ranked", corpus |-> corpus, query |-> query, opts |-> opts,
                  got |-> S!text_search(corpus, query, opts)])

TextNext == CallTextSearch \/ CallTextIndex

-----------------------------------------------------------------------------
(* What the answers are defined to be *)

Named(c, x) == c.opts.label \in {S!Unfiltered, x.label} /\ c.opts.property \in {S!Unfiltered, x.property}
Searched(c) == {x \in ToSet(c.corpus) : Named(c, x)}

\* Has one of the terms or, if that is asked for, all of them.
Matches(c, x, n) ==
  LET has == {t \in DOMAIN c.query.terms : n \in S!Having(x, t)}
  IN  has # {} /\ (c.opts.boolean_mode = "and" => has = DOMAIN c.query.terms)

\* What one index gives a node, all its terms weighed.
Part(c, x, n) ==
  LET stats == S!fts_stats(x)
      terms == DOMAIN c.query.terms
      has(t) == n \in S!Having(x, t)
      term(t) == LET w == S!idf(c.opts.scorer, stats.n_docs, Cardinality(S!Having(x, t)))
                 IN  S!score(c.opts.scorer, x.docs[n][t], S!DocLen(x, n), stats, w, c.query.terms[t])
  IN  IF Matches(c, x, n) THEN MapThenSumSet(term, {t \in terms : has(t)}) ELSE 0

\* A text search ranks by the whole score: nothing that scores more than a hit
\* is left out for the sake of the top k, however the terms are spread over
\* documents and indexes; it is as long as there are documents of some score,
\* names an index that gave most, ranks only what matches, and fails only for
\* what cannot match.  Whether a match that scores nothing is ranked is left
\* open (wand_top_k, text_search).
RanksRight == asked.op = "ranked" =>
  LET c     == asked
      hits  == c.got.hits
      nodes == UNION {DOMAIN x.docs : x \in Searched(c)}
      part  == [x \in Searched(c) |-> [n \in nodes |-> Part(c, x, n)]]
      whole == [n \in nodes |-> MapThenSumSet(LAMBDA x : part[x][n], Searched(c))]
      matching == {n \in nodes : \E x \in Searched(c) : Matches(c, x, n)}
      worth == {n \in nodes : whole[n] > 0}
      listed == {h.node : h \in ToSet(hits)}
  IN  IF c.query.blank \/ Searched(c) = {} THEN c.got.error # "none"
      ELSE /\ c.got.error = "none"
           /\ Len(hits) \in Min({c.opts.limit, Cardinality(worth)}) .. c.opts.limit
           /\ Cardinality(listed) = Len(hits) /\ listed \subseteq matching
           /\ \A h \in ToSet(hits) :
                /\ h.score = whole[h.node]
                /\ \A n \in worth \ listed : whole[n] <= h.score
                /\ \E x \in Searched(c) : /\ <<x.label, x.property>> = <<h.label, h.property>>
                                          /\ \A y \in Searched(c) : part[y][h.node] <= part[x][h.node]
           /\ \A i \in 1 .. Len(hits) - 1 : hits[i].score >= hits[i + 1].score
=============================================================================
