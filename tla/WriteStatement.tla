--------------------------- MODULE WriteStatement ---------------------------
(***************************************************************************)
(* The write side of the Cypher executor: a pipeline of statements that    *)
(* share one write transaction (exec/mod.rs, exec/write.rs), and the       *)
(* pending-writes overlay (exec/expr.rs, exec/read.rs) through which their *)
(* reads see the writes the transaction has not committed.                 *)
(*                                                                         *)
(* Scans, expansions and property reads go to the committed graph db and   *)
(* are corrected by the overlay ov; the writes and the match half of MERGE *)
(* go to the transaction's own view txn.  The two must never disagree.     *)
(*                                                                         *)
(* A graph is [nodes, edges, nextN, nextE].  Entities have one property x, *)
(* with Null for "not stored".  Rows bind variables to                     *)
(* [kind |-> "node" | "edge", id].  The clauses a pipeline may be written  *)
(* with are the constant Menu; their field needs holds the variables that  *)
(* must be in scope and fresh the ones that must not.                      *)
(***************************************************************************)
EXTENDS Integers, Sequences, FiniteSets, SequencesExt

CONSTANTS Menu,          \* the clauses a statement may contain
          Committed,     \* the committed graphs a pipeline may start from
          Labels, Types, \* label and relationship type names
          MaxClauses,    \* bound on the clauses of one pipeline
          MaxStatements, \* bound on its statements
          MaxRows,       \* bound on the rows between two clauses
          Null,          \* a property that is not stored
          Raised         \* an evaluation that raised an error

VARIABLES db,      \* the committed graph
          txn,     \* the graph as the open write transaction sees it
          ov,      \* the pending-writes overlay
          rows,    \* the rows between two clauses of the running statement
          scope,   \* the variables those rows bind
          shared,  \* bindings threaded between the CREATE statements
          stmt,    \* the running statement: "none", "query", "create", "direct"
          phase,   \* "open", "failed" or "committed"
          used,    \* [clauses, statements] so far
          last     \* the clause that ran last, with the statement it ran in

vars == <<db, txn, ov, rows, scope, shared, stmt, phase, used, last>>

Ids(f) == DOMAIN f
Without(f, S) == [i \in DOMAIN f \ S |-> f[i]]
With(f, i, v) == [j \in DOMAIN f \cup {i} |-> IF j = i THEN v ELSE f[j]]
NodeRef(n) == [kind |-> "node", id |-> n]
EdgeRef(e) == [kind |-> "edge", id |-> e]
EmptyRow == [v \in {} |-> NodeRef(0)]
Extend(row, more) == [v \in DOMAIN row \cup DOMAIN more |->
                        IF v \in DOMAIN more THEN more[v] ELSE row[v]]
BoundNode(row, v) == v \in DOMAIN row /\ row[v].kind = "node"

Node(labels, x) == [labels |-> labels, x |-> x]
Edge(src, dst, type, x) == [src |-> src, dst |-> dst, type |-> type, x |-> x]
Graph(nodes, edges, nextN, nextE) ==
  [nodes |-> nodes, edges |-> edges, nextN |-> nextN, nextE |-> nextE]
WithNode(g, n, labels, x) == Graph(With(g.nodes, n, Node(labels, x)), g.edges, g.nextN, g.nextE)
WithEdge(g, e, edge) == Graph(g.nodes, With(g.edges, e, edge), g.nextN, g.nextE)
Incident(edges, n) == {e \in Ids(edges) : n \in {edges[e].src, edges[e].dst}}

(***************************************************************************)
(* The overlay: what the write executors record after each mutation.       *)
(***************************************************************************)

Overlay(nodes, edges, gone, cut) ==
  [nodes |-> nodes, edges |-> edges, gone |-> gone, cut |-> cut]

NoWrites == Overlay([n \in {} |-> {}], [e \in {} |-> {}], {}, {})

RecordNode(o, n, labels, x) == Overlay(With(o.nodes, n, Node(labels, x)), o.edges, o.gone, o.cut)

RecordEdge(o, e, edge) == Overlay(o.nodes, With(o.edges, e, edge), o.gone, o.cut)

LabelsIn(g, n) == IF n \in Ids(g.nodes) THEN g.nodes[n].labels ELSE {}
PropIn(g, n)   == IF n \in Ids(g.nodes) THEN g.nodes[n].x ELSE Null

\* Plausible slip: the labels are taken from the committed record.
UpdateNodePropsCommitted(g, o, n, x) == RecordNode(o, n, LabelsIn(db, n), x)

UpdateNodeProps(g, o, n, x) ==
  RecordNode(o, n, IF n \in Ids(o.nodes) THEN o.nodes[n].labels ELSE LabelsIn(g, n), x)

UpdateEdgeProps(g, o, e, x) ==
  LET r == IF e \in Ids(o.edges) THEN o.edges[e] ELSE g.edges[e]
  IN  RecordEdge(o, e, Edge(r.src, r.dst, r.type, x))

Entry(g, o, n) == IF n \in Ids(o.nodes) THEN o.nodes[n] ELSE Node(LabelsIn(g, n), PropIn(g, n))

AddLabelPending(g, o, n, l) ==
  LET it == Entry(g, o, n) IN RecordNode(o, n, it.labels \cup {l}, it.x)

RemoveLabelPending(g, o, n, l) ==
  LET it == Entry(g, o, n) IN RecordNode(o, n, it.labels \ {l}, it.x)

RecordDeletedNodes(o, S) == Overlay(Without(o.nodes, S), o.edges, o.gone \cup S, o.cut)

RecordDeletedEdges(o, S) == Overlay(o.nodes, Without(o.edges, S), o.gone, o.cut \cup S)

(***************************************************************************)
(* Reads through the committed graph and the overlay.                      *)
(***************************************************************************)

\* "any" stands for a scan without a label.
Carries(labels, l) == l = "any" \/ l \in labels

\* The overlay's verdict: "yes", "no", or "unknown" when it has no entry.
OverlayNodeHasLabel(o, n, l) ==
  CASE n \in o.gone      -> "no"
    [] n \in Ids(o.nodes) /\ n \notin o.gone ->
         IF Carries(o.nodes[n].labels, l) THEN "yes" ELSE "no"
    [] OTHER             -> "unknown"

PendingNodesWithLabel(o, l) ==
  {n \in Ids(o.nodes) \ o.gone : Carries(o.nodes[n].labels, l)}

\* What overlay_label_scan makes of a committed candidate set.
OverlayScan(o, candidates, l) ==
  {n \in candidates : OverlayNodeHasLabel(o, n, l) # "no"} \cup PendingNodesWithLabel(o, l)

CommittedWithLabel(l) == {n \in Ids(db.nodes) : Carries(db.nodes[n].labels, l)}

LabelScan(o, l) == OverlayScan(o, CommittedWithLabel(l), l)

NodeProps(o, n) ==
  CASE n \in Ids(o.nodes) -> o.nodes[n].x
    [] n \notin Ids(o.nodes) /\ n \in Ids(db.nodes) -> db.nodes[n].x
    [] OTHER -> Raised

\* An index lookup: the committed entries, the overlay, then every candidate
\* verified against its current value.
IndexScan(o, l, v) ==
  {n \in OverlayScan(o, {m \in CommittedWithLabel(l) : db.nodes[m].x = v}, l) :
     NodeProps(o, n) = v}

NodeLabelsOverlay(o, n) ==
  IF n \in Ids(o.nodes) THEN o.nodes[n].labels ELSE LabelsIn(db, n)

\* The membership test of a hop's far end.
PassesLabel(o, n, l) ==
  CASE OverlayNodeHasLabel(o, n, l) = "yes" -> TRUE
    [] OverlayNodeHasLabel(o, n, l) = "no"  -> FALSE
    [] OTHER -> n \in CommittedWithLabel(l)

EndsAt(rec, n, incoming) == (IF incoming THEN rec.dst ELSE rec.src) = n
OtherEnd(rec, incoming)  == IF incoming THEN rec.src ELSE rec.dst

\* <<edge, other end>> pairs of one expansion.
ExpandMultiType(o, n, type, incoming) ==
  {<<e, OtherEnd(db.edges[e], incoming)>> :
     e \in {e \in Ids(db.edges) \ o.cut :
              EndsAt(db.edges[e], n, incoming) /\ db.edges[e].type = type}}
  \cup
  {<<e, OtherEnd(o.edges[e], incoming)>> :
     e \in {e \in Ids(o.edges) \ o.cut :
              EndsAt(o.edges[e], n, incoming) /\ o.edges[e].type = type}}

\* The property read of an expression, which a deleted entity refuses.
EvalNodeProp(o, n) == IF n \in o.gone THEN Raised ELSE NodeProps(o, n)

EvalEdgeProp(o, e) ==
  CASE e \in o.cut -> Raised
    [] e \notin o.cut /\ e \in Ids(o.edges) -> o.edges[e].x
    [] e \notin o.cut /\ e \notin Ids(o.edges) /\ e \in Ids(db.edges) -> db.edges[e].x
    [] OTHER -> Raised

\* An expression is [k, lit, var]: a literal, var.x, or no expression at all.
EvaluateExpr(o, row, e) ==
  CASE e.k = "none" -> Null
    [] e.k = "lit"  -> e.lit
    [] OTHER -> IF row[e.var].kind = "node" THEN EvalNodeProp(o, row[e.var].id)
                ELSE EvalEdgeProp(o, row[e.var].id)

(***************************************************************************)
(* MATCH: the pattern is matched on its own and joined with the rows.      *)
(* A pattern is [node, hops], a node pattern [var, label, x], a hop        *)
(* [var, type, incoming, x, node].                                         *)
(***************************************************************************)

Holds(e, value) == e.k = "none" \/ e.lit = value

SeedScan(o, np) ==
  IF np.x.k = "lit" /\ np.label # "any" THEN IndexScan(o, np.label, np.x.lit)
  ELSE {n \in LabelScan(o, np.label) : Holds(np.x, NodeProps(o, n))}

\* A partial match one edge longer.
Grown(p, h, e, far) ==
  [bind |-> With(With(p.bind, h.var, EdgeRef(e)), h.node.var, NodeRef(far)),
   at |-> far, edges |-> Append(p.edges, e)]

ExpandHop(o, partials, h) ==
  UNION {{Grown(p, h, x[1], x[2]) :
            x \in {y \in ExpandMultiType(o, p.at, h.type, h.incoming) :
                     /\ y[1] \notin Range(p.edges)
                     /\ PassesLabel(o, y[2], h.node.label)
                     /\ Holds(h.x, EvalEdgeProp(o, y[1]))
                     /\ Holds(h.node.x, NodeProps(o, y[2]))
                     /\ h.node.var \in DOMAIN p.bind => p.bind[h.node.var].id = y[2]}} :
         p \in partials}

Seeds(var, S) == {[bind |-> [v \in {var} |-> NodeRef(n)], at |-> n, edges |-> <<>>] : n \in S}

MatchPattern(o, pat) ==
  LET found[i \in 0..Len(pat.hops)] ==
        IF i = 0 THEN Seeds(pat.node.var, SeedScan(o, pat.node))
        ELSE ExpandHop(o, found[i-1], pat.hops[i])
  IN  found[Len(pat.hops)]

\* A hop whose label, type, label triple no committed edge has.
HopIsImpossible(from, h) ==
  /\ from # "any" /\ h.node.label # "any"
  /\ \A e \in Ids(db.edges) :
       LET a == db.nodes[OtherEnd(db.edges[e], ~h.incoming)].labels
           b == db.nodes[OtherEnd(db.edges[e], h.incoming)].labels
       IN  ~(db.edges[e].type = h.type
             /\ (IF h.incoming THEN h.node.label \in b /\ from \in a
                               ELSE from \in b /\ h.node.label \in a))

\* The plan of a SET, DELETE or REMOVE statement's own MATCH is optimized with
\* pruning on; a MATCH clause of a query inside a transaction is not.
Pruned(pat) ==
  /\ stmt = "direct"
  /\ \E i \in 1..Len(pat.hops) :
       HopIsImpossible(IF i = 1 THEN pat.node.label ELSE pat.hops[i-1].node.label, pat.hops[i])

Agree(row, bind) == \A v \in DOMAIN row \cap DOMAIN bind : row[v] = bind[v]

\* One row per match, in an order the query does not fix.
ExtendRow(row, matches) ==
  LET s == SetToSeq(matches) IN [k \in 1..Len(s) |-> Extend(row, s[k].bind)]

JoinRows(rs, matches) ==
  LET joined[i \in 0..Len(rs)] ==
        IF i = 0 THEN <<>>
        ELSE joined[i-1] \o ExtendRow(rs[i], {p \in matches : Agree(rs[i], p.bind)})
  IN  joined[Len(rs)]

MatchRows(o, rs, pat) == IF Pruned(pat) THEN <<>> ELSE JoinRows(rs, MatchPattern(o, pat))

(***************************************************************************)
(* Writes.  A step carries [ok, g, o, out]: whether the statement is still *)
(* running, the transaction's graph, the overlay and the rows so far; the  *)
(* placing of a pattern [ok, g, o, row, at]: the row it extends and the    *)
(* node it stands on.                                                      *)
(***************************************************************************)

Step(ok, g, o, out) == [ok |-> ok, g |-> g, o |-> o, out |-> out]
Failed(s) == Step(FALSE, s.g, s.o, s.out)
Place(ok, g, o, row, at) == [ok |-> ok, g |-> g, o |-> o, row |-> row, at |-> at]
Misplaced(t) == Place(FALSE, t.g, t.o, t.row, t.at)
LabelSet(l) == IF l = "any" THEN {} ELSE {l}

\* Inline properties; MERGE refuses a null one (eval_merge_properties).
BadProperty(value, e, merging) ==
  value = Raised \/ (merging /\ e.k # "none" /\ value = Null)

\* The node of a pattern: an already bound one is reused, else one is created.
PlaceNode(t, np, merging) ==
  LET x == EvaluateExpr(t.o, t.row, np.x)
      n == t.g.nextN
  IN  IF BoundNode(t.row, np.var) THEN Place(t.ok, t.g, t.o, t.row, t.row[np.var].id)
      ELSE IF BadProperty(x, np.x, merging) THEN Misplaced(t)
      ELSE Place(t.ok,
                 Graph(With(t.g.nodes, n, Node(LabelSet(np.label), x)), t.g.edges, n + 1, t.g.nextE),
                 RecordNode(t.o, n, LabelSet(np.label), x), With(t.row, np.var, NodeRef(n)), n)

\* The edge of a hop from node a, once its far node is placed.
PlaceEdge(t, a, h, merging) ==
  LET x == EvaluateExpr(t.o, t.row, h.x)
      e == t.g.nextE
      edge == Edge(IF h.incoming THEN t.at ELSE a, IF h.incoming THEN a ELSE t.at, h.type, x)
  IN  IF ~t.ok \/ BadProperty(x, h.x, merging) \/ ~({a, t.at} \subseteq Ids(t.g.nodes))
      THEN Misplaced(t)
      ELSE Place(TRUE, Graph(t.g.nodes, With(t.g.edges, e, edge), t.g.nextN, e + 1),
                 RecordEdge(t.o, e, edge), With(t.row, h.var, EdgeRef(e)), t.at)

PlaceHop(t, h, merging) ==
  IF ~t.ok THEN t ELSE PlaceEdge(PlaceNode(t, h.node, merging), t.at, h, merging)

CreatePattern(s, row, pat, merging) ==
  LET placed[i \in 0..Len(pat.hops)] ==
        IF i = 0 THEN PlaceNode(Place(TRUE, s.g, s.o, row, 0), pat.node, merging)
        ELSE PlaceHop(placed[i-1], pat.hops[i], merging)
  IN  placed[Len(pat.hops)]

\* One SET item: "prop" (var.x = e), "labels", "all" (var = map), "merge"
\* (var += map), a map holding x or nothing.  A relationship takes no label.
ApplySetItem(s, row, it) ==
  LET v    == EvaluateExpr(s.o, row, it.x)
      id   == row[it.var].id
      isN  == row[it.var].kind = "node"
      keep == it.op = "merge" /\ it.x.k = "none"
      x    == IF ~keep THEN v ELSE IF isN THEN s.g.nodes[id].x ELSE s.g.edges[id].x
      old  == s.g.edges[id]
      g    == IF ~isN THEN WithEdge(s.g, id, Edge(old.src, old.dst, old.type, x))
              ELSE IF it.op = "labels"
              THEN WithNode(s.g, id, s.g.nodes[id].labels \cup {it.label}, s.g.nodes[id].x)
              ELSE WithNode(s.g, id, s.g.nodes[id].labels, x)
  IN  IF it.op = "labels" /\ ~isN THEN s
      ELSE IF v = Raised \/ id \notin (IF isN THEN Ids(s.g.nodes) ELSE Ids(s.g.edges))
      THEN Failed(s)
      ELSE Step(TRUE, g, IF ~isN THEN UpdateEdgeProps(g, s.o, id, x)
                         ELSE IF it.op = "labels" THEN AddLabelPending(g, s.o, id, it.label)
                         ELSE UpdateNodeProps(g, s.o, id, x), s.out)

\* One REMOVE item: "prop" or "labels".  Removing a label of a node that is
\* gone is not an error in the transaction.
ApplyRemoveItem(s, row, it) ==
  LET id  == row[it.var].id
      isN == row[it.var].kind = "node"
      old == s.g.edges[id]
      g   == IF ~isN THEN WithEdge(s.g, id, Edge(old.src, old.dst, old.type, Null))
             ELSE IF it.op # "labels" THEN WithNode(s.g, id, s.g.nodes[id].labels, Null)
             ELSE IF id \in Ids(s.g.nodes)
             THEN WithNode(s.g, id, s.g.nodes[id].labels \ {it.label}, s.g.nodes[id].x)
             ELSE s.g
  IN  IF it.op = "labels"
      THEN IF isN THEN Step(TRUE, g, RemoveLabelPending(g, s.o, id, it.label), s.out) ELSE s
      ELSE IF id \notin (IF isN THEN Ids(s.g.nodes) ELSE Ids(s.g.edges)) THEN Failed(s)
      ELSE Step(TRUE, g, IF isN THEN UpdateNodeProps(g, s.o, id, Null)
                         ELSE UpdateEdgeProps(g, s.o, id, Null), s.out)

ApplyItem(op, s, row, it) ==
  IF ~s.ok THEN s ELSE IF op = "set" THEN ApplySetItem(s, row, it) ELSE ApplyRemoveItem(s, row, it)

ApplyItems(op, s, row, items) ==
  LET done[i \in 0..Len(items)] ==
        IF i = 0 THEN s ELSE ApplyItem(op, done[i-1], row, items[i])
  IN  done[Len(items)]

\* The items applied to every row; the rows stay as they are.
UpdateRows(op, s, rs, items) ==
  LET done[i \in 0..Len(rs)] == IF i = 0 THEN s ELSE ApplyItems(op, done[i-1], rs[i], items)
  IN  done[Len(rs)]

(***************************************************************************)
(* DELETE works on all rows at once: the listed edges first, then the      *)
(* listed nodes, which without DETACH must have no edge left.              *)
(***************************************************************************)

TargetIds(rs, targets, kind) ==
  {rs[p[1]][p[2]].id : p \in {q \in (DOMAIN rs) \X targets : rs[q[1]][q[2]].kind = kind}}

\* Plausible slip: the nodes of each row are checked while the edges listed
\* by the later rows are still there.
DeleteOverPathsPerRow(s, rs, targets, detach) ==
  LET step(t, r) ==
        LET nodes == TargetIds(<<r>>, targets, "node")
            edges == TargetIds(<<r>>, targets, "edge")
            left  == Without(t.g.edges, edges)
            loose == UNION {Incident(left, n) : n \in nodes}
        IN  IF ~t.ok \/ (~detach /\ loose # {}) THEN Failed(t)
            ELSE Step(TRUE, Graph(Without(t.g.nodes, nodes), Without(left, loose), t.g.nextN, t.g.nextE),
                      RecordDeletedNodes(RecordDeletedEdges(t.o, edges \cup loose), nodes), t.out)
  IN  FoldLeft(step, s, rs)

DeleteOverPaths(s, rs, targets, detach) ==
  LET nodes == TargetIds(rs, targets, "node")
      edges == TargetIds(rs, targets, "edge")
      left  == Without(s.g.edges, edges)
      loose == UNION {Incident(left, n) : n \in nodes}
  IN  IF ~detach /\ loose # {} THEN Failed(s)
      ELSE Step(TRUE, Graph(Without(s.g.nodes, nodes), Without(left, loose), s.g.nextN, s.g.nextE),
                RecordDeletedNodes(RecordDeletedEdges(s.o, edges \cup loose), nodes), s.out)

(***************************************************************************)
(* MERGE: the transaction's own graph is searched for the pattern, row by  *)
(* row, so a row finds what an earlier row created.                        *)
(***************************************************************************)

NodeMatches(g, n, np, x) ==
  /\ n \in Ids(g.nodes)
  /\ Carries(g.nodes[n].labels, np.label)
  /\ np.x.k = "none" \/ g.nodes[n].x = x

\* [ok, found]: whether every property could be used, and the partial matches.
Found(ok, found) == [ok |-> ok, found |-> found]

MergeFits(s, row, p, h, e) ==
  LET ctx == Extend(row, p.bind)
      far == OtherEnd(s.g.edges[e], h.incoming)
  IN  /\ EndsAt(s.g.edges[e], p.at, h.incoming) /\ e \notin Range(p.edges)
      /\ s.g.edges[e].type = h.type
      /\ h.x.k = "none" \/ s.g.edges[e].x = EvaluateExpr(s.o, ctx, h.x)
      /\ IF BoundNode(ctx, h.node.var) THEN ctx[h.node.var].id = far
         ELSE NodeMatches(s.g, far, h.node, EvaluateExpr(s.o, ctx, h.node.x))

MergeHop(s, row, m, h) ==
  LET bad(p, e) == BadProperty(EvaluateExpr(s.o, Extend(row, p.bind), e), e, TRUE)
  IN  IF ~m.ok \/ \E p \in m.found : bad(p, h.x) \/ bad(p, h.node.x) THEN Found(FALSE, {})
      ELSE Found(TRUE, UNION {{Grown(p, h, e, OtherEnd(s.g.edges[e], h.incoming)) :
                                 e \in {d \in Ids(s.g.edges) : MergeFits(s, row, p, h, d)}} :
                              p \in m.found})

MergeStart(s, row, np) ==
  LET x == EvaluateExpr(s.o, row, np.x)
  IN  Found(~BadProperty(x, np.x, TRUE),
            Seeds(np.var, IF BoundNode(row, np.var) THEN {row[np.var].id}
                          ELSE {n \in Ids(s.g.nodes) : NodeMatches(s.g, n, np, x)}))

MergeMatch(s, row, pat) ==
  LET grown[i \in 0..Len(pat.hops)] ==
        IF i = 0 THEN MergeStart(s, row, pat.node)
        ELSE MergeHop(s, row, grown[i-1], pat.hops[i])
  IN  grown[Len(pat.hops)]

MergeFound(s, more, c) ==
  LET t == UpdateRows("set", s, more, c.onMatch) IN Step(t.ok, t.g, t.o, s.out \o more)

MergeCreated(s, t, c) ==
  LET u == ApplyItems("set", Step(t.ok, t.g, t.o, s.out), t.row, c.onCreate)
  IN  Step(u.ok, u.g, u.o, Append(s.out, t.row))

MergeRow(s, row, c) ==
  LET m == MergeMatch(s, row, c.pat)
  IN  IF ~m.ok THEN Failed(s)
      ELSE IF m.found # {} THEN MergeFound(s, ExtendRow(row, m.found), c)
      ELSE MergeCreated(s, CreatePattern(s, row, c.pat, TRUE), c)

(***************************************************************************)
(* One clause over all rows (write_part_rows), and the actions.            *)
(***************************************************************************)

CreateRow(s, row, c) ==
  LET t == CreatePattern(s, row, c.pat, FALSE)
  IN  Step(t.ok, t.g, t.o, Append(s.out, t.row))

\* CREATE and MERGE, row by row.
WriteRow(c, s, row) ==
  IF ~s.ok THEN s ELSE IF c.op = "create" THEN CreateRow(s, row, c) ELSE MergeRow(s, row, c)

WriteRows(c, s, rs) ==
  LET done[i \in 0..Len(rs)] == IF i = 0 THEN s ELSE WriteRow(c, done[i-1], rs[i])
  IN  done[Len(rs)]

\* WITH: the kept variables of every row.
Projected(c) ==
  LET kept == [i \in DOMAIN rows |-> [v \in c.keep |-> rows[i][v]]]
  IN  IF c.distinct THEN SetToSeq(Range(kept)) ELSE kept

RunClause(c) ==
  CASE c.op = "match"  -> Step(TRUE, txn, ov, MatchRows(ov, rows, c.pat))
    [] c.op \in {"create", "merge"} -> WriteRows(c, Step(TRUE, txn, ov, <<>>), rows)
    [] c.op \in {"set", "remove"}   -> UpdateRows(c.op, Step(TRUE, txn, ov, rows), rows, c.items)
    [] c.op = "delete" -> DeleteOverPaths(Step(TRUE, txn, ov, rows), rows, c.targets, c.detach)
    [] OTHER           -> Step(TRUE, txn, ov, Projected(c))

PatternVars(pat) == {pat.node.var} \cup UNION {{h.var, h.node.var} : h \in Range(pat.hops)}

\* What a clause of each kind leaves in scope.
ScopeAfter(c) ==
  CASE c.op \in {"match", "create", "merge"} -> scope \cup PatternVars(c.pat)
    [] c.op = "with" -> c.keep
    [] OTHER -> scope

\* Records have their fields, and no stored property is an error.
WellStored(g) ==
  /\ g = Graph(g.nodes, g.edges, g.nextN, g.nextE)
  /\ \A n \in Ids(g.nodes) : /\ g.nodes[n] = Node(g.nodes[n].labels, g.nodes[n].x)
                             /\ g.nodes[n].x # Raised
  /\ \A e \in Ids(g.edges) : g.edges[e].x # Raised

\* A graph whose edges have their ends and whose ids were all handed out.
SoundGraph(g) ==
  /\ WellStored(g)
  /\ IsFiniteSet(Ids(g.nodes)) /\ IsFiniteSet(Ids(g.edges))
  /\ g.nextN \in Nat /\ g.nextE \in Nat
  /\ \A n \in Ids(g.nodes) : n \in Nat /\ n < g.nextN
  /\ \A e \in Ids(g.edges) : /\ e \in Nat /\ e < g.nextE
                             /\ {g.edges[e].src, g.edges[e].dst} \subseteq Ids(g.nodes)

\* A clause only names variables that are in scope (parser.rs refuses others).
SoundExpr(e, V) ==
  /\ e.k \in {"none", "lit", "var"}
  /\ e.k = "lit" => e.lit # Raised
  /\ e.k = "var" => e.var \in V
Names(items, V) ==
  /\ items \in Seq(Range(items))
  /\ \A i \in 1..Len(items) : items[i].var \in V /\ SoundExpr(items[i].x, V)
SoundClause(c) ==
  CASE c.op \in {"match", "create"} -> c.pat.hops \in Seq(Range(c.pat.hops))
    [] c.op = "merge" -> /\ c.pat.hops \in Seq(Range(c.pat.hops))
                         /\ Names(c.onMatch, c.needs \cup PatternVars(c.pat))
                         /\ Names(c.onCreate, c.needs \cup PatternVars(c.pat))
    [] c.op = "set" -> Names(c.items, c.needs)
    [] c.op = "remove" -> /\ Names(c.items, c.needs)
                          /\ \A i \in 1..Len(c.items) : c.items[i].op \in {"prop", "labels"}
    [] c.op = "delete" -> c.targets \subseteq c.needs
    [] OTHER -> c.op = "with" /\ c.keep \subseteq c.needs

ASSUME WriteAssumption == /\ Null # Raised
                          /\ \A g \in Committed : SoundGraph(g)
                          /\ \A c \in Menu : SoundClause(c)

Init ==
  /\ db \in Committed
  /\ txn = db
  /\ ov = NoWrites
  /\ rows = <<EmptyRow>> /\ scope = {} /\ shared = EmptyRow
  /\ stmt = "none" /\ phase = "open"
  /\ used = [clauses |-> 0, statements |-> 0]
  /\ last = [op |-> "begin"]

\* A statement starts from one empty row; a bare CREATE starts from the
\* bindings the earlier bare CREATEs of the pipeline left.
Begin(kind) ==
  /\ phase = "open" /\ stmt = "none" /\ used.statements < MaxStatements
  /\ stmt' = kind
  /\ rows' = <<IF kind = "create" THEN shared ELSE EmptyRow>>
  /\ scope' = DOMAIN rows'[1]
  /\ used' = [used EXCEPT !.statements = @ + 1]
  /\ last' = [op |-> "begin"]
  /\ UNCHANGED <<db, txn, ov, shared, phase>>

\* Which clauses a statement of each kind is made of.
Allowed(c) ==
  CASE stmt = "query"  -> TRUE
    [] stmt = "create" -> c.op = "create"
    [] stmt = "direct" -> IF last.op = "begin" THEN c.op = "match"
                          ELSE last.op = "match" /\ c.op \in {"set", "delete", "remove"}
    [] OTHER -> FALSE

\* An error anywhere abandons the transaction and everything it wrote.
Clause(c) ==
  /\ phase = "open" /\ Allowed(c) /\ used.clauses < MaxClauses
  /\ c.needs \subseteq scope /\ c.fresh \cap scope = {}
  /\ \E s \in {RunClause(c)} :
       /\ Len(s.out) <= MaxRows
       /\ phase' = IF s.ok THEN "open" ELSE "failed"
       /\ txn' = IF s.ok THEN s.g ELSE db
       /\ ov' = IF s.ok THEN s.o ELSE NoWrites
       /\ rows' = IF s.ok THEN s.out ELSE <<>>
       /\ scope' = IF s.ok THEN ScopeAfter(c) ELSE {}
       /\ shared' = IF s.ok /\ stmt = "create" THEN s.out[1] ELSE shared
  /\ last' = c
  /\ used' = [used EXCEPT !.clauses = @ + 1]
  /\ UNCHANGED <<db, stmt>>

EndStatement ==
  /\ phase = "open" /\ stmt # "none" /\ last.op # "begin"
  /\ stmt = "direct" => last.op # "match"
  /\ stmt' = "none" /\ rows' = <<EmptyRow>> /\ scope' = {}
  /\ last' = [op |-> "begin"]
  /\ UNCHANGED <<db, txn, ov, shared, phase, used>>

Commit ==
  /\ phase = "open" /\ stmt = "none" /\ used.statements > 0
  /\ db' = txn /\ ov' = NoWrites /\ phase' = "committed"
  /\ last' = [op |-> "begin"]
  /\ UNCHANGED <<txn, rows, scope, shared, stmt, used>>

Next ==
  \/ \E kind \in {"query", "create", "direct"} : Begin(kind)
  \/ \E c \in Menu : Clause(c)
  \/ EndStatement
  \/ Commit

Spec == Init /\ [][Next]_vars

(***************************************************************************)
(* Properties.                                                             *)
(***************************************************************************)

\* Every read the executor makes through the committed graph and the overlay
\* answers what the open transaction would: label scans, index lookups, the
\* labels and property of a node, expansions in both directions, the property
\* of a relationship; and reading an entity the transaction deleted raises.
OverlayExact ==
  phase = "open" =>
    /\ \A l \in Labels \cup {"any"} :
         /\ LabelScan(ov, l) = {n \in Ids(txn.nodes) : Carries(txn.nodes[n].labels, l)}
         /\ \A v \in {0, 1} : IndexScan(ov, l, v) =
              {n \in Ids(txn.nodes) : Carries(txn.nodes[n].labels, l) /\ txn.nodes[n].x = v}
    /\ \A n \in Ids(txn.nodes) :
         /\ EvalNodeProp(ov, n) = txn.nodes[n].x
         /\ NodeLabelsOverlay(ov, n) = txn.nodes[n].labels
    /\ \A n \in 1..(txn.nextN - 1), type \in Types, incoming \in BOOLEAN :
         ExpandMultiType(ov, n, type, incoming) =
           {<<e, OtherEnd(txn.edges[e], incoming)>> :
              e \in {d \in Ids(txn.edges) : EndsAt(txn.edges[d], n, incoming)
                                            /\ txn.edges[d].type = type}}
    /\ \A e \in Ids(txn.edges) : EvalEdgeProp(ov, e) = txn.edges[e].x
    /\ \A n \in Ids(db.nodes) \ Ids(txn.nodes) : EvalNodeProp(ov, n) = Raised
    /\ \A e \in Ids(db.edges) \ Ids(txn.edges) : EvalEdgeProp(ov, e) = Raised

(***************************************************************************)
(* The meaning of a clause, stated over the transaction's graph alone.     *)
(***************************************************************************)

\* A trail binds a pattern: its first node and one distinct edge per hop.
NodeAt(g, t, hops, i) ==
  IF i = 0 THEN t.seed ELSE OtherEnd(g.edges[t.edges[i]], hops[i].incoming)

BindOf(g, t, pat) ==
  [v \in PatternVars(pat) |->
     IF v = pat.node.var THEN NodeRef(t.seed)
     ELSE LET i == CHOOSE j \in 1..Len(pat.hops) : v \in {pat.hops[j].var, pat.hops[j].node.var}
          IN  IF v = pat.hops[i].var THEN EdgeRef(t.edges[i])
              ELSE NodeRef(NodeAt(g, t, pat.hops, i))]

NodeFits(g, n, np, x) == n \in Ids(g.nodes) /\ Carries(g.nodes[n].labels, np.label)
                         /\ (np.x.k = "none" \/ g.nodes[n].x = x)

ValueIn(g, row, e) ==
  IF e.k = "none" THEN Null ELSE IF e.k = "lit" THEN e.lit
  ELSE IF row[e.var].kind = "node" THEN g.nodes[row[e.var].id].x ELSE g.edges[row[e.var].id].x

\* The trails of the pattern in g that agree with the row.  A node the row
\* already binds is not constrained again by MERGE and CREATE.
Trails(g, row, pat, reuse) ==
  LET hops == pat.hops
      free(np) == ~(reuse /\ np.var \in DOMAIN row)
  IN  {t \in [seed : Ids(g.nodes), edges : [1..Len(hops) -> Ids(g.edges)]] :
         /\ free(pat.node) => NodeFits(g, t.seed, pat.node, ValueIn(g, row, pat.node.x))
         /\ \A i \in 1..Len(hops) :
              LET rec == g.edges[t.edges[i]] IN
              /\ rec.type = hops[i].type
              /\ EndsAt(rec, NodeAt(g, t, hops, i - 1), hops[i].incoming)
              /\ hops[i].x.k = "none" \/ rec.x = ValueIn(g, row, hops[i].x)
              /\ free(hops[i].node) => NodeFits(g, NodeAt(g, t, hops, i), hops[i].node,
                                                ValueIn(g, row, hops[i].node.x))
              /\ \A j \in 1..(i - 1) : t.edges[i] # t.edges[j]
         /\ Agree(row, BindOf(g, t, pat))}

Count(seq, r) == Cardinality({i \in DOMAIN seq : seq[i] = r})

\* MATCH: one row per old row and per trail of the transaction's graph.
MatchRight(c) ==
  LET pairs == UNION {{<<i, t>> : t \in Trails(txn, rows[i], c.pat, FALSE)} : i \in DOMAIN rows}
      made(p) == Extend(rows[p[1]], BindOf(txn, p[2], c.pat))
  IN  /\ phase' = "open" /\ txn' = txn
      /\ Len(rows') = Cardinality(pairs)
      /\ \A r \in Range(rows') : Count(rows', r) = Cardinality({p \in pairs : made(p) = r})

Exists(g, b) == b.id \in (IF b.kind = "node" THEN Ids(g.nodes) ELSE Ids(g.edges))
Readable(row, e) == e.k # "var" \/ Exists(txn, row[e.var])
PatternExprs(pat) == {pat.node.x} \cup UNION {{h.x, h.node.x} : h \in Range(pat.hops)}
Writable(row, pat) ==
  /\ \A e \in PatternExprs(pat) : e.var \in DOMAIN row => Readable(row, e)
  /\ pat.hops # <<>> => \A v \in PatternVars(pat) \cap DOMAIN row : Exists(txn, row[v])

Untouched(old, new) ==
  /\ \A n \in Ids(old.nodes) : n \in Ids(new.nodes) /\ new.nodes[n] = old.nodes[n]
  /\ \A e \in Ids(old.edges) : e \in Ids(new.edges) /\ new.edges[e] = old.edges[e]

\* CREATE: every row gets a trail of its own, new where the row bound nothing.
CreateRight(c) ==
  LET new(r) == {r[v] : v \in PatternVars(c.pat) \ scope} IN
  IF phase' = "failed" THEN \E i \in DOMAIN rows : ~Writable(rows[i], c.pat)
  ELSE /\ Len(rows') = Len(rows)
       /\ Untouched(txn, txn')
       /\ \A i \in DOMAIN rows :
            /\ Agree(rows'[i], rows[i])
            /\ \A b \in new(rows'[i]) : Exists(txn', b) /\ ~Exists(txn, b)
            /\ \E t \in Trails(txn', rows[i], c.pat, TRUE) :
                 rows'[i] = Extend(rows[i], BindOf(txn', t, c.pat))
            /\ \A j \in DOMAIN rows : i # j => new(rows'[i]) \cap new(rows'[j]) = {}

\* MERGE without SET actions: every row ends on trails of the pattern, all of
\* the trails it had; and rows with the same context create it only once.
MergeRight(c) ==
  LET bad(r) == ~Writable(r, c.pat) \/ \E e \in PatternExprs(c.pat) :
                  e.k # "none" /\ ValueIn(txn, r, e) = Null
      context(r) == [v \in scope \cap (PatternVars(c.pat) \cup
                                       {e.var : e \in PatternExprs(c.pat)}) |-> r[v]]
      had(r) == Trails(txn, r, c.pat, TRUE) # {}
  IN  IF phase' = "failed" THEN \E i \in DOMAIN rows : bad(rows[i])
      ELSE /\ Untouched(txn, txn')
           /\ \A r \in Range(rows') : \E i \in DOMAIN rows :
                \E t \in Trails(txn', rows[i], c.pat, TRUE) :
                  r = Extend(rows[i], BindOf(txn', t, c.pat))
           /\ \A i \in DOMAIN rows : \A t \in Trails(txn, rows[i], c.pat, TRUE) :
                Extend(rows[i], BindOf(txn, t, c.pat)) \in Range(rows')
           /\ Cardinality({r \in Range(rows') : \E v \in DOMAIN r : ~Exists(txn, r[v])})
                <= Cardinality({rows[i] : i \in {j \in DOMAIN rows : ~had(rows[j])}})
           /\ txn'.nextN - txn.nextN <= (Len(c.pat.hops) + 1) *
                Cardinality({context(rows[i]) : i \in {j \in DOMAIN rows : ~had(rows[j])}})

\* DELETE: exactly the listed entities go, with DETACH their edges too; it
\* fails exactly when a listed node would leave an edge behind.
DeleteRight(c) ==
  LET nodes == TargetIds(rows, c.targets, "node")
      edges == TargetIds(rows, c.targets, "edge")
      hung  == {e \in Ids(txn.edges) \ edges : \E n \in nodes : e \in Incident(txn.edges, n)}
  IN  IF phase' = "failed" THEN ~c.detach /\ hung # {}
      ELSE /\ c.detach \/ hung = {}
           /\ txn' = [txn EXCEPT !.nodes = Without(@, nodes),
                                 !.edges = Without(@, edges \cup hung)]
           /\ rows' = rows

\* SET and REMOVE of one item: what the rows name takes the item's value or
\* label, nothing else changes, and the clause fails exactly when something it
\* writes or reads is gone.  A value read from a row is told where there is
\* one row: a later row may read what an earlier one wrote.
UpdateRight(c) ==
  LET it == c.items[1]
      on(b) == {i \in DOMAIN rows : rows[i][it.var] = b}
      stuck(i) == /\ it.op = "labels" => c.op = "set" /\ rows[i][it.var].kind = "node"
                  /\ \/ ~Exists(txn, rows[i][it.var])
                     \/ c.op = "set" /\ ~Readable(rows[i], it.x)
      told == Len(rows) = 1 \/ it.x.k # "var"
      value(b, old) == IF c.op = "remove" THEN Null
                       ELSE IF it.op = "merge" /\ it.x.k = "none" THEN old
                       ELSE ValueIn(txn, rows[CHOOSE i \in on(b) : TRUE], it.x)
  IN  Len(c.items) = 1 =>
      /\ phase' = "failed" <=> \E i \in DOMAIN rows : stuck(i)
      /\ phase' # "failed" =>
           /\ rows' = rows
           /\ Ids(txn'.nodes) = Ids(txn.nodes) /\ Ids(txn'.edges) = Ids(txn.edges)
           /\ \A n \in Ids(txn.nodes) :
                LET old == txn.nodes[n]
                    new == txn'.nodes[n]
                IN  IF on(NodeRef(n)) = {} THEN new = old
                    ELSE IF it.op = "labels"
                    THEN new = [old EXCEPT !.labels = IF c.op = "set" THEN @ \cup {it.label}
                                                                      ELSE @ \ {it.label}]
                    ELSE new.labels = old.labels /\ (told => new.x = value(NodeRef(n), old.x))
           /\ \A e \in Ids(txn.edges) :
                LET old == txn.edges[e]
                    new == txn'.edges[e]
                IN  IF on(EdgeRef(e)) = {} \/ it.op = "labels" THEN new = old
                    ELSE /\ new = Edge(old.src, old.dst, old.type, new.x)
                         /\ told => new.x = value(EdgeRef(e), old.x)

ClauseRight(c) ==
  CASE c.op = "match"  -> MatchRight(c)
    [] c.op = "create" -> CreateRight(c)
    [] c.op = "merge"  -> c.onMatch = <<>> /\ c.onCreate = <<>> => MergeRight(c)
    [] c.op = "delete" -> DeleteRight(c)
    [] c.op \in {"set", "remove"} -> UpdateRight(c)
    [] OTHER -> txn' = txn

\* Every clause does to the rows and to the transaction's graph what it means
\* there, and fails exactly when it must, whatever the earlier clauses and
\* statements of the pipeline wrote (exec/write.rs, write_part_rows).
ClausesRight ==
  [][\A c \in Menu : used'.clauses # used.clauses /\ last' = c => ClauseRight(c)]_vars

=============================================================================
