------------------------------ MODULE GraphSpec ------------------------------
(***************************************************************************)
(* What the write path of IssunDB promises: a property graph that changes  *)
(* by whole transactions.  Inside a transaction every mutation takes       *)
(* effect at once, a deleted node takes its edges with it, an edge needs   *)
(* both its endpoints, and ids grow; a mutation that fails leaves the      *)
(* transaction good for nothing but its end.  Nothing here knows of        *)
(* adjacency tables, buffers, memos or counters: module GraphStore has     *)
(* those, and is shown to implement this one.                              *)
(***************************************************************************)
EXTENDS Integers

CONSTANTS Labels, Types

VARIABLES
    graph,  \* the committed graph
    view,   \* the graph the open transaction sees
    status  \* "none", "open" or "failed"

gvars == <<graph, view, status>>

Empty == [nodes |-> {}, labels |-> {}, edges |-> {}, nextNode |-> 0, nextEdge |-> 0]

\* A graph x after each kind of mutation.
WithNode(x, ls) ==
    [x EXCEPT !.nodes = @ \cup {x.nextNode},
              !.labels = @ \cup ({x.nextNode} \X ls),
              !.nextNode = @ + 1]

WithEdge(x, s, d, ty) ==
    [x EXCEPT !.edges = @ \cup {[id |-> x.nextEdge, src |-> s, dst |-> d, type |-> ty]},
              !.nextEdge = @ + 1]

WithLabel(x, n, l) == [x EXCEPT !.labels = @ \cup {<<n, l>>}]
WithoutLabel(x, n, l) == [x EXCEPT !.labels = @ \ {<<n, l>>}]

WithoutEdge(x, id) == [x EXCEPT !.edges = {e \in @ : e.id # id}]

WithoutNode(x, n) ==
    [x EXCEPT !.nodes = @ \ {n},
              !.labels = {p \in @ : p[1] # n},
              !.edges = {e \in @ : e.src # n /\ e.dst # n}]

\* y is x after one mutation.
Mutation(x, y) ==
    \/ \E ls \in SUBSET Labels : y = WithNode(x, ls)
    \/ \E s, d \in x.nodes, ty \in Types : y = WithEdge(x, s, d, ty)
    \/ \E n \in x.nodes, l \in Labels : y = WithLabel(x, n, l)
    \/ \E n \in x.nodes, l \in Labels : y = WithoutLabel(x, n, l)
    \/ \E n \in x.nodes : y = WithoutNode(x, n)
    \/ \E e \in x.edges : y = WithoutEdge(x, e.id)

Init == graph = Empty /\ view = Empty /\ status = "none"

Begin == status = "none" /\ status' = "open" /\ view' = graph /\ UNCHANGED graph

Mutate == status = "open" /\ UNCHANGED <<status, graph>> /\ Mutation(view, view')

Fail == status = "open" /\ status' = "failed" /\ view' = Empty /\ UNCHANGED graph

Commit == status = "open" /\ status' = "none" /\ graph' = view /\ view' = Empty

Abort == status # "none" /\ status' = "none" /\ view' = Empty /\ UNCHANGED graph

\* A mutator called outside a transaction is a transaction of its own.
Direct == status = "none" /\ UNCHANGED <<status, view>> /\ Mutation(graph, graph')

Next == Begin \/ Mutate \/ Fail \/ Commit \/ Abort \/ Direct

Spec == Init /\ [][Next]_gvars
=============================================================================
