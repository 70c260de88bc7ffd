------------------------------ MODULE MCCsrCache ------------------------------
(* Model-checking instances of CsrCache.                                   *)
EXTENDS CsrCache, TLC

\* Additions and updates with threads, and everything without: with a pending
\* list that overflows at its second edge.
Growing ==
    {[threads |-> "multi", ops |-> Additive, writes |-> 3, pending |-> 9],
     [threads |-> "single", ops |-> Additive \cup Removing, writes |-> 5, pending |-> 1]}

\* Additions, updates and removals with threads.
Changing ==
    {[threads |-> "multi", writes |-> 3, pending |-> 9,
      ops |-> {"add_node", "add_edge", "update_edge", "delete_edge", "delete_node"}]}

\* Two edges of one node, and the removal of one.
Removal ==
    {[threads |-> "multi", ops |-> {"add_node", "add_edge", "delete_edge"},
      writes |-> 4, pending |-> 9]}
=============================================================================
