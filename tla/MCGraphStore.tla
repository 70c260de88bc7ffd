---------------------------- MODULE MCGraphStore ----------------------------
(***************************************************************************)
(* Model-checking instance of GraphStore and of the memory backend: the    *)
(* graph's transactions over a storage that keeps its promise, or the      *)
(* storage itself.                                                         *)
(***************************************************************************)
EXTENDS GraphStore, MemoryStore, TLC

VARIABLE part

storeVars == <<vars, memVars, part>>

StoreInit == Init /\ MemInit /\ part \in {"graph", "memory"}

StoreNext ==
    \/ part = "graph"  /\ Next    /\ UNCHANGED <<memVars, part>>
    \/ part = "memory" /\ MemNext /\ UNCHANGED <<vars, part>>

StoreSpec == StoreInit /\ [][StoreNext]_storeVars

\* Which value and which writer makes no difference.
MemSymmetry == Permutations(Values) \cup Permutations(Writers)
=============================================================================
