---------------------------- MODULE MCProperties ----------------------------
(***************************************************************************)
(* Model-checking instance of what the store keeps of node properties      *)
(* besides the records: the indexes of PropertyIndex, or the columns of    *)
(* ColumnsCache.  A behaviour uses one of the two, and the columns either  *)
(* in one process whose calls overlap, or across a restart with one call   *)
(* at a time.                                                              *)
(***************************************************************************)
EXTENDS MCPropertyIndex, ColumnsCache

VARIABLE part

PropertiesInit == /\ Init /\ ColumnsInit
                  /\ part \in {"index", "overlap", "restart"}
                  /\ part # "index" => profile.owners = {}

OneCall == \A c, d \in Callers : call[c].pc # "idle" /\ call[d].pc # "idle" => c = d

PropertiesNext ==
    \/ part = "index" /\ Next /\ UNCHANGED <<columnVars, part>>
    \/ part = "overlap" /\ ColumnsNext /\ crashes' = 0 /\ UNCHANGED <<vars, part>>
    \/ part = "restart" /\ ColumnsNext /\ OneCall' /\ UNCHANGED <<vars, part>>

PropertiesSpec == PropertiesInit /\ [][PropertiesNext]_<<vars, columnVars, part>>

\* Nodes, as holders of indexed values and as entities of the columns, edges and
\* callers are interchangeable.
PropertiesSymmetry == Symmetry \cup Permutations(Callers)
=============================================================================
