--------------------------- MODULE SnapshotStore ---------------------------
(***************************************************************************)
(* What the engine relies on from a storage backend (core storage/mod.rs): *)
(* one writer at a time, on tables of its own that start from what is      *)
(* committed; a commit that makes all of them visible at once, an abort    *)
(* that leaves nothing; and readers, never blocked, that keep what was     *)
(* committed when they began.                                              *)
(***************************************************************************)
CONSTANTS TableNames, Keys, Values, Readers, Writers

VARIABLES
    committed,  \* the tables: the values under each key
    views,      \* the tables of each open read transaction
    drafts      \* the tables of each open write transaction

vars == <<committed, views, drafts>>

Open(f, x, tables) == [y \in DOMAIN f \cup {x} |-> IF y = x THEN tables ELSE f[y]]
Close(f, x) == [y \in DOMAIN f \ {x} |-> f[y]]

Init ==
    /\ committed = [t \in TableNames |-> [k \in Keys |-> {}]]
    /\ views = <<>> /\ drafts = <<>>

BeginRead(r) == r \notin DOMAIN views /\ views' = Open(views, r, committed) /\ UNCHANGED <<committed, drafts>>
EndRead(r) == r \in DOMAIN views /\ views' = Close(views, r) /\ UNCHANGED <<committed, drafts>>

BeginWrite(w) == DOMAIN drafts = {} /\ drafts' = Open(drafts, w, committed) /\ UNCHANGED <<committed, views>>
Write(w, t, k, vs) ==
    /\ w \in DOMAIN drafts
    /\ drafts' = [drafts EXCEPT ![w][t][k] = vs]
    /\ UNCHANGED <<committed, views>>
Commit(w) ==
    /\ w \in DOMAIN drafts
    /\ committed' = drafts[w]
    /\ drafts' = Close(drafts, w)
    /\ UNCHANGED views
Abort(w) == w \in DOMAIN drafts /\ drafts' = Close(drafts, w) /\ UNCHANGED <<committed, views>>

Next ==
    \/ \E r \in Readers : BeginRead(r) \/ EndRead(r)
    \/ \E w \in Writers : \/ BeginWrite(w) \/ Commit(w) \/ Abort(w)
                          \/ \E t \in TableNames, k \in Keys, vs \in SUBSET Values : Write(w, t, k, vs)

Spec == Init /\ [][Next]_vars
=============================================================================
