---------------------------- MODULE MemoryStore ----------------------------
(***************************************************************************)
(* The in-memory storage backend (core storage/memory.rs).  A table set is *)
(* a vector of shared tables; readers hold the vector that was published   *)
(* when they began, the writer a vector of its own whose tables are still  *)
(* shared until it first changes one, when Arc::make_mut copies it.  A     *)
(* table nobody else holds is changed in place.                            *)
(***************************************************************************)
EXTENDS Naturals, Functions

CONSTANTS
    TableNames,
    DupTables,  \* the tables that keep several values under a key
    Keys, Values,
    Readers, Writers,
    Places      \* names for the copies of a table, enough for all that are held at once

ASSUME PlacesAssumption == 1 \in Places

VARIABLES
    objects,    \* the copies of each table in memory, as far as anybody holds them
    published,  \* Env.published: the copy of each table
    reading,    \* RoTxn.tables of each open read transaction
    working,    \* RwTxn.inner.tables of each open write transaction
    writer      \* Env.writer: the mutex of the writers, its holders

memVars == <<objects, published, reading, working, writer>>

Held(t, vectors) == {v[t] : v \in vectors}
Keep(vectors) == [t \in TableNames |-> Restrict(objects[t], Held(t, vectors))]
FreePlaces(t) == Places \ DOMAIN objects[t]
FreePlace(t) == CHOOSE o \in FreePlaces(t) : TRUE
Add(f, x, y) == [z \in DOMAIN f \cup {x} |-> IF z = x THEN y ELSE f[z]]
Drop(f, x) == Restrict(f, DOMAIN f \ {x})

\* A key is there only with a value under it.
NoKeys == <<>>
table_data(w, t) == objects[t][working[w][t]]
Under(data, k) == IF k \in DOMAIN data THEN data[k] ELSE {}

-----------------------------------------------------------------------------
(* Env *)

read_txn(r) ==
    /\ r \notin DOMAIN reading
    /\ reading' = Add(reading, r, published)
    /\ UNCHANGED <<objects, published, working, writer>>

drop_read(r) ==
    /\ r \in DOMAIN reading
    /\ reading' = Drop(reading, r)
    /\ objects' = Keep({published} \cup Range(reading') \cup Range(working))
    /\ UNCHANGED <<published, working, writer>>

write_txn(w) ==
    /\ writer = {}
    /\ writer' = {w}
    /\ working' = Add(working, w, published)
    /\ UNCHANGED <<objects, published, reading>>

\* Publish the working copy; the old table set goes with its last reader.
commit(w) ==
    /\ w \in DOMAIN working
    /\ published' = working[w]
    /\ working' = Drop(working, w)
    /\ writer' = writer \ {w}
    /\ objects' = Keep({published'} \cup Range(reading) \cup Range(working'))
    /\ UNCHANGED reading

abort(w) ==
    /\ w \in DOMAIN working
    /\ working' = Drop(working, w)
    /\ writer' = writer \ {w}
    /\ objects' = Keep({published} \cup Range(reading) \cup Range(working'))
    /\ UNCHANGED <<published, reading>>

-----------------------------------------------------------------------------
(* Table *)

table_mut_in_place(w, t, data) ==
    /\ objects' = [objects EXCEPT ![t][working[w][t]] = data]
    /\ UNCHANGED <<published, reading, working, writer>>

\* Arc::make_mut on one table of the working copy, which then becomes data.
table_mut(w, t, data) ==
    LET old == working[w][t]
    IN  /\ IF old \in Held(t, {published} \cup Range(reading))
           THEN /\ FreePlaces(t) # {}
                /\ objects' = [objects EXCEPT ![t] = Add(@, FreePlace(t), data)]
                /\ working' = [working EXCEPT ![w][t] = FreePlace(t)]
           ELSE objects' = [objects EXCEPT ![t][old] = data] /\ UNCHANGED working
        /\ UNCHANGED <<published, reading, writer>>

put(w, t, k, v) ==
    /\ w \in DOMAIN working
    /\ LET data == table_data(w, t)
           kept == IF t \in DupTables THEN Under(data, k) ELSE {}
       IN  table_mut(w, t, Add(data, k, kept \cup {v}))

delete(w, t, k) ==
    /\ w \in DOMAIN working
    /\ table_mut(w, t, Drop(table_data(w, t), k))

\* The key goes with its last value.
delete_one_duplicate(w, t, k, v) ==
    /\ w \in DOMAIN working /\ t \in DupTables
    /\ LET data == table_data(w, t)
           left == Under(data, k) \ {v}
       IN  table_mut(w, t, IF left = {} THEN Drop(data, k) ELSE Add(data, k, left))

-----------------------------------------------------------------------------
MemInit ==
    /\ objects = [t \in TableNames |-> <<NoKeys>>]
    /\ published = [t \in TableNames |-> 1]
    /\ reading = <<>> /\ working = <<>> /\ writer = {}

MemNext ==
    \/ \E r \in Readers : read_txn(r) \/ drop_read(r)
    \/ \E w \in Writers :
          \/ write_txn(w) \/ commit(w) \/ abort(w)
          \/ \E t \in TableNames, k \in Keys :
                \/ delete(w, t, k)
                \/ \E v \in Values : put(w, t, k, v) \/ delete_one_duplicate(w, t, k, v)

MemSpec == MemInit /\ [][MemNext]_memVars

-----------------------------------------------------------------------------
(* What a table set says, whoever else shares its tables. *)
Said(vector) == [t \in TableNames |-> [k \in Keys |-> Under(objects[t][vector[t]], k)]]

Promise == INSTANCE SnapshotStore WITH
    committed <- Said(published),
    views     <- [r \in DOMAIN reading |-> Said(reading[r])],
    drafts    <- [w \in DOMAIN working |-> Said(working[w])]

\* Sharing is never seen: no reader's tables change under it, no write of an
\* open or aborted transaction reaches anyone else, and a commit is seen as a
\* whole (storage/memory.rs: "A reader either sees all of them or none").
ImplementsSnapshots == Promise!Spec
=============================================================================
