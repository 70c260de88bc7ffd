----------------------------- MODULE ColumnsCache -----------------------------
(***************************************************************************)
(* The in-memory property columns (columns.rs, ColumnsCache), the group    *)
(* codes derived from them and the cache file they are saved to (graph/    *)
(* mod.rs, node_prop_group_codes_by_id and materialize_property_columns;   *)
(* cache_file.rs).                                                         *)
(*                                                                         *)
(* A write commits, publishes its generation, and only then records which  *)
(* entities it touched; a reader absorbs the recorded ids before it        *)
(* serves, by re-reading them (patch) or by a scan (build).  An entity's   *)
(* record is reduced to the number of writes it has seen and whether it    *)
(* exists.                                                                 *)
(***************************************************************************)
EXTENDS Integers, FiniteSets

CONSTANTS
    Ids,        \* entities (nodes, or edges: the cache is generic)
    Callers,    \* threads that read through the columns
    Uses,       \* the kinds of call the workload makes
    MaxWrites,  \* bound: committed transactions
    MaxCrashes, \* bound: process restarts
    Absent

Rec == [ver: Nat, live: BOOLEAN]
Table == [Ids -> Rec]

ASSUME ColumnsAssumption ==
    /\ MaxWrites \in Nat /\ MaxCrashes \in Nat
    /\ Uses \subseteq {"read", "materialize", "group", "advise"}
    /\ Absent \notin Callers \cup Table

VARIABLES
    db,         \* committed records
    commitGen,  \* the persisted commit generation
    writeGen,   \* the in-memory write generation
    wr,         \* the writer holding the write lock: pc and its delta
    cols,       \* ColumnsCache.columns
    wlock,      \* holder of the exclusive columns lock
    pend,       \* ColumnsCache.pending
    group,      \* Graph.group_codes_by_id for one property
    gmutex,     \* its mutex
    file,       \* the columns cache file
    call,       \* per caller: pc and locals
    recorded,   \* history: records as of the last completed bookkeeping
    stamped,    \* history: those when the write generation was published
    crashes

store  == <<db, commitGen, file>>
memory == <<cols, wlock, pend>>
grp    == <<group, gmutex>>
columnVars   == <<store, writeGen, wr, memory, grp, call, recorded, stamped, crashes>>

-----------------------------------------------------------------------------

Delta == [touched: SUBSET Ids, full: BOOLEAN]
NoDelta == [touched |-> {}, full |-> FALSE]

IdleCall == [pc |-> "idle", use |-> "read", stamp |-> 0, todo |-> {},
             from |-> Absent, got |-> Absent]

\* What reading the columns file yields: its columns when it reflects the
\* persisted generation, a scan of storage otherwise (build_or_load).
BuildOrLoad == IF file # Absent /\ file.gen = commitGen THEN file.vals ELSE db

-----------------------------------------------------------------------------
(* The writer                                                              *)

Commit(newDb, delta) ==
    /\ wr.pc = "idle"
    /\ commitGen < MaxWrites
    /\ db' = newDb
    /\ commitGen' = commitGen + 1
    /\ wr' = [pc |-> "publish", delta |-> delta]
    /\ UNCHANGED <<file, writeGen, memory, grp, call, recorded, stamped, crashes>>

\* Added and updated entities of one transaction; ids are never reused.
Upsert(S) ==
    /\ \A i \in S : db[i].live \/ db[i].ver = 0
    /\ Commit([i \in Ids |-> IF i \in S THEN [ver |-> db[i].ver + 1, live |-> TRUE]
                             ELSE db[i]],
              [touched |-> S, full |-> FALSE])

Delete(i) ==
    /\ db[i].live
    /\ Commit([db EXCEPT ![i] = [ver |-> @.ver + 1, live |-> FALSE]],
              [touched |-> {}, full |-> TRUE])

\* commit_and_publish, after wtxn.commit.
Publish ==
    /\ wr.pc = "publish"
    /\ writeGen' = writeGen + 1
    /\ stamped' = recorded
    /\ wr' = [wr EXCEPT !.pc = "record"]
    /\ UNCHANGED <<store, memory, grp, call, recorded, crashes>>

\* record_force_full drops the ids; record_touched adds none to a full marker.
RecordDelta(p, delta) ==
    IF p.full \/ delta.full THEN [touched |-> {}, full |-> TRUE]
    ELSE [touched |-> p.touched \cup delta.touched, full |-> FALSE]

RecordTouched ==
    /\ wr.pc = "record"
    /\ pend' = RecordDelta(pend, wr.delta)
    /\ recorded' = db
    /\ wr' = [pc |-> "idle", delta |-> NoDelta]
    /\ UNCHANGED <<store, writeGen, cols, wlock, grp, call, stamped, crashes>>

-----------------------------------------------------------------------------
(* with_fresh                                                              *)

Start(c, use, stamp) ==
    /\ use \in Uses
    /\ call[c].pc = "idle"
    /\ call' = [call EXCEPT ![c] = [IdleCall EXCEPT
                    !.pc = "check", !.use = use, !.stamp = stamp,
                    !.from = recorded]]

\* A property read or gather.
StartRead(c) ==
    /\ Start(c, "read", 0)
    /\ UNCHANGED <<store, writeGen, wr, memory, grp, recorded, stamped, crashes>>

\* should_serve_directly: a small request while the columns are absent is
\* answered from storage; the counter that ends this is left open.
DirectRead(c) ==
    /\ call[c].pc = "check" /\ call[c].use = "read"
    /\ cols = Absent /\ wlock = Absent
    /\ call' = [call EXCEPT ![c].pc = "done", ![c].got = db]
    /\ UNCHANGED <<store, writeGen, wr, memory, grp, recorded, stamped, crashes>>

\* materialize_property_columns captures the stamp under the write lock.
StartMaterialize(c) ==
    /\ wr.pc = "idle"
    /\ Start(c, "materialize", commitGen)
    /\ UNCHANGED <<store, writeGen, wr, memory, grp, recorded, stamped, crashes>>

\* node_prop_group_codes_by_id holds its mutex throughout and files what it
\* builds under the generation it reads first.
StartGroup(c) ==
    /\ gmutex = Absent
    /\ group.gen # writeGen \/ group.codes = Absent
    /\ Start(c, "group", writeGen)
    /\ gmutex' = c
    /\ group' = [gen |-> writeGen, codes |-> Absent]
    /\ UNCHANGED <<store, writeGen, wr, memory, recorded, stamped, crashes>>

\* Mutant: codes are handed out whatever generation they were filed under.
GroupHitAny(c) ==
    /\ "group" \in Uses
    /\ call[c].pc = "idle" /\ gmutex = Absent
    /\ group.codes # Absent
    /\ call' = [call EXCEPT ![c] = [IdleCall EXCEPT
                    !.pc = "done", !.use = "group", !.from = stamped, !.got = group.codes]]
    /\ UNCHANGED <<store, writeGen, wr, memory, grp, recorded, stamped, crashes>>

\* Codes filed under the present generation are the answer.  Columns learn of
\* a write after its generation is out, so what a hit can be held to is what
\* had been recorded when that generation was published.
GroupHit(c) ==
    /\ "group" \in Uses
    /\ call[c].pc = "idle" /\ gmutex = Absent
    /\ group.gen = writeGen /\ group.codes # Absent
    /\ call' = [call EXCEPT ![c] = [IdleCall EXCEPT
                    !.pc = "done", !.use = "group", !.from = stamped, !.got = group.codes]]
    /\ UNCHANGED <<store, writeGen, wr, memory, grp, recorded, stamped, crashes>>

\* Mutant: columns that exist are served, pending changes or not.
ServeStale(c) ==
    /\ call[c].pc = "check"
    /\ wlock = Absent
    /\ cols # Absent
    /\ call' = [call EXCEPT ![c].pc = "done", ![c].got = cols]
    /\ UNCHANGED <<store, writeGen, wr, memory, grp, recorded, stamped, crashes>>

\* Mutant: the file is stamped with the generation of the moment it is saved.
ServeLateStamp(c) ==
    /\ call[c].pc = "check"
    /\ wlock = Absent
    /\ cols # Absent /\ pend = NoDelta
    /\ call' = [call EXCEPT ![c].pc = "done", ![c].got = cols]
    /\ file' = IF call[c].use = "materialize"
               THEN [gen |-> commitGen, vals |-> cols] ELSE file
    /\ UNCHANGED <<db, commitGen, writeGen, wr, memory, grp, recorded, stamped, crashes>>

\* The shared lock: serve when nothing is pending.  The closure runs under
\* the guard: it reads, saves the file, or derives the group codes.
Serve(c) ==
    /\ call[c].pc = "check" /\ call[c].use # "advise"
    /\ wlock = Absent
    /\ cols # Absent /\ pend = NoDelta
    /\ call' = [call EXCEPT ![c].pc = "done", ![c].got = cols]
    /\ file' = IF /\ call[c].use = "materialize"
                  /\ file # Absent => file.gen # call[c].stamp
               THEN [gen |-> call[c].stamp, vals |-> cols] ELSE file
    /\ IF call[c].use = "group"
       THEN group' = [group EXCEPT !.codes = cols] /\ gmutex' = Absent
       ELSE UNCHANGED grp
    /\ UNCHANGED <<db, commitGen, writeGen, wr, memory, recorded, stamped, crashes>>

\* The exclusive lock is taken and the pending delta with it.
TakePending(c) ==
    /\ call[c].pc = "check" /\ call[c].use # "advise"
    /\ wlock = Absent
    /\ cols = Absent \/ pend # NoDelta
    /\ wlock' = c
    /\ pend' = NoDelta
    /\ call' = [call EXCEPT
                  ![c].pc = IF cols = Absent \/ pend.full THEN "build" ELSE "patch",
                  ![c].todo = pend.touched]
    /\ UNCHANGED <<store, writeGen, wr, cols, grp, recorded, stamped, crashes>>

\* A full build, after which the loop starts over.
Build(c) ==
    /\ call[c].pc = "build"
    /\ cols' = BuildOrLoad
    /\ wlock' = Absent
    /\ call' = [call EXCEPT ![c].pc = "check", ![c].todo = {}]
    /\ UNCHANGED <<store, writeGen, wr, pend, grp, recorded, stamped, crashes>>

\* Mutant: a record that is gone clears its row.
PatchChunkClears(c, i) ==
    /\ call[c].pc \in {"patch", "advpatch"}
    /\ i \in call[c].todo
    /\ cols' = [cols EXCEPT ![i] = IF db[i].live THEN db[i] ELSE Absent]
    /\ call' = [call EXCEPT ![c].todo = @ \ {i}]
    /\ UNCHANGED <<store, writeGen, wr, wlock, pend, grp, recorded, stamped, crashes>>

\* One chunk of a patch: a record that is gone is passed over.
PatchChunk(c, i) ==
    /\ call[c].pc \in {"patch", "advpatch"}
    /\ i \in call[c].todo
    /\ cols' = IF db[i].live THEN [cols EXCEPT ![i] = db[i]] ELSE cols
    /\ call' = [call EXCEPT ![c].todo = @ \ {i}]
    /\ UNCHANGED <<store, writeGen, wr, wlock, pend, grp, recorded, stamped, crashes>>

PatchDone(c) ==
    /\ call[c].pc = "patch" /\ call[c].todo = {}
    /\ wlock' = Absent
    /\ call' = [call EXCEPT ![c].pc = "check"]
    /\ UNCHANGED <<store, writeGen, wr, cols, pend, grp, recorded, stamped, crashes>>

\* Mutant: the delta a failed patch had taken is forgotten.
AbsorbFailsForgets(c) ==
    /\ call[c].pc \in {"build", "patch", "advpatch"}
    /\ wlock' = Absent
    /\ call' = [call EXCEPT ![c] = [IdleCall EXCEPT !.pc = "failed"]]
    /\ UNCHANGED <<store, writeGen, wr, cols, pend, grp, recorded, stamped, crashes>>

\* recover_if_failed: the delta is gone from the buffer, so a full rebuild is
\* left pending; the error is returned.
AbsorbFails(c) ==
    /\ call[c].pc \in {"build", "patch", "advpatch"}
    /\ pend' = RecordDelta(pend, [touched |-> {}, full |-> TRUE])
    /\ wlock' = Absent
    /\ call' = [call EXCEPT ![c] = [IdleCall EXCEPT !.pc = "failed"]]
    /\ gmutex' = IF gmutex = c THEN Absent ELSE gmutex
    /\ UNCHANGED <<store, writeGen, wr, cols, group, recorded, stamped, crashes>>

-----------------------------------------------------------------------------
(* with_existing_mut: advisory readers never build.                        *)

StartAdvisory(c) ==
    /\ cols # Absent /\ wlock = Absent
    /\ Start(c, "advise", 0)
    /\ UNCHANGED <<store, writeGen, wr, memory, grp, recorded, stamped, crashes>>

\* One turn of the loop under the exclusive lock.
Advise(c) ==
    /\ call[c].use = "advise"
    /\ \/ call[c].pc = "check" /\ wlock = Absent
       \/ call[c].pc = "advpatch" /\ call[c].todo = {}
    /\ IF cols = Absent
       THEN /\ call' = [call EXCEPT ![c] = [IdleCall EXCEPT !.pc = "done"]]
            /\ UNCHANGED memory
       ELSE IF pend.full
       THEN /\ cols' = Absent
            /\ wlock' = Absent
            /\ pend' = NoDelta
            /\ call' = [call EXCEPT ![c] = [IdleCall EXCEPT !.pc = "done"]]
       ELSE IF pend.touched = {}
       THEN /\ wlock' = Absent
            /\ call' = [call EXCEPT ![c].pc = "done", ![c].got = cols]
            /\ UNCHANGED <<cols, pend>>
       ELSE /\ wlock' = c
            /\ pend' = NoDelta
            /\ call' = [call EXCEPT ![c].pc = "advpatch", ![c].todo = pend.touched]
            /\ UNCHANGED cols
    /\ UNCHANGED <<store, writeGen, wr, grp, recorded, stamped, crashes>>

Return(c) ==
    /\ call[c].pc \in {"done", "failed"}
    /\ call' = [call EXCEPT ![c] = IdleCall]
    /\ UNCHANGED <<store, writeGen, wr, memory, grp, recorded, stamped, crashes>>

\* The process stops at any point and reopens the database: storage and the
\* file survive (a save is a rename), everything else starts over.
Crash ==
    /\ crashes < MaxCrashes
    /\ crashes' = crashes + 1
    /\ writeGen' = 1
    /\ wr' = [pc |-> "idle", delta |-> NoDelta]
    /\ cols' = Absent /\ wlock' = Absent /\ pend' = NoDelta
    /\ group' = [gen |-> 0, codes |-> Absent] /\ gmutex' = Absent
    /\ call' = [c \in Callers |-> IdleCall]
    /\ recorded' = db /\ stamped' = db
    /\ UNCHANGED store

-----------------------------------------------------------------------------

ColumnsInit ==
    /\ db = [i \in Ids |-> [ver |-> 0, live |-> FALSE]]
    /\ commitGen = 0 /\ writeGen = 1
    /\ wr = [pc |-> "idle", delta |-> NoDelta]
    /\ cols = Absent /\ wlock = Absent /\ pend = NoDelta
    /\ group = [gen |-> 0, codes |-> Absent] /\ gmutex = Absent
    /\ file = Absent
    /\ call = [c \in Callers |-> IdleCall]
    /\ recorded = db /\ stamped = db
    /\ crashes = 0

WriterNext ==
    \/ \E S \in (SUBSET Ids) \ {{}} : Upsert(S)
    \/ \E i \in Ids : Delete(i)

WriterStep == Publish \/ RecordTouched

CallStart(c) ==
    StartRead(c) \/ StartMaterialize(c) \/ StartGroup(c) \/ StartAdvisory(c) \/ GroupHit(c)

LockStep(c) == DirectRead(c) \/ Serve(c) \/ TakePending(c) \/ Advise(c)

HeldStep(c) ==
    Build(c) \/ PatchDone(c) \/ (\E i \in Ids : PatchChunk(c, i))

ColumnsNext ==
    \/ WriterNext \/ WriterStep \/ Crash
    \/ \E c \in Callers : \/ CallStart(c) \/ LockStep(c) \/ HeldStep(c)
                          \/ AbsorbFails(c) \/ Return(c)

ColumnsSpec == ColumnsInit /\ [][ColumnsNext]_columnVars

-----------------------------------------------------------------------------
(* Properties                                                              *)

\* Every variable has its type.
ColumnsTypeOK ==
    /\ db \in Table /\ recorded \in Table /\ stamped \in Table
    /\ commitGen \in Nat /\ writeGen \in Nat /\ crashes \in Nat
    /\ wr \in [pc: {"idle", "publish", "record"}, delta: Delta]
    /\ cols \in Table \cup {Absent}
    /\ wlock \in Callers \cup {Absent} /\ gmutex \in Callers \cup {Absent}
    /\ pend \in Delta
    /\ group \in [gen: Nat, codes: Table \cup {Absent}]
    /\ file \in [gen: Nat, vals: Table] \cup {Absent}
    /\ call \in [Callers ->
          [pc: {"idle", "check", "build", "patch", "advpatch", "done", "failed"},
           use: {"read", "materialize", "group", "advise"}, stamp: Nat,
           todo: SUBSET Ids, from: Table \cup {Absent}, got: Table \cup {Absent}]]

\* Served to call c for entity i: at least as new as what it is held to.
SeesRecorded(c, i) == call[c].got[i].ver >= call[c].from[i].ver

Served(c) == call[c].pc = "done" /\ call[c].got # Absent

\* What a call is served reflects, for every entity that still exists, every
\* write whose bookkeeping had finished when the call began (with_fresh).  A
\* hit on the group codes reflects those that had finished when its generation
\* was published: it lacks at most the write that published it.
ReadsRecorded ==
    \A c \in Callers : Served(c) => \A i \in Ids : db[i].live => SeesRecorded(c, i)

\* Group codes are "valid for exactly one write generation" (graph/mod.rs:561,
\* Graph::group_codes_by_id): a hit hands out every write that has been
\* recorded by then, the one that made its generation included.
HitsRecorded ==
    [][\A c \in Callers : GroupHit(c) =>
         \A i \in Ids : db[i].live => group.codes[i].ver >= recorded[i].ver]_columnVars

\* With nothing pending and nobody at work, the columns equal storage, after
\* any failed absorb, delete, partial patch or file load (recover_if_failed).
Converged ==
    cols # Absent /\ wlock = Absent /\ pend = NoDelta /\ wr.pc = "idle" => cols = db

\* A file whose stamp is the persisted generation holds storage exactly, so a
\* later process may load it ("stamp <= absorbed content",
\* materialize_property_columns).
FileTrustworthy == file # Absent /\ file.gen = commitGen => file.vals = db
=============================================================================
