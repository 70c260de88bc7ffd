------------------------------- MODULE CsrFile -------------------------------
(***************************************************************************)
(* The cache file of the adjacency snapshot and its life across processes, *)
(* backups and restores: rebuild_csr saves it (graph/mod.rs, save_csr and  *)
(* publish_cache_file of cache_file.rs), build_snapshot loads it (graph/   *)
(* algo.rs, load_csr), and Storage::open, copy_to_file and                 *)
(* restore_from_file (storage/lmdb.rs) decide which database it lies       *)
(* beside.                                                                 *)
(*                                                                         *)
(* The content of a database is reduced to a version that no two commits   *)
(* share, so that a restored database that takes other writes than the     *)
(* original did reaches the same generation with another version.          *)
(***************************************************************************)
EXTENDS Integers

CONSTANTS
    MaxVersion,  \* bound: database versions, over all databases
    MaxDatabases,\* bound: databases created
    MaxWriteGen, \* bound: published writes of one process
    Missing      \* no database, no file

Database == [id: Nat, gen: Nat, ver: Nat]
File == [id: Nat, gen: Nat, ver: Nat, weighted: BOOLEAN]

ASSUME FileAssumption ==
    /\ MaxVersion \in Nat /\ MaxDatabases \in Nat /\ MaxWriteGen \in Nat
    /\ Missing \notin Database /\ Missing \notin File

VARIABLES
    data,      \* data.mdb: the identity, the commit generation, the content
    file,      \* csr.cache
    backup,    \* the backup file, once one was taken
    open,      \* whether a process has the directory open
    writing,   \* whether a commit is not yet published
    write_gen, \* CsrCache.write_gen
    snap,      \* the installed snapshot, and ...
    snapGen,   \* ... CsrCache.snapshot_gen
    wants,     \* CsrCache.weights_requested
    m,         \* the pass that holds the maintenance mutex
    restore,   \* the step a restore has reached
    nextId,    \* the next identity
    nextVer    \* the next version (0 is the empty snapshot)

onDisk == <<data, file, backup>>
mem  == <<open, writing, write_gen, snap, snapGen, wants>>
fileVars == <<onDisk, mem, m, restore, nextId, nextVer>>

IdlePass == [pc |-> "free", rebuild |-> FALSE, want |-> FALSE, built |-> 0,
             stamp |-> 0, ver |-> 0, weighted |-> FALSE]

NoSnap == [ver |-> 0, weighted |-> FALSE]

-----------------------------------------------------------------------------
(* Processes and writers                                                   *)

\* Storage::open creates the database with a new identity when there is none;
\* Graph::open builds nothing.
Open ==
    /\ ~open /\ restore = "idle"
    /\ IF data # Missing THEN UNCHANGED <<data, nextId, nextVer>>
       ELSE /\ nextId < MaxDatabases /\ nextVer < MaxVersion
            /\ data' = [id |-> nextId, gen |-> 0, ver |-> nextVer]
            /\ nextId' = nextId + 1 /\ nextVer' = nextVer + 1
    /\ open' = TRUE
    /\ write_gen' = 1 /\ snapGen' = 0 /\ snap' = NoSnap /\ wants' = FALSE
    /\ UNCHANGED <<file, backup, writing, m, restore>>

\* bump_commit_gen is part of the transaction that LMDB commits.
CommitWrite ==
    /\ open /\ ~writing
    /\ nextVer < MaxVersion /\ write_gen < MaxWriteGen
    /\ data' = [data EXCEPT !.gen = @ + 1, !.ver = nextVer]
    /\ nextVer' = nextVer + 1
    /\ writing' = TRUE
    /\ UNCHANGED <<file, backup, open, write_gen, snap, snapGen, wants, m,
                   restore, nextId>>

\* advance_write_gen
Publish ==
    /\ writing
    /\ write_gen' = write_gen + 1
    /\ writing' = FALSE
    /\ UNCHANGED <<onDisk, open, snap, snapGen, wants, m, restore, nextId, nextVer>>

RequestWeights ==
    /\ open
    /\ wants' = TRUE
    /\ UNCHANGED <<onDisk, open, writing, write_gen, snap, snapGen, m, restore,
                   nextId, nextVer>>

\* The process ends, in good order or not: memory is lost.
Stop ==
    /\ open
    /\ open' = FALSE /\ writing' = FALSE
    /\ m' = IdlePass
    /\ UNCHANGED <<onDisk, write_gen, snap, snapGen, wants, restore, nextId, nextVer>>

-----------------------------------------------------------------------------
(* A maintenance pass                                                      *)

Pass(from, new) == m.pc = from /\ m' = new

\* The mutex is taken and the write generation read: rebuild_csr, or the
\* full-build path of a refresh that found the snapshot stale or unweighted.
BeginPass(rebuild) ==
    /\ open
    /\ rebuild \/ snapGen # write_gen \/ (wants /\ ~snap.weighted)
    /\ Pass("free", [IdlePass EXCEPT !.pc = "stamp", !.rebuild = rebuild,
                                 !.built = write_gen])
    /\ UNCHANGED <<onDisk, mem, restore, nextId, nextVer>>

\* The persisted generation is read in a transaction of its own.
ReadStamp ==
    /\ Pass("stamp", [m EXCEPT !.pc = IF m.rebuild THEN "scan" ELSE "load",
                               !.want = wants, !.stamp = data.gen])
    /\ UNCHANGED <<onDisk, mem, restore, nextId, nextVer>>

\* Mutant: the identity in the header is not compared.
UsableAnyDatabase ==
    /\ file # Missing
    /\ file.gen = m.stamp
    /\ m.want => file.weighted

\* load_csr: the file is there, of this database and this generation, and has
\* the weights that are wanted.
Usable ==
    /\ file # Missing
    /\ file.id = data.id /\ file.gen = m.stamp
    /\ m.want => file.weighted

\* build_snapshot serves the file, or falls through to the scan.
Load ==
    /\ m.pc = "load"
    /\ m' = IF Usable
            THEN [m EXCEPT !.pc = "install", !.ver = file.ver,
                           !.weighted = file.weighted]
            ELSE [m EXCEPT !.pc = "scan"]
    /\ UNCHANGED <<onDisk, mem, restore, nextId, nextVer>>

\* build_snapshot_from_storage reads a later state than the stamp did.
Scan ==
    /\ Pass("scan", [m EXCEPT !.pc = IF m.rebuild THEN "save" ELSE "install",
                              !.ver = data.ver, !.weighted = wants])
    /\ UNCHANGED <<onDisk, mem, restore, nextId, nextVer>>

\* A read or a scan fails: the error is returned and nothing is installed.
ScanFails ==
    /\ m.pc \in {"stamp", "scan"}
    /\ m' = IdlePass
    /\ UNCHANGED <<onDisk, mem, restore, nextId, nextVer>>

NewFile == [id |-> data.id, gen |-> m.stamp, ver |-> m.ver, weighted |-> m.weighted]

\* save_csr: the temporary file is renamed over the target.
Save ==
    /\ Pass("save", [m EXCEPT !.pc = "install"])
    /\ file' = NewFile
    /\ UNCHANGED <<data, backup, mem, restore, nextId, nextVer>>

\* publish_cache_file where a mapped target cannot be replaced: the old file
\* is moved aside and then the new one put in its place.
SetAside ==
    /\ file # Missing
    /\ Pass("save", [m EXCEPT !.pc = "aside"])
    /\ file' = Missing
    /\ UNCHANGED <<data, backup, mem, restore, nextId, nextVer>>

Replace ==
    /\ Pass("aside", [m EXCEPT !.pc = "install"])
    /\ file' = NewFile
    /\ UNCHANGED <<data, backup, mem, restore, nextId, nextVer>>

\* A failed save is ignored.
SaveFails ==
    /\ m.pc \in {"save", "aside"}
    /\ m' = [m EXCEPT !.pc = "install"]
    /\ UNCHANGED <<onDisk, mem, restore, nextId, nextVer>>

Install ==
    /\ Pass("install", IdlePass)
    /\ snap' = [ver |-> m.ver, weighted |-> m.weighted]
    /\ snapGen' = m.built
    /\ UNCHANGED <<onDisk, open, writing, write_gen, wants, restore, nextId, nextVer>>

-----------------------------------------------------------------------------
(* Backups and restores                                                    *)

\* copy_to_file: LMDB copies one committed state, identity included.
Backup ==
    /\ open
    /\ backup' = data
    /\ UNCHANGED <<data, file, mem, m, restore, nextId, nextVer>>

\* The operator removes the database file; cache files are left behind.
RemoveDatabase ==
    /\ ~open /\ restore = "idle" /\ data # Missing
    /\ data' = Missing
    /\ UNCHANGED <<file, backup, mem, m, restore, nextId, nextVer>>

\* restore_from_file refuses a directory that holds a database.
StartRestore ==
    /\ ~open /\ restore = "idle" /\ backup # Missing
    /\ data = Missing
    /\ restore' = "clean"
    /\ UNCHANGED <<onDisk, mem, m, nextId, nextVer>>

\* Mutant: the leftover cache files stay.
KeepCaches ==
    /\ restore = "clean"
    /\ restore' = "copy"
    /\ UNCHANGED <<onDisk, mem, m, nextId, nextVer>>

CleanCaches ==
    /\ restore = "clean"
    /\ restore' = "copy"
    /\ file' = Missing
    /\ UNCHANGED <<data, backup, mem, m, nextId, nextVer>>

CopyBackup ==
    /\ restore = "copy"
    /\ restore' = "idle"
    /\ data' = backup
    /\ UNCHANGED <<file, backup, mem, m, nextId, nextVer>>

\* Removing or copying fails, or the process is stopped.
RestoreFails ==
    /\ restore # "idle"
    /\ restore' = "idle"
    /\ UNCHANGED <<onDisk, mem, m, nextId, nextVer>>

-----------------------------------------------------------------------------

FileInit ==
    /\ data = Missing /\ file = Missing /\ backup = Missing
    /\ open = FALSE /\ writing = FALSE
    /\ write_gen = 1 /\ snapGen = 0 /\ snap = NoSnap /\ wants = FALSE
    /\ m = IdlePass
    /\ restore = "idle"
    /\ nextId = 0 /\ nextVer = 1

ProcessStep == Open \/ CommitWrite \/ Publish \/ RequestWeights \/ Stop

FilePassStep ==
    \/ (\E b \in BOOLEAN : BeginPass(b)) \/ ReadStamp \/ Load \/ Scan \/ ScanFails
    \/ Save \/ SetAside \/ Replace \/ SaveFails \/ Install

OperatorStep ==
    \/ Backup \/ RemoveDatabase
    \/ StartRestore \/ CleanCaches \/ CopyBackup \/ RestoreFails

FileNext == ProcessStep \/ FilePassStep \/ OperatorStep

FileSpec == FileInit /\ [][FileNext]_fileVars

-----------------------------------------------------------------------------
(* Properties                                                              *)

\* Every variable has its type; the write generation of a process starts at
\* 1, so that its empty snapshot, stamped 0, is never current (new_unbuilt).
FileTypeOK ==
    /\ data \in Database \cup {Missing} /\ backup \in Database \cup {Missing}
    /\ file \in File \cup {Missing}
    /\ open \in BOOLEAN /\ writing \in BOOLEAN /\ wants \in BOOLEAN
    /\ write_gen \in Nat \ {0} /\ snapGen \in Nat
    /\ snap \in [ver: Nat, weighted: BOOLEAN]
    /\ m \in [pc: {"free", "stamp", "load", "scan", "save", "aside", "install"},
              rebuild: BOOLEAN, want: BOOLEAN, built: Nat, stamp: Nat,
              ver: Nat, weighted: BOOLEAN]
    /\ restore \in {"idle", "clean", "copy"}
    /\ nextId \in Nat /\ nextVer \in Nat

\* A file that the database beside it would accept, identity and generation
\* equal, has that database's content: after any saves racing commits,
\* restarts, and restores of an earlier backup of the same database
\* (cache_file.rs: a stale or foreign file degrades to a rebuild "rather than
\* a wrong answer").
FileTrustworthy ==
    /\ file # Missing /\ data # Missing
    /\ file.id = data.id /\ file.gen = data.gen
    => file.ver = data.ver

\* A snapshot stamped with the current write generation has the content of
\* storage once no commit is being published, whether it was scanned or
\* loaded from a file (build_snapshot: "never fresher than claimed").
SnapshotCurrent ==
    open /\ snapGen = write_gen /\ ~writing => snap.ver = data.ver
=============================================================================
