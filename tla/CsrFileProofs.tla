---------------------------- MODULE CsrFileProofs ----------------------------
(***************************************************************************)
(* Proofs about CsrFile, for every number of databases, commits, restarts, *)
(* backups and restores.                                                   *)
(***************************************************************************)
EXTENDS CsrFile, TLAPS

-----------------------------------------------------------------------------
(* Types                                                                   *)

\* The type invariant in the parts the provers take one at a time.
DiskOK ==
    /\ data \in Database \cup {Missing} /\ backup \in Database \cup {Missing}
    /\ file \in File \cup {Missing}
FlagsOK == open \in BOOLEAN /\ writing \in BOOLEAN /\ wants \in BOOLEAN
SnapOK == snap \in [ver: Nat, weighted: BOOLEAN]
PassType ==
    [pc: {"free", "stamp", "load", "scan", "save", "aside", "install"},
     rebuild: BOOLEAN, want: BOOLEAN, built: Nat, stamp: Nat,
     ver: Nat, weighted: BOOLEAN]
PassOK == m \in PassType
CountsOK ==
    /\ write_gen \in Nat \ {0} /\ snapGen \in Nat
    /\ restore \in {"idle", "clean", "copy"}
    /\ nextId \in Nat /\ nextVer \in Nat

\* The parts make up the type.
LEMMA Parts == FileTypeOK <=> DiskOK /\ FlagsOK /\ SnapOK /\ PassOK /\ CountsOK
  BY Zenon DEF FileTypeOK, DiskOK, FlagsOK, SnapOK, PassOK, PassType, CountsOK

\* The idle pass has its type.
LEMMA IdleOK == IdlePass \in PassType
  BY DEF IdlePass, PassType

\* Flags stay Boolean.
LEMMA FlagsNext == ASSUME FlagsOK, [FileNext]_fileVars PROVE FlagsOK'
<1> USE DEF FlagsOK, onDisk, mem
<1>1. CASE ProcessStep
  BY <1>1, Zenon DEF ProcessStep, Open, CommitWrite, Publish, RequestWeights, Stop
<1>2. CASE FilePassStep
  BY <1>2, Zenon DEF FilePassStep, BeginPass, ReadStamp, Load, Scan, ScanFails, Save,
     SetAside, Replace, SaveFails, Install
<1>3. CASE OperatorStep
  BY <1>3, Zenon DEF OperatorStep, Backup, RemoveDatabase, StartRestore,
     CleanCaches, CopyBackup, RestoreFails
<1>4. CASE UNCHANGED fileVars
  BY <1>4, Zenon DEF fileVars
<1> QED
  BY <1>1, <1>2, <1>3, <1>4 DEF FileNext

\* A pass stays of its type.
LEMMA PassNext ==
    ASSUME FileTypeOK, [FileNext]_fileVars, m.pc # "free" => data \in Database
    PROVE  PassOK'
<1> USE DEF PassOK, onDisk, mem, Pass
<1>0. m \in PassType /\ wants \in BOOLEAN /\ write_gen \in Nat
      /\ file \in File \cup {Missing}
  BY Zenon DEF FileTypeOK, PassType
<1>1. CASE ProcessStep
  BY <1>0, <1>1, IdleOK DEF ProcessStep, Open, CommitWrite, Publish, RequestWeights, Stop
<1>2. ASSUME NEW b \in BOOLEAN, BeginPass(b) PROVE PassOK'
  BY <1>0, <1>2 DEF BeginPass, IdlePass, PassType
<1>3. CASE ReadStamp
  BY <1>0, <1>3 DEF ReadStamp, PassType, Database
<1>4. CASE Load
  <2>1. CASE Usable
    BY <1>0, <1>4, <2>1 DEF Load, Usable, PassType, File
  <2>2. CASE ~Usable
    BY <1>0, <1>4, <2>2 DEF Load, PassType
  <2> QED
    BY <2>1, <2>2
<1>5. CASE Scan
  BY <1>0, <1>5 DEF Scan, PassType, Database
<1>6. CASE ScanFails \/ Install
  BY <1>6, IdleOK DEF ScanFails, Install
<1>7. CASE Save \/ SetAside \/ Replace \/ SaveFails
  BY <1>0, <1>7 DEF Save, SetAside, Replace, SaveFails, PassType
<1>8. CASE OperatorStep
  BY <1>0, <1>8 DEF OperatorStep, Backup, RemoveDatabase, StartRestore,
     CleanCaches, CopyBackup, RestoreFails
<1>9. CASE UNCHANGED fileVars
  BY <1>0, <1>9 DEF fileVars
<1> QED
  BY <1>1, <1>2, <1>3, <1>4, <1>5, <1>6, <1>7, <1>8, <1>9 DEF FileNext, FilePassStep

\* A commit moves the generation on and puts a new version in place.
LEMMA CommitData ==
    ASSUME data \in Database, nextVer \in Nat, CommitWrite
    PROVE  /\ data' = [id |-> data.id, gen |-> data.gen + 1, ver |-> nextVer]
           /\ data' \in Database
<1>1. data' = [data EXCEPT !.gen = data.gen + 1, !.ver = nextVer]
  BY DEF CommitWrite
<1>2. data.gen + 1 \in Nat
  BY DEF Database
<1>3. data' = [id |-> data.id, gen |-> data.gen + 1, ver |-> nextVer]
  BY <1>1 DEF Database
<1> QED
  BY <1>2, <1>3 DEF Database

\* What lies on onDisk stays of its type.
LEMMA DiskNext ==
    ASSUME FileTypeOK, [FileNext]_fileVars, open => data \in Database,
           m.pc # "free" => data \in Database
    PROVE  DiskOK'
<1> USE DEF DiskOK, onDisk, mem, Pass
<1>0. m \in PassType /\ nextId \in Nat /\ nextVer \in Nat /\ DiskOK
  BY Zenon DEF FileTypeOK, PassType
<1>1. CASE Open
  BY <1>0, <1>1 DEF Open, Database
<1>2. CASE CommitWrite
  BY <1>0, <1>2, CommitData, Zenon DEF CommitWrite
<1>3. CASE Publish \/ RequestWeights \/ Stop
  BY <1>0, <1>3 DEF Publish, RequestWeights, Stop
<1>4. CASE Save \/ SetAside \/ Replace
  <2>1. m.pc # "free" => NewFile \in File
    BY <1>0 DEF NewFile, File, Database, PassType
  <2> QED
    BY <1>0, <1>4, <2>1 DEF Save, SetAside, Replace
<1>5. CASE \/ \E b \in BOOLEAN : BeginPass(b)
           \/ ReadStamp \/ Load \/ Scan \/ ScanFails \/ SaveFails \/ Install
  BY <1>0, <1>5 DEF BeginPass, ReadStamp, Load, Scan, ScanFails, SaveFails, Install
<1>6. CASE OperatorStep
  BY <1>0, <1>6 DEF OperatorStep, Backup, RemoveDatabase, StartRestore,
     CleanCaches, CopyBackup, RestoreFails
<1>7. CASE UNCHANGED fileVars
  BY <1>0, <1>7 DEF fileVars
<1> QED
  BY <1>1, <1>2, <1>3, <1>4, <1>5, <1>6, <1>7 DEF FileNext, ProcessStep, FilePassStep

\* The installed snapshot and the counters stay of their type.
LEMMA SnapNext == ASSUME FileTypeOK, [FileNext]_fileVars PROVE SnapOK' /\ CountsOK'
<1> USE DEF SnapOK, CountsOK, onDisk, mem, Pass
<1>0. m \in PassType /\ SnapOK /\ CountsOK
  BY Zenon DEF FileTypeOK, PassType
<1>1. CASE Open \/ CommitWrite
  <2>1. NoSnap \in [ver: Nat, weighted: BOOLEAN]
    BY DEF NoSnap
  <2>2. CASE Open
    BY <1>0, <2>1, <2>2 DEF Open
  <2>3. CASE CommitWrite
    BY <1>0, <2>3 DEF CommitWrite
  <2> QED
    BY <1>1, <2>2, <2>3
<1>6. CASE Publish \/ RequestWeights \/ Stop
  BY <1>0, <1>6 DEF Publish, RequestWeights, Stop
<1>2. CASE Install
  BY <1>0, <1>2 DEF Install, PassType
<1>3. CASE \/ \E b \in BOOLEAN : BeginPass(b)
           \/ ReadStamp \/ Load \/ Scan \/ ScanFails
           \/ Save \/ SetAside \/ Replace \/ SaveFails
  BY <1>0, <1>3 DEF BeginPass, ReadStamp, Load, Scan, ScanFails, Save, SetAside,
     Replace, SaveFails
<1>4. CASE OperatorStep
  BY <1>0, <1>4 DEF OperatorStep, Backup, RemoveDatabase, StartRestore,
     CleanCaches, CopyBackup, RestoreFails
<1>5. CASE UNCHANGED fileVars
  BY <1>0, <1>5 DEF fileVars
<1> QED
  BY <1>1, <1>2, <1>3, <1>4, <1>5, <1>6 DEF FileNext, ProcessStep, FilePassStep

-----------------------------------------------------------------------------
(* The file is never accepted wrongly                                      *)

\* Identities are generated once, and whatever carries the identity of the
\* database beside it is not ahead of it.
IdInv ==
    /\ open => data \in Database
    /\ m.pc # "free" => open
    /\ writing => open
    /\ restore # "idle" => ~open /\ data = Missing /\ backup \in Database
    /\ restore = "copy" => file = Missing
    /\ data # Missing => data.id < nextId
    /\ backup # Missing => backup.id < nextId
    /\ file # Missing => file.id < nextId

\* A file of this database was stamped no later than now, and with nothing
\* committed since has the content of now; so has what a pass will save.
FileInv ==
    /\ file # Missing /\ data # Missing /\ file.id = data.id
          => file.gen <= data.gen /\ (file.gen = data.gen => file.ver = data.ver)
    /\ m.pc \in {"load", "scan", "save", "aside"} => m.stamp <= data.gen
    /\ m.pc \in {"save", "aside"} /\ m.stamp = data.gen => m.ver = data.ver

\* A pass has captured a generation that is not ahead, and as long as no
\* write was published or is being published since, what it has read is what
\* storage holds.
SnapInv ==
    /\ snapGen <= write_gen
    /\ m.pc # "free" => m.built <= write_gen
    /\ m.pc = "load" /\ m.built = write_gen /\ ~writing => m.stamp = data.gen
    /\ m.pc \in {"save", "aside", "install"} /\ m.built = write_gen /\ ~writing
          => m.ver = data.ver
    /\ SnapshotCurrent

Inv == FileTypeOK /\ IdInv /\ FileInv /\ SnapInv

\* The invariant holds of the initial state.
LEMMA InvInit == FileInit => Inv
<1> SUFFICES ASSUME FileInit PROVE Inv
  OBVIOUS
<1>1. FlagsOK
  BY Zenon DEF FileInit, FlagsOK
<1>2. DiskOK /\ SnapOK /\ CountsOK
  BY DEF FileInit, DiskOK, SnapOK, CountsOK, NoSnap
<1>3. PassOK
  BY IdleOK DEF FileInit, PassOK
<1>4. IdInv /\ FileInv /\ SnapInv
  BY DEF FileInit, IdInv, FileInv, SnapInv, SnapshotCurrent, IdlePass
<1> QED
  BY <1>1, <1>2, <1>3, <1>4, Parts DEF Inv

\* Every step keeps the type.
LEMMA TypeNext == ASSUME Inv, [FileNext]_fileVars PROVE FileTypeOK'
<1>1. FileTypeOK /\ FlagsOK /\ (open => data \in Database)
      /\ (m.pc # "free" => data \in Database)
  BY Zenon, Parts DEF Inv, IdInv
<1>2. FlagsOK' /\ PassOK' /\ DiskOK' /\ SnapOK' /\ CountsOK'
  BY <1>1, FlagsNext, PassNext, DiskNext, SnapNext
<1> QED
  BY <1>2, Parts, Zenon DEF FileTypeOK, DiskOK, FlagsOK, SnapOK, PassOK, PassType, CountsOK

\* Every step keeps identities apart and the restore away from processes.
LEMMA IdNext == ASSUME Inv, [FileNext]_fileVars PROVE IdInv'
<1> USE FileAssumption DEF IdInv, onDisk, mem, Pass, IdlePass
<1>i. IdInv /\ IdInv
  BY DEF Inv
<1>t. /\ data \in Database \cup {Missing} /\ backup \in Database \cup {Missing}
      /\ file \in File \cup {Missing}
      /\ m \in PassType
      /\ write_gen \in Nat /\ snapGen \in Nat /\ nextId \in Nat /\ nextVer \in Nat
  BY Zenon DEF Inv, FileTypeOK, PassType
<1>1. CASE Open
  BY <1>i, <1>t, <1>1 DEF Open, Database, File, NewFile
<1>2. CASE CommitWrite
  <2>1. data \in Database
    BY <1>i, <1>2, Zenon DEF CommitWrite
  <2>2. data' \in Database /\ data'.id = data.id
    BY <1>t, <1>2, <2>1, CommitData
  <2>3. open' => data' \in Database
    BY <2>2
  <2> QED
    BY <1>i, <1>t, <1>2, <2>1, <2>2, <2>3 DEF CommitWrite
<1>3. CASE Publish
  BY <1>i, <1>t, <1>3 DEF Publish, Database, File, NewFile
<1>4. CASE RequestWeights
  BY <1>i, <1>t, <1>4 DEF RequestWeights, Database, File, NewFile
<1>5. CASE Stop
  BY <1>i, <1>t, <1>5 DEF Stop, Database, File, NewFile
<1>6. ASSUME NEW b \in BOOLEAN, BeginPass(b) PROVE IdInv'
  BY <1>i, <1>t, <1>6 DEF BeginPass, Database, File, NewFile
<1>7. CASE ReadStamp
  BY <1>i, <1>t, <1>7 DEF ReadStamp, Database, File, NewFile
<1>8. CASE Load
  BY <1>i, <1>t, <1>8 DEF Load, Database, File, NewFile
<1>9. CASE Scan
  BY <1>i, <1>t, <1>9 DEF Scan, Database, File, NewFile
<1>10. CASE ScanFails
  BY <1>i, <1>t, <1>10 DEF ScanFails, Database, File, NewFile
<1>11. CASE Save
  BY <1>i, <1>t, <1>11 DEF Save, Database, File, NewFile
<1>12. CASE SetAside
  BY <1>i, <1>t, <1>12 DEF SetAside, Database, File, NewFile
<1>13. CASE Replace
  BY <1>i, <1>t, <1>13 DEF Replace, Database, File, NewFile
<1>14. CASE SaveFails
  BY <1>i, <1>t, <1>14 DEF SaveFails, Database, File, NewFile
<1>15. CASE Install
  BY <1>i, <1>t, <1>15 DEF Install, Database, File, NewFile
<1>16. CASE Backup
  BY <1>i, <1>t, <1>16 DEF Backup, Database, File, NewFile
<1>17. CASE RemoveDatabase
  BY <1>i, <1>t, <1>17 DEF RemoveDatabase, Database, File, NewFile
<1>18. CASE StartRestore
  BY <1>i, <1>t, <1>18 DEF StartRestore, Database, File, NewFile
<1>19. CASE CleanCaches
  BY <1>i, <1>t, <1>19 DEF CleanCaches, Database, File, NewFile
<1>20. CASE CopyBackup
  BY <1>i, <1>t, <1>20 DEF CopyBackup, Database, File, NewFile
<1>21. CASE RestoreFails
  BY <1>i, <1>t, <1>21 DEF RestoreFails, Database, File, NewFile
<1>22. CASE UNCHANGED fileVars
  BY <1>i, <1>t, <1>22 DEF fileVars
<1> QED
  BY <1>1, <1>2, <1>3, <1>4, <1>5, <1>6, <1>7, <1>8, <1>9, <1>10, <1>11,
     <1>12, <1>13, <1>14, <1>15, <1>16, <1>17, <1>18, <1>19, <1>20, <1>21, <1>22
     DEF FileNext, ProcessStep, FilePassStep, OperatorStep

\* Every step keeps the file and the pass in agreement with storage.
LEMMA FileInvNext == ASSUME Inv, [FileNext]_fileVars PROVE FileInv'
<1> USE FileAssumption DEF FileInv, onDisk, mem, Pass, IdlePass
<1>i. FileInv /\ IdInv
  BY DEF Inv
<1>t. /\ data \in Database \cup {Missing} /\ backup \in Database \cup {Missing}
      /\ file \in File \cup {Missing}
      /\ m \in PassType
      /\ write_gen \in Nat /\ snapGen \in Nat /\ nextId \in Nat /\ nextVer \in Nat
  BY Zenon DEF Inv, FileTypeOK, PassType
<1>1. CASE Open
  BY <1>i, <1>t, <1>1 DEF Open, IdInv, Database, File, PassType, NewFile, Usable
<1>2. CASE CommitWrite
  BY <1>i, <1>t, <1>2 DEF CommitWrite, IdInv, Database, File, PassType, NewFile, Usable
<1>3. CASE Publish
  BY <1>i, <1>t, <1>3 DEF Publish, IdInv, Database, File, PassType, NewFile, Usable
<1>4. CASE RequestWeights
  BY <1>i, <1>t, <1>4 DEF RequestWeights, IdInv, Database, File, PassType, NewFile, Usable
<1>5. CASE Stop
  BY <1>i, <1>t, <1>5 DEF Stop, IdInv, Database, File, PassType, NewFile, Usable
<1>6. ASSUME NEW b \in BOOLEAN, BeginPass(b) PROVE FileInv'
  BY <1>i, <1>t, <1>6 DEF BeginPass, IdInv, Database, File, PassType, NewFile, Usable
<1>7. CASE ReadStamp
  BY <1>i, <1>t, <1>7 DEF ReadStamp, IdInv, Database, File, PassType, NewFile, Usable
<1>8. CASE Load
  BY <1>i, <1>t, <1>8 DEF Load, IdInv, Database, File, PassType, NewFile, Usable
<1>9. CASE Scan
  BY <1>i, <1>t, <1>9 DEF Scan, IdInv, Database, File, PassType, NewFile, Usable
<1>10. CASE ScanFails
  BY <1>i, <1>t, <1>10 DEF ScanFails, IdInv, Database, File, PassType, NewFile, Usable
<1>11. CASE Save
  BY <1>i, <1>t, <1>11 DEF Save, IdInv, Database, File, PassType, NewFile, Usable
<1>12. CASE SetAside
  BY <1>i, <1>t, <1>12 DEF SetAside, IdInv, Database, File, PassType, NewFile, Usable
<1>13. CASE Replace
  BY <1>i, <1>t, <1>13 DEF Replace, IdInv, Database, File, PassType, NewFile, Usable
<1>14. CASE SaveFails
  BY <1>i, <1>t, <1>14 DEF SaveFails, IdInv, Database, File, PassType, NewFile, Usable
<1>15. CASE Install
  BY <1>i, <1>t, <1>15 DEF Install, IdInv, Database, File, PassType, NewFile, Usable
<1>16. CASE Backup
  BY <1>i, <1>t, <1>16 DEF Backup, IdInv, Database, File, PassType, NewFile, Usable
<1>17. CASE RemoveDatabase
  BY <1>i, <1>t, <1>17 DEF RemoveDatabase, IdInv, Database, File, PassType, NewFile, Usable
<1>18. CASE StartRestore
  BY <1>i, <1>t, <1>18 DEF StartRestore, IdInv, Database, File, PassType, NewFile, Usable
<1>19. CASE CleanCaches
  BY <1>i, <1>t, <1>19 DEF CleanCaches, IdInv, Database, File, PassType, NewFile, Usable
<1>20. CASE CopyBackup
  BY <1>i, <1>t, <1>20 DEF CopyBackup, IdInv, Database, File, PassType, NewFile, Usable
<1>21. CASE RestoreFails
  BY <1>i, <1>t, <1>21 DEF RestoreFails, IdInv, Database, File, PassType, NewFile, Usable
<1>22. CASE UNCHANGED fileVars
  BY <1>i, <1>t, <1>22 DEF fileVars
<1> QED
  BY <1>1, <1>2, <1>3, <1>4, <1>5, <1>6, <1>7, <1>8, <1>9, <1>10, <1>11,
     <1>12, <1>13, <1>14, <1>15, <1>16, <1>17, <1>18, <1>19, <1>20, <1>21, <1>22
     DEF FileNext, ProcessStep, FilePassStep, OperatorStep

\* Every step keeps the snapshot's stamp honest.
LEMMA SnapInvNext == ASSUME Inv, [FileNext]_fileVars PROVE SnapInv'
<1> USE FileAssumption DEF SnapInv, onDisk, mem, Pass, IdlePass
<1>i. SnapInv /\ IdInv
  BY DEF Inv
<1>t. /\ data \in Database \cup {Missing} /\ backup \in Database \cup {Missing}
      /\ file \in File \cup {Missing}
      /\ m \in PassType
      /\ write_gen \in Nat /\ snapGen \in Nat /\ nextId \in Nat /\ nextVer \in Nat
  BY Zenon DEF Inv, FileTypeOK, PassType
<1>1. CASE Open
  BY <1>i, <1>t, <1>1 DEF Open, IdInv, FileInv, SnapshotCurrent, Database, File, PassType, Usable
<1>2. CASE CommitWrite
  BY <1>i, <1>t, <1>2 DEF CommitWrite, IdInv, FileInv, SnapshotCurrent, Database, File, PassType, Usable
<1>3. CASE Publish
  BY <1>i, <1>t, <1>3 DEF Publish, IdInv, FileInv, SnapshotCurrent, Database, File, PassType, Usable
<1>4. CASE RequestWeights
  BY <1>i, <1>t, <1>4 DEF RequestWeights, IdInv, FileInv, SnapshotCurrent, Database, File, PassType, Usable
<1>5. CASE Stop
  BY <1>i, <1>t, <1>5 DEF Stop, IdInv, FileInv, SnapshotCurrent, Database, File, PassType, Usable
<1>6. ASSUME NEW b \in BOOLEAN, BeginPass(b) PROVE SnapInv'
  BY <1>i, <1>t, <1>6 DEF BeginPass, IdInv, FileInv, SnapshotCurrent, Database, File, PassType, Usable
<1>7. CASE ReadStamp
  BY <1>i, <1>t, <1>7 DEF ReadStamp, IdInv, FileInv, SnapshotCurrent, Database, File, PassType, Usable
<1>8. CASE Load
  <2>1. m.pc = "load" /\ m.stamp <= data.gen /\ data # Missing /\ FileInv
    BY <1>i, <1>8, FileAssumption DEF Inv, Load, IdInv, FileInv
  <2>2. CASE Usable
    <3>1. m' = [m EXCEPT !.pc = "install", !.ver = file.ver, !.weighted = file.weighted]
      BY <1>8, <2>2 DEF Load
    <3>2. m.built = write_gen /\ ~writing => file.ver = data.ver
      BY <1>i, <2>1, <2>2 DEF Usable, FileInv
    <3>3. m'.pc = "install" /\ m'.built = m.built /\ m'.ver = file.ver
      BY <1>t, <3>1 DEF PassType
    <3> QED
      BY <1>i, <1>8, <2>1, <3>2, <3>3 DEF Load, SnapshotCurrent
  <2>3. CASE ~Usable
    BY <1>i, <1>t, <1>8, <2>3 DEF Load, SnapshotCurrent, PassType
  <2> QED
    BY <2>2, <2>3
<1>9. CASE Scan
  BY <1>i, <1>t, <1>9 DEF Scan, IdInv, FileInv, SnapshotCurrent, Database, File, PassType, Usable
<1>10. CASE ScanFails
  BY <1>i, <1>t, <1>10 DEF ScanFails, IdInv, FileInv, SnapshotCurrent, Database, File, PassType, Usable
<1>11. CASE Save
  BY <1>i, <1>t, <1>11 DEF Save, IdInv, FileInv, SnapshotCurrent, Database, File, PassType, Usable
<1>12. CASE SetAside
  BY <1>i, <1>t, <1>12 DEF SetAside, IdInv, FileInv, SnapshotCurrent, Database, File, PassType, Usable
<1>13. CASE Replace
  BY <1>i, <1>t, <1>13 DEF Replace, IdInv, FileInv, SnapshotCurrent, Database, File, PassType, Usable
<1>14. CASE SaveFails
  BY <1>i, <1>t, <1>14 DEF SaveFails, IdInv, FileInv, SnapshotCurrent, Database, File, PassType, Usable
<1>15. CASE Install
  BY <1>i, <1>t, <1>15 DEF Install, IdInv, FileInv, SnapshotCurrent, Database, File, PassType, Usable
<1>16. CASE Backup
  BY <1>i, <1>t, <1>16 DEF Backup, IdInv, FileInv, SnapshotCurrent, Database, File, PassType, Usable
<1>17. CASE RemoveDatabase
  BY <1>i, <1>t, <1>17 DEF RemoveDatabase, IdInv, FileInv, SnapshotCurrent, Database, File, PassType, Usable
<1>18. CASE StartRestore
  BY <1>i, <1>t, <1>18 DEF StartRestore, IdInv, FileInv, SnapshotCurrent, Database, File, PassType, Usable
<1>19. CASE CleanCaches
  BY <1>i, <1>t, <1>19 DEF CleanCaches, IdInv, FileInv, SnapshotCurrent, Database, File, PassType, Usable
<1>20. CASE CopyBackup
  BY <1>i, <1>t, <1>20 DEF CopyBackup, IdInv, FileInv, SnapshotCurrent, Database, File, PassType, Usable
<1>21. CASE RestoreFails
  BY <1>i, <1>t, <1>21 DEF RestoreFails, IdInv, FileInv, SnapshotCurrent, Database, File, PassType, Usable
<1>22. CASE UNCHANGED fileVars
  BY <1>i, <1>t, <1>22 DEF fileVars, SnapshotCurrent
<1> QED
  BY <1>1, <1>2, <1>3, <1>4, <1>5, <1>6, <1>7, <1>8, <1>9, <1>10, <1>11,
     <1>12, <1>13, <1>14, <1>15, <1>16, <1>17, <1>18, <1>19, <1>20, <1>21, <1>22
     DEF FileNext, ProcessStep, FilePassStep, OperatorStep

-----------------------------------------------------------------------------
(* The theorems                                                            *)

\* Every step keeps the whole invariant.
LEMMA InvNext == ASSUME Inv, [FileNext]_fileVars PROVE Inv'
<1>1. FileTypeOK' /\ IdInv' /\ FileInv' /\ SnapInv'
  BY TypeNext, IdNext, FileInvNext, SnapInvNext
<1> QED
  BY <1>1, Zenon DEF Inv

\* The invariant holds throughout.
LEMMA Invariance == FileSpec => []Inv
<1>1. FileInit => Inv
  BY InvInit
<1>2. Inv /\ [FileNext]_fileVars => Inv'
  BY InvNext
<1> QED
  BY <1>1, <1>2, PTL DEF FileSpec

\* A cache file that the database beside it accepts, by identity and
\* generation, holds that database's content, whatever commits, crashes,
\* new databases and restores came between (save_csr, load_csr,
\* restore_from_file).
THEOREM FileTrusted == FileSpec => []FileTrustworthy
<1>1. Inv => FileTrustworthy
  BY DEF Inv, FileInv, FileTrustworthy
<1> QED
  BY <1>1, Invariance, PTL

\* A snapshot stamped with the current generation is what storage holds,
\* whether a pass scanned it or loaded it from the file (build_snapshot).
THEOREM SnapshotHonest == FileSpec => []SnapshotCurrent
<1>1. Inv => SnapshotCurrent
  BY DEF Inv, SnapInv
<1> QED
  BY <1>1, Invariance, PTL
=============================================================================
