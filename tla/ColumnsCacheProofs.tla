------------------------ MODULE ColumnsCacheProofs ------------------------
(***************************************************************************)
(* The property columns converge to storage, every reader they serve sees  *)
(* what was recorded before it began, a hit on the group codes what was    *)
(* recorded before its generation was published, and a cache file with the *)
(* current stamp is storage, for any entities, any number of callers,      *)
(* writes and crashes.                                                     *)
(***************************************************************************)
EXTENDS ColumnsCache, TLAPS

-----------------------------------------------------------------------------
(* The inductive invariant *)

\* An entity that existed and was deleted.
Gone(i) == ~db[i].live /\ db[i].ver > 0

\* The pcs of the caller that holds the exclusive lock.
Absorbing == {"build", "patch", "advpatch"}

\* The exclusive lock is held by whoever absorbs, over columns that exist
\* unless it builds them; nobody else has anything left to re-read.
LockOK ==
    \A c \in Callers :
        /\ wlock = c <=> call[c].pc \in Absorbing
        /\ call[c].pc \in {"patch", "advpatch"} => cols # Absent
        /\ call[c].pc \notin Absorbing => call[c].todo = {}

\* Storage is the recorded state with the writer's delta on top.
WriterOK ==
    /\ wr.pc = "idle" => recorded = db /\ wr.delta = NoDelta
    /\ \A i \in Ids : recorded[i].ver <= db[i].ver
    /\ wr.delta.full \/ \A i \in Ids \ wr.delta.touched : recorded[i] = db[i]

\* A full rebuild is recorded, or about to be.
FullDue == pend.full \/ wr.delta.full

Readable(i) == db[i].live \/ (FullDue /\ Gone(i))

\* An entity waiting to be re-read still exists, unless a rebuild is due.
PendOK ==
    /\ \A i \in pend.touched : Readable(i)
    /\ \A i \in wr.delta.touched : db[i].live

\* What the columns lack of storage is pending, being absorbed, or what the
\* writer has yet to record.
ColsOK ==
    cols # Absent /\ ~pend.full /\ (\A c \in Callers : call[c].pc # "build") =>
        \A i \in Ids :
            \/ i \in pend.touched
            \/ \E c \in Callers : i \in call[c].todo
            \/ cols[i] = db[i] \/ cols[i] = recorded[i]
            \/ Gone(i) /\ wr.delta.full

\* A file is never stamped ahead of storage, and is exact when current.
FileOK == file # Absent => file.gen <= commitGen /\ (file.gen = commitGen => file.vals = db)

\* A call began after what it compares itself with was recorded; it
\* captured its stamp while no write was in flight.
CallOK(c) ==
    /\ call[c].pc \in {"check"} \cup Absorbing =>
         call[c].from \in Table /\ \A i \in Ids : call[c].from[i].ver <= recorded[i].ver
    /\ Served(c) =>
         call[c].from \in Table /\ \A i \in Ids : SeesRecorded(c, i) \/ Gone(i)
    /\ call[c].pc \in {"patch", "advpatch"} =>
         \A i \in call[c].todo : Readable(i)
    /\ call[c].use = "materialize" =>
         call[c].stamp <= commitGen /\ (call[c].stamp = commitGen => wr.pc = "idle")

CallsOK == \A c \in Callers : CallOK(c)

ColumnsInv ==
    ColumnsTypeOK /\ LockOK /\ WriterOK /\ PendOK /\ ColsOK /\ FileOK /\ CallsOK

\* A call that builds the group codes under their mutex.
Filling(c) == call[c].use = "group" /\ call[c].pc \in {"check"} \cup Absorbing

\* Codes filed under the present generation, and those about to be, hold what
\* had been recorded when it was published.
GroupInv ==
    /\ group.gen <= writeGen
    /\ \A i \in Ids : stamped[i].ver <= recorded[i].ver
    /\ group.gen = writeGen /\ group.codes # Absent =>
         \A i \in Ids : group.codes[i].ver >= stamped[i].ver \/ Gone(i)
    /\ \A c \in Callers : Filling(c) =>
         /\ gmutex = c
         /\ group.gen = writeGen => \A i \in Ids : stamped[i].ver <= call[c].from[i].ver

-----------------------------------------------------------------------------
(* Types *)

CallState ==
    [pc: {"idle", "check", "build", "patch", "advpatch", "done", "failed"},
     use: {"read", "materialize", "group", "advise"}, stamp: Nat,
     todo: SUBSET Ids, from: Table \cup {Absent}, got: Table \cup {Absent}]

\* A call that has not begun is one.
LEMMA IdleTyped ==
  /\ IdleCall \in CallState /\ NoDelta \in Delta
  /\ [IdleCall EXCEPT !.pc = "done"] \in CallState
  /\ [IdleCall EXCEPT !.pc = "failed"] \in CallState
  BY DEF IdleCall, CallState, NoDelta, Delta

\* Loading or building the columns gives columns, and they are storage.
LEMMA LoadedIsStorage ==
  ASSUME ColumnsTypeOK
  PROVE  /\ BuildOrLoad \in Table
         /\ FileOK => BuildOrLoad = db
  BY DEF ColumnsTypeOK, FileOK, BuildOrLoad

\* One caller moves.
LEMMA CallMoves ==
  ASSUME ColumnsTypeOK, NEW c \in Callers, NEW y \in CallState, call' = [call EXCEPT ![c] = y]
  PROVE  /\ call' \in [Callers -> CallState] /\ call'[c] = y
         /\ \A d \in Callers : d # c => call'[d] = call[d]
  BY DEF ColumnsTypeOK, CallState

\* Recording a delta gives one.
LEMMA RecordTyped ==
  ASSUME NEW p \in Delta, NEW d \in Delta
  PROVE  RecordDelta(p, d) \in Delta
  BY DEF RecordDelta, Delta

\* A call of any kind begins in a state of its type.
LEMMA StartTyped ==
  ASSUME ColumnsTypeOK, NEW c \in Callers, NEW use, NEW stamp \in Nat, Start(c, use, stamp)
  PROVE  \E y \in CallState :
            /\ call' = [call EXCEPT ![c] = y]
            /\ call[c].pc = "idle" /\ y.pc = "check" /\ y.use = use /\ y.stamp = stamp
            /\ y.todo = {} /\ y.from = recorded /\ y.got = Absent
  <1> DEFINE y == [IdleCall EXCEPT !.pc = "check", !.use = use, !.stamp = stamp, !.from = recorded]
  <1>1. use \in {"read", "materialize", "group", "advise"} /\ recorded \in Table
    BY ColumnsAssumption DEF Start, ColumnsTypeOK
  <1>2. /\ y \in CallState /\ y.pc = "check" /\ y.use = use /\ y.stamp = stamp
        /\ y.todo = {} /\ y.from = recorded /\ y.got = Absent
    BY <1>1 DEF CallState, IdleCall
  <1>3. call' = [call EXCEPT ![c] = y] /\ call[c].pc = "idle"
    BY DEF Start
  <1> QED
    BY <1>2, <1>3

-----------------------------------------------------------------------------
(* Facts about the lock and the calls *)

\* While nobody holds the exclusive lock, nothing is being absorbed.
LEMMA NobodyAbsorbs ==
  ASSUME LockOK, NEW c \in Callers, wlock # c
  PROVE  call[c].pc \notin Absorbing /\ call[c].todo = {}
  BY DEF LockOK

\* A call that does not move keeps its promise while storage, the recorded
\* state and the generation move forward.
LEMMA CallStays ==
  ASSUME ColumnsTypeOK, ColumnsTypeOK', NEW d \in Callers, CallOK(d), call'[d] = call[d],
         \A i \in Ids : recorded[i].ver <= recorded'[i].ver,
         \A i \in Ids : Gone(i) => Gone(i)',
         commitGen <= commitGen',
         commitGen' = commitGen /\ wr.pc = "idle" => wr'.pc = "idle",
         call[d].pc \in {"patch", "advpatch"} =>
            \A i \in Ids : Readable(i) => Readable(i)'
  PROVE  CallOK(d)'
  <1> DEFINE y == call[d]
  <1>0. /\ y \in CallState /\ recorded \in [Ids -> [ver: Nat, live: BOOLEAN]]
        /\ recorded' \in [Ids -> [ver: Nat, live: BOOLEAN]]
        /\ commitGen \in Nat /\ commitGen' \in Nat
    BY DEF ColumnsTypeOK, CallState, Table, Rec
  <1>1. y.pc \in {"check"} \cup Absorbing =>
          y.from \in Table /\ \A i \in Ids : y.from[i].ver <= recorded'[i].ver
    <2> SUFFICES ASSUME y.pc \in {"check"} \cup Absorbing
                 PROVE  y.from \in Table /\ \A i \in Ids : y.from[i].ver <= recorded'[i].ver
      OBVIOUS
    <2>1. y.from \in Table /\ \A i \in Ids : y.from[i].ver <= recorded[i].ver
      BY DEF CallOK
    <2>2. ASSUME NEW i \in Ids PROVE y.from[i].ver <= recorded'[i].ver
      <3>1. y.from[i].ver \in Nat /\ recorded[i].ver \in Nat /\ recorded'[i].ver \in Nat
        BY <1>0, <2>1 DEF Table, Rec
      <3>2. y.from[i].ver <= recorded[i].ver /\ recorded[i].ver <= recorded'[i].ver
        BY <2>1
      <3> HIDE DEF y
      <3> QED
        BY <3>1, <3>2
    <2> QED
      BY <2>1, <2>2
  <1>2. y.pc = "done" /\ y.got # Absent =>
          y.from \in Table /\ \A i \in Ids : y.got[i].ver >= y.from[i].ver \/ Gone(i)'
    BY DEF CallOK, Served, SeesRecorded
  <1>3. y.pc \in {"patch", "advpatch"} => \A i \in y.todo : Readable(i)'
    <2>1. y.todo \subseteq Ids
      BY <1>0 DEF CallState
    <2> QED
      BY <2>1 DEF CallOK
  <1>4. y.use = "materialize" =>
          y.stamp <= commitGen' /\ (y.stamp = commitGen' => wr'.pc = "idle")
    <2>1. y.stamp \in Nat
      BY <1>0 DEF CallState
    <2>2. y.use = "materialize" => y.stamp <= commitGen /\ (y.stamp = commitGen => wr.pc = "idle")
      BY DEF CallOK
    <2> HIDE DEF y
    <2> QED
      BY <1>0, <2>1, <2>2
  <1> QED
    BY <1>1, <1>2, <1>3, <1>4 DEF CallOK, Served, SeesRecorded

\* A step of one caller that leaves storage and the writer alone, and takes
\* from what is pending only with the exclusive lock.
LEMMA CallStep ==
  ASSUME ColumnsInv, ColumnsTypeOK', NEW c \in Callers, NEW y \in CallState,
         call' = [call EXCEPT ![c] = y],
         UNCHANGED <<db, recorded, commitGen, wr>>,
         wlock \notin {Absent, c} => pend' = pend,
         CallOK(c)'
  PROVE  CallsOK' /\ WriterOK'
  <1>1. ColumnsTypeOK /\ LockOK /\ CallsOK /\ WriterOK
    BY DEF ColumnsInv
  <1>2. /\ call' \in [Callers -> CallState] /\ call'[c] = y
        /\ \A d \in Callers : d # c => call'[d] = call[d]
    BY <1>1, CallMoves
  <1>3. ASSUME NEW d \in Callers, d # c PROVE CallOK(d)'
    <2>1. recorded \in [Ids -> Rec] /\ commitGen \in Nat /\ \A i \in Ids : recorded[i].ver \in Nat
      BY <1>1 DEF ColumnsTypeOK, Table, Rec
    <2>2. (\A i \in Ids : recorded[i].ver <= recorded'[i].ver) /\ commitGen <= commitGen'
      BY <2>1
    <2>3. \A i \in Ids : Gone(i) => Gone(i)'
      BY DEF Gone
    <2>4. call[d].pc \in {"patch", "advpatch"} =>
            \A i \in Ids : Readable(i) => Readable(i)'
      <3> SUFFICES ASSUME call[d].pc \in {"patch", "advpatch"}
                   PROVE  \A i \in Ids : Readable(i) => Readable(i)'
        OBVIOUS
      <3>1. wlock = d
        BY <1>1 DEF LockOK, Absorbing
      <3>2. pend' = pend
        BY <1>3, <3>1, ColumnsAssumption
      <3> QED
        BY <3>2 DEF FullDue, Readable, Gone
    <2>5. CallOK(d)
      BY <1>1 DEF CallsOK
    <2> QED
      BY <1>1, <1>2, <1>3, <2>2, <2>3, <2>4, <2>5, CallStays
  <1>4. WriterOK'
    BY <1>1 DEF WriterOK
  <1> QED
    BY <1>3, <1>4 DEF CallsOK

\* The lock, when a caller moves in or out of it, or stays outside.
LEMMA LockStepKeeps ==
  ASSUME ColumnsTypeOK, LockOK, NEW c \in Callers, NEW y \in CallState,
         call' = [call EXCEPT ![c] = y],
         \/ /\ wlock \in {Absent, c}
            /\ wlock' = IF y.pc \in Absorbing THEN c ELSE Absent
         \/ /\ call[c].pc \notin Absorbing /\ y.pc \notin Absorbing
            /\ UNCHANGED <<wlock, cols>>,
         y.pc \in {"patch", "advpatch"} => cols' # Absent,
         y.pc \notin Absorbing => y.todo = {}
  PROVE  LockOK'
  <1>1. /\ call'[c] = y
        /\ \A d \in Callers : d # c => call'[d] = call[d]
    BY CallMoves
  <1>2. ASSUME NEW d \in Callers
        PROVE  /\ wlock' = d <=> call'[d].pc \in Absorbing
               /\ call'[d].pc \in {"patch", "advpatch"} => cols' # Absent
               /\ call'[d].pc \notin Absorbing => call'[d].todo = {}
    <2>0. d # Absent /\ c # Absent
      BY ColumnsAssumption
    <2>1. CASE d = c
      BY <1>1, <2>0, <2>1 DEF LockOK
    <2>2. CASE d # c
      <3>1. call'[d] = call[d]
        BY <1>1, <2>2
      <3>2. CASE /\ wlock \in {Absent, c}
                 /\ wlock' = IF y.pc \in Absorbing THEN c ELSE Absent
        <4>1. wlock # d /\ wlock' # d
          BY <2>0, <2>2, <3>2
        <4>2. call[d].pc \notin Absorbing /\ call[d].todo = {}
          BY <4>1, NobodyAbsorbs
        <4> QED
          BY <3>1, <4>1, <4>2 DEF Absorbing
      <3>3. CASE /\ call[c].pc \notin Absorbing /\ y.pc \notin Absorbing
                 /\ UNCHANGED <<wlock, cols>>
        BY <3>1, <3>3 DEF LockOK
      <3> QED
        BY <3>2, <3>3
    <2> QED
      BY <2>1, <2>2
  <1> QED
    BY <1>2 DEF LockOK

\* A step of a caller outside the exclusive lock, before and after, leaves
\* the columns and what is pending as they are.
LEMMA OutsideStep ==
  ASSUME ColumnsInv, NEW c \in Callers, NEW y \in CallState,
         call' = [call EXCEPT ![c] = y],
         call[c].pc \notin Absorbing, y.pc \notin Absorbing, y.todo = {},
         UNCHANGED <<db, recorded, stamped, commitGen, writeGen, wr, memory, crashes>>,
         gmutex' \in Callers \cup {Absent}, group' \in [gen: Nat, codes: Table \cup {Absent}],
         file' \in [gen: Nat, vals: Table] \cup {Absent}, FileOK', CallOK(c)'
  PROVE  ColumnsInv'
  <1>0. ColumnsTypeOK /\ LockOK /\ PendOK /\ ColsOK
    BY DEF ColumnsInv
  <1>1. /\ call' \in [Callers -> CallState] /\ call'[c] = y
        /\ \A d \in Callers : d # c => call'[d] = call[d]
    BY <1>0, CallMoves
  <1>2. ColumnsTypeOK'
    BY <1>0, <1>1 DEF ColumnsTypeOK, memory, CallState
  <1>3. CallsOK' /\ WriterOK'
    BY <1>2, CallStep DEF memory
  <1>4. LockOK'
    <2>1. UNCHANGED <<wlock, cols>>
      BY DEF memory
    <2>2. y.pc \notin {"patch", "advpatch"}
      BY DEF Absorbing
    <2> QED
      BY <1>0, <2>1, <2>2, LockStepKeeps
  <1>5. PendOK'
    BY <1>0 DEF PendOK, Readable, Gone, FullDue, memory
  <1>6. ColsOK'
    <2>1. call[c].todo = {}
      BY <1>0 DEF LockOK
    <2>2. ASSUME NEW d \in Callers PROVE call'[d].todo = call[d].todo
      BY <1>1, <2>1
    <2>3. ASSUME \A d \in Callers : call'[d].pc # "build"
          PROVE  \A d \in Callers : call[d].pc # "build"
      BY <1>1, <2>3 DEF Absorbing
    <2> QED
      BY <1>0, <2>2, <2>3 DEF ColsOK, Gone, memory
  <1> QED
    BY <1>2, <1>3, <1>4, <1>5, <1>6 DEF ColumnsInv

-----------------------------------------------------------------------------
(* Calls outside the exclusive lock *)

\* A call that begins compares itself with what is recorded at that moment.
LEMMA StartKeeps ==
  ASSUME ColumnsInv, NEW c \in Callers, NEW use, NEW stamp \in Nat, Start(c, use, stamp),
         use = "materialize" => stamp = commitGen /\ wr.pc = "idle",
         UNCHANGED <<store, writeGen, wr, memory, recorded, stamped, crashes>>,
         gmutex' \in Callers \cup {Absent}, group' \in [gen: Nat, codes: Table \cup {Absent}]
  PROVE  ColumnsInv'
  <1>0. ColumnsTypeOK /\ FileOK
    BY DEF ColumnsInv
  <1>1. PICK y \in CallState :
            /\ call' = [call EXCEPT ![c] = y]
            /\ call[c].pc = "idle" /\ y.pc = "check" /\ y.use = use /\ y.stamp = stamp
            /\ y.todo = {} /\ y.from = recorded /\ y.got = Absent
    BY <1>0, StartTyped
  <1>2. call'[c] = y
    BY <1>0, <1>1, CallMoves
  <1>3. recorded \in Table /\ (\A i \in Ids : recorded[i].ver <= recorded[i].ver) /\ commitGen <= commitGen
    BY <1>0 DEF ColumnsTypeOK, Table, Rec
  <1>4. CallOK(c)'
    BY <1>1, <1>2, <1>3 DEF CallOK, Served, store
  <1>5. file' \in [gen: Nat, vals: Table] \cup {Absent} /\ FileOK'
    BY <1>0 DEF ColumnsTypeOK, FileOK, store
  <1>6. call[c].pc \notin Absorbing /\ y.pc \notin Absorbing
    BY <1>1 DEF Absorbing
  <1> QED
    BY <1>1, <1>4, <1>5, <1>6, OutsideStep DEF store

\* What a caller may be served: as new as what it began with.
LEMMA AnswerOK ==
  ASSUME ColumnsInv, NEW c \in Callers, NEW got \in Table,
         call[c].pc \in {"check"} \cup Absorbing,
         \A i \in Ids : got[i] = db[i] \/ got[i] = recorded[i] \/ Gone(i)
  PROVE  call[c].from \in Table /\ \A i \in Ids : got[i].ver >= call[c].from[i].ver \/ Gone(i)
  <1>0. ColumnsTypeOK /\ CallOK(c) /\ WriterOK
    BY DEF ColumnsInv, CallsOK
  <1>1. call[c].from \in Table /\ \A i \in Ids : call[c].from[i].ver <= recorded[i].ver
    BY <1>0 DEF CallOK
  <1>2. ASSUME NEW i \in Ids PROVE got[i].ver >= call[c].from[i].ver \/ Gone(i)
    <2>1. /\ got[i].ver \in Nat /\ call[c].from[i].ver \in Nat
          /\ recorded[i].ver \in Nat /\ db[i].ver \in Nat
      BY <1>0, <1>1 DEF ColumnsTypeOK, Table, Rec
    <2>2. call[c].from[i].ver <= recorded[i].ver /\ recorded[i].ver <= db[i].ver
      BY <1>0, <1>1 DEF WriterOK
    <2>3. got[i].ver = db[i].ver \/ got[i].ver = recorded[i].ver \/ Gone(i)
      OBVIOUS
    <2> QED
      BY <2>1, <2>2, <2>3
  <1> QED
    BY <1>1, <1>2

\* A call that is answered, outside the exclusive lock.
LEMMA AnswerKeeps ==
  ASSUME ColumnsInv, NEW c \in Callers, NEW got \in Table,
         call[c].pc = "check",
         call' = [call EXCEPT ![c].pc = "done", ![c].got = got],
         \A i \in Ids : got[i] = db[i] \/ got[i] = recorded[i] \/ Gone(i),
         UNCHANGED <<db, recorded, stamped, commitGen, writeGen, wr, memory, crashes>>,
         gmutex' \in Callers \cup {Absent}, group' \in [gen: Nat, codes: Table \cup {Absent}],
         file' \in [gen: Nat, vals: Table] \cup {Absent}, FileOK'
  PROVE  ColumnsInv'
  <1> DEFINE y == [call[c] EXCEPT !.pc = "done", !.got = got]
  <1>0. ColumnsTypeOK /\ LockOK /\ CallOK(c) /\ call[c] \in CallState
    BY DEF ColumnsInv, CallsOK, ColumnsTypeOK, CallState
  <1>1. call' = [call EXCEPT ![c] = y]
    BY <1>0 DEF ColumnsTypeOK
  <1>2. /\ y \in CallState /\ y.pc = "done" /\ y.got = got /\ y.from = call[c].from
        /\ y.todo = call[c].todo /\ y.use = call[c].use /\ y.stamp = call[c].stamp
    BY <1>0 DEF CallState
  <1> HIDE DEF y
  <1>3. call'[c] = y
    BY <1>0, <1>1, <1>2, CallMoves
  <1>4. call[c].from \in Table /\ \A i \in Ids : got[i].ver >= call[c].from[i].ver \/ Gone(i)
    BY AnswerOK
  <1>5. CallOK(c)'
    BY <1>0, <1>2, <1>3, <1>4 DEF CallOK, Served, SeesRecorded, Gone, Absorbing
  <1>6. call[c].pc \notin Absorbing /\ y.pc \notin Absorbing /\ y.todo = {}
    BY <1>0, <1>2 DEF Absorbing, LockOK
  <1> QED
    BY <1>1, <1>2, <1>5, <1>6, OutsideStep

\* Storage itself answers a small request.
LEMMA DirectReadKeeps ==
  ASSUME ColumnsInv, NEW c \in Callers, DirectRead(c)
  PROVE  ColumnsInv'
  <1>1. ColumnsTypeOK /\ FileOK /\ db \in Table
    BY DEF ColumnsInv, ColumnsTypeOK
  <1>2. /\ gmutex' \in Callers \cup {Absent} /\ group' \in [gen: Nat, codes: Table \cup {Absent}]
        /\ file' \in [gen: Nat, vals: Table] \cup {Absent} /\ FileOK'
    BY <1>1 DEF DirectRead, ColumnsTypeOK, FileOK, grp, store
  <1> QED
    BY <1>1, <1>2, AnswerKeeps DEF DirectRead, store

\* With nothing pending and nobody at work, the columns are storage but for
\* what the writer has not recorded.
LEMMA ColumnsReach ==
  ASSUME ColumnsInv, wlock = Absent, pend.full = FALSE, pend.touched = {}, cols # Absent
  PROVE  /\ cols \in Table
         /\ \A i \in Ids : cols[i] = db[i] \/ cols[i] = recorded[i] \/ (Gone(i) /\ wr.delta.full)
  <1>1. ColumnsTypeOK /\ LockOK /\ ColsOK
    BY DEF ColumnsInv
  <1>2. ASSUME NEW c \in Callers PROVE call[c].pc # "build" /\ call[c].todo = {}
    BY <1>1, ColumnsAssumption, NobodyAbsorbs DEF Absorbing
  <1> QED
    BY <1>1, <1>2 DEF ColsOK, ColumnsTypeOK

\* Between two writes, they are storage.
LEMMA ColumnsConverge ==
  ASSUME ColumnsInv, wlock = Absent, pend.full = FALSE, pend.touched = {}, cols # Absent, wr.pc = "idle"
  PROVE  cols = db
  <1>1. recorded = db /\ wr.delta.full = FALSE /\ db \in Table
    BY DEF ColumnsInv, WriterOK, NoDelta, ColumnsTypeOK
  <1>2. cols \in Table /\ \A i \in Ids : cols[i] = db[i]
    BY <1>1, ColumnsReach
  <1> QED
    BY <1>1, <1>2 DEF Table

\* The columns answer; what is saved under a stamp is storage as of it.
LEMMA ServeKeeps ==
  ASSUME ColumnsInv, NEW c \in Callers, Serve(c)
  PROVE  ColumnsInv'
  <1>0. ColumnsTypeOK /\ FileOK /\ CallOK(c) /\ call[c] \in CallState
    BY DEF ColumnsInv, CallsOK, ColumnsTypeOK, CallState
  <1>1. wlock = Absent /\ pend.full = FALSE /\ pend.touched = {} /\ cols # Absent
    BY DEF Serve, NoDelta
  <1>2. /\ cols \in Table
        /\ \A i \in Ids : cols[i] = db[i] \/ cols[i] = recorded[i] \/ (Gone(i) /\ wr.delta.full)
    BY <1>1, ColumnsReach
  <1>3. gmutex' \in Callers \cup {Absent} /\ group' \in [gen: Nat, codes: Table \cup {Absent}]
    BY <1>0, <1>2 DEF Serve, ColumnsTypeOK, grp
  <1>4. file' \in [gen: Nat, vals: Table] \cup {Absent} /\ FileOK'
    <2>0. commitGen' = commitGen /\ db' = db
      BY DEF Serve
    <2>1. CASE file' = file
      BY <1>0, <2>0, <2>1 DEF ColumnsTypeOK, FileOK
    <2>2. CASE call[c].use = "materialize" /\ file' = [gen |-> call[c].stamp, vals |-> cols]
      <3>1. /\ call[c].stamp \in Nat /\ call[c].stamp <= commitGen
            /\ call[c].stamp = commitGen => wr.pc = "idle"
        BY <1>0, <2>2 DEF CallOK, CallState
      <3>2. call[c].stamp = commitGen => cols = db
        BY <1>1, <3>1, ColumnsConverge
      <3>3. /\ file' \in [gen: Nat, vals: Table]
            /\ file'.gen = call[c].stamp /\ file'.vals = cols
        BY <1>2, <2>2, <3>1
      <3> QED
        BY <2>0, <3>1, <3>2, <3>3 DEF FileOK
    <2> QED
      BY <2>1, <2>2 DEF Serve
  <1>5. /\ call[c].pc = "check" /\ call' = [call EXCEPT ![c].pc = "done", ![c].got = cols]
        /\ UNCHANGED <<db, recorded, stamped, commitGen, writeGen, wr, memory, crashes>>
    BY DEF Serve
  <1> QED
    BY <1>2, <1>3, <1>4, <1>5, AnswerKeeps

\* A call returns.
LEMMA ReturnKeeps ==
  ASSUME ColumnsInv, NEW c \in Callers, Return(c)
  PROVE  ColumnsInv'
  <1>0. ColumnsTypeOK /\ FileOK
    BY DEF ColumnsInv
  <1>1. /\ IdleCall \in CallState /\ IdleCall.pc = "idle" /\ IdleCall.todo = {}
        /\ IdleCall.use = "read" /\ call' = [call EXCEPT ![c] = IdleCall]
    BY IdleTyped DEF IdleCall, Return
  <1>2. call'[c] = IdleCall
    BY <1>0, <1>1, CallMoves
  <1>3. CallOK(c)'
    BY <1>1, <1>2 DEF CallOK, Served, Absorbing
  <1>4. /\ gmutex' \in Callers \cup {Absent} /\ group' \in [gen: Nat, codes: Table \cup {Absent}]
        /\ file' \in [gen: Nat, vals: Table] \cup {Absent} /\ FileOK'
    BY <1>0 DEF Return, ColumnsTypeOK, FileOK, grp, store
  <1>5. call[c].pc \notin Absorbing /\ IdleCall.pc \notin Absorbing
    BY <1>1 DEF Return, Absorbing
  <1> QED
    BY <1>1, <1>3, <1>4, <1>5, OutsideStep DEF Return, store

\* Codes filed under the present generation answer a call at once.
LEMMA HitKeeps ==
  ASSUME ColumnsInv, GroupInv, NEW c \in Callers, GroupHit(c)
  PROVE  ColumnsInv'
  <1> DEFINE y == [IdleCall EXCEPT !.pc = "done", !.use = "group", !.from = stamped, !.got = group.codes]
  <1>0. /\ ColumnsTypeOK /\ FileOK /\ stamped \in Table /\ group.codes \in Table \cup {Absent}
        /\ group.codes # Absent
    BY DEF ColumnsInv, ColumnsTypeOK, GroupHit
  <1>1. /\ y \in CallState /\ y.pc = "done" /\ y.todo = {} /\ y.use = "group"
        /\ y.from = stamped /\ y.got = group.codes
    BY <1>0 DEF IdleCall, CallState
  <1>2. call' = [call EXCEPT ![c] = y] /\ call[c].pc = "idle"
    BY DEF GroupHit
  <1> HIDE DEF y
  <1>3. call'[c] = y
    BY <1>0, <1>1, <1>2, CallMoves
  <1>4. \A i \in Ids : group.codes[i].ver >= stamped[i].ver \/ Gone(i)
    BY DEF GroupInv, GroupHit
  <1>5. CallOK(c)'
    <2>1. \A i \in Ids : Gone(i) => Gone(i)'
      BY DEF GroupHit, Gone, store
    <2> QED
      BY <1>0, <1>1, <1>3, <1>4, <2>1 DEF CallOK, Served, SeesRecorded, Absorbing
  <1>6. /\ gmutex' \in Callers \cup {Absent} /\ group' \in [gen: Nat, codes: Table \cup {Absent}]
        /\ file' \in [gen: Nat, vals: Table] \cup {Absent} /\ FileOK'
    BY <1>0 DEF GroupHit, ColumnsTypeOK, FileOK, grp, store
  <1>7. call[c].pc \notin Absorbing /\ y.pc \notin Absorbing
    BY <1>1, <1>2 DEF Absorbing
  <1> QED
    BY <1>1, <1>2, <1>5, <1>6, <1>7, OutsideStep DEF GroupHit, store

\* Each way a call begins.
LEMMA StartsKeep ==
  ASSUME ColumnsInv, GroupInv, NEW c \in Callers, CallStart(c)
  PROVE  ColumnsInv'
  <1>0. ColumnsTypeOK
    BY DEF ColumnsInv
  <1>1. CASE StartRead(c)
    BY <1>0, <1>1, StartKeeps DEF StartRead, ColumnsTypeOK, grp
  <1>2. CASE StartMaterialize(c)
    BY <1>0, <1>2, StartKeeps DEF StartMaterialize, ColumnsTypeOK, grp
  <1>3. CASE StartGroup(c)
    BY <1>0, <1>3, StartKeeps DEF StartGroup, ColumnsTypeOK
  <1>4. CASE StartAdvisory(c)
    BY <1>0, <1>4, StartKeeps DEF StartAdvisory, ColumnsTypeOK, grp
  <1>5. CASE GroupHit(c)
    BY <1>5, HitKeeps
  <1> QED
    BY <1>1, <1>2, <1>3, <1>4, <1>5 DEF CallStart

-----------------------------------------------------------------------------
(* Calls that hold the exclusive lock *)

\* What the columns lack, for the one caller that may hold the lock.
LEMMA HolderReach ==
  ASSUME ColumnsInv, NEW c \in Callers, wlock \in {Absent, c}, cols # Absent, pend.full = FALSE,
         call[c].pc # "build"
  PROVE  /\ cols \in Table
         /\ \A i \in Ids :
              \/ i \in pend.touched \/ i \in call[c].todo
              \/ cols[i] = db[i] \/ cols[i] = recorded[i] \/ (Gone(i) /\ wr.delta.full)
  <1>1. ColumnsTypeOK /\ LockOK /\ ColsOK
    BY DEF ColumnsInv
  <1>2. ASSUME NEW d \in Callers, d # c PROVE call[d].pc # "build" /\ call[d].todo = {}
    BY <1>1, <1>2, ColumnsAssumption, NobodyAbsorbs DEF Absorbing
  <1> QED
    BY <1>1, <1>2 DEF ColsOK, ColumnsTypeOK

\* A step that takes, holds or releases the exclusive lock.
LEMMA InsideStep ==
  ASSUME ColumnsInv, NEW c \in Callers, NEW y \in CallState,
         call' = [call EXCEPT ![c] = y],
         UNCHANGED <<store, recorded, stamped, writeGen, wr, crashes, group>>,
         gmutex' \in Callers \cup {Absent},
         wlock \in {Absent, c}, wlock' = IF y.pc \in Absorbing THEN c ELSE Absent,
         pend' \in Delta, pend' = pend \/ pend'.touched = {},
         cols' \in Table \cup {Absent},
         y.pc \in {"patch", "advpatch"} => cols' # Absent,
         y.pc \notin Absorbing => y.todo = {},
         cols' # Absent /\ ~pend'.full /\ y.pc # "build" =>
            \A i \in Ids :
                \/ i \in pend'.touched \/ i \in y.todo
                \/ cols'[i] = db[i] \/ cols'[i] = recorded[i] \/ (Gone(i) /\ wr.delta.full),
         \/ y \in {[IdleCall EXCEPT !.pc = "done"], [IdleCall EXCEPT !.pc = "failed"]}
         \/ /\ call[c].pc \in {"check"} \cup Absorbing
            /\ y.from = call[c].from /\ y.use = call[c].use /\ y.stamp = call[c].stamp
            /\ y.pc = "done" => /\ y.got \in Table
                                /\ \A i \in Ids : y.got[i] = db[i] \/ y.got[i] = recorded[i] \/ Gone(i),
         y.pc \in {"patch", "advpatch"} => \A i \in y.todo : db[i].live \/ (Gone(i) /\ (pend'.full \/ wr.delta.full))
  PROVE  ColumnsInv'
  <1>0. ColumnsTypeOK /\ LockOK /\ PendOK /\ FileOK /\ CallOK(c)
    BY DEF ColumnsInv, CallsOK
  <1>1. /\ call' \in [Callers -> CallState] /\ call'[c] = y
        /\ \A d \in Callers : d # c => call'[d] = call[d]
    BY <1>0, CallMoves
  <1>2. ColumnsTypeOK'
    BY <1>0, <1>1 DEF ColumnsTypeOK, store, CallState
  <1>3. CallOK(c)'
    <2>1. CASE y \in {[IdleCall EXCEPT !.pc = "done"], [IdleCall EXCEPT !.pc = "failed"]}
      <3>1. y.pc \in {"done", "failed"} /\ y.use = "read" /\ y.got = Absent
        BY <2>1 DEF IdleCall
      <3> QED
        BY <1>1, <3>1 DEF CallOK, Served, Absorbing
    <2>2. CASE /\ call[c].pc \in {"check"} \cup Absorbing
               /\ y.from = call[c].from /\ y.use = call[c].use /\ y.stamp = call[c].stamp
               /\ y.pc = "done" => /\ y.got \in Table
                                   /\ \A i \in Ids : y.got[i] = db[i] \/ y.got[i] = recorded[i] \/ Gone(i)
      <3>1. y.pc = "done" =>
              y.from \in Table /\ \A i \in Ids : y.got[i].ver >= y.from[i].ver \/ Gone(i)
        BY <2>2, AnswerOK
      <3>2. y.from \in Table /\ \A i \in Ids : y.from[i].ver <= recorded[i].ver
        BY <1>0, <2>2 DEF CallOK
      <3> QED
        BY <1>0, <1>1, <2>2, <3>1, <3>2 DEF CallOK, Served, SeesRecorded, Gone, Readable, FullDue, store
    <2> QED
      BY <2>1, <2>2
  <1>4. CallsOK' /\ WriterOK'
    BY <1>2, <1>3, CallStep DEF store
  <1>5. LockOK'
    BY <1>0, LockStepKeeps
  <1>6. PendOK'
    BY <1>0 DEF PendOK, Readable, Gone, FullDue, NoDelta, store
  <1>7. FileOK'
    BY <1>0 DEF FileOK, store
  <1>8. ColsOK'
    <2> SUFFICES ASSUME cols' # Absent, ~pend'.full, \A d \in Callers : call'[d].pc # "build",
                        NEW i \in Ids
                 PROVE  \/ i \in pend'.touched
                        \/ \E d \in Callers : i \in call'[d].todo
                        \/ cols'[i] = db[i] \/ cols'[i] = recorded[i]
                        \/ (Gone(i) /\ wr.delta.full)
      BY DEF ColsOK, Gone, store
    <2> QED
      BY <1>1
  <1> QED
    BY <1>2, <1>4, <1>5, <1>6, <1>7, <1>8 DEF ColumnsInv

\* What is pending passes to the holder of the lock.
LEMMA TakePendingKeeps ==
  ASSUME ColumnsInv, NEW c \in Callers, TakePending(c)
  PROVE  ColumnsInv'
  <1> DEFINE pc == IF cols = Absent \/ pend.full THEN "build" ELSE "patch"
             y == [call[c] EXCEPT !.pc = pc, !.todo = pend.touched]
  <1>0. ColumnsTypeOK /\ LockOK /\ PendOK /\ call[c] \in CallState /\ pend \in Delta
    BY DEF ColumnsInv, ColumnsTypeOK, CallState
  <1>1. call' = [call EXCEPT ![c] = y]
    BY <1>0 DEF TakePending, ColumnsTypeOK
  <1>2. /\ wlock = Absent /\ wlock' = c /\ pend' = NoDelta /\ cols' = cols /\ call[c].pc = "check"
        /\ UNCHANGED <<store, recorded, stamped, writeGen, wr, crashes, group, gmutex>>
    BY DEF TakePending, grp
  <1>3. /\ pc \in {"build", "patch"} /\ (pc = "patch" => cols # Absent /\ pend.full = FALSE)
        /\ pend.touched \subseteq Ids
    BY <1>0 DEF Delta
  <1> HIDE DEF pc
  <1>4. /\ y \in CallState /\ y.pc = pc /\ y.todo = pend.touched /\ y.from = call[c].from
        /\ y.use = call[c].use /\ y.stamp = call[c].stamp
    BY <1>0, <1>3 DEF CallState
  <1> HIDE DEF y
  <1>5. pc = "patch" =>
          \A i \in Ids : \/ i \in pend.touched
                         \/ cols[i] = db[i] \/ cols[i] = recorded[i] \/ (Gone(i) /\ wr.delta.full)
    <2>1. call[c].todo = {} /\ call[c].pc # "build"
      BY <1>0, <1>2, ColumnsAssumption, NobodyAbsorbs
    <2> QED
      BY <1>2, <1>3, <2>1, HolderReach
  <1>6. pc = "patch" => \A i \in y.todo : db[i].live \/ (Gone(i) /\ wr.delta.full)
    BY <1>0, <1>3, <1>4 DEF PendOK, Readable, FullDue
  <1>7. NoDelta \in Delta /\ cols \in Table \cup {Absent} /\ gmutex \in Callers \cup {Absent}
    BY <1>0, IdleTyped DEF ColumnsTypeOK
  <1>8. y.pc \in Absorbing /\ y.pc \notin {"advpatch", "done"}
    BY <1>3, <1>4 DEF Absorbing
  <1> QED
    BY <1>1, <1>2, <1>3, <1>4, <1>5, <1>6, <1>7, <1>8, InsideStep DEF NoDelta

\* The holder builds the columns.
LEMMA BuildKeeps ==
  ASSUME ColumnsInv, NEW c \in Callers, Build(c)
  PROVE  ColumnsInv'
  <1> DEFINE y == [call[c] EXCEPT !.pc = "check", !.todo = {}]
  <1>0. ColumnsTypeOK /\ LockOK /\ FileOK /\ call[c] \in CallState /\ pend \in Delta
    BY DEF ColumnsInv, ColumnsTypeOK, CallState
  <1>1. call' = [call EXCEPT ![c] = y]
    BY <1>0 DEF Build, ColumnsTypeOK
  <1>2. /\ call[c].pc = "build" /\ wlock' = Absent /\ pend' = pend /\ cols' = db /\ db \in Table
        /\ UNCHANGED <<store, recorded, stamped, writeGen, wr, crashes, group, gmutex>>
    BY <1>0, LoadedIsStorage DEF Build, grp, ColumnsTypeOK
  <1>3. /\ y \in CallState /\ y.pc = "check" /\ y.todo = {} /\ y.from = call[c].from
        /\ y.use = call[c].use /\ y.stamp = call[c].stamp
    BY <1>0 DEF CallState
  <1> HIDE DEF y
  <1>4. call[c].pc \in Absorbing /\ wlock = c /\ y.pc \notin Absorbing
    BY <1>0, <1>2, <1>3 DEF LockOK, Absorbing
  <1>5. gmutex \in Callers \cup {Absent}
    BY <1>0 DEF ColumnsTypeOK
  <1> QED
    BY <1>0, <1>1, <1>2, <1>3, <1>4, <1>5, InsideStep

\* The holder re-reads one entity; one that is gone has a rebuild due.
LEMMA PatchChunkKeeps ==
  ASSUME ColumnsInv, NEW c \in Callers, NEW i \in Ids, PatchChunk(c, i)
  PROVE  ColumnsInv'
  <1> DEFINE y == [call[c] EXCEPT !.todo = @ \ {i}]
  <1>0. ColumnsTypeOK /\ LockOK /\ CallOK(c) /\ call[c] \in CallState /\ pend \in Delta /\ db \in Table
    BY DEF ColumnsInv, ColumnsTypeOK, CallState, CallsOK
  <1>1. call' = [call EXCEPT ![c] = y]
    BY <1>0 DEF PatchChunk, ColumnsTypeOK
  <1>2. /\ call[c].pc \in {"patch", "advpatch"} /\ i \in call[c].todo /\ wlock' = wlock /\ pend' = pend
        /\ cols' = IF db[i].live THEN [cols EXCEPT ![i] = db[i]] ELSE cols
        /\ UNCHANGED <<store, recorded, stamped, writeGen, wr, crashes, group, gmutex>>
    BY DEF PatchChunk, grp
  <1>3. /\ y \in CallState /\ y.pc = call[c].pc /\ y.todo = call[c].todo \ {i} /\ y.from = call[c].from
        /\ y.use = call[c].use /\ y.stamp = call[c].stamp
    BY <1>0 DEF CallState
  <1> HIDE DEF y
  <1>4. call[c].pc \in Absorbing /\ wlock = c /\ cols # Absent /\ cols \in Table
    BY <1>0, <1>2 DEF LockOK, Absorbing, ColumnsTypeOK
  <1>5. cols' \in Table /\ (db[i].live => cols'[i] = db[i]) /\ (~db[i].live => cols'[i] = cols[i])
        /\ \A j \in Ids : j # i => cols'[j] = cols[j]
    BY <1>0, <1>2, <1>4 DEF Table
  <1>6. \A j \in y.todo : db[j].live \/ (Gone(j) /\ (pend'.full \/ wr.delta.full))
    BY <1>0, <1>2, <1>3 DEF CallOK, Readable, FullDue
  <1>7. ASSUME ~pend'.full, NEW j \in Ids
        PROVE  \/ j \in pend'.touched \/ j \in y.todo
               \/ cols'[j] = db[j] \/ cols'[j] = recorded[j] \/ (Gone(j) /\ wr.delta.full)
    <2>0. pend.full = FALSE
      BY <1>0, <1>2, <1>7 DEF Delta
    <2>1. db[i].live \/ (Gone(i) /\ wr.delta.full)
      BY <1>0, <1>2, <2>0 DEF CallOK, Readable, FullDue
    <2>2. \/ j \in pend.touched \/ j \in call[c].todo
          \/ cols[j] = db[j] \/ cols[j] = recorded[j] \/ (Gone(j) /\ wr.delta.full)
      BY <1>2, <1>4, <2>0, HolderReach
    <2>3. CASE j # i
      BY <1>2, <1>3, <1>5, <2>2, <2>3
    <2>4. CASE j = i /\ db[i].live
      BY <1>5, <2>4
    <2>5. CASE j = i /\ ~db[i].live
      BY <2>1, <2>5
    <2> QED
      BY <2>3, <2>4, <2>5
  <1>8. cols' \in Table \cup {Absent} /\ cols' # Absent /\ gmutex \in Callers \cup {Absent}
    BY <1>0, <1>5, ColumnsAssumption DEF ColumnsTypeOK
  <1>9. /\ wlock \in {Absent, c} /\ wlock' = IF y.pc \in Absorbing THEN c ELSE Absent
        /\ y.pc \in Absorbing /\ y.pc # "done"
    BY <1>2, <1>3, <1>4
  <1> QED
    BY <1>0, <1>1, <1>2, <1>3, <1>4, <1>6, <1>7, <1>8, <1>9, InsideStep

\* The holder has re-read everything it took.
LEMMA PatchDoneKeeps ==
  ASSUME ColumnsInv, NEW c \in Callers, PatchDone(c)
  PROVE  ColumnsInv'
  <1> DEFINE y == [call[c] EXCEPT !.pc = "check"]
  <1>0. ColumnsTypeOK /\ LockOK /\ call[c] \in CallState /\ pend \in Delta
    BY DEF ColumnsInv, ColumnsTypeOK, CallState
  <1>1. call' = [call EXCEPT ![c] = y]
    BY <1>0 DEF PatchDone, ColumnsTypeOK
  <1>2. /\ call[c].pc = "patch" /\ call[c].todo = {} /\ wlock' = Absent /\ pend' = pend /\ cols' = cols
        /\ UNCHANGED <<store, recorded, stamped, writeGen, wr, crashes, group, gmutex>>
    BY DEF PatchDone, grp
  <1>3. /\ y \in CallState /\ y.pc = "check" /\ y.todo = {} /\ y.from = call[c].from
        /\ y.use = call[c].use /\ y.stamp = call[c].stamp
    BY <1>0, <1>2 DEF CallState
  <1> HIDE DEF y
  <1>4. call[c].pc \in Absorbing /\ wlock = c /\ y.pc \notin Absorbing
    BY <1>0, <1>2, <1>3 DEF LockOK, Absorbing
  <1>5. gmutex \in Callers \cup {Absent} /\ cols \in Table \cup {Absent}
    BY <1>0 DEF ColumnsTypeOK
  <1>6. cols # Absent /\ ~pend.full =>
           \A i \in Ids :
              \/ i \in pend.touched
              \/ cols[i] = db[i] \/ cols[i] = recorded[i] \/ (Gone(i) /\ wr.delta.full)
    <2> SUFFICES ASSUME cols # Absent, ~pend.full
                 PROVE  \A i \in Ids :
                          \/ i \in pend.touched
                          \/ cols[i] = db[i] \/ cols[i] = recorded[i] \/ (Gone(i) /\ wr.delta.full)
      OBVIOUS
    <2>1. pend.full = FALSE /\ call[c].pc # "build" /\ wlock \in {Absent, c}
      BY <1>0, <1>2, <1>4 DEF Delta
    <2> QED
      BY <1>2, <2>1, HolderReach
  <1> QED
    BY <1>0, <1>1, <1>2, <1>3, <1>4, <1>5, <1>6, InsideStep

\* The holder fails: everything is to be rebuilt.
LEMMA AbsorbFailsKeeps ==
  ASSUME ColumnsInv, NEW c \in Callers, AbsorbFails(c)
  PROVE  ColumnsInv'
  <1> DEFINE y == [IdleCall EXCEPT !.pc = "failed"]
             p == RecordDelta(pend, [touched |-> {}, full |-> TRUE])
  <1>0. ColumnsTypeOK /\ LockOK /\ pend \in Delta
    BY DEF ColumnsInv, ColumnsTypeOK
  <1>1. /\ call' = [call EXCEPT ![c] = y] /\ wlock' = Absent /\ pend' = p /\ cols' = cols
        /\ gmutex' = (IF gmutex = c THEN Absent ELSE gmutex)
        /\ call[c].pc \in {"build", "patch", "advpatch"}
        /\ UNCHANGED <<store, recorded, stamped, writeGen, wr, crashes, group>>
    BY DEF AbsorbFails
  <1>2. p = [touched |-> {}, full |-> TRUE]
    BY DEF RecordDelta
  <1>3. y \in CallState /\ y.pc = "failed" /\ y.todo = {}
    BY IdleTyped DEF IdleCall
  <1>4. wlock = c /\ y.pc \notin Absorbing
    BY <1>0, <1>1, <1>3 DEF LockOK, Absorbing
  <1>5. gmutex' \in Callers \cup {Absent} /\ cols \in Table \cup {Absent}
    BY <1>0, <1>1 DEF ColumnsTypeOK
  <1> HIDE DEF p
  <1>6. p \in Delta /\ p.full = TRUE /\ p.touched = {}
    BY <1>2 DEF Delta
  <1>7. y \in {[IdleCall EXCEPT !.pc = "done"], [IdleCall EXCEPT !.pc = "failed"]}
    OBVIOUS
  <1> HIDE DEF y
  <1> QED
    BY <1>1, <1>3, <1>4, <1>5, <1>6, <1>7, InsideStep

\* One turn of an advisory reader.
LEMMA AdviseKeeps ==
  ASSUME ColumnsInv, NEW c \in Callers, Advise(c)
  PROVE  ColumnsInv'
  <1>0. /\ ColumnsTypeOK /\ LockOK /\ PendOK /\ call[c] \in CallState /\ pend \in Delta
        /\ gmutex \in Callers \cup {Absent} /\ cols \in Table \cup {Absent} /\ pend.full \in BOOLEAN
        /\ pend.touched \subseteq Ids /\ c # Absent
    BY ColumnsAssumption DEF ColumnsInv, ColumnsTypeOK, CallState, Delta
  <1>1. /\ UNCHANGED <<store, recorded, stamped, writeGen, wr, crashes, group, gmutex>>
        /\ call[c].pc \in {"check", "advpatch"}
    BY DEF Advise, grp
  <1>2. /\ call[c].todo = {}
        /\ (wlock = Absent /\ call[c].pc = "check") \/ (wlock = c /\ cols # Absent)
    <2>1. \/ call[c].pc = "check" /\ wlock = Absent
          \/ call[c].pc = "advpatch" /\ call[c].todo = {}
      BY DEF Advise
    <2> QED
      BY <1>0, <2>1 DEF LockOK, Absorbing
  <1>3. cols # Absent /\ pend.full = FALSE =>
           \A i \in Ids :
              \/ i \in pend.touched
              \/ cols[i] = db[i] \/ cols[i] = recorded[i] \/ (Gone(i) /\ wr.delta.full)
    <2>1. call[c].pc # "build" /\ wlock \in {Absent, c}
      BY <1>1, <1>2
    <2> QED
      BY <1>2, <2>1, HolderReach
  <1>4. CASE cols = Absent
    <2> DEFINE y == [IdleCall EXCEPT !.pc = "done"]
    <2>1. call' = [call EXCEPT ![c] = y] /\ UNCHANGED <<cols, wlock, pend>> /\ wlock = Absent
      BY <1>2, <1>4 DEF Advise, memory
    <2>2. y \in CallState /\ y.pc = "done" /\ y.todo = {} /\ y.pc \notin Absorbing
      BY IdleTyped DEF IdleCall, Absorbing
    <2>3. y \in {[IdleCall EXCEPT !.pc = "done"], [IdleCall EXCEPT !.pc = "failed"]}
      OBVIOUS
    <2> HIDE DEF y
    <2> QED
      BY <1>0, <1>1, <1>4, <2>1, <2>2, <2>3, InsideStep
  <1>5. CASE cols # Absent /\ pend.full
    <2> DEFINE y == [IdleCall EXCEPT !.pc = "done"]
    <2>1. call' = [call EXCEPT ![c] = y] /\ cols' = Absent /\ wlock' = Absent /\ pend' = NoDelta
      BY <1>5 DEF Advise
    <2>2. y \in CallState /\ y.pc = "done" /\ y.todo = {} /\ y.pc \notin Absorbing
      BY IdleTyped DEF IdleCall, Absorbing
    <2>3. y \in {[IdleCall EXCEPT !.pc = "done"], [IdleCall EXCEPT !.pc = "failed"]}
      OBVIOUS
    <2>4. NoDelta \in Delta /\ NoDelta.touched = {}
      BY IdleTyped DEF NoDelta
    <2> HIDE DEF y
    <2> QED
      BY <1>0, <1>1, <1>2, <2>1, <2>2, <2>3, <2>4, InsideStep
  <1>6. CASE cols # Absent /\ ~pend.full /\ pend.touched = {}
    <2> DEFINE y == [call[c] EXCEPT !.pc = "done", !.got = cols]
    <2>1. call' = [call EXCEPT ![c] = y] /\ UNCHANGED <<cols, pend>> /\ wlock' = Absent
      BY <1>0, <1>6 DEF Advise, ColumnsTypeOK
    <2>2. /\ y \in CallState /\ y.pc = "done" /\ y.todo = {} /\ y.from = call[c].from
          /\ y.use = call[c].use /\ y.stamp = call[c].stamp /\ y.got = cols /\ cols \in Table
      BY <1>0, <1>2, <1>6 DEF CallState
    <2>3. y.pc \notin Absorbing /\ call[c].pc \in {"check"} \cup Absorbing /\ wlock \in {Absent, c}
      BY <1>1, <1>2, <2>2 DEF Absorbing
    <2>4. pend.full = FALSE
      BY <1>0, <1>6
    <2> HIDE DEF y
    <2> QED
      BY <1>0, <1>1, <1>3, <1>6, <2>1, <2>2, <2>3, <2>4, InsideStep
  <1>7. CASE cols # Absent /\ ~pend.full /\ pend.touched # {}
    <2> DEFINE y == [call[c] EXCEPT !.pc = "advpatch", !.todo = pend.touched]
    <2>1. call' = [call EXCEPT ![c] = y] /\ cols' = cols /\ wlock' = c /\ pend' = NoDelta
      BY <1>0, <1>7 DEF Advise, ColumnsTypeOK
    <2>2. /\ y \in CallState /\ y.pc = "advpatch" /\ y.todo = pend.touched /\ y.from = call[c].from
          /\ y.use = call[c].use /\ y.stamp = call[c].stamp
      BY <1>0 DEF CallState
    <2>3. y.pc \in Absorbing /\ call[c].pc \in {"check"} \cup Absorbing /\ wlock \in {Absent, c}
      BY <1>1, <1>2, <2>2 DEF Absorbing
    <2>4. pend.full = FALSE /\ NoDelta \in Delta /\ NoDelta.touched = {}
      BY <1>0, <1>7, IdleTyped DEF NoDelta
    <2>5. \A i \in y.todo : db[i].live \/ (Gone(i) /\ wr.delta.full)
      BY <1>0, <2>2, <2>4 DEF PendOK, Readable, FullDue
    <2> HIDE DEF y
    <2> QED
      BY <1>0, <1>1, <1>3, <1>7, <2>1, <2>2, <2>3, <2>4, <2>5, InsideStep
  <1> QED
    BY <1>4, <1>5, <1>6, <1>7

-----------------------------------------------------------------------------
(* The writer and the process *)

\* A commit: the delta names every entity it changed.
LEMMA CommitKeeps ==
  ASSUME ColumnsInv, NEW newDb \in Table, NEW delta \in Delta, Commit(newDb, delta),
         \A i \in Ids : db[i].ver <= newDb[i].ver,
         \A i \in Ids : Gone(i) => newDb[i] = db[i],
         delta.full \/ \A i \in Ids \ delta.touched : newDb[i] = db[i],
         \A i \in delta.touched : newDb[i].live,
         \A i \in Ids : db[i].live => newDb[i].live \/ (delta.full /\ newDb[i].ver > 0)
  PROVE  ColumnsInv'
  <1>0. ColumnsTypeOK /\ LockOK /\ WriterOK /\ PendOK /\ ColsOK /\ FileOK /\ CallsOK
    BY DEF ColumnsInv
  <1>1. /\ db' = newDb /\ commitGen' = commitGen + 1 /\ wr' = [pc |-> "publish", delta |-> delta]
        /\ UNCHANGED <<file, writeGen, memory, grp, call, recorded, stamped, crashes>>
        /\ wr.pc = "idle" /\ recorded = db /\ wr.delta = NoDelta
    BY <1>0 DEF Commit, WriterOK
  <1>2. ColumnsTypeOK'
    BY <1>0, <1>1 DEF ColumnsTypeOK, memory, grp
  <1>3. commitGen \in Nat /\ wr'.pc = "publish" /\ wr'.delta = delta /\ wr.delta.full = FALSE
        /\ pend \in Delta
    BY <1>0, <1>1 DEF ColumnsTypeOK, NoDelta
  <1>4. ASSUME NEW i \in Ids PROVE (Gone(i) => Gone(i)') /\ (Readable(i) => Readable(i)')
    BY <1>1, <1>3 DEF Gone, Readable, FullDue, memory
  <1>5. LockOK'
    BY <1>0, <1>1 DEF LockOK, memory
  <1>6. WriterOK'
    BY <1>1, <1>3 DEF WriterOK
  <1>7. PendOK'
    <2>1. pend.touched \subseteq Ids /\ pend' = pend
      BY <1>1, <1>3 DEF Delta, memory
    <2> QED
      BY <1>0, <1>1, <1>3, <1>4, <2>1 DEF PendOK
  <1>8. ColsOK'
    <2>1. UNCHANGED <<cols, pend, call, recorded>>
      BY <1>1 DEF memory
    <2> QED
      BY <1>0, <1>1, <1>3, <1>4, <2>1 DEF ColsOK
  <1>9. FileOK'
    <2>1. file # Absent => file.gen <= commitGen /\ file.gen \in Nat
      BY <1>0 DEF FileOK, ColumnsTypeOK
    <2> QED
      BY <1>1, <1>3, <2>1 DEF FileOK
  <1>10. CallsOK'
    <2> SUFFICES ASSUME NEW c \in Callers PROVE CallOK(c)'
      BY DEF CallsOK
    <2>1. recorded \in Table /\ \A i \in Ids : recorded[i].ver \in Nat
      BY <1>0 DEF ColumnsTypeOK, Table, Rec
    <2>2. \A i \in Ids : recorded[i].ver <= recorded'[i].ver
      BY <1>1, <2>1
    <2>3. commitGen <= commitGen' /\ commitGen' # commitGen
      BY <1>1, <1>3
    <2>4. CallOK(c) /\ call'[c] = call[c]
      BY <1>0, <1>1 DEF CallsOK
    <2> QED
      BY <1>0, <1>2, <1>4, <2>2, <2>3, <2>4, CallStays
  <1> QED
    BY <1>2, <1>5, <1>6, <1>7, <1>8, <1>9, <1>10 DEF ColumnsInv

\* Entities are added and updated; what was deleted stays so.
LEMMA UpsertKeeps ==
  ASSUME ColumnsInv, NEW S \in (SUBSET Ids) \ {{}}, Upsert(S)
  PROVE  ColumnsInv'
  <1> DEFINE newDb == [i \in Ids |-> IF i \in S THEN [ver |-> db[i].ver + 1, live |-> TRUE] ELSE db[i]]
             delta == [touched |-> S, full |-> FALSE]
  <1>0. db \in [Ids -> [ver: Nat, live: BOOLEAN]]
    BY DEF ColumnsInv, ColumnsTypeOK, Table, Rec
  <1>1. newDb \in Table /\ delta \in Delta /\ delta.touched = S /\ delta.full = FALSE
    BY <1>0 DEF Table, Rec, Delta
  <1>2. Commit(newDb, delta) /\ \A i \in S : db[i].live \/ db[i].ver = 0
    BY DEF Upsert
  <1>3. ASSUME NEW i \in Ids
        PROVE  /\ db[i].ver <= newDb[i].ver /\ (Gone(i) => newDb[i] = db[i])
               /\ i \in S => newDb[i].live
               /\ i \notin S => newDb[i] = db[i]
               /\ db[i].live => newDb[i].live
    <2>1. db[i].ver \in Nat
      BY <1>0
    <2>2. CASE i \in S
      BY <1>2, <2>1, <2>2 DEF Gone
    <2>3. CASE i \notin S
      BY <2>1, <2>3
    <2> QED
      BY <2>2, <2>3
  <1> HIDE DEF newDb, delta
  <1> QED
    BY <1>1, <1>2, <1>3, CommitKeeps

\* An entity is deleted.
LEMMA DeleteKeeps ==
  ASSUME ColumnsInv, NEW i \in Ids, Delete(i)
  PROVE  ColumnsInv'
  <1> DEFINE newDb == [db EXCEPT ![i] = [ver |-> @.ver + 1, live |-> FALSE]]
             delta == [touched |-> {}, full |-> TRUE]
  <1>0. db \in [Ids -> [ver: Nat, live: BOOLEAN]]
    BY DEF ColumnsInv, ColumnsTypeOK, Table, Rec
  <1>1. newDb \in Table /\ delta \in Delta /\ delta.touched = {} /\ delta.full = TRUE
    BY <1>0 DEF Table, Rec, Delta
  <1>2. Commit(newDb, delta) /\ db[i].live
    BY DEF Delete
  <1>3. ASSUME NEW j \in Ids
        PROVE  /\ db[j].ver <= newDb[j].ver /\ (Gone(j) => newDb[j] = db[j])
               /\ db[j].live => newDb[j].live \/ newDb[j].ver > 0
    <2>1. db[j].ver \in Nat
      BY <1>0
    <2>2. CASE i = j
      BY <1>0, <1>2, <2>1, <2>2 DEF Gone
    <2>3. CASE i # j
      BY <1>0, <2>1, <2>3
    <2> QED
      BY <2>2, <2>3
  <1> HIDE DEF newDb, delta
  <1> QED
    BY <1>1, <1>2, <1>3, CommitKeeps

\* The generation is published.
LEMMA PublishKeeps ==
  ASSUME ColumnsInv, Publish
  PROVE  ColumnsInv'
  <1>0. ColumnsTypeOK /\ LockOK /\ WriterOK /\ PendOK /\ ColsOK /\ FileOK /\ CallsOK
    BY DEF ColumnsInv
  <1>1. /\ wr' = [wr EXCEPT !.pc = "record"] /\ writeGen' = writeGen + 1 /\ wr.pc = "publish"
        /\ UNCHANGED <<db, commitGen, file, cols, wlock, pend, group, gmutex, call, recorded, crashes>>
        /\ stamped' = recorded
    BY DEF Publish, store, memory, grp
  <1>2. ColumnsTypeOK' /\ wr'.delta = wr.delta /\ wr'.pc = "record"
    BY <1>0, <1>1 DEF ColumnsTypeOK
  <1>3. CallsOK'
    <2>1. ASSUME NEW c \in Callers PROVE CallOK(c)'
      BY <1>0, <1>1, <1>2 DEF CallsOK, CallOK, Served, SeesRecorded, Readable, FullDue, Gone
    <2> QED
      BY <2>1 DEF CallsOK
  <1>4. LockOK' /\ FileOK'
    BY <1>0, <1>1 DEF LockOK, FileOK
  <1>5. WriterOK' /\ PendOK'
    BY <1>0, <1>1, <1>2 DEF WriterOK, PendOK, Readable, FullDue, Gone
  <1>6. ColsOK'
    BY <1>0, <1>1, <1>2 DEF ColsOK, Gone
  <1> QED
    BY <1>2, <1>3, <1>4, <1>5, <1>6 DEF ColumnsInv

\* The delta is recorded.
LEMMA RecordKeeps ==
  ASSUME ColumnsInv, RecordTouched
  PROVE  ColumnsInv'
  <1>0. /\ ColumnsTypeOK /\ LockOK /\ WriterOK /\ PendOK /\ ColsOK /\ FileOK /\ CallsOK
        /\ wr.delta \in Delta /\ pend \in Delta
    BY DEF ColumnsInv, ColumnsTypeOK
  <1>1. /\ pend' = RecordDelta(pend, wr.delta) /\ recorded' = db
        /\ wr' = [pc |-> "idle", delta |-> NoDelta]
        /\ UNCHANGED <<db, commitGen, file, cols, wlock, group, gmutex, call, stamped, crashes, writeGen>>
    BY DEF RecordTouched, store, grp
  <1>2. ColumnsTypeOK'
    BY <1>0, <1>1, RecordTyped, IdleTyped DEF ColumnsTypeOK
  <1>3. /\ wr'.delta = NoDelta /\ wr'.pc = "idle" /\ wr'.delta.full = FALSE /\ wr'.delta.touched = {}
        /\ pend'.full = (pend.full \/ wr.delta.full)
        /\ pend'.full \/ pend'.touched = pend.touched \cup wr.delta.touched
        /\ pend'.touched \subseteq pend.touched \cup wr.delta.touched
    BY <1>0, <1>1 DEF RecordDelta, NoDelta, Delta
  <1>4. LockOK' /\ FileOK'
    BY <1>0, <1>1 DEF LockOK, FileOK
  <1>5. \A i \in Ids : recorded[i].ver \in Nat /\ db[i].ver \in Nat
    BY <1>0 DEF ColumnsTypeOK, Table, Rec
  <1>6. WriterOK'
    BY <1>1, <1>3, <1>5 DEF WriterOK
  <1>7. ASSUME NEW i \in Ids PROVE (Gone(i) => Gone(i)') /\ (Readable(i) => Readable(i)')
    BY <1>1, <1>3 DEF Gone, Readable, FullDue
  <1>8. PendOK'
    <2>1. ASSUME NEW i \in pend'.touched PROVE Readable(i)'
      <3>1. i \in Ids /\ Readable(i)
        BY <1>0, <1>3, <2>1 DEF PendOK, Delta, Readable
      <3> QED
        BY <1>7, <3>1
    <2> QED
      BY <1>3, <2>1 DEF PendOK
  <1>9. ColsOK'
    <2> SUFFICES ASSUME cols # Absent, ~pend'.full, \A d \in Callers : call[d].pc # "build",
                        NEW i \in Ids
                 PROVE  \/ i \in pend'.touched
                        \/ \E d \in Callers : i \in call[d].todo
                        \/ cols[i] = db[i]
      BY <1>1 DEF ColsOK
    <2>1. ~pend.full /\ ~wr.delta.full
      BY <1>0, <1>3 DEF Delta
    <2>2. i \in wr.delta.touched \/ recorded[i] = db[i]
      BY <1>0, <2>1 DEF WriterOK
    <2> QED
      BY <1>0, <1>3, <2>1, <2>2 DEF ColsOK
  <1>10. CallsOK'
    <2> SUFFICES ASSUME NEW c \in Callers PROVE CallOK(c)'
      BY DEF CallsOK
    <2>1. (\A i \in Ids : recorded[i].ver <= recorded'[i].ver) /\ commitGen <= commitGen'
      BY <1>0, <1>1 DEF WriterOK, ColumnsTypeOK
    <2>2. CallOK(c) /\ call'[c] = call[c]
      BY <1>0, <1>1 DEF CallsOK
    <2> QED
      BY <1>0, <1>2, <1>3, <1>7, <2>1, <2>2, CallStays
  <1> QED
    BY <1>2, <1>4, <1>6, <1>8, <1>9, <1>10 DEF ColumnsInv

\* Storage and the file, with nothing in memory.
LEMMA FreshStart ==
  ASSUME db' \in Table, commitGen' \in Nat, writeGen' = 1, crashes' \in Nat,
         file' \in [gen: Nat, vals: Table] \cup {Absent}, FileOK',
         wr' = [pc |-> "idle", delta |-> NoDelta],
         cols' = Absent, wlock' = Absent, pend' = NoDelta,
         group' = [gen |-> 0, codes |-> Absent], gmutex' = Absent,
         call' = [c \in Callers |-> IdleCall], recorded' = db', stamped' = db'
  PROVE  ColumnsInv'
  <1>1. ColumnsTypeOK'
    BY IdleTyped DEF ColumnsTypeOK, CallState
  <1>2. \A c \in Callers :
          call'[c].pc = "idle" /\ call'[c].todo = {} /\ call'[c].use = "read" /\ c # Absent
    BY ColumnsAssumption DEF IdleCall
  <1>3. wr'.delta = NoDelta /\ wr'.delta.touched = {} /\ pend'.touched = {}
    BY DEF NoDelta
  <1>4. WriterOK'
    BY <1>3 DEF WriterOK, Table, Rec
  <1>5. LockOK' /\ PendOK' /\ ColsOK'
    BY <1>2, <1>3 DEF LockOK, PendOK, ColsOK, Absorbing
  <1>6. CallsOK'
    BY <1>2 DEF CallsOK, CallOK, Served, Absorbing
  <1> QED
    BY <1>1, <1>4, <1>5, <1>6 DEF ColumnsInv

\* The process stops and reopens the database.
LEMMA CrashKeeps ==
  ASSUME ColumnsInv, Crash
  PROVE  ColumnsInv'
  <1>1. /\ db' \in Table /\ commitGen' \in Nat /\ crashes' \in Nat
        /\ file' \in [gen: Nat, vals: Table] \cup {Absent} /\ FileOK' /\ recorded' = db' /\ stamped' = db'
    BY DEF ColumnsInv, ColumnsTypeOK, FileOK, Crash, store
  <1> QED
    BY <1>1, FreshStart DEF Crash

-----------------------------------------------------------------------------
(* The group codes *)

\* A step that neither files codes nor publishes a generation, and in which
\* nobody begins to build them.
LEMMA GroupStays ==
  ASSUME ColumnsInv, ColumnsInv', GroupInv,
         UNCHANGED <<group, stamped, writeGen>>,
         \A i \in Ids : recorded[i].ver <= recorded'[i].ver,
         \A i \in Ids : Gone(i) => Gone(i)',
         \A d \in Callers : Filling(d)' =>
            Filling(d) /\ call'[d].from = call[d].from /\ gmutex' = gmutex
  PROVE  GroupInv'
  <1>0. /\ \A i \in Ids : /\ stamped[i].ver \in Nat /\ recorded[i].ver \in Nat
                           /\ recorded'[i].ver \in Nat
        /\ group.gen \in Nat /\ writeGen \in Nat
    BY DEF ColumnsInv, ColumnsTypeOK, Table, Rec
  <1>1. group.gen <= writeGen /\ \A i \in Ids : stamped[i].ver <= recorded[i].ver
    BY DEF GroupInv
  <1>2. \A i \in Ids : stamped'[i].ver <= recorded'[i].ver
    BY <1>0, <1>1
  <1>3. group'.gen = writeGen' /\ group'.codes # Absent =>
          \A i \in Ids : group'.codes[i].ver >= stamped'[i].ver \/ Gone(i)'
    BY DEF GroupInv
  <1>4. ASSUME NEW d \in Callers, Filling(d)'
        PROVE  /\ gmutex' = d
               /\ group'.gen = writeGen' => \A i \in Ids : stamped'[i].ver <= call'[d].from[i].ver
    <2>1. Filling(d) /\ call'[d].from = call[d].from /\ gmutex' = gmutex
      BY <1>4
    <2> QED
      BY <2>1 DEF GroupInv
  <1> QED
    BY <1>1, <1>2, <1>3, <1>4 DEF GroupInv

\* A caller's step that files nothing: it was building, or is not now.
LEMMA GroupCallStep ==
  ASSUME ColumnsInv, ColumnsInv', GroupInv, NEW c \in Callers, NEW y \in CallState,
         call' = [call EXCEPT ![c] = y],
         UNCHANGED <<group, stamped, writeGen, recorded, db>>,
         \/ y.use # "group" \/ y.pc \notin {"check"} \cup Absorbing
         \/ Filling(c) /\ y.from = call[c].from /\ gmutex' = gmutex,
         gmutex' = gmutex \/ (gmutex = c /\ gmutex' = Absent)
  PROVE  GroupInv'
  <1>1. /\ call'[c] = y /\ \A d \in Callers : d # c => call'[d] = call[d]
        /\ \A i \in Ids : recorded[i].ver \in Nat
    BY CallMoves DEF ColumnsInv, ColumnsTypeOK, Table, Rec
  <1>2. ASSUME NEW d \in Callers, Filling(d)'
        PROVE  Filling(d) /\ call'[d].from = call[d].from /\ gmutex' = gmutex
    <2>1. CASE d = c
      BY <1>1, <1>2, <2>1 DEF Filling
    <2>2. CASE d # c
      <3>1. Filling(d) /\ call'[d] = call[d]
        BY <1>1, <1>2, <2>2 DEF Filling
      <3>2. gmutex = d
        BY <3>1 DEF GroupInv
      <3> QED
        BY <2>2, <3>1, <3>2
    <2> QED
      BY <2>1, <2>2
  <1>3. (\A i \in Ids : recorded[i].ver <= recorded'[i].ver) /\ \A i \in Ids : Gone(i) => Gone(i)'
    BY <1>1 DEF Gone
  <1> QED
    BY <1>2, <1>3, GroupStays

\* The calls that neither begin nor file codes.
LEMMA GroupOthers ==
  ASSUME ColumnsInv, ColumnsInv', GroupInv, NEW c \in Callers,
         \/ StartRead(c) \/ StartMaterialize(c) \/ StartAdvisory(c) \/ GroupHit(c)
         \/ DirectRead(c) \/ Advise(c) \/ AbsorbFails(c) \/ Return(c)
  PROVE  GroupInv'
  <1>0. ColumnsTypeOK /\ call[c] \in CallState /\ recorded \in Table /\ stamped \in Table
    BY DEF ColumnsInv, ColumnsTypeOK, CallState
  <1>1. ASSUME NEW use, NEW stamp \in Nat, Start(c, use, stamp), use # "group",
               UNCHANGED <<group, gmutex, stamped, writeGen, recorded, db>>
        PROVE  GroupInv'
    <2>1. PICK y \in CallState : call' = [call EXCEPT ![c] = y] /\ y.use = use
      BY <1>0, <1>1, StartTyped
    <2> QED
      BY <1>1, <2>1, GroupCallStep
  <1>2. CASE StartRead(c)
    BY <1>1, <1>2 DEF StartRead, store, grp
  <1>3. CASE StartMaterialize(c)
    BY <1>0, <1>1, <1>3 DEF StartMaterialize, store, grp, ColumnsTypeOK
  <1>4. CASE StartAdvisory(c)
    BY <1>1, <1>4 DEF StartAdvisory, store, grp
  <1>5. CASE GroupHit(c)
    <2> DEFINE y == [IdleCall EXCEPT !.pc = "done", !.use = "group", !.from = stamped, !.got = group.codes]
    <2>1. group.codes \in Table \cup {Absent} /\ call' = [call EXCEPT ![c] = y]
      BY <1>0, <1>5 DEF ColumnsTypeOK, GroupHit
    <2>2. y \in CallState /\ y.pc = "done"
      BY <1>0, <2>1 DEF IdleCall, CallState
    <2> HIDE DEF y
    <2> QED
      BY <1>5, <2>1, <2>2, GroupCallStep DEF GroupHit, store, grp, Absorbing
  <1>6. CASE DirectRead(c)
    <2> DEFINE y == [call[c] EXCEPT !.pc = "done", !.got = db]
    <2>1. call' = [call EXCEPT ![c] = y] /\ db \in Table
      BY <1>0, <1>6 DEF DirectRead, ColumnsTypeOK
    <2>2. y \in CallState /\ y.pc = "done"
      BY <1>0, <2>1 DEF CallState
    <2> HIDE DEF y
    <2> QED
      BY <1>6, <2>1, <2>2, GroupCallStep DEF DirectRead, store, grp, Absorbing
  <1>7. CASE Advise(c)
    <2>1. PICK y \in CallState : call' = [call EXCEPT ![c] = y] /\ y.use # "group"
      <3>0. cols \in Table \cup {Absent} /\ pend.touched \subseteq Ids /\ call[c].use = "advise"
        BY <1>0, <1>7 DEF ColumnsTypeOK, Delta, Advise
      <3>1. CASE call' = [call EXCEPT ![c] = [IdleCall EXCEPT !.pc = "done"]]
        <4>1. [IdleCall EXCEPT !.pc = "done"].use # "group"
          BY DEF IdleCall
        <4> QED
          BY <3>1, <4>1, IdleTyped
      <3>2. CASE call' = [call EXCEPT ![c].pc = "done", ![c].got = cols]
        <4> DEFINE y == [call[c] EXCEPT !.pc = "done", !.got = cols]
        <4>1. y \in CallState /\ y.use # "group"
          BY <1>0, <3>0 DEF CallState
        <4>2. call' = [call EXCEPT ![c] = y]
          BY <1>0, <3>2 DEF ColumnsTypeOK
        <4> QED
          BY <4>1, <4>2
      <3>3. CASE call' = [call EXCEPT ![c].pc = "advpatch", ![c].todo = pend.touched]
        <4> DEFINE y == [call[c] EXCEPT !.pc = "advpatch", !.todo = pend.touched]
        <4>1. y \in CallState /\ y.use # "group"
          BY <1>0, <3>0 DEF CallState
        <4>2. call' = [call EXCEPT ![c] = y]
          BY <1>0, <3>3 DEF ColumnsTypeOK
        <4> QED
          BY <4>1, <4>2
      <3> QED
        BY <1>7, <3>1, <3>2, <3>3 DEF Advise
    <2> QED
      BY <1>7, <2>1, GroupCallStep DEF Advise, store, grp
  <1>8. CASE AbsorbFails(c)
    <2> DEFINE y == [IdleCall EXCEPT !.pc = "failed"]
    <2>1. y \in CallState /\ y.pc = "failed" /\ call' = [call EXCEPT ![c] = y]
      BY <1>8, IdleTyped DEF AbsorbFails, IdleCall
    <2> HIDE DEF y
    <2> QED
      BY <1>8, <2>1, GroupCallStep DEF AbsorbFails, store, Absorbing
  <1>9. CASE Return(c)
    <2>1. IdleCall \in CallState /\ IdleCall.pc = "idle"
      BY IdleTyped DEF IdleCall
    <2> QED
      BY <1>9, <2>1, GroupCallStep DEF Return, store, grp, Absorbing
  <1> QED
    BY <1>2, <1>3, <1>4, <1>5, <1>6, <1>7, <1>8, <1>9

\* A caller that goes from one stage of absorbing to the next keeps its kind.
LEMMA GroupAbsorbs ==
  ASSUME ColumnsInv, ColumnsInv', GroupInv, NEW c \in Callers,
         TakePending(c) \/ HeldStep(c)
  PROVE  GroupInv'
  <1>0. ColumnsTypeOK /\ call[c] \in CallState /\ pend.touched \subseteq Ids
    BY DEF ColumnsInv, ColumnsTypeOK, CallState, Delta
  <1>1. ASSUME NEW pc \in {"check", "build", "patch", "advpatch"}, NEW todo \in SUBSET Ids,
               call' = [call EXCEPT ![c].pc = pc, ![c].todo = todo],
               call[c].pc \in {"check"} \cup Absorbing,
               UNCHANGED <<group, gmutex, stamped, writeGen, recorded, db>>
        PROVE  GroupInv'
    <2> DEFINE y == [call[c] EXCEPT !.pc = pc, !.todo = todo]
    <2>1. call' = [call EXCEPT ![c] = y]
      BY <1>0, <1>1 DEF ColumnsTypeOK
    <2>2. y \in CallState /\ y.use = call[c].use /\ y.from = call[c].from
      BY <1>0, <1>1 DEF CallState
    <2> HIDE DEF y
    <2>3. y.use # "group" \/ Filling(c)
      BY <1>1, <2>2 DEF Filling
    <2> QED
      BY <1>1, <2>1, <2>2, <2>3, GroupCallStep
  <1>2. CASE TakePending(c)
    <2>1. (IF cols = Absent \/ pend.full THEN "build" ELSE "patch") \in {"check", "build", "patch", "advpatch"}
      OBVIOUS
    <2> QED
      BY <1>0, <1>1, <1>2, <2>1 DEF TakePending, store, grp
  <1>3. CASE Build(c)
    <2>1. call' = [call EXCEPT ![c].pc = "check", ![c].todo = {}] /\ {} \in SUBSET Ids
      BY <1>3 DEF Build
    <2> QED
      BY <1>1, <1>3, <2>1 DEF Build, store, grp, Absorbing
  <1>4. CASE PatchDone(c)
    <2>1. call' = [call EXCEPT ![c].pc = "check", ![c].todo = {}]
      BY <1>0, <1>4 DEF PatchDone, CallState, ColumnsTypeOK
    <2> QED
      BY <1>1, <1>4, <2>1 DEF PatchDone, store, grp, Absorbing
  <1>5. ASSUME NEW i \in Ids, PatchChunk(c, i) PROVE GroupInv'
    <2>1. /\ call' = [call EXCEPT ![c].pc = call[c].pc, ![c].todo = call[c].todo \ {i}]
          /\ call[c].todo \ {i} \in SUBSET Ids
      BY <1>0, <1>5 DEF PatchChunk, CallState, ColumnsTypeOK
    <2> QED
      BY <1>1, <1>5, <2>1 DEF PatchChunk, store, grp, Absorbing
  <1> QED
    BY <1>2, <1>3, <1>4, <1>5 DEF HeldStep

\* A call that takes the mutex begins with everything recorded so far.
LEMMA GroupBegins ==
  ASSUME ColumnsInv, ColumnsInv', GroupInv, NEW c \in Callers, StartGroup(c)
  PROVE  GroupInv'
  <1>0. ColumnsTypeOK /\ writeGen \in Nat
    BY DEF ColumnsInv, ColumnsTypeOK
  <1>1. PICK y \in CallState : call' = [call EXCEPT ![c] = y] /\ y.from = recorded
    BY <1>0, StartTyped DEF StartGroup
  <1>2. /\ call'[c] = y /\ \A d \in Callers : d # c => call'[d] = call[d]
    BY <1>0, <1>1, CallMoves
  <1>3. /\ group'.gen = writeGen /\ group'.codes = Absent /\ gmutex = Absent /\ gmutex' = c
        /\ UNCHANGED <<writeGen, stamped, recorded>>
    BY DEF StartGroup
  <1>4. ASSUME NEW d \in Callers, Filling(d)' PROVE d = c
    <2>1. ASSUME d # c PROVE FALSE
      <3>1. Filling(d)
        BY <1>2, <1>4, <2>1 DEF Filling
      <3> QED
        BY <1>3, <3>1, ColumnsAssumption DEF GroupInv
    <2> QED
      BY <2>1
  <1>5. \A i \in Ids : stamped[i].ver <= recorded[i].ver
    BY DEF GroupInv
  <1> QED
    BY <1>0, <1>1, <1>2, <1>3, <1>4, <1>5 DEF GroupInv

\* The columns are served, and filed as codes by the call that holds the mutex.
LEMMA GroupServed ==
  ASSUME ColumnsInv, ColumnsInv', GroupInv, NEW c \in Callers, Serve(c)
  PROVE  GroupInv'
  <1> DEFINE y == [call[c] EXCEPT !.pc = "done", !.got = cols]
  <1>0. ColumnsTypeOK /\ call[c] \in CallState /\ cols \in Table \cup {Absent}
    BY DEF ColumnsInv, ColumnsTypeOK, CallState
  <1>1. call' = [call EXCEPT ![c] = y] /\ call[c].pc = "check"
    BY <1>0 DEF Serve, ColumnsTypeOK
  <1>2. y \in CallState /\ y.pc = "done"
    BY <1>0 DEF CallState
  <1> HIDE DEF y
  <1>3. UNCHANGED <<stamped, writeGen, recorded, db>> /\ wlock = Absent /\ cols # Absent
        /\ pend.full = FALSE /\ pend.touched = {}
    BY DEF Serve, NoDelta
  <1>4. CASE call[c].use # "group"
    BY <1>1, <1>2, <1>3, <1>4, GroupCallStep DEF Serve, grp, Absorbing
  <1>5. CASE call[c].use = "group"
    <2>1. Filling(c)
      BY <1>1, <1>5 DEF Filling
    <2>2. /\ call'[c] = y /\ \A d \in Callers : d # c => call'[d] = call[d]
      BY <1>0, <1>1, <1>2, CallMoves
    <2>3. group' = [group EXCEPT !.codes = cols] /\ gmutex' = Absent
      BY <1>5 DEF Serve
    <2>4. group'.gen = group.gen /\ group'.codes = cols
      BY <1>0, <2>3 DEF ColumnsTypeOK
    <2>5. ASSUME NEW d \in Callers PROVE ~Filling(d)'
      <3>1. CASE d = c
        BY <1>2, <2>2, <3>1 DEF Filling, Absorbing
      <3>2. CASE d # c
        BY <2>1, <2>2, <3>2 DEF Filling, GroupInv
      <3> QED
        BY <3>1, <3>2
    <2>6. ASSUME group.gen = writeGen, NEW i \in Ids
          PROVE  cols[i].ver >= stamped[i].ver \/ Gone(i)
      <3>1. cols \in Table /\ \A j \in Ids : cols[j] = db[j] \/ cols[j] = recorded[j] \/ Gone(j)
        BY <1>3, ColumnsReach
      <3>2. call[c].from \in Table /\ (cols[i].ver >= call[c].from[i].ver \/ Gone(i))
        BY <1>1, <3>1, AnswerOK
      <3>3. stamped[i].ver <= call[c].from[i].ver
        BY <2>1, <2>6 DEF GroupInv
      <3>4. cols[i].ver \in Nat /\ stamped[i].ver \in Nat /\ call[c].from[i].ver \in Nat
        BY <1>0, <3>1, <3>2 DEF ColumnsTypeOK, Table, Rec
      <3> QED
        BY <3>2, <3>3, <3>4
    <2>7. \A i \in Ids : Gone(i) => Gone(i)'
      BY <1>3 DEF Gone
    <2> QED
      BY <1>3, <2>4, <2>5, <2>6, <2>7 DEF GroupInv
  <1> QED
    BY <1>4, <1>5

\* Writes: a new generation leaves every filed code behind.
LEMMA GroupWrites ==
  ASSUME ColumnsInv, ColumnsInv', GroupInv, WriterNext \/ WriterStep
  PROVE  GroupInv'
  <1>0. /\ ColumnsTypeOK /\ WriterOK /\ group.gen \in Nat /\ writeGen \in Nat /\ stamped \in Table
        /\ \A i \in Ids : db[i].ver \in Nat /\ recorded[i].ver \in Nat
    BY DEF ColumnsInv, ColumnsTypeOK, Table, Rec
  <1>1. UNCHANGED <<group, gmutex, call>>
    BY DEF WriterNext, WriterStep, Upsert, Delete, Commit, Publish, RecordTouched, grp
  <1>2. ASSUME NEW d \in Callers, Filling(d)'
        PROVE  Filling(d) /\ call'[d].from = call[d].from /\ gmutex' = gmutex
    BY <1>1, <1>2 DEF Filling
  <1>3. ASSUME NEW S \in (SUBSET Ids) \ {{}}, Upsert(S) PROVE GroupInv'
    <2>1. UNCHANGED <<stamped, writeGen, recorded>>
      BY <1>3 DEF Upsert, Commit
    <2>2. ASSUME NEW i \in Ids, Gone(i) PROVE Gone(i)'
      BY <1>0, <1>3, <2>2 DEF Upsert, Commit, Gone
    <2>3. \A i \in Ids : recorded[i].ver <= recorded'[i].ver
      BY <1>0, <2>1
    <2> QED
      BY <1>1, <1>2, <2>1, <2>2, <2>3, GroupStays
  <1>4. ASSUME NEW j \in Ids, Delete(j) PROVE GroupInv'
    <2>1. UNCHANGED <<stamped, writeGen, recorded>>
      BY <1>4 DEF Delete, Commit
    <2>2. ASSUME NEW i \in Ids, Gone(i) PROVE Gone(i)'
      <3>1. i # j /\ db \in Table /\ db' = [db EXCEPT ![j] = [ver |-> @.ver + 1, live |-> FALSE]]
        BY <1>0, <1>4, <2>2 DEF Delete, Commit, Gone, ColumnsTypeOK
      <3> QED
        BY <2>2, <3>1 DEF Gone, Table
    <2>3. \A i \in Ids : recorded[i].ver <= recorded'[i].ver
      BY <1>0, <2>1
    <2> QED
      BY <1>1, <1>2, <2>1, <2>2, <2>3, GroupStays
  <1>5. CASE Publish
    <2>1. writeGen' = writeGen + 1 /\ stamped' = recorded /\ recorded' = recorded
      BY <1>5 DEF Publish
    <2>2. group'.gen <= writeGen' /\ group'.gen # writeGen'
      BY <1>0, <1>1, <2>1 DEF GroupInv
    <2>3. \A d \in Callers : Filling(d)' => gmutex' = d
      BY <1>2 DEF GroupInv
    <2>4. \A i \in Ids : stamped'[i].ver <= recorded'[i].ver
      BY <1>0, <2>1
    <2> QED
      BY <2>2, <2>3, <2>4 DEF GroupInv
  <1>6. CASE RecordTouched
    <2>1. UNCHANGED <<stamped, writeGen, db>> /\ recorded' = db
      BY <1>6 DEF RecordTouched, store
    <2>2. \A i \in Ids : recorded[i].ver <= recorded'[i].ver
      BY <1>0, <2>1 DEF WriterOK
    <2>3. \A i \in Ids : Gone(i) => Gone(i)'
      BY <2>1 DEF Gone
    <2> QED
      BY <1>1, <1>2, <2>1, <2>2, <2>3, GroupStays
  <1> QED
    BY <1>3, <1>4, <1>5, <1>6 DEF WriterNext, WriterStep

\* A process that has just opened the database has no codes.
LEMMA GroupFresh ==
  ASSUME ColumnsInv', writeGen' = 1, group' = [gen |-> 0, codes |-> Absent],
         call' = [c \in Callers |-> IdleCall], recorded' = db', stamped' = db'
  PROVE  GroupInv'
  <1>1. \A c \in Callers : ~Filling(c)'
    BY DEF Filling, IdleCall
  <1>2. \A i \in Ids : stamped'[i].ver <= recorded'[i].ver
    BY DEF ColumnsInv, ColumnsTypeOK, Table, Rec
  <1> QED
    BY <1>1, <1>2 DEF GroupInv

-----------------------------------------------------------------------------
(* The theorems *)

\* What the columns lack of storage is always pending, being absorbed or
\* about to be recorded, whatever fails and whenever the process stops.
THEOREM Invariance == ColumnsSpec => [](ColumnsInv /\ GroupInv)
  <1>1. ColumnsInit => ColumnsInv /\ GroupInv
    <2> SUFFICES ASSUME ColumnsInit PROVE ColumnsInv /\ GroupInv
      OBVIOUS
    <2>1. ColumnsTypeOK
      BY IdleTyped DEF ColumnsInit, ColumnsTypeOK, CallState, Table, Rec
    <2>2. \A c \in Callers :
            call[c].pc = "idle" /\ call[c].todo = {} /\ call[c].use = "read" /\ c # Absent
      BY ColumnsAssumption DEF ColumnsInit, IdleCall
    <2>3. WriterOK
      BY <2>1 DEF ColumnsInit, WriterOK, NoDelta, ColumnsTypeOK, Table, Rec
    <2>4. LockOK /\ PendOK /\ ColsOK /\ FileOK
      BY <2>2 DEF ColumnsInit, LockOK, PendOK, ColsOK, FileOK, Absorbing, NoDelta
    <2>5. CallsOK
      BY <2>2 DEF CallsOK, CallOK, Served, Absorbing
    <2>6. GroupInv
      BY <2>2 DEF ColumnsInit, GroupInv, Filling
    <2> QED
      BY <2>1, <2>3, <2>4, <2>5, <2>6 DEF ColumnsInv
  <1>2. ColumnsInv /\ GroupInv /\ [ColumnsNext]_columnVars => ColumnsInv'
    <2> SUFFICES ASSUME ColumnsInv, GroupInv, [ColumnsNext]_columnVars PROVE ColumnsInv'
      OBVIOUS
    <2>1. CASE WriterNext
      BY <2>1, UpsertKeeps, DeleteKeeps DEF WriterNext
    <2>2. CASE WriterStep
      BY <2>2, PublishKeeps, RecordKeeps DEF WriterStep
    <2>3. CASE Crash
      BY <2>3, CrashKeeps
    <2>4. ASSUME NEW c \in Callers,
                 CallStart(c) \/ LockStep(c) \/ HeldStep(c) \/ AbsorbFails(c) \/ Return(c)
          PROVE  ColumnsInv'
      <3>1. CASE CallStart(c)
        BY <3>1, StartsKeep
      <3>2. CASE LockStep(c)
        BY <3>2, DirectReadKeeps, ServeKeeps, TakePendingKeeps, AdviseKeeps DEF LockStep
      <3>3. CASE HeldStep(c)
        BY <3>3, BuildKeeps, PatchDoneKeeps, PatchChunkKeeps DEF HeldStep
      <3>4. CASE AbsorbFails(c)
        BY <3>4, AbsorbFailsKeeps
      <3>5. CASE Return(c)
        BY <3>5, ReturnKeeps
      <3> QED
        BY <2>4, <3>1, <3>2, <3>3, <3>4, <3>5
    <2>5. CASE UNCHANGED columnVars
      <3>1. UNCHANGED <<db, commitGen, file, writeGen, wr, cols, wlock, pend, group, gmutex,
                        call, recorded, stamped, crashes>>
        BY <2>5 DEF columnVars, store, memory, grp
      <3>2. ColumnsTypeOK' /\ LockOK' /\ WriterOK' /\ FileOK'
        BY <3>1 DEF ColumnsInv, ColumnsTypeOK, LockOK, WriterOK, FileOK
      <3>3. PendOK' /\ ColsOK'
        BY <3>1 DEF ColumnsInv, PendOK, ColsOK, Readable, FullDue, Gone
      <3>4. CallsOK'
        BY <3>1 DEF ColumnsInv, CallsOK, CallOK, Served, SeesRecorded, Readable, FullDue, Gone
      <3> QED
        BY <3>2, <3>3, <3>4 DEF ColumnsInv
    <2> QED
      BY <2>1, <2>2, <2>3, <2>4, <2>5 DEF ColumnsNext
  <1>3. ColumnsInv /\ ColumnsInv' /\ GroupInv /\ [ColumnsNext]_columnVars => GroupInv'
    <2> SUFFICES ASSUME ColumnsInv, ColumnsInv', GroupInv, [ColumnsNext]_columnVars PROVE GroupInv'
      OBVIOUS
    <2>1. CASE WriterNext \/ WriterStep
      BY <2>1, GroupWrites
    <2>2. CASE Crash
      BY <2>2, GroupFresh DEF Crash, store
    <2>3. ASSUME NEW c \in Callers,
                 CallStart(c) \/ LockStep(c) \/ HeldStep(c) \/ AbsorbFails(c) \/ Return(c)
          PROVE  GroupInv'
      BY <2>3, GroupOthers, GroupAbsorbs, GroupBegins, GroupServed DEF CallStart, LockStep
    <2>4. CASE UNCHANGED columnVars
      BY <2>4 DEF GroupInv, Filling, Gone, columnVars, store, grp
    <2> QED
      BY <2>1, <2>2, <2>3, <2>4 DEF ColumnsNext
  <1> QED
    BY <1>1, <1>2, <1>3, PTL DEF ColumnsSpec

\* Every variable keeps its type.
THEOREM Typing == ColumnsSpec => []ColumnsTypeOK
  <1>1. ColumnsInv => ColumnsTypeOK
    BY DEF ColumnsInv
  <1> QED
    BY <1>1, Invariance, PTL

\* Once nothing is pending, nobody is at work and no write is in flight, the
\* columns are storage.
THEOREM Convergence == ColumnsSpec => []Converged
  <1>1. ColumnsInv => Converged
    <2> SUFFICES ASSUME ColumnsInv, cols # Absent, wlock = Absent, pend = NoDelta, wr.pc = "idle"
                 PROVE  cols = db
      BY DEF Converged
    <2>1. pend.full = FALSE /\ pend.touched = {}
      BY DEF NoDelta
    <2> QED
      BY <2>1, ColumnsConverge
  <1> QED
    BY <1>1, Invariance, PTL

\* A call through the columns is served what was recorded before it began; a
\* call answered from the group codes, what was recorded before the present
\* generation was published (node_prop_group_codes_by_id).
THEOREM ReadsFresh == ColumnsSpec => []ReadsRecorded
  <1>1. ColumnsInv => ReadsRecorded
    BY DEF ColumnsInv, CallsOK, CallOK, ReadsRecorded, Gone
  <1> QED
    BY <1>1, Invariance, PTL

\* A file that carries the current stamp may be loaded in place of a scan.
THEOREM FileExact == ColumnsSpec => []FileTrustworthy
  <1>1. ColumnsInv => FileTrustworthy
    BY DEF ColumnsInv, FileOK, FileTrustworthy
  <1> QED
    BY <1>1, Invariance, PTL
=============================================================================
