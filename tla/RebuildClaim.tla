----------------------------- MODULE RebuildClaim -----------------------------
(***************************************************************************)
(* The dirty counter of CsrCache and the claim that decides which thread   *)
(* compacts the snapshot in the background (csr.rs note_dirty_n,           *)
(* settle_rebuild_claim, cancel_rebuild, install_full; algo.rs             *)
(* maybe_spawn_rebuild_n, run_compaction_passes; mod.rs rebuild_csr).      *)
(*                                                                         *)
(* The three atomics are not guarded by a common lock: a writer changes    *)
(* them under the write lock, a pass under the maintenance mutex.  Every   *)
(* atomic operation is a step of its own here.  The snapshot is reduced to *)
(* the number of writes it holds (module CsrCache has its content).        *)
(***************************************************************************)
EXTENDS Integers

CONSTANTS
    Threshold,    \* REBUILD_THRESHOLD
    Mod,          \* 2^64, the width of the counters
    Counts,       \* the mutation counts a transaction may have
    MaxNoted,     \* bound: mutations in total
    Passes,       \* ids for spawned compaction threads (bounds their number)
    Failures      \* whether a build may fail

ASSUME ClaimAssumption ==
    /\ Threshold \in Nat \ {0}
    /\ Mod \in Nat /\ MaxNoted \in Nat /\ MaxNoted < Mod
    /\ Counts \subseteq Nat \ {0}
    /\ Failures \in BOOLEAN
    /\ "free" \notin Passes /\ "full" \notin Passes

VARIABLES
    dirty,       \* CsrCache.dirty
    rebuilding,  \* CsrCache.rebuilding
    claimed,     \* CsrCache.claimed
    maint,       \* holder of the maintenance mutex
    wr,          \* the writer: pc and the total note_dirty_n computed
    th,          \* per compaction thread: pc and locals
    fb,          \* rebuild_csr: pc ("never" before its first call), and the
                 \* writes its build has seen
    noted,       \* history: mutations noted so far
    built        \* history: mutations the installed snapshot holds

claimVars == <<dirty, rebuilding, claimed, maint, wr, th, fb, noted, built>>

Free == "free"
Full == "full"
NewThread == [pc |-> "none", saw |-> 0, taken |-> 0, left |-> 0]

-----------------------------------------------------------------------------
(* The writer: note_dirty_n and the spawn.                                 *)

\* dirty.fetch_add(count)
NoteDirty(count) ==
    /\ wr.pc = "idle"
    /\ noted + count <= MaxNoted
    /\ noted' = noted + count
    /\ dirty' = (dirty + count) % Mod
    /\ LET total == (dirty + count) % Mod
       IN  wr' = [pc |-> IF total >= Threshold THEN "swap" ELSE "idle",
                  total |-> total]
    /\ UNCHANGED <<rebuilding, claimed, maint, th, fb, built>>

\* Mutant: the flag is stored and its old value ignored.
StoreRebuilding ==
    /\ wr.pc = "swap"
    /\ rebuilding' = TRUE
    /\ wr' = [wr EXCEPT !.pc = "claim"]
    /\ UNCHANGED <<dirty, claimed, maint, th, fb, noted, built>>

\* rebuilding.swap(true)
SwapRebuilding ==
    /\ wr.pc = "swap"
    /\ rebuilding' = TRUE
    /\ wr' = [wr EXCEPT !.pc = IF rebuilding THEN "idle" ELSE "claim"]
    /\ UNCHANGED <<dirty, claimed, maint, th, fb, noted, built>>

\* claimed.store(total), then std::thread::spawn.
Claim(t) ==
    /\ wr.pc = "claim"
    /\ th[t].pc = "none"
    /\ claimed' = wr.total
    /\ wr' = [wr EXCEPT !.pc = "idle"]
    /\ th' = [th EXCEPT ![t].pc = "lock"]
    /\ UNCHANGED <<dirty, rebuilding, maint, fb, noted, built>>

-----------------------------------------------------------------------------
(* run_compaction_passes on thread t.                                      *)

\* Mutant: a pass does not wait for the maintenance mutex.
LockPassUnguarded(t) ==
    /\ th[t].pc = "lock"
    /\ maint' = t
    /\ th' = [th EXCEPT ![t].pc = "build"]
    /\ UNCHANGED <<dirty, rebuilding, claimed, wr, fb, noted, built>>

LockPass(t) ==
    /\ th[t].pc = "lock"
    /\ maint = Free
    /\ maint' = t
    /\ th' = [th EXCEPT ![t].pc = "build"]
    /\ UNCHANGED <<dirty, rebuilding, claimed, wr, fb, noted, built>>

\* The storage scan holds every write that has been noted.
BuildPass(t) ==
    /\ th[t].pc = "build"
    /\ th' = [th EXCEPT ![t] = [@ EXCEPT !.pc = "install", !.saw = noted]]
    /\ UNCHANGED <<dirty, rebuilding, claimed, maint, wr, fb, noted, built>>

\* cancel_rebuild: two stores, the count is kept for a later commit's retry.
CancelClaim(t) ==
    /\ Failures
    /\ th[t].pc = "build"
    /\ claimed' = 0
    /\ th' = [th EXCEPT ![t].pc = "cancel"]
    /\ UNCHANGED <<dirty, rebuilding, maint, wr, fb, noted, built>>

\* Mutant: a failed build drops the claim and leaves the flag set.
KeepCancelled(t) ==
    /\ th[t].pc = "cancel"
    /\ th' = [th EXCEPT ![t].pc = "unlock"]
    /\ UNCHANGED <<dirty, rebuilding, claimed, maint, wr, fb, noted, built>>

ReleaseCancelled(t) ==
    /\ th[t].pc = "cancel"
    /\ rebuilding' = FALSE
    /\ th' = [th EXCEPT ![t].pc = "unlock"]
    /\ UNCHANGED <<dirty, claimed, maint, wr, fb, noted, built>>

\* install stores the snapshot; settle_rebuild_claim begins with
\* claimed.swap(0).
TakeClaim(t) ==
    /\ th[t].pc = "install"
    /\ built' = th[t].saw
    /\ claimed' = 0
    /\ th' = [th EXCEPT ![t] = [@ EXCEPT !.pc = "subtract", !.taken = claimed]]
    /\ UNCHANGED <<dirty, rebuilding, maint, wr, fb, noted>>

\* dirty.fetch_sub(claimed), and the saturating difference.
Subtract(t) ==
    /\ th[t].pc = "subtract"
    /\ dirty' = (dirty - th[t].taken) % Mod
    /\ th' = [th EXCEPT ![t] =
                  [@ EXCEPT !.pc = "settle",
                            !.left = IF dirty >= th[t].taken
                                     THEN dirty - th[t].taken ELSE 0]]
    /\ UNCHANGED <<rebuilding, claimed, maint, wr, fb, noted, built>>

\* Retain the claim for another pass, or release it.
Settle(t) ==
    /\ th[t].pc = "settle"
    /\ IF th[t].left >= Threshold
       THEN /\ claimed' = th[t].left
            /\ th' = [th EXCEPT ![t].pc = "again"]
            /\ UNCHANGED rebuilding
       ELSE /\ rebuilding' = FALSE
            /\ th' = [th EXCEPT ![t].pc = "unlock"]
            /\ UNCHANGED claimed
    /\ UNCHANGED <<dirty, maint, wr, fb, noted, built>>

\* The guard drops at the end of the iteration; the loop goes on or ends.
UnlockPass(t) ==
    /\ th[t].pc \in {"again", "unlock"}
    /\ maint' = Free
    /\ th' = [th EXCEPT ![t] = IF th[t].pc = "again"
                               THEN [NewThread EXCEPT !.pc = "lock"]
                               ELSE NewThread]
    /\ UNCHANGED <<dirty, rebuilding, claimed, wr, fb, noted, built>>

-----------------------------------------------------------------------------
(* rebuild_csr and install_full on a caller's thread.                      *)

LockFull ==
    /\ fb.pc \in {"never", "idle"}
    /\ maint = Free
    /\ maint' = Full
    /\ fb' = [fb EXCEPT !.pc = "build"]
    /\ UNCHANGED <<dirty, rebuilding, claimed, wr, th, noted, built>>

BuildFull ==
    /\ fb.pc = "build"
    /\ fb' = [pc |-> "dirty", saw |-> noted]
    /\ UNCHANGED <<dirty, rebuilding, claimed, maint, wr, th, noted, built>>

\* A failed scan returns the error and changes nothing.
FailFull ==
    /\ Failures
    /\ fb.pc = "build"
    /\ maint' = Free
    /\ fb' = [pc |-> "idle", saw |-> 0]
    /\ UNCHANGED <<dirty, rebuilding, claimed, wr, th, noted, built>>

\* The snapshot is stored and the three atomics reset, one after the other.
ResetDirty ==
    /\ fb.pc = "dirty"
    /\ built' = fb.saw
    /\ dirty' = 0
    /\ fb' = [fb EXCEPT !.pc = "claimed"]
    /\ UNCHANGED <<rebuilding, claimed, maint, wr, th, noted>>

ResetClaimed ==
    /\ fb.pc = "claimed"
    /\ claimed' = 0
    /\ fb' = [fb EXCEPT !.pc = "rebuilding"]
    /\ UNCHANGED <<dirty, rebuilding, maint, wr, th, noted, built>>

\* The last store, and the mutex is released on return.
ResetRebuilding ==
    /\ fb.pc = "rebuilding"
    /\ rebuilding' = FALSE
    /\ maint' = Free
    /\ fb' = [pc |-> "idle", saw |-> 0]
    /\ UNCHANGED <<dirty, claimed, wr, th, noted, built>>

-----------------------------------------------------------------------------

ClaimInit ==
    /\ dirty = 0 /\ rebuilding = FALSE /\ claimed = 0
    /\ maint = Free
    /\ wr = [pc |-> "idle", total |-> 0]
    /\ th = [t \in Passes |-> NewThread]
    /\ fb = [pc |-> "never", saw |-> 0]
    /\ noted = 0 /\ built = 0

WriterStep == SwapRebuilding \/ \E t \in Passes : Claim(t)

PassStep(t) ==
    \/ BuildPass(t) \/ CancelClaim(t) \/ ReleaseCancelled(t)
    \/ TakeClaim(t) \/ Subtract(t) \/ Settle(t) \/ UnlockPass(t)

FullStep == BuildFull \/ FailFull \/ ResetDirty \/ ResetClaimed \/ ResetRebuilding

ClaimNext ==
    \/ \E c \in Counts : NoteDirty(c)
    \/ WriterStep
    \/ \E t \in Passes : LockPass(t) \/ PassStep(t)
    \/ LockFull \/ FullStep

ClaimSpec == ClaimInit /\ [][ClaimNext]_claimVars

\* Threads run, and the maintenance mutex is eventually fair.
Fairness ==
    /\ WF_claimVars(WriterStep) /\ WF_claimVars(FullStep)
    /\ \A t \in Passes : WF_claimVars(PassStep(t)) /\ SF_claimVars(LockPass(t))

FairSpec == ClaimSpec /\ Fairness

-----------------------------------------------------------------------------
(* Properties                                                              *)

PassPc == {"none", "lock", "build", "install", "cancel", "subtract",
           "settle", "again", "unlock"}

\* Counters stay in their width and every thread is in a known step.
TypeOK ==
    /\ dirty \in 0..Mod-1 /\ claimed \in 0..Mod-1
    /\ rebuilding \in BOOLEAN
    /\ maint \in Passes \cup {Free, Full}
    /\ wr \in [pc: {"idle", "swap", "claim"}, total: 0..Mod-1]
    /\ th \in [Passes -> [pc: PassPc, saw: 0..MaxNoted, taken: 0..Mod-1, left: 0..Mod-1]]
    /\ fb \in [pc: {"never", "idle", "build", "dirty", "claimed", "rebuilding"}, saw: 0..MaxNoted]
    /\ noted \in 0..MaxNoted /\ built \in 0..MaxNoted

\* A thread between taking its claim and having settled it.
Live(t) == th[t].pc \notin {"none", "unlock"}

\* Compaction passes never run side by side, even though the claim is three
\* separate atomics (note_dirty_n: "no rebuild is already running").  A call
\* of rebuild_csr gives the claim of a waiting pass away, so this is said of
\* the time before the first one.
OneCompaction ==
    fb.pc = "never" => \A t, u \in Passes : Live(t) /\ Live(u) => t = u

\* A pass never replaces a snapshot by one that holds fewer writes, whichever
\* of the two kinds of pass installs it (CsrCache.maintenance: two passes
\* cannot install over each other).
InstallsInOrder == [][built <= built']_claimVars

Quiet == wr.pc = "idle" /\ \A t \in Passes : th[t].pc = "none"

\* A pass subtracts what was counted when it was claimed, "so writes that landed
\* during the rebuild remain counted" (csr.rs:964-966, CsrCache::install):
\* between passes the counter accounts for every write the snapshot lacks.
WritesStayCounted == Quiet /\ fb.pc = "never" => noted - built <= dirty

\* Whoever holds the rebuild claim gives it back once writes pause, through
\* settling, cancelling or a full rebuild.
ClaimReleased == rebuilding ~> ~rebuilding
=============================================================================
