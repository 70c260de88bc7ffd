-------------------------- MODULE RebuildClaimProofs --------------------------
(***************************************************************************)
(* Proofs about RebuildClaim, for every threshold, counter width, workload *)
(* and number of compaction threads.                                       *)
(***************************************************************************)
EXTENDS RebuildClaim, TLAPS

-----------------------------------------------------------------------------
(* Types                                                                   *)

\* A counter stays in its width under wrapping arithmetic.
LEMMA ModRange ==
    ASSUME NEW x \in Int PROVE x % Mod \in 0..Mod-1
  BY ClaimAssumption

\* The initial state has its type.
LEMMA TypeInit == ClaimInit => TypeOK
<1> SUFFICES ASSUME ClaimInit PROVE TypeOK
  OBVIOUS
<1>1. rebuilding \in BOOLEAN
  BY Zenon DEF ClaimInit
<1> QED
  BY <1>1, ClaimAssumption DEF ClaimInit, TypeOK, NewThread, PassPc, Free, Full

\* Every step keeps the type.
LEMMA TypeNext == ASSUME TypeOK, [ClaimNext]_claimVars PROVE TypeOK'
<1> USE ClaimAssumption DEF TypeOK, PassPc, NewThread
<1>1. ASSUME NEW c \in Counts, NoteDirty(c) PROVE TypeOK'
  <2>0. dirty + c \in Int
    OBVIOUS
  <2>1. (dirty + c) % Mod \in 0..Mod-1
    BY <2>0, ModRange
  <2>2. noted + c \in 0..MaxNoted
    BY <1>1 DEF NoteDirty
  <2> QED
    BY <1>1, <2>1, <2>2 DEF NoteDirty
<1>2. CASE SwapRebuilding
  BY <1>2 DEF SwapRebuilding
<1>3. ASSUME NEW t \in Passes, Claim(t) PROVE TypeOK'
  BY <1>3 DEF Claim
<1>4. ASSUME NEW t \in Passes, LockPass(t) PROVE TypeOK'
  BY <1>4 DEF LockPass
<1>5. ASSUME NEW t \in Passes, BuildPass(t) PROVE TypeOK'
  BY ZenonT(60), <1>5 DEF BuildPass
<1>6. ASSUME NEW t \in Passes, CancelClaim(t) PROVE TypeOK'
  BY <1>6 DEF CancelClaim
<1>7. ASSUME NEW t \in Passes, ReleaseCancelled(t) PROVE TypeOK'
  BY ZenonT(60), <1>7 DEF ReleaseCancelled
<1>8. ASSUME NEW t \in Passes, TakeClaim(t) PROVE TypeOK'
  <2>1. th[t].saw \in 0..MaxNoted
    OBVIOUS
  <2>2. th' \in [Passes -> [pc: PassPc, saw: 0..MaxNoted,
                            taken: 0..Mod-1, left: 0..Mod-1]]
    BY ZenonT(60), <1>8 DEF TakeClaim
  <2>3. built' \in 0..MaxNoted /\ claimed' \in 0..Mod-1
    BY <1>8, <2>1 DEF TakeClaim
  <2> QED
    BY <1>8, <2>2, <2>3 DEF TakeClaim
<1>9. ASSUME NEW t \in Passes, Subtract(t) PROVE TypeOK'
  <2>1. (dirty - th[t].taken) % Mod \in 0..Mod-1
    BY ModRange
  <2>2. th[t].taken \in 0..Mod-1
    OBVIOUS
  <2> DEFINE left == IF dirty >= th[t].taken THEN dirty - th[t].taken ELSE 0
  <2>3. left \in 0..Mod-1
    BY <2>2
  <2>5. th' = [th EXCEPT ![t] = [th[t] EXCEPT !.pc = "settle", !.left = left]]
    BY <1>9 DEF Subtract
  <2> HIDE DEF left
  <2>4. th' \in [Passes -> [pc: PassPc, saw: 0..MaxNoted,
                            taken: 0..Mod-1, left: 0..Mod-1]]
    BY ZenonT(60), <2>5, <2>3
  <2> QED
    BY <1>9, <2>1, <2>4 DEF Subtract
<1>10. ASSUME NEW t \in Passes, Settle(t) PROVE TypeOK'
  <2>1. rebuilding' \in BOOLEAN
    BY <1>10, Zenon DEF Settle
  <2> QED
    BY <1>10, <2>1 DEF Settle
<1>11. ASSUME NEW t \in Passes, UnlockPass(t) PROVE TypeOK'
  BY <1>11 DEF UnlockPass, Free
<1>12. CASE LockFull
  BY <1>12 DEF LockFull, Full
<1>13. CASE BuildFull
  BY <1>13 DEF BuildFull
<1>14. CASE ResetDirty
  BY <1>14 DEF ResetDirty
<1>15. CASE ResetClaimed
  BY <1>15 DEF ResetClaimed
<1>16. CASE ResetRebuilding
  <2>1. rebuilding' \in BOOLEAN
    BY <1>16, Zenon DEF ResetRebuilding
  <2> QED
    BY <1>16, <2>1 DEF ResetRebuilding, Free
<1>17. CASE UNCHANGED claimVars
  BY <1>17 DEF claimVars
<1>18. CASE FailFull
  BY <1>18 DEF FailFull, Free
<1> QED
  BY <1>1, <1>2, <1>3, <1>4, <1>5, <1>6, <1>7, <1>8, <1>9, <1>10, <1>11,
     <1>12, <1>13, <1>14, <1>15, <1>16, <1>17, <1>18
     DEF ClaimNext, WriterStep, PassStep, FullStep

\* Every reachable state of the counters, the claim and the threads has its
\* type, full rebuilds and failed builds included.
THEOREM TypeCorrect == ClaimSpec => []TypeOK
<1>1. ClaimInit => TypeOK
  BY TypeInit
<1>2. TypeOK /\ [ClaimNext]_claimVars => TypeOK'
  BY TypeNext
<1> QED
  BY <1>1, <1>2, PTL DEF ClaimSpec

-----------------------------------------------------------------------------
(* One compaction at a time                                                *)

\* Why the claim excludes: it is held, in `rebuilding`, from the swap that
\* took it to the store that gives it back, and between the swap and the
\* spawn no thread is at work.
ClaimInv ==
    /\ TypeOK
    /\ fb.pc = "never" =>
          /\ \A t, u \in Passes : Live(t) /\ Live(u) => t = u
          /\ \A t \in Passes : Live(t) => rebuilding
          /\ wr.pc = "claim" => rebuilding /\ \A t \in Passes : ~Live(t)

\* The invariant holds of the initial state.
LEMMA ClaimInvInit == ClaimInit => ClaimInv
  BY TypeInit DEF ClaimInv, ClaimInit, OneCompaction, Live, NewThread

\* Every step keeps it; a call of rebuild_csr ends what it promises.
LEMMA ClaimInvNext ==
    ASSUME ClaimInv, [ClaimNext]_claimVars
    PROVE  ClaimInv'
<1> USE DEF ClaimInv
<1>0. TypeOK'
  BY TypeNext
<1> USE DEF Live
<1>t. th \in [Passes -> [pc: PassPc, saw: 0..MaxNoted, taken: 0..Mod-1, left: 0..Mod-1]]
  BY DEF TypeOK
<1>1. ASSUME NEW c \in Counts, NoteDirty(c) PROVE ClaimInv'
  BY <1>0, <1>1 DEF NoteDirty
<1>2. CASE SwapRebuilding
  BY <1>0, <1>2 DEF SwapRebuilding, TypeOK
<1>3. ASSUME NEW t \in Passes, Claim(t) PROVE ClaimInv'
  BY <1>0, <1>t, <1>3 DEF Claim, TypeOK
<1>4. ASSUME NEW t \in Passes, LockPass(t) PROVE ClaimInv'
  BY <1>0, <1>t, <1>4 DEF LockPass
<1>5. ASSUME NEW t \in Passes, BuildPass(t) PROVE ClaimInv'
  BY <1>0, <1>t, <1>5 DEF BuildPass
<1>6. ASSUME NEW t \in Passes, CancelClaim(t) PROVE ClaimInv'
  BY <1>0, <1>t, <1>6 DEF CancelClaim
<1>7. ASSUME NEW t \in Passes, ReleaseCancelled(t) PROVE ClaimInv'
  BY <1>0, <1>t, <1>7 DEF ReleaseCancelled
<1>8. ASSUME NEW t \in Passes, TakeClaim(t) PROVE ClaimInv'
  BY <1>0, <1>t, <1>8 DEF TakeClaim
<1>9. ASSUME NEW t \in Passes, Subtract(t) PROVE ClaimInv'
  BY <1>0, <1>t, <1>9 DEF Subtract
<1>10. ASSUME NEW t \in Passes, Settle(t) PROVE ClaimInv'
  BY <1>0, <1>t, <1>10 DEF Settle
<1>11. ASSUME NEW t \in Passes, UnlockPass(t) PROVE ClaimInv'
  BY <1>0, <1>t, <1>11 DEF UnlockPass, NewThread
<1>12. CASE LockFull \/ FullStep
  <2>0. fb \in [pc: {"never", "idle", "build", "dirty", "claimed", "rebuilding"}, saw: 0..MaxNoted]
    BY DEF TypeOK
  <2>1. fb'.pc # "never"
    BY <1>12, <2>0 DEF LockFull, FullStep, BuildFull, FailFull, ResetDirty, ResetClaimed, ResetRebuilding
  <2> QED
    BY <1>0, <2>1
<1>13. CASE UNCHANGED claimVars
  BY <1>0, <1>13 DEF claimVars
<1> QED
  BY <1>1, <1>2, <1>3, <1>4, <1>5, <1>6, <1>7, <1>8, <1>9, <1>10, <1>11,
     <1>12, <1>13 DEF ClaimNext, WriterStep, PassStep

\* Before the first explicit rebuild_csr, two compaction threads never work side by
\* side: the swap in note_dirty_n hands the claim to one of them and
\* settling or cancelling gives it back only when its passes are over.
THEOREM CompactionsExclude == ClaimSpec => []OneCompaction
<1>1. ClaimInit => ClaimInv
  BY ClaimInvInit
<1>2. ClaimInv /\ [ClaimNext]_claimVars => ClaimInv'
  BY ClaimInvNext
<1>3. ClaimInv => OneCompaction
  BY DEF ClaimInv, OneCompaction
<1> QED
  BY <1>1, <1>2, <1>3, PTL DEF ClaimSpec

-----------------------------------------------------------------------------
(* Installs in order                                                       *)

\* The mutex is held by whoever is inside a pass, and what a pass has read
\* is at least what is installed.
PassInv ==
    /\ TypeOK
    /\ built <= noted
    /\ \A t \in Passes :
          /\ th[t].pc \notin {"none", "lock"} => maint = t
          /\ th[t].pc = "install" => built <= th[t].saw /\ th[t].saw <= noted
    /\ fb.pc \notin {"never", "idle"} => maint = Full
    /\ fb.pc = "dirty" => built <= fb.saw /\ fb.saw <= noted

\* The invariant holds of the initial state.
LEMMA PassInvInit == ClaimInit => PassInv
  BY TypeInit DEF ClaimInit, PassInv, NewThread

\* Every step keeps it, and no step installs an older snapshot.
LEMMA PassInvNext ==
    ASSUME PassInv, [ClaimNext]_claimVars
    PROVE  PassInv' /\ built <= built'
<1> USE DEF PassInv
<1>0. TypeOK'
  BY TypeNext
<1>t. /\ th \in [Passes -> [pc: PassPc, saw: 0..MaxNoted, taken: 0..Mod-1, left: 0..Mod-1]]
      /\ noted \in Nat /\ built \in Nat
      /\ fb \in [pc: {"never", "idle", "build", "dirty", "claimed", "rebuilding"}, saw: 0..MaxNoted]
  BY DEF TypeOK
<1>n. Free \notin Passes /\ Full \notin Passes /\ Free # Full
  BY ClaimAssumption DEF Free, Full
<1> DEFINE Goal == PassInv' /\ built <= built'
<1>1. ASSUME NEW c \in Counts, NoteDirty(c) PROVE Goal
  <2>1. noted' >= noted /\ noted' \in Nat
    BY <1>1, <1>t, ClaimAssumption DEF NoteDirty
  <2> QED
    BY <1>0, <1>t, <1>1, <2>1 DEF NoteDirty
<1>2. CASE SwapRebuilding
  BY <1>0, <1>t, <1>2 DEF SwapRebuilding
<1>3. ASSUME NEW t \in Passes, Claim(t) PROVE Goal
  BY <1>0, <1>t, <1>3 DEF Claim
<1>4. ASSUME NEW t \in Passes, LockPass(t) PROVE Goal
  BY <1>0, <1>t, <1>n, <1>4 DEF LockPass
<1>5. ASSUME NEW t \in Passes, BuildPass(t) PROVE Goal
  BY <1>0, <1>t, <1>n, <1>5 DEF BuildPass
<1>6. ASSUME NEW t \in Passes, CancelClaim(t) PROVE Goal
  BY <1>0, <1>t, <1>n, <1>6 DEF CancelClaim
<1>7. ASSUME NEW t \in Passes, ReleaseCancelled(t) PROVE Goal
  BY <1>0, <1>t, <1>n, <1>7 DEF ReleaseCancelled
<1>8. ASSUME NEW t \in Passes, TakeClaim(t) PROVE Goal
  BY <1>0, <1>t, <1>n, <1>8 DEF TakeClaim
<1>9. ASSUME NEW t \in Passes, Subtract(t) PROVE Goal
  BY <1>0, <1>t, <1>n, <1>9 DEF Subtract
<1>10. ASSUME NEW t \in Passes, Settle(t) PROVE Goal
  BY <1>0, <1>t, <1>n, <1>10 DEF Settle
<1>11. ASSUME NEW t \in Passes, UnlockPass(t) PROVE Goal
  BY <1>0, <1>t, <1>n, <1>11 DEF UnlockPass, NewThread
<1>12. CASE LockFull
  BY <1>0, <1>t, <1>n, <1>12 DEF LockFull
<1>13. CASE BuildFull
  BY <1>0, <1>t, <1>n, <1>13 DEF BuildFull
<1>14. CASE ResetDirty
  BY <1>0, <1>t, <1>n, <1>14 DEF ResetDirty
<1>15. CASE ResetClaimed
  BY <1>0, <1>t, <1>n, <1>15 DEF ResetClaimed
<1>16. CASE ResetRebuilding
  BY <1>0, <1>t, <1>n, <1>16 DEF ResetRebuilding
<1>17. CASE UNCHANGED claimVars
  BY <1>0, <1>t, <1>17 DEF claimVars
<1>18. CASE FailFull
  BY <1>0, <1>t, <1>n, <1>18 DEF FailFull
<1> QED
  BY <1>1, <1>2, <1>3, <1>4, <1>5, <1>6, <1>7, <1>8, <1>9, <1>10, <1>11,
     <1>12, <1>13, <1>14, <1>15, <1>16, <1>17, <1>18
     DEF ClaimNext, WriterStep, PassStep, FullStep

\* No pass, background or explicit, replaces the snapshot by one that holds
\* fewer writes: the build and the install are under one hold of the mutex.
THEOREM InstallsOrdered == ClaimSpec => InstallsInOrder
<1>1. ClaimInit => PassInv
  BY PassInvInit
<1>2. PassInv /\ [ClaimNext]_claimVars => PassInv' /\ [built <= built']_claimVars
  BY PassInvNext
<1> QED
  BY <1>1, <1>2, PTL DEF ClaimSpec, InstallsInOrder
=============================================================================
