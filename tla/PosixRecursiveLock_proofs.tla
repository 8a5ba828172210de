--------------------- MODULE PosixRecursiveLock_proofs ---------------------
(***************************************************************************)
(* Proofs about PosixRecursiveLock, for any threads and any depth of       *)
(* nested claims.                                                          *)
(***************************************************************************)
EXTENDS PosixRecursiveLock, TLAPS

\* Labels of a claim that has not been counted in depth yet.
Claiming == Waiting \cup {"w_again", "w_count", "w_unlock"}

\* The types, and the room that a claim needs to be counted.
DepthInv == TypeOK /\ \A t \in Threads : pc[t] \in Claiming => depth[t] < MaxDepth

\* rlock->mutex is locked exactly by the thread at a step inside it.
MutexInv == \A t \in Threads : mutex = t <=> pc[t] \in Inside

\* A blocked thread is in its cond wait and has not timed out; one that timed
\* out is on its way out.
BlockedInv ==
  /\ \A t \in blocked : pc[t] = "w_sleep" /\ ~timeout[t]
  /\ \A t \in Threads : timeout[t] => pc[t] \in {"w_sleep", "w_test", "w_unlock"}

\* A lock that was freed between a waiter's test and its sleep was freed by a
\* thread that has yet to lock the mutex.
WindowInv ==
  \A t \in Threads :
    pc[t] = "w_block" /\ owner = NoThread => \E u \in Threads : pc[u] \in {"r_mutex", "u_count"}

WakeInv == DepthInv /\ MutexInv /\ BlockedInv /\ WindowInv /\ NoLostWakeup

\* Until a thread unlocks by force: who may be the owner at each label, and how
\* the claims it was granted and rlock->count are related there.
ClaimInv ==
  ~forced => \A t \in Threads :
    /\ pc[t] \notin {"u_clear", "u_count"}
    /\ pc[t] = "idle" => (owner = t <=> depth[t] > 0) /\ (owner = t => count = depth[t])
    /\ pc[t] = "w_again" => owner = t /\ depth[t] > 0 /\ count = depth[t]
    /\ pc[t] \in Waiting => owner # t /\ depth[t] = 0
    /\ pc[t] = "w_claim" => owner = NoThread
    /\ pc[t] = "w_count" => owner = t /\ depth[t] = 0 /\ ~timeout[t]
    /\ pc[t] = "w_unlock" => depth[t] = 0
    /\ pc[t] = "w_unlock" /\ timeout[t] => owner # t
    /\ pc[t] = "w_unlock" /\ ~timeout[t] => owner = t /\ count = 1
    /\ pc[t] = "r_count" => owner = t /\ count = depth[t] + 1
    /\ pc[t] = "r_clear" => owner = t /\ depth[t] = 0
    /\ pc[t] \in {"r_mutex", "r_signal", "r_unlock"} => owner # t /\ depth[t] = 0

-----------------------------------------------------------------------------
(* Types.                                                                  *)

LEMMA DepthStep ==
  ASSUME DepthInv, [Next]_vars
  PROVE  DepthInv'
<1>. USE NoThreadAssumption, RecursiveLockAssumption
     DEF DepthInv, TypeOK, ThreadOrNone, Claiming, Labels, Inside, Waiting, Goto, rlock,
         MutexLock, MutexUnlock, CondBlock, CondSignal, CondLeave
<1>1. CASE UNCHANGED vars
  BY <1>1 DEF vars
<1>2. ASSUME NEW t \in Threads, Call(t) PROVE DepthInv'
  <2>1. CASE WaitForRecursiveLock(t, FALSE) \/ WaitForRecursiveLock(t, TRUE)
    BY <2>1 DEF WaitForRecursiveLock
  <2>2. CASE ReleaseRecursiveLock(t)
    BY <2>2 DEF ReleaseRecursiveLock
  <2>3. CASE UnlockRecursiveLock(t)
    BY <2>3 DEF UnlockRecursiveLock
  <2>. QED BY <1>2, <2>1, <2>2, <2>3 DEF Call
<1>3. ASSUME NEW t \in Threads, Advance(t) PROVE DepthInv'
  <2>1. CASE WaitAgain(t) \/ WaitLockMutex(t) \/ WaitTest(t) \/ WaitBlock(t)
    BY <2>1 DEF WaitAgain, WaitLockMutex, WaitTest, WaitBlock
  <2>2. CASE WaitWake(t) \/ WaitClaim(t) \/ WaitCount(t)
    BY <2>2 DEF WaitWake, WaitClaim, WaitCount
  <2>5. CASE WaitUnlock(t)
    <3>1. CASE timeout[t]
      BY <2>5, <3>1 DEF WaitUnlock
    <3>2. CASE ~timeout[t]
      BY <2>5, <3>2 DEF WaitUnlock
    <3>. QED BY <3>1, <3>2
  <2>3. CASE ReleaseCount(t) \/ ReleaseClear(t) \/ ReleaseLockMutex(t)
    BY <2>3 DEF ReleaseCount, ReleaseClear, ReleaseLockMutex
  <2>4. CASE ReleaseSignal(t) \/ ReleaseUnlock(t) \/ UnlockClear(t) \/ UnlockCount(t)
    BY <2>4 DEF ReleaseSignal, ReleaseUnlock, UnlockClear, UnlockCount
  <2>. QED BY <1>3, <2>1, <2>2, <2>3, <2>4, <2>5 DEF Advance
<1>4. ASSUME NEW t \in Threads, WaitSpurious(t) \/ WaitTimeout(t) PROVE DepthInv'
  BY <1>4 DEF WaitSpurious, WaitTimeout
<1>. QED BY <1>1, <1>2, <1>3, <1>4 DEF Next

-----------------------------------------------------------------------------
(* No wakeup is lost.                                                      *)

LEMMA WakeStep ==
  ASSUME WakeInv, [Next]_vars
  PROVE  WakeInv'
<1>1. DepthInv'
  BY DepthStep DEF WakeInv
<1>. USE <1>1, NoThreadAssumption
     DEF WakeInv, DepthInv, TypeOK, ThreadOrNone, Inside, Goto, rlock,
         MutexLock, MutexUnlock, CondBlock, CondSignal, CondLeave,
         MutexInv, BlockedInv, WindowInv, NoLostWakeup, Awake
<1>2. CASE UNCHANGED vars
  BY <1>2 DEF vars
<1>3. ASSUME NEW t \in Threads, Call(t) PROVE WakeInv'
  BY <1>3 DEF Call, WaitForRecursiveLock, ReleaseRecursiveLock, UnlockRecursiveLock
<1>4. ASSUME NEW t \in Threads, Advance(t) PROVE WakeInv'
  <2>1. CASE WaitLockMutex(t)
    BY <2>1 DEF WaitLockMutex
  <2>2. CASE WaitTest(t)
    BY <2>2 DEF WaitTest
  <2>3. CASE WaitBlock(t)
    BY <2>3 DEF WaitBlock
  <2>4. CASE WaitWake(t)
    BY <2>4 DEF WaitWake
  <2>5. CASE WaitClaim(t)
    BY <2>5 DEF WaitClaim
  <2>6. CASE WaitUnlock(t)
    BY <2>6 DEF WaitUnlock
  <2>7. CASE WaitAgain(t) \/ WaitCount(t) \/ ReleaseCount(t) \/ UnlockCount(t)
    BY <2>7 DEF WaitAgain, WaitCount, ReleaseCount, UnlockCount
  <2>8. CASE ReleaseClear(t) \/ UnlockClear(t)
    BY <2>8 DEF ReleaseClear, UnlockClear
  <2>9. CASE ReleaseLockMutex(t)
    BY <2>9 DEF ReleaseLockMutex
  <2>10. CASE ReleaseSignal(t)
    BY <2>10 DEF ReleaseSignal
  <2>11. CASE ReleaseUnlock(t)
    BY <2>11 DEF ReleaseUnlock
  <2>. QED BY <1>4, <2>1, <2>2, <2>3, <2>4, <2>5, <2>6, <2>7, <2>8, <2>9, <2>10, <2>11
           DEF Advance
<1>5. ASSUME NEW t \in Threads, WaitSpurious(t) \/ WaitTimeout(t) PROVE WakeInv'
  BY <1>5 DEF WaitSpurious, WaitTimeout
<1>. QED BY <1>2, <1>3, <1>4, <1>5 DEF Next

LEMMA WakeInit == Init => WakeInv /\ ClaimInv
<1>. SUFFICES ASSUME Init PROVE WakeInv /\ ClaimInv
  OBVIOUS
<1>1. \A t \in Threads : pc[t] = "idle" /\ depth[t] = 0 /\ owner # t /\ mutex # t /\ ~timeout[t]
  BY NoThreadAssumption DEF Init
<1>2. DepthInv
  <2>1. depth \in [Threads -> 0 .. MaxDepth] /\ count \in Int
    BY RecursiveLockAssumption DEF Init
  <2>2. pc \in [Threads -> Labels]
    BY DEF Init, Labels
  <2>. QED BY <1>1, <2>1, <2>2 DEF Init, DepthInv, TypeOK, ThreadOrNone, Claiming, Waiting
<1>3. MutexInv /\ BlockedInv /\ WindowInv /\ NoLostWakeup
  BY <1>1 DEF Init, MutexInv, BlockedInv, WindowInv, NoLostWakeup, Inside
<1>4. ClaimInv
  <2>1. ASSUME NEW t \in Threads, pc[t] = "idle", depth[t] = 0, owner # t PROVE ~(depth[t] > 0)
    BY <2>1
  <2>. QED BY <1>1, <2>1 DEF ClaimInv, Waiting
<1>. QED BY <1>2, <1>3, <1>4 DEF WakeInv

\* No thread sleeps on a free recursive lock with nobody left to wake it,
\* whichever threads unlock by force.
THEOREM NoWakeupIsLost == Spec => []NoLostWakeup
<1>1. WakeInv /\ [Next]_vars => WakeInv'
  BY WakeStep
<1>2. WakeInv => NoLostWakeup
  BY DEF WakeInv
<1>. QED BY <1>1, <1>2, WakeInit, PTL DEF Spec

-----------------------------------------------------------------------------
(* The claim count and the refinement.                                     *)

LEMMA ClaimStep ==
  ASSUME WakeInv, ClaimInv, [Next]_vars
  PROVE  ClaimInv'
<1>1. DepthInv'
  BY DepthStep DEF WakeInv
<1>. USE <1>1, NoThreadAssumption
     DEF WakeInv, DepthInv, TypeOK, ThreadOrNone, Inside, Waiting, Goto, rlock,
         MutexInv, BlockedInv, ClaimInv,
         MutexLock, MutexUnlock, CondBlock, CondSignal, CondLeave
<1>2. CASE UNCHANGED vars
  BY <1>2 DEF vars
<1>3. ASSUME NEW t \in Threads, Call(t) PROVE ClaimInv'
  <2>1. CASE WaitForRecursiveLock(t, FALSE) \/ WaitForRecursiveLock(t, TRUE)
    BY <2>1 DEF WaitForRecursiveLock
  <2>2. CASE ReleaseRecursiveLock(t)
    BY <2>2 DEF ReleaseRecursiveLock
  <2>3. CASE UnlockRecursiveLock(t)
    BY <2>3 DEF UnlockRecursiveLock
  <2>. QED BY <1>3, <2>1, <2>2, <2>3 DEF Call
<1>4. ASSUME NEW t \in Threads, Advance(t) PROVE ClaimInv'
  <2>1. CASE WaitAgain(t)
    BY <2>1 DEF WaitAgain
  <2>2. CASE WaitLockMutex(t) \/ WaitBlock(t) \/ WaitWake(t)
    BY <2>2 DEF WaitLockMutex, WaitBlock, WaitWake
  <2>3. CASE WaitTest(t)
    BY <2>3 DEF WaitTest
  <2>4. CASE WaitClaim(t)
    BY <2>4 DEF WaitClaim
  <2>5. CASE WaitCount(t)
    BY <2>5 DEF WaitCount
  <2>6. CASE WaitUnlock(t)
    BY <2>6 DEF WaitUnlock
  <2>7. CASE ReleaseCount(t)
    BY <2>7 DEF ReleaseCount
  <2>8. CASE ReleaseClear(t)
    BY <2>8 DEF ReleaseClear
  <2>9. CASE ReleaseLockMutex(t) \/ ReleaseSignal(t) \/ ReleaseUnlock(t)
    BY <2>9 DEF ReleaseLockMutex, ReleaseSignal, ReleaseUnlock
  <2>10. CASE UnlockClear(t) \/ UnlockCount(t)
    BY <2>10 DEF UnlockClear, UnlockCount
  <2>. QED BY <1>4, <2>1, <2>2, <2>3, <2>4, <2>5, <2>6, <2>7, <2>8, <2>9, <2>10 DEF Advance
<1>5. ASSUME NEW t \in Threads, WaitSpurious(t) \/ WaitTimeout(t) PROVE ClaimInv'
  BY <1>5 DEF WaitSpurious, WaitTimeout
<1>. QED BY <1>2, <1>3, <1>4, <1>5 DEF Next

LEMMA ClaimInvariant == Spec => [](WakeInv /\ ClaimInv)
<1>1. WakeInv /\ ClaimInv /\ [Next]_vars => (WakeInv /\ ClaimInv)'
  BY WakeStep, ClaimStep
<1>. QED BY <1>1, WakeInit, PTL DEF Spec

\* The unprotected count is the number of claims its owner was granted and has not
\* released, for any threads and any depth, as long as none unlocks by force.
THEOREM CountIsNestingDepth == Spec => []CountIsDepth
<1>1. WakeInv /\ ClaimInv => CountIsDepth
  BY DEF ClaimInv, CountIsDepth
<1>. QED BY <1>1, ClaimInvariant, PTL

\* Until a thread unlocks by force nested claims are invisible: every step is one
\* of the abstract exclusive lock or changes nothing it can see.
THEOREM RefinesExclusiveLock == Spec => ImplementsExclusiveLock
<1>1. Init => Abstract!Init
  BY DEF Init, Abstract!Init, Waiting
<1>2. WakeInv /\ ClaimInv /\ [Next]_vars => [forced' \/ Abstract!Next]_Abstract!vars
  <2>. SUFFICES ASSUME WakeInv, ClaimInv, [Next]_vars, ~forced'
                PROVE  [forced' \/ Abstract!Next]_Abstract!vars
    OBVIOUS
  <2>. USE NoThreadAssumption
       DEF WakeInv, DepthInv, TypeOK, ThreadOrNone, Labels, Inside, Waiting, Goto, rlock,
           ClaimInv, BlockedInv
  <2>1. CASE UNCHANGED vars
    BY <2>1 DEF vars, Abstract!vars
  <2>2. ASSUME NEW t \in Threads, WaitForRecursiveLock(t, FALSE) \/ WaitForRecursiveLock(t, TRUE)
        PROVE  [forced' \/ Abstract!Next]_Abstract!vars
    <3>1. CASE owner = t
      BY <2>2, <3>1 DEF WaitForRecursiveLock, Abstract!vars
    <3>2. CASE owner # t
      <4>1. Abstract!WaitFor(t)
        BY <2>2, <3>2 DEF WaitForRecursiveLock, Abstract!WaitFor
      <4>. QED BY <4>1 DEF Abstract!Next
    <3>. QED BY <3>1, <3>2
  <2>3. ASSUME NEW t \in Threads, WaitTest(t) PROVE [forced' \/ Abstract!Next]_Abstract!vars
    <3>1. CASE timeout[t]
      <4>1. Abstract!GiveUp(t)
        BY <2>3, <3>1 DEF WaitTest, Abstract!GiveUp
      <4>. QED BY <4>1 DEF Abstract!Next
    <3>2. CASE ~timeout[t]
      BY <2>3, <3>2 DEF WaitTest, Abstract!vars
    <3>. QED BY <3>1, <3>2
  <2>4. ASSUME NEW t \in Threads, WaitClaim(t) PROVE [forced' \/ Abstract!Next]_Abstract!vars
    <3>1. Abstract!Claim(t)
      BY <2>4 DEF WaitClaim, Abstract!Claim
    <3>. QED BY <3>1 DEF Abstract!Next
  <2>5. ASSUME NEW t \in Threads, ReleaseClear(t) PROVE [forced' \/ Abstract!Next]_Abstract!vars
    <3>1. Abstract!Release(t)
      BY <2>5 DEF ReleaseClear, Abstract!Release
    <3>. QED BY <3>1 DEF Abstract!Next
  <2>6. ASSUME NEW t \in Threads,
               \/ ReleaseRecursiveLock(t) \/ WaitAgain(t) \/ WaitLockMutex(t) \/ WaitBlock(t)
               \/ WaitWake(t) \/ WaitCount(t) \/ WaitUnlock(t) \/ ReleaseCount(t)
        PROVE  UNCHANGED Abstract!vars
    BY <2>6 DEF ReleaseRecursiveLock, WaitAgain, WaitLockMutex, WaitBlock, WaitWake, WaitCount,
                WaitUnlock, ReleaseCount, Abstract!vars
  <2>7. ASSUME NEW t \in Threads,
               \/ ReleaseLockMutex(t) \/ ReleaseSignal(t) \/ ReleaseUnlock(t) \/ UnlockCount(t)
               \/ WaitSpurious(t) \/ WaitTimeout(t)
        PROVE  UNCHANGED Abstract!vars
    BY <2>7 DEF ReleaseLockMutex, ReleaseSignal, ReleaseUnlock, UnlockCount, WaitSpurious,
                WaitTimeout, Abstract!vars
  <2>8. ASSUME NEW t \in Threads PROVE ~UnlockRecursiveLock(t) /\ ~UnlockClear(t)
    BY DEF UnlockRecursiveLock, UnlockClear
  <2>. QED BY <2>1, <2>2, <2>3, <2>4, <2>5, <2>6, <2>7, <2>8 DEF Next, Call, Advance
<1>. QED BY <1>1, <1>2, ClaimInvariant, PTL
         DEF Spec, ImplementsExclusiveLock
=============================================================================
