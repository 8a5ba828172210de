---------------------- MODULE PosixNotification_proofs ----------------------
(***************************************************************************)
(* Proofs about PosixSimpleLock, and about PosixNotification, whose steps  *)
(* are steps of the simple lock or change nothing of it but a return code. *)
(* For any number of threads.                                              *)
(***************************************************************************)
EXTENDS PosixNotification, TLAPS

-----------------------------------------------------------------------------
(* The strengthenings.                                                     *)

\* slock->mutex is locked exactly by the thread at a step inside it.
MutexInv == \A t \in Threads : mutex = t <=> pc[t] \in Inside

\* A thread blocked on the condition variable is in its cond wait and has not
\* timed out; a thread that timed out is on its way out of the wait.
BlockedInv ==
  /\ \A t \in blocked : pc[t] = "w_sleep" /\ ~timeout[t]
  /\ \A t \in Threads : timeout[t] => pc[t] \in {"w_sleep", "w_test", "w_unlock"}

\* The window between a waiter's test and its going to sleep: if the lock was
\* freed inside it, the thread that freed it has yet to lock the mutex.
WindowInv ==
  \A t \in Threads :
    pc[t] = "w_block" /\ owner = NoThread => \E u \in Threads : pc[u] = "r_mutex"

WakeInv == TypeOK /\ MutexInv /\ BlockedInv /\ WindowInv /\ NoLostWakeup

\* Who may be the owner, until a thread unlocks by force.
OwnerInv ==
  ~forced => \A t \in Threads :
    /\ t \in held => owner = t
    /\ owner = t => pc[t] \notin Waiting
    /\ pc[t] = "w_claim" => owner = NoThread
    /\ pc[t] = "w_unlock" /\ ~timeout[t] => owner = t
    /\ pc[t] = "r_clear" => owner = t /\ t \notin held
    /\ pc[t] # "u_clear"

-----------------------------------------------------------------------------
(* Types.                                                                  *)

LEMMA TypeStep ==
  ASSUME TypeOK, [SimpleLockNext]_simpleLockVars
  PROVE  TypeOK'
<1>. USE NoThreadAssumption, UnlockersAssumption
     DEF TypeOK, ThreadOrNone, Labels, Inside, Waiting, Goto, Enter, Return, slock,
         Codes, OK, ALREADY_LOCKED, NOT_LOCKED, TIMEOUT, Running,
         MutexLock, MutexUnlock, CondBlock, CondSignal, CondLeave
<1>1. CASE UNCHANGED simpleLockVars
  BY <1>1 DEF simpleLockVars
<1>2. ASSUME NEW t \in Threads, Call(t) PROVE TypeOK'
  BY <1>2 DEF Call, WaitForSimpleLock, ReleaseSimpleLock, UnlockSimpleLock
<1>3. ASSUME NEW t \in Threads, Advance(t) PROVE TypeOK'
  <2>1. CASE WaitLockMutex(t) \/ WaitTest(t) \/ WaitBlock(t)
    BY <2>1 DEF WaitLockMutex, WaitTest, WaitBlock
  <2>2. CASE WaitWake(t) \/ WaitClaim(t) \/ WaitUnlock(t)
    BY <2>2 DEF WaitWake, WaitClaim, WaitUnlock
  <2>3. CASE ReleaseClear(t) \/ ReleaseLockMutex(t)
    BY <2>3 DEF ReleaseClear, ReleaseLockMutex
  <2>4. CASE ReleaseSignal(t) \/ ReleaseUnlock(t)
    BY <2>4 DEF ReleaseSignal, ReleaseUnlock
  <2>. QED BY <1>3, <2>1, <2>2, <2>3, <2>4 DEF Advance
<1>4. ASSUME NEW t \in Threads, WaitSpurious(t) \/ WaitTimeout(t) PROVE TypeOK'
  BY <1>4 DEF WaitSpurious, WaitTimeout
<1>. QED BY <1>1, <1>2, <1>3, <1>4 DEF SimpleLockNext, SimpleLockStep

\* The owner word, the mutex and the per-thread state keep their types.
THEOREM TypeCorrect == Spec => []TypeOK
<1>1. SimpleLockInit => TypeOK
  BY DEF SimpleLockInit, TypeOK, ThreadOrNone, Labels, Codes, OK
<1>2. TypeOK /\ [SimpleLockNext]_simpleLockVars => TypeOK'
  BY TypeStep
<1>. QED BY <1>1, <1>2, PTL DEF Spec

-----------------------------------------------------------------------------
(* No wakeup is lost.                                                      *)

LEMMA WakeStep ==
  ASSUME WakeInv, [SimpleLockNext]_simpleLockVars
  PROVE  WakeInv'
<1>1. TypeOK'
  BY TypeStep DEF WakeInv
<1>. USE <1>1, NoThreadAssumption
     DEF WakeInv, TypeOK, ThreadOrNone, Inside, Goto, Enter, Return, slock,
         MutexLock, MutexUnlock, CondBlock, CondSignal, CondLeave
<1>2. CASE UNCHANGED simpleLockVars
  BY <1>2 DEF simpleLockVars, MutexInv, BlockedInv, WindowInv, NoLostWakeup, Awake
<1>3. ASSUME NEW t \in Threads, Call(t) PROVE WakeInv'
  BY <1>3 DEF Call, WaitForSimpleLock, ReleaseSimpleLock, UnlockSimpleLock,
              MutexInv, BlockedInv, WindowInv, NoLostWakeup, Awake
<1>4. ASSUME NEW t \in Threads, Advance(t) PROVE WakeInv'
  <2>1. CASE WaitLockMutex(t)
    BY <2>1 DEF WaitLockMutex, MutexInv, BlockedInv, WindowInv, NoLostWakeup, Awake
  <2>2. CASE WaitTest(t)
    BY <2>2 DEF WaitTest, MutexInv, BlockedInv, WindowInv, NoLostWakeup, Awake
  <2>3. CASE WaitBlock(t)
    BY <2>3 DEF WaitBlock, MutexInv, BlockedInv, WindowInv, NoLostWakeup, Awake
  <2>4. CASE WaitWake(t)
    BY <2>4 DEF WaitWake, MutexInv, BlockedInv, WindowInv, NoLostWakeup, Awake
  <2>5. CASE WaitClaim(t)
    BY <2>5 DEF WaitClaim, MutexInv, BlockedInv, WindowInv, NoLostWakeup, Awake
  <2>6. CASE WaitUnlock(t)
    BY <2>6 DEF WaitUnlock, MutexInv, BlockedInv, WindowInv, NoLostWakeup, Awake
  <2>7. CASE ReleaseClear(t)
    BY <2>7 DEF ReleaseClear, MutexInv, BlockedInv, WindowInv, NoLostWakeup, Awake
  <2>8. CASE ReleaseLockMutex(t)
    BY <2>8 DEF ReleaseLockMutex, MutexInv, BlockedInv, WindowInv, NoLostWakeup, Awake
  <2>9. CASE ReleaseSignal(t)
    BY <2>9 DEF ReleaseSignal, MutexInv, BlockedInv, WindowInv, NoLostWakeup, Awake
  <2>10. CASE ReleaseUnlock(t)
    BY <2>10 DEF ReleaseUnlock, MutexInv, BlockedInv, WindowInv, NoLostWakeup, Awake
  <2>. QED BY <1>4, <2>1, <2>2, <2>3, <2>4, <2>5, <2>6, <2>7, <2>8, <2>9, <2>10 DEF Advance
<1>5. ASSUME NEW t \in Threads, WaitSpurious(t) \/ WaitTimeout(t) PROVE WakeInv'
  BY <1>5 DEF WaitSpurious, WaitTimeout, MutexInv, BlockedInv, WindowInv, NoLostWakeup, Awake
<1>. QED BY <1>2, <1>3, <1>4, <1>5 DEF SimpleLockNext, SimpleLockStep

\* No thread sleeps on a free lock with nobody left to wake it, for any number
\* of threads and whichever of them unlock by force: the store that frees the
\* lock may be made outside the mutex because the signal is not.
THEOREM NoWakeupIsLost == Spec => []NoLostWakeup
<1>1. SimpleLockInit => WakeInv
  BY NoThreadAssumption
  DEF SimpleLockInit, WakeInv, TypeOK, ThreadOrNone, Labels, Codes, OK, MutexInv, BlockedInv,
      WindowInv, NoLostWakeup, Inside
<1>2. WakeInv /\ [SimpleLockNext]_simpleLockVars => WakeInv'
  BY WakeStep
<1>3. WakeInv => NoLostWakeup
  BY DEF WakeInv
<1>. QED BY <1>1, <1>2, <1>3, PTL DEF Spec

-----------------------------------------------------------------------------
(* Mutual exclusion and the refinement.                                    *)

LEMMA OwnerStep ==
  ASSUME WakeInv, OwnerInv, [SimpleLockNext]_simpleLockVars
  PROVE  OwnerInv'
<1>1. TypeOK'
  BY TypeStep DEF WakeInv
<1>. USE <1>1, NoThreadAssumption
     DEF WakeInv, TypeOK, ThreadOrNone, Inside, Waiting, Goto, Enter, Return, slock,
         MutexInv, BlockedInv, OwnerInv,
         MutexLock, MutexUnlock, CondBlock, CondSignal, CondLeave
<1>2. CASE UNCHANGED simpleLockVars
  BY <1>2 DEF simpleLockVars
<1>3. ASSUME NEW t \in Threads, Call(t) PROVE OwnerInv'
  BY <1>3 DEF Call, WaitForSimpleLock, ReleaseSimpleLock, UnlockSimpleLock
<1>4. ASSUME NEW t \in Threads, Advance(t) PROVE OwnerInv'
  <2>1. CASE WaitLockMutex(t) \/ WaitBlock(t) \/ WaitWake(t)
    BY <2>1 DEF WaitLockMutex, WaitBlock, WaitWake
  <2>2. CASE WaitTest(t)
    BY <2>2 DEF WaitTest
  <2>3. CASE WaitClaim(t)
    BY <2>3 DEF WaitClaim
  <2>4. CASE WaitUnlock(t)
    BY <2>4 DEF WaitUnlock
  <2>5. CASE ReleaseClear(t)
    BY <2>5 DEF ReleaseClear
  <2>6. CASE ReleaseLockMutex(t) \/ ReleaseSignal(t) \/ ReleaseUnlock(t)
    BY <2>6 DEF ReleaseLockMutex, ReleaseSignal, ReleaseUnlock
  <2>. QED BY <1>4, <2>1, <2>2, <2>3, <2>4, <2>5, <2>6 DEF Advance
<1>5. ASSUME NEW t \in Threads, WaitSpurious(t) \/ WaitTimeout(t) PROVE OwnerInv'
  BY <1>5 DEF WaitSpurious, WaitTimeout
<1>. QED BY <1>2, <1>3, <1>4, <1>5 DEF SimpleLockNext, SimpleLockStep

LEMMA OwnerInvariant == Spec => [](WakeInv /\ OwnerInv)
<1>1. SimpleLockInit => WakeInv /\ OwnerInv
  BY NoThreadAssumption
  DEF SimpleLockInit, WakeInv, TypeOK, ThreadOrNone, Labels, Codes, OK, MutexInv, BlockedInv,
      WindowInv, NoLostWakeup, Inside, Waiting, OwnerInv
<1>2. WakeInv /\ OwnerInv /\ [SimpleLockNext]_simpleLockVars => (WakeInv /\ OwnerInv)'
  BY WakeStep, OwnerStep
<1>. QED BY <1>1, <1>2, PTL DEF Spec

\* A thread that was told it has the lock owns it until it releases it, for any
\* number of threads, as long as none unlocks by force.
THEOREM LockExcludes == Spec => []MutualExclusion
<1>1. WakeInv /\ OwnerInv => MutualExclusion
  BY DEF OwnerInv, MutualExclusion, WakeInv, TypeOK
<1>. QED BY <1>1, OwnerInvariant, PTL

\* Until a thread unlocks by force every step of the primitives is a step of the
\* abstract exclusive lock or changes nothing it can see.
LEMMA ExclusiveLockStep ==
  ASSUME WakeInv, OwnerInv, [SimpleLockNext]_simpleLockVars
  PROVE  [forced' \/ Abstract!Next]_Abstract!vars
<1>. SUFFICES ASSUME ~forced' PROVE [forced' \/ Abstract!Next]_Abstract!vars
  OBVIOUS
<1>. USE NoThreadAssumption
     DEF WakeInv, TypeOK, ThreadOrNone, Labels, Inside, Waiting, Goto, Enter, Return, slock,
         OwnerInv, BlockedInv
<1>1. CASE UNCHANGED simpleLockVars
  BY <1>1 DEF simpleLockVars, Abstract!vars
<1>2. ASSUME NEW t \in Threads, WaitForSimpleLock(t, FALSE) \/ WaitForSimpleLock(t, TRUE)
      PROVE  [forced' \/ Abstract!Next]_Abstract!vars
  <2>1. CASE owner = t
    BY <1>2, <2>1 DEF WaitForSimpleLock, Abstract!vars
  <2>2. CASE owner # t
    <3>1. Abstract!WaitFor(t)
      BY <1>2, <2>2 DEF WaitForSimpleLock, Abstract!WaitFor
    <3>. QED BY <3>1 DEF Abstract!Next
  <2>. QED BY <2>1, <2>2
<1>3. ASSUME NEW t \in Threads, WaitTest(t) PROVE [forced' \/ Abstract!Next]_Abstract!vars
  <2>1. CASE timeout[t]
    <3>1. Abstract!GiveUp(t)
      BY <1>3, <2>1 DEF WaitTest, Abstract!GiveUp
    <3>. QED BY <3>1 DEF Abstract!Next
  <2>2. CASE ~timeout[t]
    BY <1>3, <2>2 DEF WaitTest, Abstract!vars
  <2>. QED BY <2>1, <2>2
<1>4. ASSUME NEW t \in Threads, WaitClaim(t) PROVE [forced' \/ Abstract!Next]_Abstract!vars
  <2>1. Abstract!Claim(t)
    BY <1>4 DEF WaitClaim, Abstract!Claim
  <2>. QED BY <2>1 DEF Abstract!Next
<1>5. ASSUME NEW t \in Threads, ReleaseClear(t) PROVE [forced' \/ Abstract!Next]_Abstract!vars
  <2>1. Abstract!Release(t)
    BY <1>5 DEF ReleaseClear, Abstract!Release
  <2>. QED BY <2>1 DEF Abstract!Next
<1>6. ASSUME NEW t \in Threads,
             \/ ReleaseSimpleLock(t) \/ UnlockSimpleLock(t)
             \/ WaitLockMutex(t) \/ WaitBlock(t) \/ WaitWake(t) \/ WaitUnlock(t)
             \/ ReleaseLockMutex(t) \/ ReleaseSignal(t) \/ ReleaseUnlock(t)
             \/ WaitSpurious(t) \/ WaitTimeout(t)
      PROVE  UNCHANGED Abstract!vars
  BY <1>6 DEF ReleaseSimpleLock, UnlockSimpleLock, WaitLockMutex, WaitBlock, WaitWake,
              WaitUnlock, ReleaseLockMutex, ReleaseSignal, ReleaseUnlock, WaitSpurious,
              WaitTimeout, Abstract!vars
<1>. QED BY <1>1, <1>2, <1>3, <1>4, <1>5, <1>6
         DEF SimpleLockNext, SimpleLockStep, Call, Advance

\* So the primitives implement the abstract lock, for any number of threads.
THEOREM RefinesExclusiveLock == Spec => ImplementsExclusiveLock
<1>1. SimpleLockInit => Abstract!Init
  BY DEF SimpleLockInit, Abstract!Init, Waiting
<1>2. WakeInv /\ OwnerInv /\ [SimpleLockNext]_simpleLockVars => [forced' \/ Abstract!Next]_Abstract!vars
  BY ExclusiveLockStep
<1>. QED BY <1>1, <1>2, OwnerInvariant, PTL
         DEF Spec, ImplementsExclusiveLock

-----------------------------------------------------------------------------
(* The lock as the notification primitives use it.                         *)

\* Labels at which a thread has the lock, before it is given up or after it was
\* claimed again, and labels at which it has not.
NWith == {"n_mutex", "n_release", "n_unlock", "s_mutex", "a_mutex", "s_signal", "a_signal",
          "s_unlock"}
NWithout == {"n_block", "n_sleep", "n_claim"}

\* Where a thread inside a notification primitive is in the lock's primitives,
\* and whether the lock is its own there.  A release and a claim that were
\* called from wait-for succeed, so its early returns are not taken.
WhereInv ==
  \A t \in Threads :
    /\ npc[t] \in NWith => pc[t] = "idle" /\ owner = t
    /\ npc[t] = "n_unlock" => t \in held
    /\ npc[t] \in NWithout => pc[t] = "idle" /\ owner # t
    /\ npc[t] = "n_releasing" =>
         /\ pc[t] \in {"r_clear", "r_mutex", "r_signal", "r_unlock", "idle"}
         /\ pc[t] # "r_clear" => owner # t
         /\ pc[t] = "idle" => result[t] = OK
    /\ npc[t] = "n_claiming" =>
         /\ ~timed[t] /\ ~timeout[t]
         /\ pc[t] \in Waiting \cup {"w_unlock", "idle"}
         /\ pc[t] = "idle" => result[t] = OK /\ owner = t /\ t \in held

\* notification->mutex is locked exactly by the thread at a step inside it.
NMutexInv == \A t \in Threads : nmutex = t <=> npc[t] \in NInside

\* The early return of a release that failed leaves notification->mutex locked,
\* which takes a forced unlock.
PlacesInv == ~forced => WhereInv /\ NMutexInv

NotificationInv == NotificationTypeOK /\ WakeInv /\ OwnerInv /\ PlacesInv

\* A step of the primitives that is no step of the lock.
Silent ==
  /\ UNCHANGED <<owner, mutex, blocked, pc, timed, timeout, held, forced>>
  /\ result' \in [Threads -> Codes]

NStep(t) == NCall(t) \/ NAdvance(t) \/ NLeave(t)

LEMMA NReturnIsSilent ==
  ASSUME TypeOK, NEW t \in Threads, NEW from, NEW code \in Codes, NReturn(t, from, code)
  PROVE  Silent
BY DEF NReturn, Silent, TypeOK

LEMMA StayIsSilent ==
  ASSUME TypeOK, UNCHANGED simpleLockVars
  PROVE  Silent
BY DEF Silent, simpleLockVars, TypeOK

LEMMA LockOrSilent ==
  ASSUME TypeOK, NEW t \in Threads, NStep(t)
  PROVE  SimpleLockNext \/ Silent
<1>. USE StayIsSilent, NReturnIsSilent
<1>1. /\ OK \in Codes /\ NOT_LOCKED \in Codes /\ TIMEOUT \in Codes /\ GENERAL_ERROR \in Codes
  BY DEF Codes
<1>2. ASSUME NEW limited \in BOOLEAN, WaitForNotification(t, limited) PROVE Silent
  BY <1>1, <1>2 DEF WaitForNotification
<1>3. CASE ReleaseNotification(t) \/ ReleaseAllNotification(t)
  BY <1>1, <1>3 DEF ReleaseNotification, ReleaseAllNotification
<1>4. CASE NCall(t)
  BY <1>2, <1>3, <1>4 DEF NCall, SimpleLockNext
<1>5. CASE NWaitRelease(t) \/ NWaitClaim(t)
  BY <1>5 DEF NWaitRelease, NWaitClaim, SimpleLockNext, Call
<1>6. CASE NWaitReleased(t) \/ NWaitClaimed(t) \/ NReleaseUnlock(t)
  BY <1>1, <1>6 DEF NWaitReleased, NWaitClaimed, NReleaseUnlock
<1>7. CASE NWaitUnlock(t)
  <2>. DEFINE code == IF ntimeout[t] THEN TIMEOUT ELSE OK
  <2>1. code \in Codes
    BY <1>1
  <2>2. NReturn(t, "n_unlock", code)
    BY <1>7 DEF NWaitUnlock
  <2>. QED BY <2>1, <2>2
<1>8. CASE \/ NWaitLockMutex(t) \/ NWaitBlock(t) \/ NWaitWake(t) \/ NReleaseLockMutex(t)
           \/ NReleaseSignal(t) \/ NWaitSpurious(t) \/ NWaitTimeout(t)
  BY <1>8 DEF NWaitLockMutex, NWaitBlock, NWaitWake, NReleaseLockMutex, NReleaseSignal,
              NWaitSpurious, NWaitTimeout
<1>9. CASE Advance(t) \/ WaitSpurious(t) \/ WaitTimeout(t)
  BY <1>9 DEF SimpleLockNext, SimpleLockStep
<1>. QED BY <1>4, <1>5, <1>6, <1>7, <1>8, <1>9 DEF NStep, NAdvance, NLeave

\* So what holds of the lock alone is kept.
LEMMA LockPartsKept ==
  ASSUME WakeInv, OwnerInv, NEW t \in Threads, NStep(t)
  PROVE  WakeInv' /\ OwnerInv'
<1>1. CASE SimpleLockNext
  BY <1>1, WakeStep, OwnerStep
<1>2. CASE Silent
  BY <1>2 DEF Silent, WakeInv, OwnerInv, TypeOK, MutexInv, BlockedInv, WindowInv, NoLostWakeup,
              Awake
<1>. QED BY <1>1, <1>2, LockOrSilent DEF WakeInv

LEMMA NTypeStep ==
  ASSUME NotificationTypeOK, TypeOK', NEW t \in Threads, NStep(t)
  PROVE  NotificationTypeOK'
<1>. USE NoThreadAssumption
     DEF NotificationTypeOK, ThreadOrNone, NLabels, NInside, NGoto, NReturn, notificationVars,
         MutexLock, MutexUnlock, CondBlock, CondSignal, CondBroadcast, CondLeave
<1>1. ASSUME NEW limited \in BOOLEAN, WaitForNotification(t, limited) PROVE NotificationTypeOK'
  BY <1>1 DEF WaitForNotification
<1>2. CASE ReleaseNotification(t) \/ ReleaseAllNotification(t)
  BY <1>2 DEF ReleaseNotification, ReleaseAllNotification
<1>3. CASE NWaitLockMutex(t) \/ NWaitRelease(t) \/ NWaitReleased(t)
  BY <1>3 DEF NWaitLockMutex, NWaitRelease, NWaitReleased
<1>4. CASE NWaitBlock(t) \/ NWaitWake(t) \/ NWaitClaim(t)
  BY <1>4 DEF NWaitBlock, NWaitWake, NWaitClaim
<1>5. CASE NWaitClaimed(t) \/ NWaitUnlock(t)
  BY <1>5 DEF NWaitClaimed, NWaitUnlock
<1>6. CASE NReleaseLockMutex(t) \/ NReleaseSignal(t) \/ NReleaseUnlock(t)
  BY <1>6 DEF NReleaseLockMutex, NReleaseSignal, NReleaseUnlock
<1>7. CASE NWaitSpurious(t) \/ NWaitTimeout(t)
  BY <1>7 DEF NWaitSpurious, NWaitTimeout
<1>8. CASE UNCHANGED notificationVars
  BY <1>8
<1>. QED BY <1>1, <1>2, <1>3, <1>4, <1>5, <1>6, <1>7, <1>8 DEF NStep, NCall, NAdvance, NLeave

-----------------------------------------------------------------------------
(* Who has the lock at which step of the notification primitives.          *)

\* A step of the lock's primitives keeps it: the lock is lost to a thread only
\* by its own release, and is claimed only when nobody has it.
LEMMA PlacesKeptByLock ==
  ASSUME NotificationTypeOK, WakeInv, OwnerInv, WhereInv, ~forced',
         NEW t \in Threads, UNCHANGED notificationVars,
         (npc[t] = "out" /\ Call(t)) \/ Advance(t) \/ WaitSpurious(t) \/ WaitTimeout(t)
  PROVE  WhereInv'
<1>. DEFINE Types ==
       /\ owner \in ThreadOrNone /\ pc \in [Threads -> Labels] /\ held \subseteq Threads
       /\ timed \in [Threads -> BOOLEAN] /\ timeout \in [Threads -> BOOLEAN]
       /\ result \in [Threads -> Codes] /\ npc \in [Threads -> NLabels]
<1>1. Types
  BY DEF NotificationTypeOK, TypeOK
<1>. USE <1>1, NoThreadAssumption
     DEF ThreadOrNone, WhereInv, NWith, NWithout, notificationVars, Goto, Enter, Return, slock,
         Waiting
<1>2. CASE npc[t] = "out" /\ Call(t)
  BY <1>2 DEF Call, WaitForSimpleLock, ReleaseSimpleLock, UnlockSimpleLock
<1>3. CASE WaitLockMutex(t) \/ WaitTest(t) \/ WaitBlock(t) \/ WaitWake(t)
  BY <1>3 DEF WaitLockMutex, WaitTest, WaitBlock, WaitWake
<1>4. CASE WaitClaim(t)
  <2>1. ~forced /\ owner = NoThread
    BY <1>4 DEF WaitClaim, OwnerInv
  <2>. QED BY <1>4, <2>1 DEF WaitClaim
<1>5. CASE WaitUnlock(t)
  <2>1. ~forced /\ (~timeout[t] => owner = t)
    BY <1>5 DEF WaitUnlock, OwnerInv
  <2>. QED BY <1>5, <2>1 DEF WaitUnlock
<1>6. CASE ReleaseClear(t)
  <2>1. ~forced /\ owner = t /\ t \notin held /\ pc[t] = "r_clear"
    BY <1>6 DEF ReleaseClear, OwnerInv
  <2>. QED BY <1>6, <2>1 DEF ReleaseClear
<1>7. CASE ReleaseLockMutex(t) \/ ReleaseSignal(t) \/ ReleaseUnlock(t)
  BY <1>7 DEF ReleaseLockMutex, ReleaseSignal, ReleaseUnlock
<1>8. CASE WaitSpurious(t) \/ WaitTimeout(t)
  BY <1>8 DEF WaitSpurious, WaitTimeout
<1>. QED BY <1>2, <1>3, <1>4, <1>5, <1>6, <1>7, <1>8 DEF Advance

\* So does a step of the notification primitives.
LEMMA PlacesKept ==
  ASSUME NotificationTypeOK, NotificationTypeOK', WakeInv, OwnerInv, WhereInv, NMutexInv, ~forced',
         NEW t \in Threads, NStep(t)
  PROVE  WhereInv' /\ NMutexInv'
<1>. DEFINE Types ==
       /\ owner \in ThreadOrNone /\ pc \in [Threads -> Labels] /\ held \subseteq Threads
       /\ timed \in [Threads -> BOOLEAN] /\ timeout \in [Threads -> BOOLEAN]
       /\ result \in [Threads -> Codes] /\ npc \in [Threads -> NLabels]
       /\ nmutex \in ThreadOrNone
<1>1. Types
  BY DEF NotificationTypeOK, TypeOK
<1>2. CASE /\ UNCHANGED notificationVars
           /\ (npc[t] = "out" /\ Call(t)) \/ Advance(t) \/ WaitSpurious(t) \/ WaitTimeout(t)
  <2>1. WhereInv'
    BY <1>2, PlacesKeptByLock
  <2>. QED BY <1>2, <2>1 DEF NMutexInv, notificationVars
<1>. DEFINE Q == WhereInv' /\ NMutexInv'
<1>. USE <1>1, NoThreadAssumption
     DEF ThreadOrNone, WhereInv, NMutexInv, NWith, NWithout, NInside, NGoto, NReturn,
         simpleLockVars, slock, MutexLock, MutexUnlock
<1>3. ASSUME NEW limited \in BOOLEAN, WaitForNotification(t, limited) PROVE Q
  BY <1>3 DEF WaitForNotification, OwnedSimpleLock
<1>4. CASE ReleaseNotification(t) \/ ReleaseAllNotification(t)
  BY <1>4 DEF ReleaseNotification, ReleaseAllNotification, OwnedSimpleLock
<1>5. CASE NWaitLockMutex(t)
  BY <1>5 DEF NWaitLockMutex
<1>6. CASE NWaitRelease(t)
  BY <1>6 DEF NWaitRelease, ReleaseSimpleLock, Enter, Return, Goto
<1>7. CASE NWaitReleased(t)
  BY <1>7 DEF NWaitReleased
<1>8. CASE NWaitBlock(t)
  BY <1>8 DEF NWaitBlock, CondBlock
<1>9. CASE NWaitWake(t)
  BY <1>9 DEF NWaitWake
<1>10. CASE NWaitClaim(t)
  <2>1. ~timeout[t]
    BY <1>10 DEF NWaitClaim, WakeInv, BlockedInv
  <2>. QED BY <1>10, <2>1 DEF NWaitClaim, WaitForSimpleLock, Enter, Goto, Waiting
<1>11. CASE NWaitClaimed(t)
  BY <1>11 DEF NWaitClaimed
<1>12. CASE NWaitUnlock(t)
  BY <1>12 DEF NWaitUnlock
<1>13. CASE NReleaseLockMutex(t) \/ NReleaseSignal(t)
  BY <1>13 DEF NReleaseLockMutex, NReleaseSignal
<1>14. CASE NReleaseUnlock(t)
  BY <1>14 DEF NReleaseUnlock
<1>15. CASE NWaitSpurious(t) \/ NWaitTimeout(t)
  BY <1>15 DEF NWaitSpurious, NWaitTimeout
<1>. QED BY <1>2, <1>3, <1>4, <1>5, <1>6, <1>7, <1>8, <1>9, <1>10, <1>11, <1>12, <1>13, <1>14,
            <1>15
         DEF NStep, NCall, NAdvance, NLeave

\* A lock that was unlocked by force stays so marked.
LEMMA ForcedStays ==
  ASSUME TypeOK, NEW t \in Threads, NStep(t)
  PROVE  ~forced' => ~forced
<1>1. CASE SimpleLockNext
  BY <1>1
  DEF SimpleLockNext, SimpleLockStep, Call, Advance, WaitForSimpleLock, ReleaseSimpleLock,
      UnlockSimpleLock, WaitLockMutex, WaitTest, WaitBlock, WaitWake, WaitClaim, WaitUnlock,
      ReleaseClear, ReleaseLockMutex, ReleaseSignal, ReleaseUnlock, WaitSpurious, WaitTimeout
<1>2. CASE Silent
  BY <1>2 DEF Silent
<1>. QED BY <1>1, <1>2, LockOrSilent

LEMMA NotificationInvStep ==
  ASSUME NotificationInv, [Next]_vars
  PROVE  NotificationInv'
<1>1. CASE UNCHANGED vars
  BY <1>1 DEF NotificationInv, vars, simpleLockVars, notificationVars, NotificationTypeOK, TypeOK,
              WakeInv, MutexInv, BlockedInv, WindowInv, NoLostWakeup, Awake, OwnerInv, PlacesInv,
              WhereInv, NMutexInv
<1>2. ASSUME NEW t \in Threads, NStep(t) PROVE NotificationInv'
  <2>1. WakeInv' /\ OwnerInv'
    BY <1>2, LockPartsKept DEF NotificationInv
  <2>2. NotificationTypeOK'
    BY <1>2, <2>1, NTypeStep DEF NotificationInv, WakeInv
  <2>3. ~forced' => ~forced
    BY <1>2, ForcedStays DEF NotificationInv, NotificationTypeOK
  <2>4. PlacesInv'
    BY <1>2, <2>2, <2>3, PlacesKept DEF NotificationInv, PlacesInv
  <2>. QED BY <2>1, <2>2, <2>4 DEF NotificationInv
<1>. QED BY <1>1, <1>2 DEF Next, NStep

LEMMA NotificationInvariant == NotificationSpec => []NotificationInv
<1>1. Init => NotificationInv
  <2>. SUFFICES ASSUME Init PROVE NotificationInv
    OBVIOUS
  <2>1. WakeInv /\ OwnerInv
    BY NoThreadAssumption
    DEF Init, SimpleLockInit, WakeInv, TypeOK, ThreadOrNone, Labels, Codes, OK, MutexInv,
        BlockedInv, WindowInv, NoLostWakeup, Inside, Waiting, OwnerInv
  <2>2. NotificationTypeOK
    BY <2>1 DEF WakeInv, Init, NotificationInit, NotificationTypeOK, ThreadOrNone, NLabels
  <2>3. PlacesInv
    BY NoThreadAssumption
    DEF Init, NotificationInit, PlacesInv, WhereInv, NMutexInv, NWith, NWithout, NInside
  <2>. QED BY <2>1, <2>2, <2>3 DEF NotificationInv
<1>2. NotificationInv /\ [Next]_vars => NotificationInv'
  BY NotificationInvStep
<1>. QED BY <1>1, <1>2, PTL DEF NotificationSpec

-----------------------------------------------------------------------------
(* What follows from it.                                                   *)

\* For any number of threads, a release of the notification finds every thread
\* inside wait-for blocked or woken: the lock and notification->mutex together
\* keep it out of the interval between giving up the lock and going to sleep.
THEOREM NotificationIsNotMissed == NotificationSpec => []NoMissedNotification
<1>1. NotificationInv => NoMissedNotification
  BY NoThreadAssumption
  DEF NotificationInv, PlacesInv, WhereInv, NMutexInv, NWith, NInside, NoMissedNotification,
      Committing, NotificationTypeOK, ThreadOrNone
<1>. QED BY <1>1, NotificationInvariant, PTL

\* For any number of threads, wait-for returns with the lock, notified or timed
\* out, and no other thread was told that it has it.
THEOREM WaitReturnsWithLock == NotificationSpec => []OwnedOnReturn
<1>1. NotificationInv => OwnedOnReturn
  <2>. SUFFICES ASSUME NotificationInv, ~forced, NEW t \in Threads, npc[t] = "n_unlock"
                PROVE  held = {t}
    BY DEF OwnedOnReturn
  <2>1. t \in held /\ owner = t
    BY DEF NotificationInv, PlacesInv, WhereInv, NWith
  <2>2. \A u \in held : u = t
    BY <2>1 DEF NotificationInv, WakeInv, TypeOK, OwnerInv
  <2>. QED BY <2>1, <2>2
<1>. QED BY <1>1, NotificationInvariant, PTL

\* For any number of threads, no wakeup of the lock is lost when the notification
\* primitives release and claim it too, by force or not.
THEOREM NotifiedLockLosesNoWakeup == NotificationSpec => []NoLostWakeup
<1>1. NotificationInv => NoLostWakeup
  BY DEF NotificationInv, WakeInv
<1>. QED BY <1>1, NotificationInvariant, PTL

\* For any number of threads and until one unlocks by force, the lock excludes
\* under the claims and releases of the notification primitives as well as
\* those of its clients.
THEOREM NotifiedLockExcludes == NotificationSpec => []MutualExclusion
<1>1. NotificationInv => MutualExclusion
  BY DEF NotificationInv, WakeInv, OwnerInv, MutualExclusion, TypeOK
<1>. QED BY <1>1, NotificationInvariant, PTL

\* For any number of threads and until one unlocks by force, the lock composed
\* with the notification primitives implements the abstract exclusive lock.
THEOREM NotifiedLockRefinesExclusiveLock == NotificationSpec => ImplementsExclusiveLock
<1>1. Init => Abstract!Init
  BY DEF Init, SimpleLockInit, Abstract!Init, Waiting
<1>2. NotificationInv /\ [Next]_vars => [forced' \/ Abstract!Next]_Abstract!vars
  <2>. SUFFICES ASSUME NotificationInv, [Next]_vars
                PROVE  [forced' \/ Abstract!Next]_Abstract!vars
    OBVIOUS
  <2>1. WakeInv /\ OwnerInv /\ TypeOK
    BY DEF NotificationInv, WakeInv
  <2>2. CASE UNCHANGED vars
    BY <2>2 DEF vars, simpleLockVars, Abstract!vars
  <2>3. ASSUME NEW t \in Threads, NStep(t) PROVE [forced' \/ Abstract!Next]_Abstract!vars
    <3>1. CASE SimpleLockNext
      BY <2>1, <3>1, ExclusiveLockStep
    <3>2. CASE Silent
      BY <3>2 DEF Silent, Abstract!vars
    <3>. QED BY <2>1, <2>3, <3>1, <3>2, LockOrSilent
  <2>. QED BY <2>2, <2>3 DEF Next, NStep
<1>. QED BY <1>1, <1>2, NotificationInvariant, PTL
         DEF NotificationSpec, ImplementsExclusiveLock

\* For any number of threads and until one unlocks by force, no primitive returns
\* with notification->mutex locked: the release and the claim inside wait-for do
\* not fail.
THEOREM MutexIsGivenBack == NotificationSpec => []MutexIsNotLeaked
<1>1. NotificationInv => MutexIsNotLeaked
  BY DEF NotificationInv, PlacesInv, NMutexInv, MutexIsNotLeaked
<1>. QED BY <1>1, NotificationInvariant, PTL

-----------------------------------------------------------------------------
(* The notification and its lock as a monitor.                             *)

\* Who is blocked on notification->cond is in its cond wait.
NBlockedInv == \A t \in nblocked : npc[t] = "n_sleep"

LEMMA NBlockedStep ==
  ASSUME NotificationTypeOK, NBlockedInv, [Next]_vars
  PROVE  NBlockedInv'
<1>. DEFINE Types == nblocked \subseteq Threads /\ npc \in [Threads -> NLabels]
<1>1. Types
  BY DEF NotificationTypeOK
<1>. USE <1>1 DEF NBlockedInv, NGoto, NReturn, notificationVars
<1>2. CASE UNCHANGED notificationVars
  BY <1>2
<1>3. ASSUME NEW t \in Threads, NEW limited \in BOOLEAN, WaitForNotification(t, limited)
      PROVE  NBlockedInv'
  BY <1>3 DEF WaitForNotification
<1>4. ASSUME NEW t \in Threads, ReleaseNotification(t) \/ ReleaseAllNotification(t)
      PROVE  NBlockedInv'
  BY <1>4 DEF ReleaseNotification, ReleaseAllNotification
<1>5. ASSUME NEW t \in Threads, NWaitLockMutex(t) \/ NWaitRelease(t) \/ NWaitReleased(t)
      PROVE  NBlockedInv'
  BY <1>5 DEF NWaitLockMutex, NWaitRelease, NWaitReleased
<1>6. ASSUME NEW t \in Threads, NWaitBlock(t) PROVE NBlockedInv'
  BY <1>6 DEF NWaitBlock, CondBlock
<1>7. ASSUME NEW t \in Threads,
             NWaitWake(t) \/ NWaitClaim(t) \/ NWaitClaimed(t) \/ NWaitUnlock(t)
      PROVE  NBlockedInv'
  BY <1>7 DEF NWaitWake, NWaitClaim, NWaitClaimed, NWaitUnlock
<1>8. ASSUME NEW t \in Threads, NReleaseLockMutex(t) \/ NReleaseSignal(t) \/ NReleaseUnlock(t)
      PROVE  NBlockedInv'
  BY <1>8 DEF NReleaseLockMutex, NReleaseSignal, NReleaseUnlock, CondSignal, CondBroadcast
<1>9. ASSUME NEW t \in Threads, NWaitSpurious(t) \/ NWaitTimeout(t) PROVE NBlockedInv'
  BY <1>9 DEF NWaitSpurious, NWaitTimeout, CondLeave
<1>. QED BY <1>2, <1>3, <1>4, <1>5, <1>6, <1>7, <1>8, <1>9
         DEF Next, vars, NCall, NAdvance, NLeave

\* What the refinement needs of a state before the first forced unlock.
MonitorFacts ==
  /\ NotificationTypeOK /\ WhereInv /\ NMutexInv /\ NBlockedInv
  /\ BlockedInv /\ OwnerInv /\ ~forced

\* A step of the lock's primitives, called by a client or by wait-for.
LEMMA LockStepOfMonitor ==
  ASSUME MonitorFacts, NEW t \in Threads, ~forced', UNCHANGED notificationVars,
         (npc[t] = "out" /\ Call(t)) \/ Advance(t) \/ WaitSpurious(t) \/ WaitTimeout(t)
  PROVE  [AbstractMonitor!Next]_AbstractMonitor!vars
<1>. DEFINE Types ==
       /\ owner \in ThreadOrNone /\ pc \in [Threads -> Labels]
       /\ timed \in [Threads -> BOOLEAN] /\ timeout \in [Threads -> BOOLEAN]
       /\ nblocked \subseteq Threads /\ npc \in [Threads -> NLabels]
<1>1. Types
  BY DEF MonitorFacts, NotificationTypeOK, TypeOK
<1>2. WhereInv /\ NBlockedInv /\ BlockedInv /\ OwnerInv /\ ~forced
  BY DEF MonitorFacts
<1>. DEFINE Goal == [AbstractMonitor!Next]_AbstractMonitor!vars
<1>. USE <1>1, <1>2, NoThreadAssumption
     DEF ThreadOrNone, notificationVars, Goto, Enter, Return, slock, Waiting
<1>3. ASSUME npc[t] = "out", NEW limited \in BOOLEAN, WaitForSimpleLock(t, limited) PROVE Goal
  <2>1. CASE owner = t
    BY <1>3, <2>1 DEF WaitForSimpleLock, AbstractMonitor!vars
  <2>2. CASE owner # t
    <3>1. AbstractMonitor!Enter(t)
      BY <1>3, <2>2 DEF WaitForSimpleLock, AbstractMonitor!Enter
    <3>. QED BY <3>1 DEF AbstractMonitor!Next
  <2>. QED BY <2>1, <2>2
<1>4. ASSUME npc[t] = "out", ReleaseSimpleLock(t) \/ UnlockSimpleLock(t) PROVE Goal
  BY <1>4 DEF ReleaseSimpleLock, UnlockSimpleLock, AbstractMonitor!vars
<1>5. CASE WaitTest(t)
  <2>1. CASE timeout[t]
    <3>1. npc[t] = "out"
      BY <1>5, <2>1 DEF WaitTest, WhereInv, NWith, NWithout, NLabels, NInside
    <3>2. AbstractMonitor!GiveUp(t)
      BY <1>5, <2>1, <3>1 DEF WaitTest, AbstractMonitor!GiveUp
    <3>. QED BY <3>2 DEF AbstractMonitor!Next
  <2>2. CASE ~timeout[t]
    BY <1>5, <2>2 DEF WaitTest, AbstractMonitor!vars
  <2>. QED BY <2>1, <2>2
<1>6. CASE WaitClaim(t)
  <2>1. owner = NoThread /\ npc[t] \in {"out", "n_claiming"}
    BY <1>6 DEF WaitClaim, OwnerInv, WhereInv, NWith, NWithout, NLabels, NInside
  <2>2. CASE npc[t] = "out"
    <3>1. AbstractMonitor!Claim(t)
      BY <1>6, <2>1, <2>2 DEF WaitClaim, AbstractMonitor!Claim
    <3>. QED BY <3>1 DEF AbstractMonitor!Next
  <2>3. CASE npc[t] = "n_claiming"
    <3>1. AbstractMonitor!Return(t)
      BY <1>6, <2>1, <2>3 DEF WaitClaim, AbstractMonitor!Return
    <3>. QED BY <3>1 DEF AbstractMonitor!Next
  <2>. QED BY <2>1, <2>2, <2>3
<1>7. CASE ReleaseClear(t)
  <2>1. owner = t /\ pc[t] = "r_clear" /\ npc[t] \in {"out", "n_releasing"}
    BY <1>7 DEF ReleaseClear, OwnerInv, WhereInv, NWith, NWithout, NLabels, NInside
  <2>2. CASE npc[t] = "out"
    <3>1. AbstractMonitor!Release(t)
      BY <1>7, <2>1, <2>2 DEF ReleaseClear, AbstractMonitor!Release
    <3>. QED BY <3>1 DEF AbstractMonitor!Next
  <2>3. CASE npc[t] = "n_releasing"
    <3>1. AbstractMonitor!Wait(t)
      BY <1>7, <2>1, <2>3 DEF ReleaseClear, AbstractMonitor!Wait
    <3>. QED BY <3>1 DEF AbstractMonitor!Next
  <2>. QED BY <2>1, <2>2, <2>3
<1>8. CASE WaitLockMutex(t) \/ WaitBlock(t) \/ WaitWake(t) \/ WaitUnlock(t)
  BY <1>8 DEF WaitLockMutex, WaitBlock, WaitWake, WaitUnlock, WhereInv, AbstractMonitor!vars
<1>9. CASE ReleaseLockMutex(t) \/ ReleaseSignal(t) \/ ReleaseUnlock(t)
  BY <1>9 DEF ReleaseLockMutex, ReleaseSignal, ReleaseUnlock, AbstractMonitor!vars
<1>10. CASE WaitSpurious(t) \/ WaitTimeout(t)
  BY <1>10 DEF WaitSpurious, WaitTimeout, AbstractMonitor!vars
<1>. QED BY <1>3, <1>4, <1>5, <1>6, <1>7, <1>8, <1>9, <1>10 DEF Call, Advance

\* A step of wait-for.  The release and the claim it calls begin without a step
\* of the monitor, and their results are the good ones.
LEMMA WaitStepOfMonitor ==
  ASSUME MonitorFacts, NEW t \in Threads,
         \/ \E limited \in BOOLEAN : WaitForNotification(t, limited)
         \/ NWaitLockMutex(t) \/ NWaitRelease(t) \/ NWaitReleased(t) \/ NWaitBlock(t)
         \/ NWaitWake(t) \/ NWaitClaim(t) \/ NWaitClaimed(t) \/ NWaitUnlock(t)
         \/ NWaitSpurious(t) \/ NWaitTimeout(t)
  PROVE  [AbstractMonitor!Next]_AbstractMonitor!vars
<1>. DEFINE Types ==
       /\ owner \in ThreadOrNone /\ pc \in [Threads -> Labels]
       /\ nblocked \subseteq Threads /\ npc \in [Threads -> NLabels]
<1>1. Types
  BY DEF MonitorFacts, NotificationTypeOK, TypeOK
<1>2. WhereInv /\ NBlockedInv
  BY DEF MonitorFacts
<1>. DEFINE Goal == [AbstractMonitor!Next]_AbstractMonitor!vars
<1>. USE <1>1, <1>2, NoThreadAssumption
     DEF ThreadOrNone, NGoto, NReturn, simpleLockVars, slock, Goto, Enter, Return, Waiting,
         NBlockedInv
<1>3. ASSUME NEW limited \in BOOLEAN, WaitForNotification(t, limited) PROVE Goal
  BY <1>3 DEF WaitForNotification, AbstractMonitor!vars
<1>4. CASE NWaitLockMutex(t)
  BY <1>4 DEF NWaitLockMutex, AbstractMonitor!vars
<1>5. CASE NWaitRelease(t)
  <2>1. owner = t
    BY <1>5 DEF NWaitRelease, WhereInv, NWith
  <2>. QED BY <1>5, <2>1 DEF NWaitRelease, ReleaseSimpleLock, AbstractMonitor!vars
<1>6. CASE NWaitReleased(t)
  <2>1. result[t] = OK
    BY <1>6 DEF NWaitReleased, WhereInv
  <2>. QED BY <1>6, <2>1 DEF NWaitReleased, AbstractMonitor!vars
<1>7. CASE NWaitBlock(t)
  BY <1>7 DEF NWaitBlock, CondBlock, AbstractMonitor!vars
<1>8. CASE NWaitWake(t)
  BY <1>8 DEF NWaitWake, AbstractMonitor!vars
<1>9. CASE NWaitClaim(t)
  <2>1. owner # t
    BY <1>9 DEF NWaitClaim, WhereInv, NWithout
  <2>. QED BY <1>9, <2>1 DEF NWaitClaim, WaitForSimpleLock, AbstractMonitor!vars
<1>10. CASE NWaitClaimed(t)
  <2>1. result[t] = OK
    BY <1>10 DEF NWaitClaimed, WhereInv
  <2>. QED BY <1>10, <2>1 DEF NWaitClaimed, AbstractMonitor!vars
<1>11. CASE NWaitUnlock(t)
  BY <1>11 DEF NWaitUnlock, AbstractMonitor!vars
<1>12. CASE NWaitSpurious(t) \/ NWaitTimeout(t)
  <2>1. AbstractMonitor!WakeAlone(t)
    BY <1>12
    DEF NWaitSpurious, NWaitTimeout, CondLeave, AbstractMonitor!WakeAlone, AbstractMonitor!Wake
  <2>. QED BY <2>1 DEF AbstractMonitor!Next
<1>. QED BY <1>3, <1>4, <1>5, <1>6, <1>7, <1>8, <1>9, <1>10, <1>11, <1>12

\* A step of release or release-all.  When it signals, the threads that wait are
\* those blocked on the condition variable.
LEMMA ReleaseStepOfMonitor ==
  ASSUME MonitorFacts, NEW t \in Threads,
         \/ ReleaseNotification(t) \/ ReleaseAllNotification(t)
         \/ NReleaseLockMutex(t) \/ NReleaseSignal(t) \/ NReleaseUnlock(t)
  PROVE  [AbstractMonitor!Next]_AbstractMonitor!vars
<1>. DEFINE Types ==
       /\ owner \in ThreadOrNone /\ pc \in [Threads -> Labels]
       /\ nblocked \subseteq Threads /\ npc \in [Threads -> NLabels]
<1>1. Types
  BY DEF MonitorFacts, NotificationTypeOK, TypeOK
<1>2. WhereInv /\ NBlockedInv /\ NMutexInv
  BY DEF MonitorFacts
<1>. DEFINE Goal == [AbstractMonitor!Next]_AbstractMonitor!vars
<1>. USE <1>1, <1>2, NoThreadAssumption
     DEF ThreadOrNone, NGoto, NReturn, simpleLockVars, Waiting, NBlockedInv
<1>3. CASE ReleaseNotification(t) \/ ReleaseAllNotification(t)
  <2>1. CASE owner # t
    BY <1>3, <2>1
    DEF ReleaseNotification, ReleaseAllNotification, OwnedSimpleLock, AbstractMonitor!vars
  <2>2. CASE owner = t
    <3>1. AbstractMonitor!Begin(t)
      BY <1>3, <2>2
      DEF ReleaseNotification, ReleaseAllNotification, OwnedSimpleLock, AbstractMonitor!Begin
    <3>. QED BY <3>1 DEF AbstractMonitor!Next
  <2>. QED BY <2>1, <2>2
<1>4. CASE NReleaseLockMutex(t)
  BY <1>4 DEF NReleaseLockMutex, AbstractMonitor!vars
<1>5. CASE NReleaseSignal(t)
  <2>1. npc[t] \in {"s_signal", "a_signal"} /\ owner = t /\ UNCHANGED <<owner, pc>>
    BY <1>5 DEF NReleaseSignal, WhereInv, NWith
  <2>2. \A u \in Threads : npc[u] \notin {"n_releasing", "n_block"}
    BY <2>1 DEF NMutexInv, NInside
  <2>3. CASE npc[t] = "s_signal"
    <3>1. npc' = [npc EXCEPT ![t] = "s_unlock"] /\ CondSignal(nblocked)
      BY <1>5, <2>3 DEF NReleaseSignal
    <3>2. AbstractMonitor!Notify(t)
      BY <2>1, <2>2, <2>3, <3>1
      DEF CondSignal, AbstractMonitor!Notify, AbstractMonitor!Wake
    <3>. QED BY <3>2 DEF AbstractMonitor!Next
  <2>4. CASE npc[t] = "a_signal"
    <3>1. npc' = [npc EXCEPT ![t] = "s_unlock"] /\ CondBroadcast(nblocked)
      BY <1>5, <2>4 DEF NReleaseSignal
    <3>2. AbstractMonitor!NotifyAll(t)
      BY <2>1, <2>2, <2>4, <3>1
      DEF CondBroadcast, AbstractMonitor!NotifyAll, AbstractMonitor!Wake
    <3>. QED BY <3>2 DEF AbstractMonitor!Next
  <2>. QED BY <2>1, <2>3, <2>4
<1>6. CASE NReleaseUnlock(t)
  BY <1>6 DEF NReleaseUnlock, AbstractMonitor!vars
<1>. QED BY <1>3, <1>4, <1>5, <1>6

\* For any number of threads, until one unlocks by force, the notification and
\* its lock, with all the steps between clearing the owner word and going to
\* sleep, implement the abstract monitor, in which wait-for is one step.
THEOREM RefinesMonitor == NotificationSpec => ImplementsMonitor
<1>1. Init => AbstractMonitor!Init /\ NBlockedInv
  BY DEF Init, SimpleLockInit, NotificationInit, AbstractMonitor!Init, NBlockedInv, Waiting
<1>2. NotificationInv /\ NBlockedInv /\ [Next]_vars => NBlockedInv'
  BY NBlockedStep DEF NotificationInv
<1>3. ASSUME NotificationInv, NotificationInv', NBlockedInv, [Next]_vars
      PROVE  [forced' \/ AbstractMonitor!Next]_AbstractMonitor!vars
  <2>. SUFFICES ASSUME ~forced' PROVE [AbstractMonitor!Next]_AbstractMonitor!vars
    OBVIOUS
  <2>1. CASE UNCHANGED vars
    BY <2>1 DEF vars, simpleLockVars, notificationVars, AbstractMonitor!vars
  <2>2. ASSUME NEW t \in Threads, NStep(t) PROVE [AbstractMonitor!Next]_AbstractMonitor!vars
    <3>1. ~forced
      BY <1>3, <2>2, ForcedStays DEF NotificationInv, NotificationTypeOK
    <3>2. MonitorFacts
      BY <1>3, <3>1 DEF NotificationInv, PlacesInv, WakeInv, MonitorFacts
    <3>. QED BY <2>2, <3>2, LockStepOfMonitor, WaitStepOfMonitor, ReleaseStepOfMonitor
             DEF NStep, NCall, NAdvance, NLeave
  <2>. QED BY <1>3, <2>1, <2>2 DEF Next, NStep
<1>. QED BY <1>1, <1>2, <1>3, NotificationInvariant, PTL DEF NotificationSpec, ImplementsMonitor
=============================================================================
