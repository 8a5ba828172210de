---------------------- MODULE Win32Notification_proofs ----------------------
(***************************************************************************)
(* Proofs about Win32Lock and Win32Notification, for any finite set of     *)
(* threads, any depth of nested claims and any number of waits that time   *)
(* out.  The first part is about the lock alone (LockSpec); the second     *)
(* carries it over to the lock as the notification primitives use it       *)
(* (Spec), and adds what the notification itself promises.                 *)
(***************************************************************************)
EXTENDS Win32Notification, FiniteSetTheorems, TLAPS

(***************************************************************************)
(* Part 1: the lock alone.                                                 *)
(***************************************************************************)

\* Labels at which a thread has the lock, or is handing it on, whatever the owner
\* word says.
Handing == {"w_own", "r_clear", "r_dec", "r_post"}
Has(t) == owner = t \/ pc[t] \in Handing

\* The lock is in one place, and while it is not free the count says so: a claim
\* that finds it at -1 is the only one.
PlaceInv ==
  /\ \A t, u \in Threads : Has(t) /\ Has(u) => t = u
  /\ \A t \in Threads : Has(t) => semaphore = 0 /\ lock_count >= 0
  /\ semaphore = 1 => lock_count >= 0

\* What the owner word is at the labels that depend on it, and the claim that
\* the owner of a simple lock has counted and will take back.
OwnerInv ==
  \A t \in Threads :
    /\ pc[t] \in {"w_again", "w_load", "w_store", "r_count", "r_clear"} => owner = t
    /\ pc[t] \in {"r_dec", "r_post"} => owner # t
    /\ pc[t] = "u_clear" => owner # NoThread
    /\ pc[t] = "w_self" /\ owner = t => lock_count >= 1
    /\ pc[t] = "w_load" => lock_count >= 1
    /\ pc[t] = "w_store" => loaded[t] >= 1

\* The claims that were granted, and recursion_count, at each label of the owner.
DepthInv ==
  \A t \in Threads :
    /\ owner # t => depth[t] <= 0
    /\ kind = "simple" =>
         /\ pc[t] \notin {"w_again", "r_count"}
         /\ pc[t] = "r_clear" => depth[t] = 0
         /\ owner = t /\ pc[t] # "r_clear" => depth[t] = 1
    /\ kind = "recursive" /\ owner = t =>
         /\ pc[t] \in {"idle", "w_again", "r_count", "r_clear", "u_clear"}
         /\ pc[t] \in {"idle", "w_again", "u_clear"} => recursion_count = depth[t]
         /\ pc[t] = "r_count" => recursion_count = depth[t] + 1
         /\ pc[t] = "r_clear" => depth[t] = 0

\* All of it, until a forced unlock crosses another call.
LockInv ==
  /\ LockTypeOK
  /\ Crossing => crossed
  /\ ~crossed => PlaceInv /\ OwnerInv /\ DepthInv

-----------------------------------------------------------------------------
(* Types.                                                                  *)

\* A step of one thread keeps the types.
LEMMA TypeStep ==
  ASSUME LockTypeOK, crossed' \in BOOLEAN, NEW t \in Threads, LockStep(t)
  PROVE  LockTypeOK'
<1>. USE Win32NoThreadAssumption
     DEF LockTypeOK, ThreadOrNone, Labels, Waiting, Codes, OK, ALREADY_LOCKED, NOT_LOCKED,
         TIMEOUT, GENERAL_ERROR, Running, Goto, Enter, Return, lock, lockHistory
<1>3. ASSUME NEW limited \in BOOLEAN, WaitForLock(t, limited) PROVE LockTypeOK'
  BY <1>3 DEF WaitForLock
<1>4. CASE ReleaseLock(t) \/ UnlockLock(t)
  BY <1>4 DEF ReleaseLock, UnlockLock
<1>5. CASE WaitIncrement(t)
  BY <1>5 DEF WaitIncrement, InterlockedIncrement
<1>6. CASE WaitSelf(t) \/ WaitUncountLoad(t)
  BY <1>6 DEF WaitSelf, WaitUncountLoad
<1>7. CASE WaitUncountStore(t)
  BY <1>7 DEF WaitUncountStore
<1>8. CASE WaitSemaphore(t)
  BY <1>8 DEF WaitSemaphore, SemaphoreWait
<1>9. CASE WaitOwn(t)
  <2>1. recursion_count' \in Int
    BY <1>9 DEF WaitOwn
  <2>. QED BY <1>9, <2>1 DEF WaitOwn
<1>15. CASE WaitAgain(t)
  BY <1>15 DEF WaitAgain
<1>10. CASE ReleaseCount(t)
  BY <1>10 DEF ReleaseCount
<1>11. CASE ReleaseClear(t) \/ UnlockClear(t)
  BY <1>11 DEF ReleaseClear, UnlockClear
<1>12. CASE ReleaseDecrement(t)
  BY <1>12 DEF ReleaseDecrement, InterlockedDecrement
<1>13. CASE ReleasePost(t)
  BY <1>13 DEF ReleasePost, SemaphoreRelease
<1>14. CASE WaitTimeout(t)
  BY <1>14 DEF WaitTimeout
<1>. QED BY <1>3, <1>4, <1>5, <1>6, <1>7, <1>8, <1>9, <1>10, <1>11, <1>12, <1>13, <1>14,
            <1>15
         DEF LockStep, Call, Advance

-----------------------------------------------------------------------------
(* The inductive invariant.                                                *)

\* A step of one thread that leaves no crossing behind keeps the three parts.
LEMMA PartsStep ==
  ASSUME LockTypeOK, LockTypeOK', ~Crossing, ~Crossing', PlaceInv, OwnerInv, DepthInv,
         NEW t \in Threads, LockStep(t)
  PROVE  PlaceInv' /\ OwnerInv' /\ DepthInv'
<1>. DEFINE Types ==
       /\ kind \in {"simple", "recursive"} /\ owner \in ThreadOrNone
       /\ lock_count \in Int /\ semaphore \in 0..1 /\ recursion_count \in Int
       /\ pc \in [Threads -> Labels] /\ loaded \in [Threads -> Int] /\ depth \in [Threads -> Int]
<1>1. Types /\ Types'
  BY DEF LockTypeOK
<1>. USE <1>1, Win32NoThreadAssumption
     DEF ThreadOrNone, Goto, Enter, Return, lock, lockHistory,
         PlaceInv, OwnerInv, DepthInv, Has, Handing, Crossing
<1>2. ASSUME NEW limited \in BOOLEAN, WaitForLock(t, limited)
      PROVE  PlaceInv' /\ OwnerInv' /\ DepthInv'
  BY <1>2 DEF WaitForLock
<1>3. CASE ReleaseLock(t)
  BY <1>3 DEF ReleaseLock
<1>4. CASE UnlockLock(t)
  BY <1>4 DEF UnlockLock
<1>5. CASE WaitIncrement(t)
  BY <1>5 DEF WaitIncrement, InterlockedIncrement
<1>6. CASE WaitSelf(t)
  BY <1>6 DEF WaitSelf
<1>7. CASE WaitUncountLoad(t)
  BY <1>7 DEF WaitUncountLoad
<1>8. CASE WaitUncountStore(t)
  BY <1>8 DEF WaitUncountStore
<1>9. CASE WaitSemaphore(t)
  BY <1>9 DEF WaitSemaphore, SemaphoreWait
<1>10. CASE WaitOwn(t)
  BY <1>10 DEF WaitOwn
<1>11. CASE WaitAgain(t)
  BY <1>11 DEF WaitAgain
<1>12. CASE ReleaseCount(t)
  BY <1>12 DEF ReleaseCount
<1>13. CASE ReleaseClear(t)
  BY <1>13 DEF ReleaseClear
<1>14. CASE UnlockClear(t)
  BY <1>14 DEF UnlockClear
<1>15. CASE ReleaseDecrement(t)
  BY <1>15 DEF ReleaseDecrement, InterlockedDecrement
<1>16. CASE ReleasePost(t)
  BY <1>16 DEF ReleasePost, SemaphoreRelease
<1>17. CASE WaitTimeout(t)
  BY <1>17 DEF WaitTimeout
<1>. QED BY <1>2, <1>3, <1>4, <1>5, <1>6, <1>7, <1>8, <1>9, <1>10, <1>11, <1>12, <1>13,
            <1>14, <1>15, <1>16, <1>17
         DEF LockStep, Call, Advance

LEMMA LockInvStep ==
  ASSUME LockInv, [LockNext]_lockVars
  PROVE  LockInv'
<1>1. LockTypeOK'
  <2>1. CASE UNCHANGED lockVars
    BY <2>1 DEF LockInv, LockTypeOK, lockVars, lockState, lock, lockHistory
  <2>2. CASE LockNext
    <3>1. crossed' \in BOOLEAN
      BY <2>2 DEF LockNext
    <3>2. PICK t \in Threads : LockStep(t)
      BY <2>2 DEF LockNext
    <3>. QED BY <3>1, <3>2, TypeStep DEF LockInv
  <2>. QED BY <2>1, <2>2
<1>2. CASE UNCHANGED lockVars
  BY <1>1, <1>2 DEF LockInv, lockVars, lockState, lock, lockHistory, Crossing, PlaceInv, OwnerInv,
                    DepthInv, Has
<1>3. CASE LockNext
  <2>1. Crossing' => crossed'
    BY <1>3 DEF LockNext
  <2>2. ASSUME ~crossed' PROVE PlaceInv' /\ OwnerInv' /\ DepthInv'
    <3>1. ~crossed /\ ~Crossing'
      BY <1>3, <2>2 DEF LockNext
    <3>2. PICK t \in Threads : LockStep(t)
      BY <1>3 DEF LockNext
    <3>. QED BY <1>1, <3>1, <3>2, PartsStep DEF LockInv
  <2>. QED BY <1>1, <2>1, <2>2 DEF LockInv
<1>. QED BY <1>2, <1>3

LEMMA LockInvInit == LockInit => LockInv
<1>. SUFFICES ASSUME LockInit PROVE LockInv
  OBVIOUS
<1>1. \A t \in Threads : pc[t] = "idle" /\ depth[t] = 0 /\ owner # t
  BY Win32NoThreadAssumption DEF LockInit
<1>2. LockTypeOK
  <2>1. lock_count \in Int /\ semaphore \in 0..1 /\ recursion_count \in Int /\ abandoned \in Nat
    BY DEF LockInit
  <2>2. loaded \in [Threads -> Int] /\ depth \in [Threads -> Int]
    BY DEF LockInit
  <2>. QED BY <2>1, <2>2 DEF LockInit, LockTypeOK, ThreadOrNone, Labels, Codes, OK
<1>3. ~Crossing
  BY <1>1 DEF Crossing
<1>4. PlaceInv /\ OwnerInv
  BY <1>1 DEF PlaceInv, OwnerInv, Has, Handing, LockInit
<1>5. DepthInv
  <2>1. ASSUME NEW t \in Threads PROVE depth[t] <= 0
    <3>1. depth[t] = 0
      BY <1>1
    <3>. QED BY <3>1
  <2>. QED BY <1>1, <2>1 DEF DepthInv
<1>. QED BY <1>2, <1>3, <1>4, <1>5 DEF LockInv

LEMMA LockInvariant == LockSpec => []LockInv
BY LockInvInit, LockInvStep, PTL DEF LockSpec

-----------------------------------------------------------------------------
(* The lock is in one place, and implements the abstract exclusive lock.   *)

\* What the invariant says of the threads that have the lock or hand it on.
LEMMA LockInvInOnePlace == LockInv => LockInOnePlace
<1>. SUFFICES ASSUME LockInv, ~crossed PROVE LockInOnePlace
  BY DEF LockInOnePlace
<1>1. PlaceInv /\ DepthInv /\ depth \in [Threads -> Int]
  BY DEF LockInv, LockTypeOK
<1>2. \A t \in Threads : t \in Having <=> Has(t)
  BY DEF Having, Has, Handing
<1>3. Having \subseteq Threads
  BY DEF Having
<1>4. (\A t, u \in Having : t = u) /\ (Having # {} => semaphore = 0)
  BY <1>1, <1>2, <1>3 DEF PlaceInv
<1>5. \A t \in Threads : depth[t] > 0 => owner = t
  BY <1>1 DEF DepthInv
<1>6. \A t \in Threads : kind = "recursive" /\ owner = t /\ pc[t] = "idle" =>
        recursion_count = depth[t]
  BY <1>1 DEF DepthInv
<1>. QED BY <1>4, <1>5, <1>6 DEF LockInOnePlace

\* For any threads, with second claims that overwrite the count, timeouts that
\* leave their claims in it and forced unlocks that cross no other call, the
\* lock is never granted twice and its semaphore never exceeds its maximum.
THEOREM LockStaysInOnePlace == LockSpec => []LockInOnePlace
BY LockInvInOnePlace, LockInvariant, PTL

\* A step of the lock is one of the abstract exclusive lock or changes nothing
\* it can see; a forced unlock is a release by the thread it takes the lock from.
LEMMA AbstractStep ==
  ASSUME LockTypeOK, ~Crossing, PlaceInv, OwnerInv, NEW t \in Threads, LockStep(t)
  PROVE  [Abstract!Next]_Abstract!vars
<1>. DEFINE Types == owner \in ThreadOrNone /\ pc \in [Threads -> Labels]
<1>1. Types
  BY DEF LockTypeOK
<1>. USE <1>1, Win32NoThreadAssumption
     DEF ThreadOrNone, Goto, Enter, Return, lock, lockHistory, Waiting
<1>2. ASSUME NEW limited \in BOOLEAN, WaitForLock(t, limited)
      PROVE  [Abstract!Next]_Abstract!vars
  <2>1. CASE owner = t
    BY <1>2, <2>1 DEF WaitForLock, Abstract!vars
  <2>2. CASE owner # t
    <3>1. Abstract!WaitFor(t)
      BY <1>2, <2>2 DEF WaitForLock, Abstract!WaitFor
    <3>. QED BY <3>1 DEF Abstract!Next
  <2>. QED BY <2>1, <2>2
<1>3. CASE WaitTimeout(t)
  <2>1. CASE owner = t
    BY <1>3, <2>1 DEF WaitTimeout, Abstract!vars
  <2>2. CASE owner # t
    <3>1. Abstract!GiveUp(t)
      BY <1>3, <2>2 DEF WaitTimeout, Abstract!GiveUp
    <3>. QED BY <3>1 DEF Abstract!Next
  <2>. QED BY <2>1, <2>2
<1>4. CASE WaitOwn(t)
  <2>1. CASE owner = t
    BY <1>4, <2>1 DEF WaitOwn, Abstract!vars
  <2>2. CASE owner # t
    <3>1. owner = NoThread
      BY <1>4, <2>2 DEF WaitOwn, PlaceInv, Has, Handing
    <3>2. Abstract!Claim(t)
      BY <1>4, <3>1 DEF WaitOwn, Abstract!Claim
    <3>. QED BY <3>2 DEF Abstract!Next
  <2>. QED BY <2>1, <2>2
<1>5. CASE ReleaseClear(t)
  <2>1. Abstract!Release(t)
    BY <1>5 DEF ReleaseClear, OwnerInv, Abstract!Release
  <2>. QED BY <2>1 DEF Abstract!Next
<1>6. CASE UnlockClear(t)
  <2>1. owner \in Threads /\ pc[owner] \notin Waiting
    BY <1>6 DEF UnlockClear, OwnerInv, Crossing
  <2>2. Abstract!Release(owner)
    BY <1>6, <2>1 DEF UnlockClear, Abstract!Release
  <2>. QED BY <2>1, <2>2 DEF Abstract!Next
<1>7. CASE \/ ReleaseLock(t) \/ UnlockLock(t) \/ WaitAgain(t) \/ WaitIncrement(t)
           \/ WaitSelf(t) \/ WaitUncountLoad(t) \/ WaitUncountStore(t) \/ WaitSemaphore(t)
  BY <1>7 DEF ReleaseLock, UnlockLock, WaitAgain, WaitIncrement, WaitSelf, WaitUncountLoad,
              WaitUncountStore, WaitSemaphore, Abstract!vars
<1>8. CASE ReleaseCount(t) \/ ReleaseDecrement(t) \/ ReleasePost(t)
  BY <1>8 DEF ReleaseCount, ReleaseDecrement, ReleasePost, Abstract!vars
<1>. QED BY <1>2, <1>3, <1>4, <1>5, <1>6, <1>7, <1>8 DEF LockStep, Call, Advance

\* For any threads, until a forced unlock crosses another call, both kinds of lock
\* implement the abstract exclusive lock.
THEOREM RefinesExclusiveLock == LockSpec => ImplementsExclusiveLock
<1>1. LockInit => Abstract!Init
  BY DEF LockInit, Abstract!Init, Waiting
<1>2. LockInv /\ [LockNext]_lockVars => [crossed' \/ Abstract!Next]_Abstract!vars
  <2>. SUFFICES ASSUME LockInv, [LockNext]_lockVars, ~crossed'
                PROVE  [Abstract!Next]_Abstract!vars
    OBVIOUS
  <2>1. CASE UNCHANGED lockVars
    BY <2>1 DEF lockVars, lockState, lock, Abstract!vars
  <2>2. CASE LockNext
    <3>1. ~crossed
      BY <2>2 DEF LockNext
    <3>2. PICK t \in Threads : LockStep(t)
      BY <2>2 DEF LockNext
    <3>. QED BY <3>1, <3>2, AbstractStep DEF LockInv
  <2>. QED BY <2>1, <2>2
<1>. QED BY <1>1, <1>2, LockInvariant, PTL DEF LockSpec, ImplementsExclusiveLock

-----------------------------------------------------------------------------
(* Nobody is left behind.                                                  *)

\* The claims that were counted and neither granted nor given up.
Claiming == {t \in Threads : pc[t] \in {"w_self", "w_sem", "w_own", "w_load", "w_store"}}
\* There is a claim that was granted and is still counted.
Granted == \E t \in Threads : owner = t \/ pc[t] = "r_dec"

\* A count that is not -1 says truly that the lock is not free; and the count is
\* no less than the claims that somebody will act on.  It may be more: a wait
\* that timed out leaves its claim.
CoverInv ==
  /\ lock_count >= 0 => semaphore = 1 \/ \E t \in Threads : Has(t)
  /\ lock_count + 1 >= Cardinality(Claiming)
  /\ Granted => lock_count >= Cardinality(Claiming)

\* How a set of threads grows and shrinks.
LEMMA ThreadSets ==
  ASSUME NEW S \in SUBSET Threads
  PROVE  /\ IsFiniteSet(S) /\ Cardinality(S) \in Nat
         /\ \A t \in S : Cardinality(S) >= 1 /\ Cardinality(S \ {t}) = Cardinality(S) - 1
         /\ \A t \in Threads \ S : Cardinality(S \cup {t}) = Cardinality(S) + 1
<1>1. IsFiniteSet(S)
  BY FS_Subset, Win32LockAssumption
<1>2. Cardinality(S) \in Nat
  BY <1>1, FS_CardinalityType
<1>3. ASSUME NEW t \in S PROVE Cardinality(S) >= 1
  BY <1>1, <1>2, FS_EmptySet
<1>. QED BY <1>1, <1>2, <1>3, FS_AddElement, FS_RemoveElement

\* A step of the lock keeps it, unless its count overwrites a claim.
LEMMA CoverStep ==
  ASSUME LockTypeOK, ~Crossing, PlaceInv, OwnerInv, CoverInv, NEW t \in Threads, LockStep(t),
         ~lost'
  PROVE  CoverInv'
<1>. DEFINE Types ==
       /\ kind \in {"simple", "recursive"} /\ owner \in ThreadOrNone
       /\ lock_count \in Int /\ semaphore \in 0..1
       /\ pc \in [Threads -> Labels] /\ loaded \in [Threads -> Int]
<1>0. Claiming \in SUBSET Threads /\ Claiming' \in SUBSET Threads
  BY DEF Claiming
<1>1. Types /\ Cardinality(Claiming) \in Nat /\ Cardinality(Claiming') \in Nat
  BY <1>0, ThreadSets DEF LockTypeOK
<1>. USE <1>1, Win32NoThreadAssumption
     DEF ThreadOrNone, Goto, Enter, Return, lock, lockHistory, CoverInv, Granted, Has, Handing
<1>2. ASSUME NEW limited \in BOOLEAN, WaitForLock(t, limited) PROVE CoverInv'
  <2>1. Claiming' = Claiming
    BY <1>2 DEF WaitForLock, Claiming
  <2>. QED BY <1>2, <2>1 DEF WaitForLock
<1>3. CASE ReleaseLock(t) \/ UnlockLock(t)
  <2>1. Claiming' = Claiming
    BY <1>3 DEF ReleaseLock, UnlockLock, Claiming
  <2>. QED BY <1>3, <2>1 DEF ReleaseLock, UnlockLock
<1>4. CASE WaitIncrement(t)
  <2>1. t \notin Claiming /\ Claiming' = Claiming \cup {t}
    BY <1>4 DEF WaitIncrement, Claiming
  <2>2. lock_count' = lock_count + 1
    BY <1>4 DEF WaitIncrement, InterlockedIncrement
  <2>3. lock_count' >= 0 => semaphore' = 1 \/ \E u \in Threads : Has(u)'
    <3>1. CASE lock_count' = 0
      BY <1>4, <3>1 DEF WaitIncrement
    <3>2. CASE lock_count' > 0
      BY <1>4, <2>2, <3>2 DEF WaitIncrement
    <3>. QED BY <2>2, <3>1, <3>2
  <2>4. Granted' => Granted
    BY <1>4 DEF WaitIncrement
  <2>5. Cardinality(Claiming') = Cardinality(Claiming) + 1
    BY <1>0, <2>1, ThreadSets
  <2>. QED BY <2>2, <2>3, <2>4, <2>5
<1>5. CASE WaitSelf(t) \/ WaitUncountLoad(t)
  <2>1. Claiming' = Claiming
    BY <1>5 DEF WaitSelf, WaitUncountLoad, Claiming
  <2>. QED BY <1>5, <2>1 DEF WaitSelf, WaitUncountLoad
<1>6. CASE WaitUncountStore(t)
  <2>1. t \in Claiming /\ Claiming' = Claiming \ {t}
    BY <1>6 DEF WaitUncountStore, Claiming
  <2>2. lock_count' = lock_count - 1 /\ owner' = owner /\ owner = t
    BY <1>6 DEF WaitUncountStore, OwnerInv
  <2>3. Cardinality(Claiming') = Cardinality(Claiming) - 1
    BY <1>0, <2>1, ThreadSets
  <2>. QED BY <2>2, <2>3
<1>7. CASE WaitSemaphore(t)
  <2>1. Claiming' = Claiming
    BY <1>7 DEF WaitSemaphore, Claiming
  <2>. QED BY <1>7, <2>1 DEF WaitSemaphore
<1>8. CASE WaitTimeout(t)
  <2>1. t \in Claiming /\ Claiming' = Claiming \ {t}
    BY <1>8 DEF WaitTimeout, Claiming
  <2>2. Cardinality(Claiming') = Cardinality(Claiming) - 1
    BY <1>0, <2>1, ThreadSets
  <2>3. /\ lock_count' = lock_count /\ semaphore' = semaphore
        /\ \A u \in Threads : (Has(u)' <=> Has(u)) /\ (pc'[u] = "r_dec" <=> pc[u] = "r_dec")
        /\ owner' = owner
    BY <1>8 DEF WaitTimeout
  <2>. QED BY <2>2, <2>3
<1>9. CASE WaitOwn(t)
  <2>1. t \in Claiming /\ Claiming' = Claiming \ {t}
    BY <1>9 DEF WaitOwn, Claiming
  <2>2. Cardinality(Claiming') = Cardinality(Claiming) - 1
    BY <1>0, <2>1, ThreadSets
  <2>3. lock_count' = lock_count /\ owner' = t
    BY <1>9 DEF WaitOwn
  <2>. QED BY <2>2, <2>3
<1>10. CASE WaitAgain(t) \/ ReleaseCount(t)
  <2>1. Claiming' = Claiming /\ owner = t
    BY <1>10 DEF WaitAgain, ReleaseCount, Claiming, OwnerInv
  <2>. QED BY <1>10, <2>1 DEF WaitAgain, ReleaseCount
<1>11. CASE ReleaseClear(t) \/ UnlockClear(t)
  <2>1. Claiming' = Claiming /\ Granted
    BY <1>11 DEF ReleaseClear, UnlockClear, Claiming, OwnerInv
  <2>. QED BY <1>11, <2>1 DEF ReleaseClear, UnlockClear
<1>12. CASE ReleaseDecrement(t)
  <2>1. Claiming' = Claiming /\ Granted
    BY <1>12 DEF ReleaseDecrement, Claiming
  <2>2. lock_count' = lock_count - 1
    BY <1>12 DEF ReleaseDecrement, InterlockedDecrement
  <2>3. ~Granted'
    BY <1>12 DEF ReleaseDecrement, PlaceInv, OwnerInv
  <2>. QED BY <1>12, <2>1, <2>2, <2>3 DEF ReleaseDecrement
<1>13. CASE ReleasePost(t)
  <2>1. Claiming' = Claiming
    BY <1>13 DEF ReleasePost, Claiming
  <2>. QED BY <1>13, <2>1 DEF ReleasePost, SemaphoreRelease
<1>. QED BY <1>2, <1>3, <1>4, <1>5, <1>6, <1>7, <1>8, <1>9, <1>10, <1>11, <1>12, <1>13
         DEF LockStep, Call, Advance

\* No step makes up for a claim that was overwritten.
LEMMA LostStays ==
  ASSUME LockTypeOK, NEW t \in Threads, LockStep(t), ~lost'
  PROVE  ~lost
BY DEF LockTypeOK, LockStep, Call, Advance, WaitForLock, ReleaseLock, UnlockLock, WaitIncrement,
       WaitSelf, WaitUncountLoad, WaitUncountStore, WaitSemaphore, WaitTimeout, WaitOwn, WaitAgain,
       ReleaseCount, ReleaseClear, UnlockClear, ReleaseDecrement, ReleasePost, lockHistory

LEMMA CoverInit == LockInit => CoverInv
<1>. SUFFICES ASSUME LockInit PROVE CoverInv
  OBVIOUS
<1>1. Claiming = {}
  BY DEF LockInit, Claiming
<1>2. Cardinality(Claiming) = 0
  BY <1>1, FS_EmptySet
<1>. QED BY <1>2, Win32NoThreadAssumption DEF LockInit, CoverInv, Granted

LEMMA CoverMeansNobodyLeft ==
  ASSUME LockTypeOK, CoverInv
  PROVE  NobodyLeftBehind
<1>. SUFFICES ASSUME NEW t \in Threads, pc[t] = "w_sem" PROVE Having # {} \/ semaphore = 1
  BY DEF NobodyLeftBehind
<1>1. Claiming \in SUBSET Threads /\ t \in Claiming
  BY DEF Claiming
<1>2. lock_count \in Int /\ lock_count >= 0
  <2>1. Cardinality(Claiming) \in Nat /\ Cardinality(Claiming) >= 1
    BY <1>1, ThreadSets
  <2>. QED BY <2>1 DEF CoverInv, LockTypeOK
<1>. QED BY <1>2 DEF CoverInv, Has, Handing, Having

\* For any threads, a thread that waits for the semaphore never waits for a lock
\* that nobody has: the claims of the waits that timed out may make the count
\* too large, and nothing but an overwritten claim makes it too small.
THEOREM NobodyIsLeftBehind == LockSpec => []NobodyLeftBehind
<1>. DEFINE Inv == LockInv /\ (~crossed /\ ~lost => CoverInv)
<1>1. LockInit => Inv
  BY LockInvInit, CoverInit
<1>2. Inv /\ [LockNext]_lockVars => Inv'
  <2>. SUFFICES ASSUME Inv, [LockNext]_lockVars, ~crossed', ~lost' PROVE CoverInv'
    BY LockInvStep
  <2>1. CASE UNCHANGED lockVars
    BY <2>1 DEF lockVars, lockState, lock, lockHistory, CoverInv, Granted, Has, Claiming
  <2>2. CASE LockNext
    <3>1. ~crossed
      BY <2>2 DEF LockNext
    <3>2. PICK t \in Threads : LockStep(t)
      BY <2>2 DEF LockNext
    <3>3. ~lost
      BY <3>2, LostStays DEF LockInv
    <3>. QED BY <3>1, <3>2, <3>3, CoverStep DEF LockInv
  <2>. QED BY <2>1, <2>2
<1>3. Inv => NobodyLeftBehind
  BY CoverMeansNobodyLeft DEF LockInv, NobodyLeftBehind
<1>. QED BY <1>1, <1>2, <1>3, PTL DEF LockSpec

-----------------------------------------------------------------------------
(***************************************************************************)
(* Part 2: the lock and the notification.                                  *)
(***************************************************************************)

\* Labels of a wait-for that has released the lock and not called for it yet.
Without == {"n_wait", "n_cas", "n_dec", "n_late", "n_probe", "n_reset", "n_set", "n_claim"}
\* Labels of the primitives at which the caller still has the lock.
With == {"n_anti", "n_inc", "n_release", "s_anti", "s_count", "s_target", "s_reset", "s_set"}

\* Where a thread inside a notification primitive is in the lock's primitives,
\* and whether it owns the lock there.  The release that wait-for calls succeeds.
WhereInv ==
  \A t \in Threads :
    /\ npc[t] # "out" => kind = "simple"
    /\ npc[t] \in With => pc[t] = "idle" /\ owner = t
    /\ npc[t] \in Without => pc[t] = "idle" /\ owner # t
    /\ npc[t] = "n_releasing" =>
         /\ pc[t] \in {"r_clear", "r_dec", "r_post", "idle"}
         /\ pc[t] = "idle" => owner # t /\ result[t] = OK
    /\ npc[t] = "n_claiming" =>
         /\ ~timed[t]
         /\ pc[t] \in {"w_inc", "w_self", "w_sem", "w_own", "idle"}
         /\ pc[t] \in {"w_inc", "w_self", "w_sem"} => owner # t
         /\ pc[t] = "idle" => owner = t

\* The invariant of the lock, with WhereInv, until a forced unlock crosses
\* another call.
NotificationInv ==
  /\ crossed \in BOOLEAN
  /\ ~crossed =>
       /\ LockTypeOK /\ npc \in [Threads -> NLabels]
       /\ ~Crossing /\ ~NCrossing
       /\ PlaceInv /\ OwnerInv /\ DepthInv /\ WhereInv

\* A step of the primitives that is no step of the lock: at most a return code
\* changes.
Silent ==
  /\ UNCHANGED <<lock, pc, timed, loaded, lockHistory>>
  /\ result' \in [Threads -> Codes]

NStep(t) == NCall(t) \/ NAdvance(t) \/ NTimeout(t)

-----------------------------------------------------------------------------
(* A step of the composition is a step of the lock or silent.              *)

LEMMA NReturnIsSilent ==
  ASSUME LockTypeOK, NEW t \in Threads, NEW from, NEW code \in Codes, NReturn(t, from, code)
  PROVE  Silent
BY DEF NReturn, Silent, LockTypeOK

LEMMA StayIsSilent ==
  ASSUME LockTypeOK, UNCHANGED lockState
  PROVE  Silent
BY DEF Silent, lockState, LockTypeOK

LEMMA LockOrSilent ==
  ASSUME LockTypeOK, ~crossed, NEW t \in Threads, NStep(t)
  PROVE  LockStep(t) \/ Silent
<1>. USE StayIsSilent
<1>1. /\ OK \in Codes /\ NOT_LOCKED \in Codes /\ TIMEOUT \in Codes /\ GENERAL_ERROR \in Codes
  BY DEF Codes
<1>2. ASSUME NEW limited \in BOOLEAN, WaitForNotification(t, limited) PROVE Silent
  BY <1>1, <1>2, NReturnIsSilent DEF WaitForNotification
<1>3. ASSUME NEW new \in {0, -1}, ReleaseNotification(t, new) PROVE Silent
  BY <1>1, <1>3, NReturnIsSilent DEF ReleaseNotification
<1>4. CASE NCall(t)
  BY <1>2, <1>3, <1>4 DEF NCall, LockStep
<1>5. CASE NWaitRelease(t)
  BY <1>5 DEF NWaitRelease, LockStep, Call
<1>6. CASE NWaitClaim(t)
  BY <1>6 DEF NWaitClaim, LockStep, Call
<1>7. CASE NWaitAnti(t) \/ NWaitReleased(t) \/ NReleaseTest(t) \/ NReleaseSet(t)
  BY <1>1, <1>7, NReturnIsSilent DEF NWaitAnti, NWaitReleased, NReleaseTest, NReleaseSet
<1>8. CASE NWaitClaimed(t)
  <2>. DEFINE code ==
         IF ntimeout[t] THEN TIMEOUT ELSE IF result[t] = OK THEN OK ELSE GENERAL_ERROR
  <2>1. code \in Codes
    BY <1>1
  <2>2. NReturn(t, "n_claiming", code)
    BY <1>8 DEF NWaitClaimed
  <2>. QED BY <2>1, <2>2, NReturnIsSilent
<1>9. CASE \/ NWaitIncrement(t) \/ NWaitNotifier(t) \/ NWaitTake(t) \/ NWaitDecrement(t)
           \/ NWaitLate(t) \/ NWaitProbe(t) \/ NWaitReset(t) \/ NWaitSetAnti(t)
           \/ NReleaseAnti(t) \/ NReleaseTarget(t) \/ NReleaseResetAnti(t) \/ NWaitTimeout(t)
  BY <1>9 DEF NWaitIncrement, NWaitNotifier, NWaitTake, NWaitDecrement, NWaitLate,
              NWaitProbe, NWaitReset, NWaitSetAnti, NReleaseAnti, NReleaseTarget,
              NReleaseResetAnti, NWaitTimeout
<1>10. CASE Advance(t) \/ WaitTimeout(t)
  BY <1>10 DEF LockStep
<1>. QED BY <1>4, <1>5, <1>6, <1>7, <1>8, <1>9, <1>10 DEF NStep, NAdvance, NTimeout

\* So the parts of the lock's invariant are kept.
LEMMA LockPartsKept ==
  ASSUME LockTypeOK, ~crossed, crossed' \in BOOLEAN, ~Crossing, ~Crossing',
         PlaceInv, OwnerInv, DepthInv, NEW t \in Threads, NStep(t)
  PROVE  LockTypeOK' /\ PlaceInv' /\ OwnerInv' /\ DepthInv'
<1>1. CASE LockStep(t)
  BY <1>1, TypeStep, PartsStep
<1>2. CASE Silent
  BY <1>2 DEF Silent, LockTypeOK, PlaceInv, OwnerInv, DepthInv, Has, lock, lockHistory
<1>. QED BY <1>1, <1>2, LockOrSilent

-----------------------------------------------------------------------------
(* WhereInv.                                                               *)

\* A step of the lock's primitives keeps it.  The owner is lost to a thread inside
\* a notification primitive only by its own release or by a forced unlock, which
\* would have crossed it.
LEMMA WhereKeptByLock ==
  ASSUME LockTypeOK, npc \in [Threads -> NLabels], ~NCrossing, PlaceInv, OwnerInv, WhereInv,
         NEW t \in Threads, UNCHANGED npc,
         (npc[t] = "out" /\ Call(t)) \/ Advance(t) \/ WaitTimeout(t)
  PROVE  WhereInv'
<1>. DEFINE Types ==
       /\ owner \in ThreadOrNone /\ pc \in [Threads -> Labels] /\ timed \in [Threads -> BOOLEAN]
       /\ result \in [Threads -> Codes]
<1>1. Types
  BY DEF LockTypeOK
<1>. USE <1>1, Win32NoThreadAssumption
     DEF ThreadOrNone, Goto, Enter, Return, lock, lockHistory, WhereInv, With, Without
<1>2. CASE npc[t] = "out" /\ Call(t)
  <2>1. \A u \in Threads :
          u # t => pc'[u] = pc[u] /\ timed'[u] = timed[u] /\ result'[u] = result[u]
    BY <1>2 DEF Call, WaitForLock, ReleaseLock, UnlockLock
  <2>2. kind' = kind /\ owner' = owner
    BY <1>2 DEF Call, WaitForLock, ReleaseLock, UnlockLock
  <2>. QED BY <1>2, <2>1, <2>2
<1>3. CASE WaitIncrement(t)
  BY <1>3 DEF WaitIncrement
<1>4. CASE WaitSelf(t)
  BY <1>4 DEF WaitSelf
<1>5. CASE WaitUncountLoad(t)
  BY <1>5 DEF WaitUncountLoad
<1>6. CASE WaitUncountStore(t)
  BY <1>6 DEF WaitUncountStore
<1>7. CASE WaitSemaphore(t)
  BY <1>7 DEF WaitSemaphore
<1>8. CASE WaitOwn(t)
  <2>1. \A u \in Threads : u # t => owner # u
    BY <1>8 DEF WaitOwn, PlaceInv, Has, Handing
  <2>. QED BY <1>8, <2>1 DEF WaitOwn
<1>9. CASE WaitAgain(t) \/ ReleaseCount(t)
  BY <1>9 DEF WaitAgain, ReleaseCount
<1>10. CASE ReleaseClear(t)
  <2>1. owner = t
    BY <1>10 DEF ReleaseClear, OwnerInv
  <2>. QED BY <1>10, <2>1 DEF ReleaseClear
<1>11. CASE UnlockClear(t)
  <2>1. \A u \in Threads : owner = u => npc[u] = "out"
    BY <1>11 DEF UnlockClear, NCrossing
  <2>. QED BY <1>11, <2>1 DEF UnlockClear
<1>12. CASE ReleaseDecrement(t)
  BY <1>12 DEF ReleaseDecrement, OwnerInv
<1>13. CASE ReleasePost(t)
  <2>1. semaphore = 0
    BY <1>13 DEF ReleasePost, PlaceInv, Has, Handing
  <2>. QED BY <1>13, <2>1 DEF ReleasePost, OwnerInv
<1>14. CASE WaitTimeout(t)
  BY <1>14 DEF WaitTimeout
<1>. QED BY <1>2, <1>3, <1>4, <1>5, <1>6, <1>7, <1>8, <1>9, <1>10, <1>11, <1>12, <1>13, <1>14
         DEF Advance

\* A step of the notification primitives keeps it.
LEMMA WhereKept ==
  ASSUME LockTypeOK, npc \in [Threads -> NLabels], ~NCrossing, PlaceInv, OwnerInv, WhereInv,
         NEW t \in Threads, NStep(t)
  PROVE  npc' \in [Threads -> NLabels] /\ WhereInv'
<1>. DEFINE Types ==
       /\ owner \in ThreadOrNone /\ pc \in [Threads -> Labels] /\ timed \in [Threads -> BOOLEAN]
       /\ result \in [Threads -> Codes]
<1>1. Types
  BY DEF LockTypeOK
<1>2. CASE UNCHANGED npc /\ ((npc[t] = "out" /\ Call(t)) \/ Advance(t) \/ WaitTimeout(t))
  BY <1>2, WhereKeptByLock
<1>. DEFINE Q == npc' \in [Threads -> NLabels] /\ WhereInv'
<1>. USE <1>1
     DEF NGoto, NReturn, lockState, lock, WhereInv, With, Without, NLabels, Counted, Releasing,
         Completing
<1>3. ASSUME NEW limited \in BOOLEAN, WaitForNotification(t, limited), kind = "simple" PROVE Q
  BY <1>3 DEF WaitForNotification, OwnedLock
<1>4. ASSUME NEW new \in {0, -1}, ReleaseNotification(t, new), kind = "simple" PROVE Q
  BY <1>4 DEF ReleaseNotification, OwnedLock
<1>5. CASE NWaitAnti(t)
  BY <1>5 DEF NWaitAnti
<1>6. CASE NWaitIncrement(t)
  BY <1>6 DEF NWaitIncrement
<1>7. CASE NWaitRelease(t)
  BY <1>7 DEF NWaitRelease, ReleaseLock, Enter, Return, Goto
<1>8. CASE NWaitReleased(t)
  BY <1>8 DEF NWaitReleased
<1>9. CASE NWaitNotifier(t) \/ NWaitTimeout(t)
  BY <1>9 DEF NWaitNotifier, NWaitTimeout
<1>10. CASE NWaitTake(t)
  BY <1>10 DEF NWaitTake
<1>11. CASE NWaitDecrement(t)
  BY <1>11 DEF NWaitDecrement
<1>12. CASE NWaitLate(t) \/ NWaitReset(t) \/ NWaitSetAnti(t)
  BY <1>12 DEF NWaitLate, NWaitReset, NWaitSetAnti
<1>13. CASE NWaitProbe(t)
  BY <1>13 DEF NWaitProbe
<1>14. CASE NWaitClaim(t)
  BY <1>14 DEF NWaitClaim, WaitForLock, Enter, Goto
<1>15. CASE NWaitClaimed(t)
  BY <1>15 DEF NWaitClaimed
<1>16. CASE NReleaseAnti(t) \/ NReleaseTarget(t) \/ NReleaseResetAnti(t)
  BY <1>16 DEF NReleaseAnti, NReleaseTarget, NReleaseResetAnti
<1>17. CASE NReleaseTest(t) \/ NReleaseSet(t)
  BY <1>17 DEF NReleaseTest, NReleaseSet
<1>. QED BY <1>2, <1>3, <1>4, <1>5, <1>6, <1>7, <1>8, <1>9, <1>10, <1>11, <1>12, <1>13, <1>14,
            <1>15, <1>16, <1>17
         DEF NStep, NCall, NAdvance, NTimeout, notificationVars

-----------------------------------------------------------------------------
(* The inductive invariant.                                                *)

LEMMA NotificationInvInit == Init => NotificationInv
<1>. SUFFICES ASSUME Init PROVE NotificationInv
  OBVIOUS
<1>1. LockInv /\ crossed = FALSE
  BY LockInvInit DEF Init, LockInit
<1>2. npc \in [Threads -> NLabels] /\ \A t \in Threads : npc[t] = "out"
  BY DEF Init, NLabels
<1>3. ~NCrossing /\ ~Crossing
  BY DEF Init, LockInit, NCrossing, Crossing
<1>4. WhereInv
  BY <1>2 DEF WhereInv, With, Without
<1>. QED BY <1>1, <1>2, <1>3, <1>4 DEF LockInv, NotificationInv

LEMMA NotificationInvStep ==
  ASSUME NotificationInv, [Next]_vars
  PROVE  NotificationInv'
<1>1. CASE UNCHANGED vars
  BY <1>1 DEF NotificationInv, vars, lockVars, lockState, lock, lockHistory, notificationVars,
              LockTypeOK, Crossing, NCrossing, PlaceInv, OwnerInv, DepthInv, WhereInv, Has
<1>2. CASE Next
  <2>1. crossed' \in BOOLEAN /\ (~crossed' => ~crossed /\ ~Crossing' /\ ~NCrossing')
    BY <1>2 DEF Next, NotificationInv
  <2>2. PICK t \in Threads : NStep(t)
    BY <1>2 DEF Next, NStep
  <2>3. ASSUME ~crossed'
        PROVE  /\ LockTypeOK' /\ PlaceInv' /\ OwnerInv' /\ DepthInv'
               /\ npc' \in [Threads -> NLabels] /\ WhereInv'
    BY <2>1, <2>2, <2>3, LockPartsKept, WhereKept DEF NotificationInv
  <2>. QED BY <2>1, <2>3 DEF NotificationInv
<1>. QED BY <1>1, <1>2

LEMMA NotificationInvariant == Spec => []NotificationInv
BY NotificationInvInit, NotificationInvStep, PTL DEF Spec

-----------------------------------------------------------------------------
(* What follows from it.                                                   *)

\* For any threads, a wait for a notification, notified or timed out, returns
\* with the lock, although the lock is claimed after the notification was given
\* up and the result of the claim is not looked at after a timeout; until a
\* forced unlock crosses another call.
THEOREM WaitReturnsWithLock == Spec => []OwnedOnReturn
<1>1. NotificationInv => OwnedOnReturn
  BY DEF NotificationInv, WhereInv, DepthInv, OwnedOnReturn
<1>. QED BY <1>1, NotificationInvariant, PTL

\* For any threads, the lock stays in one place when the notification primitives
\* release and claim it as well as its clients.
THEOREM NotifiedLockStaysInOnePlace == Spec => []LockInOnePlace
<1>1. NotificationInv => LockInOnePlace
  BY LockInvInOnePlace DEF NotificationInv, LockInv, LockInOnePlace
<1>. QED BY <1>1, NotificationInvariant, PTL

\* For any threads, the lock as the notification primitives use it implements the
\* abstract exclusive lock: releasing it and waiting are seen as a release, and
\* the return from a wait as a claim.
THEOREM NotifiedLockRefinesExclusiveLock == Spec => ImplementsExclusiveLock
<1>1. Init => Abstract!Init
  BY DEF Init, LockInit, Abstract!Init, Waiting
<1>2. NotificationInv /\ [Next]_vars => [crossed' \/ Abstract!Next]_Abstract!vars
  <2>. SUFFICES ASSUME NotificationInv, [Next]_vars, ~crossed'
                PROVE  [Abstract!Next]_Abstract!vars
    OBVIOUS
  <2>1. CASE UNCHANGED vars
    BY <2>1 DEF vars, lockVars, lockState, lock, Abstract!vars
  <2>2. CASE Next
    <3>1. ~crossed
      BY <2>2 DEF Next
    <3>2. PICK t \in Threads : NStep(t)
      BY <2>2 DEF Next, NStep
    <3>3. CASE LockStep(t)
      BY <3>1, <3>3, AbstractStep DEF NotificationInv
    <3>4. CASE Silent
      BY <3>4 DEF Silent, lock, Abstract!vars
    <3>. QED BY <3>1, <3>2, <3>3, <3>4, LockOrSilent DEF NotificationInv
  <2>. QED BY <2>1, <2>2
<1>. QED BY <1>1, <1>2, NotificationInvariant, PTL DEF Spec, ImplementsExclusiveLock

-----------------------------------------------------------------------------
(* Nobody is left behind when the lock is used by the notification         *)
(* primitives.                                                             *)

\* For any threads, a thread that waits for the lock, the waiters that were
\* notified included, never waits for one that nobody has.
THEOREM NobodyNotifiedIsLeftBehind == Spec => []NobodyLeftBehind
<1>. DEFINE Inv == NotificationInv /\ (~crossed /\ ~lost => CoverInv)
<1>1. Init => Inv
  BY NotificationInvInit, CoverInit DEF Init
<1>2. Inv /\ [Next]_vars => Inv'
  <2>. SUFFICES ASSUME Inv, [Next]_vars, ~crossed', ~lost' PROVE CoverInv'
    BY NotificationInvStep
  <2>1. CASE UNCHANGED vars
    BY <2>1 DEF vars, lockVars, lockState, lock, lockHistory, CoverInv, Granted, Has, Claiming
  <2>2. CASE Next
    <3>1. ~crossed
      BY <2>2 DEF Next
    <3>2. PICK t \in Threads : NStep(t)
      BY <2>2 DEF Next, NStep
    <3>3. CASE LockStep(t)
      <4>1. ~lost
        BY <3>1, <3>3, LostStays DEF NotificationInv
      <4>. QED BY <3>1, <3>3, <4>1, CoverStep DEF NotificationInv
    <3>4. CASE Silent
      BY <3>1, <3>4 DEF Silent, lock, lockHistory, CoverInv, Granted, Has, Claiming
    <3>. QED BY <3>1, <3>2, <3>3, <3>4, LockOrSilent DEF NotificationInv
  <2>. QED BY <2>1, <2>2
<1>3. Inv => NobodyLeftBehind
  BY CoverMeansNobodyLeft DEF NotificationInv, NobodyLeftBehind
<1>. QED BY <1>1, <1>2, <1>3, PTL DEF Spec

-----------------------------------------------------------------------------
(* The count.                                                              *)

\* The threads that are counted, and those on their way to be.
InCount == {t \in Threads : npc[t] \in Counted}
Coming == {t \in Threads : npc[t] \in {"n_anti", "n_inc"}}

\* After a crossing a wait-for may give up without taking itself off the count;
\* no thread calls one any more, so the count stays within the threads.
CountInv ==
  /\ count \in Int
  /\ Cardinality(InCount) <= count
  /\ count + Cardinality(Coming) <= Cardinality(Threads)
  /\ ~crossed => count = Cardinality(InCount)

CountedInv == NotificationTypeOK /\ CountInv

\* A wait-for that comes is neither counted nor coming yet, so there is room.
LEMMA RoomForOneMore ==
  ASSUME NEW t \in Threads, t \notin InCount, t \notin Coming
  PROVE  Cardinality(InCount) + Cardinality(Coming) + 1 <= Cardinality(Threads)
<1>. DEFINE S == InCount \cup Coming
<1>1. /\ InCount \in SUBSET Threads /\ Coming \in SUBSET Threads /\ S \in SUBSET Threads
      /\ S \cup {t} \in SUBSET Threads /\ InCount \cap Coming = {} /\ t \notin S
  BY DEF InCount, Coming, Counted
<1>. HIDE DEF S
<1>2. IsFiniteSet(InCount) /\ IsFiniteSet(Coming) /\ Cardinality(InCount) \in Nat
      /\ Cardinality(Coming) \in Nat
  BY <1>1, ThreadSets
<1>3. Cardinality(S) = Cardinality(InCount) + Cardinality(Coming)
  <2>1. Cardinality(InCount \cap Coming) = 0
    BY <1>1, FS_EmptySet
  <2>2. Cardinality(S) = Cardinality(InCount) + Cardinality(Coming) - Cardinality(InCount \cap Coming)
    BY <1>2, FS_Union DEF S
  <2>. QED BY <1>2, <2>1, <2>2
<1>4. Cardinality(S \cup {t}) = Cardinality(S) + 1
  BY <1>1, ThreadSets
<1>5. Cardinality(S \cup {t}) <= Cardinality(Threads)
  BY <1>1, FS_Subset, Win32LockAssumption
<1>. QED BY <1>3, <1>4, <1>5

\* A step keeps the count, given that the release that wait-for calls succeeds
\* until a crossing.
LEMMA CountStep ==
  ASSUME CountedInv, NEW t \in Threads, NStep(t), crossed \in BOOLEAN, ~crossed' => ~crossed,
         ~crossed => \A u \in Threads : npc[u] = "n_releasing" /\ pc[u] = "idle" => result[u] = OK
  PROVE  CountInv'
<1>. DEFINE Types == count \in Int /\ npc \in [Threads -> NLabels]
<1>0. /\ InCount \in SUBSET Threads /\ InCount' \in SUBSET Threads
      /\ Coming \in SUBSET Threads /\ Coming' \in SUBSET Threads
  BY DEF InCount, Coming
<1>1. /\ Types /\ CountInv
      /\ Cardinality(InCount) \in Nat /\ Cardinality(InCount') \in Nat
      /\ Cardinality(Coming) \in Nat /\ Cardinality(Coming') \in Nat
      /\ Cardinality(Threads) \in Nat
  BY <1>0, ThreadSets DEF CountedInv, NotificationTypeOK
\* A step that changes neither the count nor the sets.
<1>2. ASSUME count' = count, InCount' = InCount, Coming' = Coming PROVE CountInv'
  BY <1>1, <1>2 DEF CountInv
<1>3. CASE UNCHANGED notificationVars
  <2>1. count' = count /\ InCount' = InCount /\ Coming' = Coming
    BY <1>3 DEF notificationVars, notification, InCount, Coming
  <2>. QED BY <1>2, <2>1
<1>4. ASSUME NEW limited \in BOOLEAN, ~crossed, WaitForNotification(t, limited) PROVE CountInv'
  <2>1. count' = count
    BY <1>4 DEF WaitForNotification, notification
  <2>2. CASE npc'[t] = "out"
    <3>1. InCount' = InCount /\ Coming' = Coming
      BY <1>1, <1>4, <2>2 DEF WaitForNotification, NReturn, NGoto, InCount, Coming, Counted
    <3>. QED BY <1>2, <2>1, <3>1
  <2>3. CASE npc'[t] # "out"
    <3>1. /\ t \notin InCount /\ t \notin Coming
          /\ InCount' = InCount /\ Coming' = Coming \cup {t}
      BY <1>1, <1>4, <2>3 DEF WaitForNotification, NReturn, NGoto, InCount, Coming, Counted
    <3>2. Cardinality(Coming') = Cardinality(Coming) + 1
      BY <1>0, <3>1, ThreadSets
    <3>. QED BY <1>1, <1>4, <2>1, <3>1, <3>2, RoomForOneMore DEF CountInv
  <2>. QED BY <2>2, <2>3
<1>5. ASSUME NEW new \in {0, -1}, ReleaseNotification(t, new) PROVE CountInv'
  <2>1. count' = count /\ InCount' = InCount /\ Coming' = Coming
    BY <1>1, <1>5 DEF ReleaseNotification, NReturn, NGoto, notification, InCount, Coming, Counted
  <2>. QED BY <1>2, <2>1
<1>6. CASE NWaitAnti(t)
  <2>1. count' = count /\ InCount' = InCount
    BY <1>1, <1>6 DEF NWaitAnti, NReturn, NGoto, notification, InCount, Counted
  <2>2. CASE npc'[t] = "out"
    <3>1. t \in Coming /\ Coming' = Coming \ {t}
      BY <1>1, <1>6, <2>2 DEF NWaitAnti, NReturn, NGoto, Coming
    <3>2. Cardinality(Coming') = Cardinality(Coming) - 1
      BY <1>0, <3>1, ThreadSets
    <3>. QED BY <1>1, <2>1, <3>2 DEF CountInv
  <2>3. CASE npc'[t] # "out"
    <3>1. Coming' = Coming
      BY <1>1, <1>6, <2>3 DEF NWaitAnti, NReturn, NGoto, Coming
    <3>. QED BY <1>2, <2>1, <3>1
  <2>. QED BY <2>2, <2>3
<1>7. CASE NWaitIncrement(t)
  <2>1. /\ t \in Coming /\ Coming' = Coming \ {t}
        /\ t \notin InCount /\ InCount' = InCount \cup {t} /\ count' = count + 1
    BY <1>1, <1>7 DEF NWaitIncrement, NGoto, InterlockedIncrement, InCount, Coming, Counted
  <2>2. /\ Cardinality(Coming') = Cardinality(Coming) - 1
        /\ Cardinality(InCount') = Cardinality(InCount) + 1
    BY <1>0, <2>1, ThreadSets
  <2>. QED BY <1>1, <2>1, <2>2 DEF CountInv
<1>8. CASE NWaitDecrement(t) \/ NWaitLate(t)
  <2>1. /\ Coming' = Coming /\ count' = count - 1
        /\ t \in InCount /\ InCount' = InCount \ {t}
    BY <1>1, <1>8
    DEF NWaitDecrement, NWaitLate, NGoto, InterlockedDecrement, InCount, Coming, Counted
  <2>2. Cardinality(InCount') = Cardinality(InCount) - 1
    BY <1>0, <2>1, ThreadSets
  <2>. QED BY <1>1, <2>1, <2>2 DEF CountInv
<1>9. CASE NWaitReleased(t)
  <2>1. count' = count /\ Coming' = Coming
    BY <1>1, <1>9 DEF NWaitReleased, NReturn, NGoto, notification, Coming
  <2>2. CASE npc'[t] = "out"
    <3>1. crossed'
      BY <1>1, <1>9, <2>2 DEF NWaitReleased, NReturn, NGoto
    <3>2. t \in InCount /\ InCount' = InCount \ {t}
      BY <1>1, <1>9, <2>2 DEF NWaitReleased, NReturn, NGoto, InCount, Counted
    <3>3. Cardinality(InCount') = Cardinality(InCount) - 1
      BY <1>0, <3>2, ThreadSets
    <3>. QED BY <1>1, <2>1, <3>1, <3>3 DEF CountInv
  <2>3. CASE npc'[t] # "out"
    <3>1. InCount' = InCount
      BY <1>1, <1>9, <2>3 DEF NWaitReleased, NReturn, NGoto, InCount, Counted
    <3>. QED BY <1>2, <2>1, <3>1
  <2>. QED BY <2>2, <2>3
<1>10. CASE \/ NWaitRelease(t) \/ NWaitNotifier(t) \/ NWaitTake(t) \/ NWaitTimeout(t)
  <2>1. count' = count /\ InCount' = InCount /\ Coming' = Coming
    BY <1>1, <1>10 DEF NWaitRelease, NWaitNotifier, NWaitTake, NWaitTimeout, NGoto, notification,
                       InCount, Coming, Counted
  <2>. QED BY <1>2, <2>1
<1>11. CASE \/ NWaitProbe(t) \/ NWaitReset(t) \/ NWaitSetAnti(t) \/ NWaitClaim(t)
            \/ NWaitClaimed(t)
  <2>1. count' = count /\ InCount' = InCount /\ Coming' = Coming
    BY <1>1, <1>11 DEF NWaitProbe, NWaitReset, NWaitSetAnti, NWaitClaim, NWaitClaimed, NReturn,
                       NGoto, notification, InCount, Coming, Counted
  <2>. QED BY <1>2, <2>1
<1>12. CASE \/ NReleaseAnti(t) \/ NReleaseTest(t) \/ NReleaseTarget(t)
            \/ NReleaseResetAnti(t) \/ NReleaseSet(t)
  <2>1. count' = count /\ InCount' = InCount /\ Coming' = Coming
    BY <1>1, <1>12 DEF NReleaseAnti, NReleaseTest, NReleaseTarget, NReleaseResetAnti, NReleaseSet,
                       NReturn, NGoto, notification, InCount, Coming, Counted
  <2>. QED BY <1>2, <2>1
<1>. QED BY <1>3, <1>4, <1>5, <1>6, <1>7, <1>8, <1>9, <1>10, <1>11, <1>12
         DEF NStep, NCall, NAdvance, NTimeout

LEMMA NTypeStep ==
  ASSUME NotificationTypeOK, count' \in 0..Cardinality(Threads), overlapped' \in BOOLEAN,
         NEW t \in Threads, NStep(t)
  PROVE  NotificationTypeOK'
<1>. DEFINE Sizes == 0..Cardinality(Threads)
            Targets == {-1, 0, 1}
            Typed ==
              /\ notifier \in BOOLEAN /\ anti_notifier \in BOOLEAN
              /\ target \in Targets /\ count \in Sizes
              /\ npc \in [Threads -> NLabels]
              /\ ntimed \in [Threads -> BOOLEAN] /\ ntimeout \in [Threads -> BOOLEAN]
              /\ tmp1 \in [Threads -> Targets] /\ tmp2 \in [Threads -> Sizes]
              /\ overlapped \in BOOLEAN
<1>1. /\ Typed /\ count' \in Sizes /\ 0 \in Sizes
      /\ 0 \in Targets /\ 1 \in Targets /\ {0, -1} \subseteq Targets
      /\ Sizes' = Sizes /\ Targets' = Targets
  BY ThreadSets DEF NotificationTypeOK
<1>2. SUFFICES Typed'
  BY DEF NotificationTypeOK
<1>. HIDE DEF Sizes, Targets
<1>. USE <1>1
     DEF NLabels, Counted, Releasing, Completing, NGoto, nlocals,
         notification, SetEvent, ResetEvent, InterlockedCompareExchange
<1>0. ASSUME NEW from, NEW code, NReturn(t, from, code)
      PROVE  /\ npc' \in [Threads -> NLabels]
             /\ ntimed' \in [Threads -> BOOLEAN] /\ ntimeout' \in [Threads -> BOOLEAN]
             /\ tmp1' \in [Threads -> Targets] /\ tmp2' \in [Threads -> Sizes]
  BY <1>0 DEF NReturn
<1>3. CASE UNCHANGED notificationVars
  BY <1>3 DEF notificationVars
<1>4. ASSUME NEW limited \in BOOLEAN, WaitForNotification(t, limited) PROVE Typed'
  BY <1>0, <1>4 DEF WaitForNotification
<1>5. ASSUME NEW new \in {0, -1}, ReleaseNotification(t, new) PROVE Typed'
  BY <1>0, <1>5 DEF ReleaseNotification
<1>6. CASE NWaitAnti(t) \/ NWaitReleased(t) \/ NWaitClaimed(t)
  BY <1>0, <1>6 DEF NWaitAnti, NWaitReleased, NWaitClaimed
<1>7. CASE NWaitIncrement(t) \/ NWaitRelease(t) \/ NWaitNotifier(t) \/ NWaitClaim(t)
  BY <1>7 DEF NWaitIncrement, NWaitRelease, NWaitNotifier, NWaitClaim
<1>8. CASE NWaitTake(t)
  BY <1>8 DEF NWaitTake
<1>9. CASE NWaitDecrement(t) \/ NWaitProbe(t) \/ NWaitTimeout(t)
  <2>1. CASE NWaitDecrement(t)
    BY <2>1 DEF NWaitDecrement
  <2>2. CASE NWaitProbe(t)
    BY <2>2 DEF NWaitProbe
  <2>3. CASE NWaitTimeout(t)
    BY <2>3 DEF NWaitTimeout
  <2>4. QED
    BY <1>9, <2>1, <2>2, <2>3
<1>10. CASE NWaitLate(t)
  BY <1>10 DEF NWaitLate
<1>11. CASE NWaitReset(t) \/ NWaitSetAnti(t) \/ NReleaseAnti(t) \/ NReleaseResetAnti(t)
  BY <1>11 DEF NWaitReset, NWaitSetAnti, NReleaseAnti, NReleaseResetAnti
<1>12. CASE NReleaseTest(t) \/ NReleaseSet(t)
  BY <1>0, <1>12 DEF NReleaseTest, NReleaseSet
<1>13. CASE NReleaseTarget(t)
  BY <1>13 DEF NReleaseTarget
<1>. QED BY <1>3, <1>4, <1>5, <1>6, <1>7, <1>8, <1>9, <1>10, <1>11, <1>12, <1>13
         DEF NStep, NCall, NAdvance, NTimeout

LEMMA CountedInit == Init => CountedInv
<1>. SUFFICES ASSUME Init PROVE CountedInv
  OBVIOUS
<1>1. InCount = {} /\ Coming = {}
  BY DEF Init, InCount, Coming, Counted
<1>2. Cardinality(InCount) = 0 /\ Cardinality(Coming) = 0 /\ Cardinality(Threads) \in Nat
  BY <1>1, FS_EmptySet, ThreadSets
<1>3. CountInv
  BY <1>2 DEF Init, CountInv
<1>4. NotificationTypeOK
  <2>1. 0 \in 0..Cardinality(Threads) /\ 0 \in {-1, 0, 1} /\ 1 \in {-1, 0, 1}
    BY <1>2
  <2>. QED BY <2>1 DEF Init, NotificationTypeOK, NLabels
<1>. QED BY <1>3, <1>4 DEF CountedInv

LEMMA CountedStep ==
  ASSUME NotificationInv, CountedInv, [Next]_vars
  PROVE  CountedInv'
<1>1. CASE UNCHANGED vars
  BY <1>1 DEF CountedInv, NotificationTypeOK, CountInv, vars, lockVars, notificationVars,
              notification, nlocals, InCount, Coming
<1>2. CASE Next
  <2>1. crossed \in BOOLEAN /\ (~crossed' => ~crossed) /\ overlapped' \in BOOLEAN
    BY <1>2 DEF Next, NotificationInv
  <2>2. PICK t \in Threads : NStep(t)
    BY <1>2 DEF Next, NStep
  <2>3. ~crossed => \A u \in Threads : npc[u] = "n_releasing" /\ pc[u] = "idle" => result[u] = OK
    BY DEF NotificationInv, WhereInv
  <2>4. CountInv'
    BY <2>1, <2>2, <2>3, CountStep
  <2>5. count' \in 0..Cardinality(Threads)
    <3>1. InCount' \in SUBSET Threads /\ Coming' \in SUBSET Threads
      BY DEF InCount, Coming
    <3>2. /\ Cardinality(InCount') \in Nat /\ Cardinality(Coming') \in Nat
          /\ Cardinality(Threads) \in Nat
      BY <3>1, ThreadSets
    <3>. QED BY <2>4, <3>2 DEF CountInv
  <2>. QED BY <2>1, <2>2, <2>4, <2>5, NTypeStep DEF CountedInv
<1>. QED BY <1>1, <1>2

LEMMA CountedInvariant == Spec => [](NotificationInv /\ CountedInv)
<1>1. Init => NotificationInv /\ CountedInv
  BY NotificationInvInit, CountedInit
<1>2. NotificationInv /\ CountedInv /\ [Next]_vars => (NotificationInv /\ CountedInv)'
  BY NotificationInvStep, CountedStep
<1>. QED BY <1>1, <1>2, PTL DEF Spec

\* For any threads, the words of the notification keep their types, the count its
\* range, after a crossing too.
THEOREM NotificationTypeCorrect == Spec => []NotificationTypeOK
<1>1. NotificationInv /\ CountedInv => NotificationTypeOK
  BY DEF CountedInv
<1>. QED BY <1>1, CountedInvariant, PTL

\* For any threads, the count that a release decides by is the number of threads
\* that wait, although they count themselves outside any lock.
THEOREM CountCountsWaiters == Spec => []CountIsWaiters
<1>1. NotificationInv /\ CountedInv => CountIsWaiters
  BY DEF CountedInv, CountInv, InCount, CountIsWaiters
<1>. QED BY <1>1, CountedInvariant, PTL

-----------------------------------------------------------------------------
(* The handshake.                                                          *)

\* The handshake: what is behind a reset anti-notifier, a release that is being
\* made and one that is handed out.
HandInv ==
  /\ ~anti_notifier => notifier \/ \E t \in Threads : npc[t] \in {"s_set", "n_set"}
  /\ \A t \in Threads :
       /\ npc[t] \in {"s_count", "s_target", "s_reset"} => anti_notifier
       /\ npc[t] \in {"s_anti", "s_count"} \cup Releasing => tmp1[t] \in {0, -1}
       /\ npc[t] \in {"s_reset", "s_set"} => target = tmp1[t]
       /\ npc[t] \in Releasing => \E u \in Threads : npc[u] \in Counted
  /\ ~anti_notifier =>
       \/ \E t \in Threads : npc[t] \in {"s_set"} \cup Completing
       \/ \E t \in Threads : npc[t] = "n_dec" /\ (tmp1[t] = 0 \/ target = -1)
       \/ /\ notifier /\ target # 1
          /\ \E t \in Threads : npc[t] \in Counted \/ (npc[t] = "n_probe" /\ tmp2[t] = 0)

HandshakeInv ==
  /\ NotificationInv /\ CountedInv
  /\ Overlap => overlapped
  /\ ~crossed /\ ~overlapped => HandInv

\* A step keeps the handshake, unless it overlaps a waiter that is leaving.  There
\* is one release at a time, for its thread owns the lock; the target it has set
\* stays, for a waiter that took it would overlap; and the last waiter to leave
\* sees that it is the last.
LEMMA HandStep ==
  ASSUME NotificationInv, CountedInv, CountedInv', HandInv, ~crossed, ~crossed', ~Overlap, ~Overlap',
         NEW t \in Threads, NStep(t)
  PROVE  HandInv'
<1>. DEFINE Types ==
       /\ notifier \in BOOLEAN /\ anti_notifier \in BOOLEAN /\ target \in {-1, 0, 1}
       /\ count \in Int /\ npc \in [Threads -> NLabels]
       /\ tmp1 \in [Threads -> {-1, 0, 1}] /\ tmp2 \in [Threads -> Int]
     SomeWait == \E u \in Threads : npc[u] \in Counted
<1>1. Types /\ count' \in Nat /\ tmp2'[t] \in Int
  BY ThreadSets DEF CountedInv, NotificationTypeOK
<1>2. (count > 0 => SomeWait) /\ (count' > 0 => SomeWait')
  <2>1. count = Cardinality(InCount) /\ count' = Cardinality(InCount')
    BY DEF CountedInv, CountInv
  <2>2. (InCount = {} => count = 0) /\ (InCount' = {} => count' = 0)
    BY <2>1, FS_EmptySet
  <2>. QED BY <1>1, <2>2 DEF InCount
<1>3. \A u, v \in Threads : npc[u] \in With /\ npc[v] \in With => u = v
  BY DEF NotificationInv, WhereInv
<1>4. npc[t] = "n_releasing" /\ pc[t] = "idle" => result[t] = OK
  BY DEF NotificationInv, WhereInv
<1>. USE <1>1
     DEF NGoto, NReturn, nlocals, notification, HandInv, Counted, Releasing, Completing
<1>5. CASE UNCHANGED notificationVars
  BY <1>5 DEF notificationVars
<1>6. ASSUME NEW limited \in BOOLEAN, WaitForNotification(t, limited) PROVE HandInv'
  BY <1>6 DEF WaitForNotification
<1>7. ASSUME NEW new \in {0, -1}, ReleaseNotification(t, new) PROVE HandInv'
  BY <1>7 DEF ReleaseNotification
<1>8. CASE NWaitAnti(t)
  BY <1>8 DEF NWaitAnti
<1>9. CASE NWaitIncrement(t) \/ NWaitRelease(t) \/ NWaitNotifier(t)
  BY <1>9 DEF NWaitIncrement, NWaitRelease, NWaitNotifier
<1>10. CASE NWaitReleased(t)
  BY <1>4, <1>10 DEF NWaitReleased
<1>11. CASE NWaitTimeout(t)
  BY <1>11 DEF NWaitTimeout
<1>12. CASE NWaitTake(t)
  BY <1>12 DEF NWaitTake, InterlockedCompareExchange, Overlap
<1>13. CASE NWaitDecrement(t)
  BY <1>2, <1>13 DEF NWaitDecrement, Overlap
<1>14. CASE NWaitLate(t)
  BY <1>2, <1>14 DEF NWaitLate, Overlap
<1>15. CASE NWaitProbe(t)
  BY <1>15 DEF NWaitProbe
<1>16. CASE NWaitReset(t) \/ NWaitSetAnti(t)
  BY <1>16 DEF NWaitReset, NWaitSetAnti, SetEvent, ResetEvent
<1>17. CASE NWaitClaim(t) \/ NWaitClaimed(t)
  <2>1. /\ npc[t] \in {"n_claim", "n_claiming"}
        /\ npc' = [npc EXCEPT ![t] = IF npc[t] = "n_claim" THEN "n_claiming" ELSE "out"]
        /\ \A u \in Threads : u # t => tmp1'[u] = tmp1[u] /\ tmp2'[u] = tmp2[u]
        /\ UNCHANGED notification
    BY <1>17 DEF NWaitClaim, NWaitClaimed
  <2>. QED BY <2>1
<1>18. CASE NReleaseAnti(t)
  BY <1>18 DEF NReleaseAnti
<1>19. CASE NReleaseTest(t)
  BY <1>2, <1>19 DEF NReleaseTest
<1>20. CASE NReleaseTarget(t)
  BY <1>3, <1>20 DEF NReleaseTarget, With
<1>21. CASE NReleaseResetAnti(t)
  BY <1>3, <1>21 DEF NReleaseResetAnti, ResetEvent, With
<1>22. CASE NReleaseSet(t)
  BY <1>22 DEF NReleaseSet, SetEvent
<1>. QED BY <1>5, <1>6, <1>7, <1>8, <1>9, <1>10, <1>11, <1>12, <1>13, <1>14, <1>15, <1>16, <1>17,
            <1>18, <1>19, <1>20, <1>21, <1>22
         DEF NStep, NCall, NAdvance, NTimeout

LEMMA HandshakeStep ==
  ASSUME HandshakeInv, [Next]_vars
  PROVE  HandshakeInv'
<1>1. NotificationInv' /\ CountedInv'
  BY NotificationInvStep, CountedStep DEF HandshakeInv
<1>2. CASE UNCHANGED vars
  BY <1>1, <1>2 DEF HandshakeInv, HandInv, Overlap, vars, lockVars, notificationVars,
                    notification, nlocals
<1>3. CASE Next
  <2>1. Overlap' => overlapped'
    BY <1>3 DEF Next
  <2>2. ASSUME ~crossed', ~overlapped' PROVE HandInv'
    <3>1. ~crossed /\ ~overlapped /\ ~Overlap /\ ~Overlap'
      BY <1>3, <2>2 DEF Next, HandshakeInv
    <3>2. PICK t \in Threads : NStep(t)
      BY <1>3 DEF Next, NStep
    <3>. QED BY <1>1, <2>2, <3>1, <3>2, HandStep DEF HandshakeInv
  <2>. QED BY <1>1, <2>1, <2>2 DEF HandshakeInv
<1>. QED BY <1>2, <1>3

\* For any threads, a reset anti-notifier is set again by somebody: a release
\* that was begun has a waiter that will complete it, a waiter that times out
\* among them, unless a release overlaps the last steps of one.
THEOREM HandshakeIsNeverHalfDone == Spec => []HandshakeIsCompleted
<1>1. Init => HandshakeInv
  <2>. SUFFICES ASSUME Init PROVE HandshakeInv
    OBVIOUS
  <2>1. \A t \in Threads : npc[t] = "out"
    BY DEF Init
  <2>2. HandInv /\ ~Overlap
    BY <2>1 DEF Init, HandInv, Overlap, Releasing
  <2>. QED BY <2>2, NotificationInvInit, CountedInit DEF HandshakeInv
<1>2. HandshakeInv /\ [Next]_vars => HandshakeInv'
  BY HandshakeStep
<1>3. HandshakeInv => HandshakeIsCompleted
  BY DEF HandshakeInv, HandInv, HandshakeIsCompleted
<1>. QED BY <1>1, <1>2, <1>3, PTL DEF Spec
=============================================================================
