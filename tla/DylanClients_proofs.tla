------------------------- MODULE DylanClients_proofs -------------------------
(***************************************************************************)
(* Proofs about the two clients of the threads primitives that are written *)
(* in Dylan: ReadWriteLock, for any set of threads, finite or not, and any *)
(* bound on the claims in read mode, and Finalization, for any clients,    *)
(* draining threads and objects.  The two share neither constants nor      *)
(* variables.                                                              *)
(***************************************************************************)
EXTENDS ReadWriteLock, Finalization, FiniteSetTheorems, TLAPS

\* The claims in read mode can be counted.
ReadsInv == IsFiniteSet(reads)

\* The inner lock belongs to the thread inside with-lock and not in the part of
\* wait-for (monitor) that gives it up, and notification->mutex to the thread in
\* a critical section of the notification.
InnerInv == \A t \in Threads : inner = t <=> pc[t] \in Owning
NMutexInv == \A t \in Threads : nmutex = t <=> pc[t] \in Inside

\* A thread that is blocked on the condition variable is in wait-for (monitor):
\* the mode it wants does not change until it has the inner lock again.
WaitingInv == \A t \in waiting : pc[t] = "w_wait"

PlaceInv == InnerInv /\ NMutexInv /\ WaitingInv

LockInv ==
  /\ TypeOK /\ ReadsInv /\ PlaceInv
  /\ ReadersAndWritersExclude /\ NoSleeperOnFreeLock

-----------------------------------------------------------------------------
(* Types.                                                                  *)

LEMMA TypeStep ==
  ASSUME TypeOK, [Next]_vars
  PROVE  TypeOK'
<1>. USE ReadWriteLockAssumption
     DEF TypeOK, ThreadOrNone, Labels, Read, Write, Goto, clients, MutexLock, MutexUnlock,
         CondBlock, CondLeave, CondBroadcast
<1>1. CASE UNCHANGED vars
  BY <1>1 DEF vars
<1>2. ASSUME NEW t \in Threads, NEW m \in {Read, Write}, NEW limited \in BOOLEAN,
             WaitFor(t, m, limited)
      PROVE  TypeOK'
  BY <1>2 DEF WaitFor
<1>3. ASSUME NEW t \in Threads, Release(t) \/ WaitLockInner(t) \/ WaitFail(t) \/ WaitBlock(t)
      PROVE  TypeOK'
  BY <1>3 DEF Release, WaitLockInner, WaitFail, WaitBlock
<1>4. ASSUME NEW t \in Threads, WaitClaim(t) PROVE TypeOK'
  <2>1. CASE mode[t] = Write
    BY <1>4, <2>1 DEF WaitClaim
  <2>2. CASE mode[t] = Read
    <3>1. state \in Nat
      BY <1>4, <2>2 DEF WaitClaim, FreeFor
    <3>2. state' \in Nat
      BY <1>4, <2>2, <3>1 DEF WaitClaim
    <3>3. PICK k \in 1 .. MaxReads : reads' = reads \cup {<<t, k>>}
      BY <1>4, <2>2 DEF WaitClaim
    <3>4. reads' \subseteq Threads \X (1 .. MaxReads)
      BY <3>3
    <3>. QED BY <1>4, <2>2, <3>2, <3>4 DEF WaitClaim
  <2>. QED BY <2>1, <2>2
<1>5. ASSUME NEW t \in Threads, ReleaseLockInner(t) \/ ReleaseWrite(t) \/ ReleaseError(t)
      PROVE  TypeOK'
  BY <1>5 DEF ReleaseLockInner, ReleaseWrite, ReleaseError
<1>6. ASSUME NEW t \in Threads, ReleaseRead(t) PROVE TypeOK'
  <2>1. state' \in Nat
    BY <1>6 DEF ReleaseRead, LockedForReading
  <2>2. reads' \subseteq reads
    BY <1>6 DEF ReleaseRead
  <2>. QED BY <1>6, <2>1, <2>2 DEF ReleaseRead
<1>7. ASSUME NEW t \in Threads,
             NWaitLockMutex(t) \/ NWaitRelease(t) \/ NWaitBlock(t) \/ NWaitWake(t)
      PROVE  TypeOK'
  BY <1>7 DEF NWaitLockMutex, NWaitRelease, NWaitBlock, NWaitWake
<1>8. ASSUME NEW t \in Threads,
             NWaitClaim(t) \/ NWaitUnlock(t) \/ NWaitSpurious(t) \/ NWaitTimeout(t)
      PROVE  TypeOK'
  BY <1>8 DEF NWaitClaim, NWaitUnlock, NWaitSpurious, NWaitTimeout
<1>9. ASSUME NEW t \in Threads,
             NReleaseLockMutex(t) \/ NReleaseBroadcast(t) \/ NReleaseUnlock(t) \/ Unlock(t)
      PROVE  TypeOK'
  BY <1>9 DEF NReleaseLockMutex, NReleaseBroadcast, NReleaseUnlock, Unlock
<1>. QED BY <1>1, <1>2, <1>3, <1>4, <1>5, <1>6, <1>7, <1>8, <1>9
         DEF Next, Call, Advance, WaitStep, ReleaseStep

-----------------------------------------------------------------------------
(* The two locks.                                                          *)

LEMMA PlaceStep ==
  ASSUME TypeOK, PlaceInv, [Next]_vars
  PROVE  PlaceInv'
<1>. USE NoThreadAssumption
     DEF TypeOK, ThreadOrNone, PlaceInv, InnerInv, NMutexInv, WaitingInv, Owning, Inside, Goto,
         MutexLock, MutexUnlock, CondBlock, CondLeave, CondBroadcast
<1>1. CASE UNCHANGED vars
  BY <1>1 DEF vars
<1>2. ASSUME NEW t \in Threads, NEW m \in {Read, Write}, NEW limited \in BOOLEAN,
             WaitFor(t, m, limited)
      PROVE  PlaceInv'
  BY <1>2 DEF WaitFor
<1>3. ASSUME NEW t \in Threads, Release(t) \/ WaitLockInner(t) \/ WaitFail(t) \/ WaitBlock(t)
      PROVE  PlaceInv'
  BY <1>3 DEF Release, WaitLockInner, WaitFail, WaitBlock
<1>4. ASSUME NEW t \in Threads, WaitClaim(t) PROVE PlaceInv'
  BY <1>4 DEF WaitClaim
<1>5. ASSUME NEW t \in Threads, ReleaseLockInner(t) \/ ReleaseWrite(t) \/ ReleaseError(t)
      PROVE  PlaceInv'
  BY <1>5 DEF ReleaseLockInner, ReleaseWrite, ReleaseError
<1>6. ASSUME NEW t \in Threads, ReleaseRead(t) PROVE PlaceInv'
  <2>1. PICK to \in {"a_mutex", "unlock"} : Goto(t, "r_body", to)
    BY <1>6 DEF ReleaseRead
  <2>. QED BY <1>6, <2>1 DEF ReleaseRead
<1>7. ASSUME NEW t \in Threads, NWaitLockMutex(t) \/ NWaitRelease(t) PROVE PlaceInv'
  BY <1>7 DEF NWaitLockMutex, NWaitRelease
<1>8. ASSUME NEW t \in Threads, NWaitBlock(t) \/ NWaitWake(t) PROVE PlaceInv'
  BY <1>8 DEF NWaitBlock, NWaitWake
<1>9. ASSUME NEW t \in Threads,
             NWaitClaim(t) \/ NWaitUnlock(t) \/ NWaitSpurious(t) \/ NWaitTimeout(t)
      PROVE  PlaceInv'
  BY <1>9 DEF NWaitClaim, NWaitUnlock, NWaitSpurious, NWaitTimeout
<1>10. ASSUME NEW t \in Threads,
              NReleaseLockMutex(t) \/ NReleaseBroadcast(t) \/ NReleaseUnlock(t) \/ Unlock(t)
       PROVE  PlaceInv'
  BY <1>10 DEF NReleaseLockMutex, NReleaseBroadcast, NReleaseUnlock, Unlock
<1>. QED BY <1>1, <1>2, <1>3, <1>4, <1>5, <1>6, <1>7, <1>8, <1>9, <1>10
         DEF Next, Call, Advance, WaitStep, ReleaseStep

-----------------------------------------------------------------------------
(* The count of readers, and the writer.                                   *)

\* A claim in either mode keeps them apart.
LEMMA ClaimExcludes ==
  ASSUME TypeOK, ReadsInv, ReadersAndWritersExclude, NEW t \in Threads, WaitClaim(t)
  PROVE  ReadsInv' /\ ReadersAndWritersExclude'
<1>1. state \in Nat /\ writers = {} /\ state = Cardinality(reads)
  BY ReadWriteLockAssumption
  DEF WaitClaim, FreeFor, TypeOK, Read, Write, ReadersAndWritersExclude
<1>2. CASE mode[t] = Write
  <2>1. Cardinality(reads) = 0
    BY <1>1, <1>2 DEF WaitClaim, FreeFor
  <2>2. reads = {}
    BY <2>1, FS_EmptySet DEF ReadsInv
  <2>3. state' = t /\ writers' = {t} /\ reads' = {}
    BY <1>1, <1>2, <2>2 DEF WaitClaim, Read, Write
  <2>. QED BY <2>3, FS_EmptySet DEF ReadsInv, ReadersAndWritersExclude
<1>3. CASE mode[t] # Write
  <2>1. state' = state + 1 /\ writers' = writers
    BY <1>3 DEF WaitClaim
  <2>2. PICK k \in 1 .. MaxReads : <<t, k>> \notin reads /\ reads' = reads \cup {<<t, k>>}
    BY <1>3 DEF WaitClaim
  <2>3. IsFiniteSet(reads') /\ Cardinality(reads') = Cardinality(reads) + 1
    BY <2>2, FS_AddElement DEF ReadsInv
  <2>. QED BY <1>1, <2>1, <2>3 DEF ReadsInv, ReadersAndWritersExclude
<1>. QED BY <1>2, <1>3

\* So does a release, by whichever thread.
LEMMA ReleaseExcludes ==
  ASSUME TypeOK, ReadsInv, ReadersAndWritersExclude, NEW t \in Threads,
         ReleaseWrite(t) \/ ReleaseRead(t)
  PROVE  ReadsInv' /\ ReadersAndWritersExclude'
<1>0. Cardinality(reads) \in Nat
  BY FS_CardinalityType DEF ReadsInv
<1>1. CASE ReleaseWrite(t)
  <2>1. writers = {t} /\ reads = {}
    BY <1>0, <1>1, ReadWriteLockAssumption
    DEF ReleaseWrite, LockedForWriting, ReadersAndWritersExclude
  <2>2. state' = 0 /\ writers' = {} /\ reads' = {}
    BY <1>1, <2>1 DEF ReleaseWrite
  <2>. QED BY <2>2, FS_EmptySet DEF ReadsInv, ReadersAndWritersExclude
<1>2. CASE ReleaseRead(t)
  <2>1. state \in Nat /\ writers = {} /\ state = Cardinality(reads)
    BY <1>2, ReadWriteLockAssumption DEF ReleaseRead, LockedForReading, ReadersAndWritersExclude
  <2>2. PICK c \in reads : reads' = reads \ {c}
    BY <1>2 DEF ReleaseRead, ReadsOf
  <2>3. IsFiniteSet(reads') /\ Cardinality(reads') = Cardinality(reads) - 1
    BY <2>2, FS_RemoveElement DEF ReadsInv
  <2>4. state' = state - 1 /\ writers' = writers
    BY <1>2 DEF ReleaseRead
  <2>. QED BY <2>1, <2>3, <2>4 DEF ReadsInv, ReadersAndWritersExclude
<1>. QED BY <1>1, <1>2

LEMMA ExcludeStep ==
  ASSUME TypeOK, ReadsInv, ReadersAndWritersExclude, [Next]_vars
  PROVE  ReadsInv' /\ ReadersAndWritersExclude'
<1>1. CASE \E t \in Threads : WaitClaim(t)
  BY <1>1, ClaimExcludes
<1>2. CASE \E t \in Threads : ReleaseWrite(t) \/ ReleaseRead(t)
  BY <1>2, ReleaseExcludes
<1>3. CASE UNCHANGED <<state, reads, writers>>
  BY <1>3 DEF ReadsInv, ReadersAndWritersExclude
<1>. QED BY <1>1, <1>2, <1>3
         DEF Next, Call, Advance, WaitStep, ReleaseStep, vars, clients, WaitFor, Release,
             WaitLockInner, WaitFail, WaitBlock, ReleaseLockInner, ReleaseError, Unlock,
             NWaitLockMutex, NWaitRelease, NWaitBlock, NWaitSpurious, NWaitTimeout, NWaitWake,
             NWaitClaim, NWaitUnlock, NReleaseLockMutex, NReleaseBroadcast, NReleaseUnlock

-----------------------------------------------------------------------------
(* The sleepers.                                                           *)

\* A step that changes neither state nor the modes, adds nobody to the sleepers
\* and stops no release-all before its broadcast.
LEMMA QuietStep ==
  ASSUME NoSleeperOnFreeLock, UNCHANGED state, Sleepers' \subseteq Sleepers,
         \A s \in Sleepers' : mode'[s] = mode[s],
         NEW t \in Threads, \A s \in Threads \ {t} : pc'[s] = pc[s],
         pc[t] \in {"a_mutex", "a_signal"} => pc'[t] \in {"a_mutex", "a_signal"}
  PROVE  NoSleeperOnFreeLock'
BY DEF NoSleeperOnFreeLock, FreeFor

LEMMA SleepStep ==
  ASSUME TypeOK, PlaceInv, NoSleeperOnFreeLock, [Next]_vars
  PROVE  NoSleeperOnFreeLock'
<1>. USE DEF TypeOK, PlaceInv, WaitingInv, Goto, Sleepers
<1>1. CASE UNCHANGED vars
  BY <1>1 DEF vars, NoSleeperOnFreeLock, FreeFor
<1>2. ASSUME NEW t \in Threads, NEW m \in {Read, Write}, NEW limited \in BOOLEAN,
             WaitFor(t, m, limited)
      PROVE  NoSleeperOnFreeLock'
  <2>1. t \notin Sleepers
    BY <1>2 DEF WaitFor
  <2>. QED BY <1>2, <2>1, QuietStep DEF WaitFor
<1>3. ASSUME NEW t \in Threads, Release(t) \/ WaitLockInner(t) \/ WaitFail(t)
      PROVE  NoSleeperOnFreeLock'
  BY <1>3, QuietStep DEF Release, WaitLockInner, WaitFail, clients
<1>4. ASSUME NEW t \in Threads, WaitBlock(t) PROVE NoSleeperOnFreeLock'
  BY <1>4 DEF WaitBlock, clients, NoSleeperOnFreeLock, FreeFor
<1>5. ASSUME NEW t \in Threads, WaitClaim(t) PROVE NoSleeperOnFreeLock'
  <2>. SUFFICES ASSUME NEW s \in Sleepers', FreeFor(s)'
                PROVE  \E u \in Threads : pc'[u] \in {"a_mutex", "a_signal"}
    BY DEF NoSleeperOnFreeLock
  <2>1. s \in Sleepers
    BY <1>5 DEF WaitClaim
  <2>2. state \in Nat /\ mode[s] # Write
    BY <1>5, ReadWriteLockAssumption DEF WaitClaim, FreeFor, Read, Write
  <2>3. PICK u \in Threads : pc[u] \in {"a_mutex", "a_signal"}
    BY <2>1, <2>2 DEF NoSleeperOnFreeLock, FreeFor
  <2>4. pc'[u] = pc[u]
    BY <1>5, <2>3 DEF WaitClaim
  <2>. QED BY <2>3, <2>4
<1>6. ASSUME NEW t \in Threads, ReleaseLockInner(t) \/ ReleaseError(t)
      PROVE  NoSleeperOnFreeLock'
  BY <1>6, QuietStep DEF ReleaseLockInner, ReleaseError, clients
<1>7. ASSUME NEW t \in Threads, ReleaseWrite(t) PROVE NoSleeperOnFreeLock'
  BY <1>7 DEF ReleaseWrite, NoSleeperOnFreeLock
<1>8. ASSUME NEW t \in Threads, ReleaseRead(t) PROVE NoSleeperOnFreeLock'
  <2>1. CASE state - 1 = 0
    BY <1>8, <2>1 DEF ReleaseRead, NoSleeperOnFreeLock
  <2>2. CASE state - 1 # 0
    <3>. SUFFICES ASSUME NEW s \in Sleepers', FreeFor(s)'
                  PROVE  \E u \in Threads : pc'[u] \in {"a_mutex", "a_signal"}
      BY DEF NoSleeperOnFreeLock
    <3>1. s \in Sleepers /\ mode[s] # Write /\ state \in Nat
      BY <1>8, <2>2 DEF ReleaseRead, FreeFor, LockedForReading
    <3>2. PICK u \in Threads : pc[u] \in {"a_mutex", "a_signal"}
      BY <3>1 DEF NoSleeperOnFreeLock, FreeFor
    <3>3. pc'[u] = pc[u]
      BY <1>8, <3>2 DEF ReleaseRead
    <3>. QED BY <3>2, <3>3
  <2>. QED BY <2>1, <2>2
<1>9. ASSUME NEW t \in Threads, NWaitLockMutex(t) \/ NWaitRelease(t) \/ NWaitBlock(t)
      PROVE  NoSleeperOnFreeLock'
  BY <1>9, QuietStep DEF NWaitLockMutex, NWaitRelease, NWaitBlock, CondBlock, clients
<1>10. ASSUME NEW t \in Threads, NWaitWake(t) \/ NWaitClaim(t) \/ NWaitUnlock(t)
       PROVE  NoSleeperOnFreeLock'
  BY <1>10, QuietStep DEF NWaitWake, NWaitClaim, NWaitUnlock, clients
<1>11. ASSUME NEW t \in Threads, NWaitSpurious(t) \/ NWaitTimeout(t)
       PROVE  NoSleeperOnFreeLock'
  BY <1>11, QuietStep DEF NWaitSpurious, NWaitTimeout, CondLeave, clients
<1>12. ASSUME NEW t \in Threads, NReleaseLockMutex(t) \/ NReleaseUnlock(t)
       PROVE  NoSleeperOnFreeLock'
  BY <1>12, QuietStep DEF NReleaseLockMutex, NReleaseUnlock, clients
<1>13. ASSUME NEW t \in Threads, NReleaseBroadcast(t) PROVE NoSleeperOnFreeLock'
  \* Who is going to sleep has one of the locks that the broadcasting thread has.
  <2>1. Sleepers' = {}
    BY <1>13 DEF NReleaseBroadcast, CondBroadcast, InnerInv, NMutexInv, Owning, Inside
  <2>. QED BY <2>1 DEF NoSleeperOnFreeLock
<1>14. ASSUME NEW t \in Threads, Unlock(t) PROVE NoSleeperOnFreeLock'
  <2>1. t \notin Sleepers
    BY <1>14 DEF Unlock
  <2>. QED BY <1>14, <2>1, QuietStep DEF Unlock
<1>. QED BY <1>1, <1>2, <1>3, <1>4, <1>5, <1>6, <1>7, <1>8, <1>9, <1>10, <1>11, <1>12, <1>13,
            <1>14
         DEF Next, Call, Advance, WaitStep, ReleaseStep

-----------------------------------------------------------------------------
(* What follows.                                                           *)

LEMMA LockInvariant == Spec => []LockInv
<1>1. Init => LockInv
  <2>. SUFFICES ASSUME Init PROVE LockInv
    OBVIOUS
  <2>1. TypeOK /\ PlaceInv /\ NoSleeperOnFreeLock
    BY NoThreadAssumption
    DEF Init, TypeOK, ThreadOrNone, Labels, Read, PlaceInv, InnerInv, NMutexInv, WaitingInv,
        Owning, Inside, NoSleeperOnFreeLock, Sleepers
  <2>2. ReadsInv /\ ReadersAndWritersExclude
    BY FS_EmptySet DEF Init, ReadsInv, ReadersAndWritersExclude
  <2>. QED BY <2>1, <2>2 DEF LockInv
<1>2. LockInv /\ [Next]_vars => LockInv'
  BY TypeStep, PlaceStep, ExcludeStep, SleepStep DEF LockInv
<1>. QED BY <1>1, <1>2, PTL DEF Spec

\* For any threads, a writer has the lock alone and the count of readers is the
\* number of claims in read mode, whoever calls release.
THEOREM ReadersAndWritersAreApart == Spec => []ReadersAndWritersExclude
<1>1. LockInv => ReadersAndWritersExclude
  BY DEF LockInv
<1>. QED BY <1>1, LockInvariant, PTL

\* For any threads, none sleeps, or goes to sleep, while it could have the lock,
\* unless a release-all is still to broadcast: it is called whenever the state
\* comes to let a waiting thread in, and misses nobody.
THEOREM NobodySleepsOnFreeLock == Spec => []NoSleeperOnFreeLock
<1>1. LockInv => NoSleeperOnFreeLock
  BY DEF LockInv
<1>. QED BY <1>1, LockInvariant, PTL

-----------------------------------------------------------------------------
(* Finalization.                                                           *)

\* Labels of the steps of the setter made with *automatic-finalization-lock*.
Locked == {"on_test", "off_set", "on_drain", "on_make", "on_set", "unlock"}

\* The lock belongs to the client inside the setter.
SetterLockInv == \A c \in Clients : automaticLock = c <=> place[c] \in Locked

\* The flag says at every moment whether there is a draining thread, and an
\* enabled switch has one.
ActiveInv ==
  /\ \A d, e \in Draining : d = e
  /\ active <=> Draining # {}
  /\ automatic => active

\* A client that makes the thread has found none, one that is about to set the
\* switch has one.
SetterInv ==
  \A c \in Clients :
    /\ place[c] \in ClientLabels
    /\ place[c] \in {"on_drain", "on_make"} => ~active
    /\ place[c] = "on_set" => active

DrainInv ==
  /\ FinalizationTypeOK /\ \A d \in Drainers : place[d] \in DrainerLabels
  /\ SetterLockInv /\ ActiveInv /\ SetterInv

-----------------------------------------------------------------------------
LEMMA DrainStep ==
  ASSUME DrainInv, [FinalizationNext]_finalizationVars
  PROVE  DrainInv'
<1>. USE FinalizationAssumption
     DEF DrainInv, FinalizationTypeOK, SetterLockInv, ActiveInv, SetterInv, Draining, Locked,
         ClientLabels, DrainerLabels, Move
<1>1. CASE UNCHANGED finalizationVars
  BY <1>1 DEF finalizationVars
<1>2. ASSUME NEW o \in Objects, Unreachable(o) PROVE DrainInv'
  BY <1>2 DEF Unreachable
<1>3. ASSUME NEW c \in Clients, NEW newval \in BOOLEAN, SetEnabled(c, newval) PROVE DrainInv'
  BY <1>3 DEF SetEnabled
<1>4. ASSUME NEW c \in Clients, SetterStep(c) PROVE DrainInv'
  <2>1. CASE SetterLock(c)
    BY <2>1 DEF SetterLock
  <2>2. CASE SetOff(c)
    BY <2>2 DEF SetOff
  <2>3. CASE SetOn(c)
    BY <2>3 DEF SetOn
  <2>4. CASE SetterDrain(c)
    BY <2>4 DEF SetterDrain, FinalizeFirst
  <2>5. CASE SetterMakeThread(c)
    BY <2>5 DEF SetterMakeThread
  <2>6. CASE SetterSet(c)
    BY <2>6 DEF SetterSet
  <2>7. CASE SetterUnlock(c)
    BY <2>7 DEF SetterUnlock
  <2>. QED BY <1>4, <2>1, <2>2, <2>3, <2>4, <2>5, <2>6, <2>7 DEF SetterStep
<1>5. ASSUME NEW d \in Drainers, DrainerStep(d) PROVE DrainInv'
  <2>1. CASE Continue(d)
    BY <2>1 DEF Continue
  <2>2. CASE Sleep(d)
    BY <2>2 DEF Sleep
  <2>3. CASE Drain(d)
    BY <2>3 DEF Drain, FinalizeFirst
  <2>. QED BY <1>5, <2>1, <2>2, <2>3 DEF DrainerStep
<1>. QED BY <1>1, <1>2, <1>3, <1>4, <1>5 DEF FinalizationNext

\* However the switch is flicked there is at most one draining thread, the flag
\* and the switch agree with it when nobody is inside the setter.
THEOREM AtMostOneDrainingThread == FinalizationSpec => []OneDrainingThread
<1>1. FinalizationInit => DrainInv
  BY FinalizationAssumption
  DEF FinalizationInit, DrainInv, FinalizationTypeOK, SetterLockInv, ActiveInv, SetterInv,
      Draining, Locked, ClientLabels, DrainerLabels
<1>2. DrainInv /\ [FinalizationNext]_finalizationVars => DrainInv'
  BY DrainStep
<1>3. DrainInv => OneDrainingThread
  BY DEF DrainInv, ActiveInv, OneDrainingThread
<1>. QED BY <1>1, <1>2, <1>3, PTL DEF FinalizationSpec
=============================================================================
