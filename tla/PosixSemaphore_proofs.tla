----------------------- MODULE PosixSemaphore_proofs -----------------------
(***************************************************************************)
(* Proofs about PosixSemaphore, for any threads and any maximum.           *)
(***************************************************************************)
EXTENDS PosixSemaphore, FiniteSetTheorems, TLAPS

\* A thread at a step made with semaphore->mutex locked is the one that has it.
\* The converse does not hold: a release of a full semaphore leaves it locked.
InsideInv == \A t \in Threads : pc[t] \in Inside => mutex = t

\* What a thread has tested under the mutex is still so when it acts on it, and
\* a thread that times out does not take a unit.
TestedInv ==
  \A t \in Threads :
    /\ pc[t] = "w_take" => count > 0
    /\ pc[t] = "r_add" => count < MaxCount

\* The wakeups that are under way.
Wakeups == Signals \cup Awake

\* A blocked thread is in its cond wait and has not timed out; a thread that
\* timed out is on its way out of the wait.
BlockedInv ==
  /\ \A t \in blocked : pc[t] = "w_sleep" /\ ~timeout[t]
  /\ \A t \in Threads : timeout[t] => pc[t] \in {"w_sleep", "w_test", "w_unlock"}

\* A thread that goes to sleep has found no unit, and while it has the mutex none
\* is added.
WindowInv == \A t \in Threads : pc[t] = "w_block" => count <= 0

\* While anybody sleeps there is a wakeup under way for every free unit.
MeetInv == blocked # {} => Cardinality(Wakeups) >= count

CountInv == TypeOK /\ InsideInv /\ TestedInv /\ CountInRange

-----------------------------------------------------------------------------
LEMMA CountStep ==
  ASSUME CountInv, [Next]_vars
  PROVE  CountInv'
<1>. USE NoThreadAssumption, SemaphoreAssumption
     DEF CountInv, TypeOK, ThreadOrNone, InsideInv, TestedInv, CountInRange, Inside, Labels,
         Goto, MutexLock, MutexUnlock, CondBlock, CondSignal, CondLeave
<1>1. CASE UNCHANGED vars
  BY <1>1 DEF vars
<1>2. ASSUME NEW t \in Threads, Call(t) PROVE CountInv'
  BY <1>2 DEF Call, WaitForSemaphore, ReleaseSemaphore
<1>3. ASSUME NEW t \in Threads, Advance(t) PROVE CountInv'
  <2>1. CASE WaitLockMutex(t)
    BY <2>1 DEF WaitLockMutex
  <2>2. CASE WaitTest(t)
    BY <2>2 DEF WaitTest
  <2>3. CASE WaitBlock(t)
    BY <2>3 DEF WaitBlock
  <2>4. CASE WaitWake(t)
    BY <2>4 DEF WaitWake
  <2>5. CASE WaitTake(t)
    BY <2>5 DEF WaitTake
  <2>6. CASE WaitUnlock(t)
    BY <2>6 DEF WaitUnlock
  <2>7. CASE ReleaseLockMutex(t)
    BY <2>7 DEF ReleaseLockMutex
  <2>8. CASE ReleaseTest(t)
    BY <2>8 DEF ReleaseTest
  <2>9. CASE ReleaseAdd(t)
    BY <2>9 DEF ReleaseAdd
  <2>10. CASE ReleaseUnlock(t)
    BY <2>10 DEF ReleaseUnlock
  <2>11. CASE ReleaseSignal(t)
    BY <2>11 DEF ReleaseSignal
  <2>. QED BY <1>3, <2>1, <2>2, <2>3, <2>4, <2>5, <2>6, <2>7, <2>8, <2>9, <2>10, <2>11
           DEF Advance
<1>4. ASSUME NEW t \in Threads, WaitSpurious(t) \/ WaitTimeout(t) PROVE CountInv'
  BY <1>4 DEF WaitSpurious, WaitTimeout
<1>. QED BY <1>1, <1>2, <1>3, <1>4 DEF Next

LEMMA CountInit == Init => CountInv
BY NoThreadAssumption, SemaphoreAssumption
DEF Init, CountInv, TypeOK, ThreadOrNone, InsideInv, TestedInv, CountInRange, Inside, Labels

\* The count of a semaphore stays between zero and its maximum, also once a
\* release has left the mutex locked.
THEOREM CountStaysInRange == Spec => []CountInRange
<1>1. Init => CountInv
  BY CountInit
<1>2. CountInv /\ [Next]_vars => CountInv'
  BY CountStep
<1>3. CountInv => CountInRange
  BY DEF CountInv
<1>. QED BY <1>1, <1>2, <1>3, PTL DEF Spec

-----------------------------------------------------------------------------
(* Units and sleepers meet.                                                *)

\* The wakeups can be counted, before and after a step.
LEMMA WakeupsAreFinite ==
  /\ IsFiniteSet(Wakeups) /\ Cardinality(Wakeups) \in Nat
  /\ IsFiniteSet(Wakeups') /\ Cardinality(Wakeups') \in Nat
<1>1. Wakeups \in SUBSET Threads /\ Wakeups' \in SUBSET Threads
  BY DEF Wakeups, Signals, Awake
<1>2. IsFiniteSet(Wakeups) /\ IsFiniteSet(Wakeups')
  BY <1>1, FS_Subset, SemaphoreAssumption
<1>. QED BY <1>2, FS_CardinalityType

\* A step that ends no wakeup and adds no unit.
LEMMA MeetKept ==
  ASSUME MeetInv, count \in Int, count' = count, Wakeups \subseteq Wakeups',
         blocked' # {} => blocked # {}
  PROVE  MeetInv'
<1>1. Cardinality(Wakeups) <= Cardinality(Wakeups')
  BY FS_Subset, WakeupsAreFinite
<1>. QED BY <1>1, WakeupsAreFinite DEF MeetInv

LEMMA SleepStep ==
  ASSUME CountInv, BlockedInv, WindowInv, [Next]_vars
  PROVE  BlockedInv' /\ WindowInv'
<1>1. CountInv'
  BY CountStep
<1>. USE <1>1, NoThreadAssumption
     DEF CountInv, TypeOK, ThreadOrNone, InsideInv, Inside, Labels, BlockedInv, WindowInv,
         Goto, MutexLock, MutexUnlock, CondBlock, CondSignal, CondLeave
<1>2. CASE UNCHANGED vars
  BY <1>2 DEF vars
<1>3. ASSUME NEW t \in Threads, Call(t) PROVE BlockedInv' /\ WindowInv'
  BY <1>3 DEF Call, WaitForSemaphore, ReleaseSemaphore
<1>4. ASSUME NEW t \in Threads, Advance(t) PROVE BlockedInv' /\ WindowInv'
  <2>1. CASE WaitLockMutex(t) \/ WaitTest(t)
    BY <2>1 DEF WaitLockMutex, WaitTest
  <2>2. CASE WaitBlock(t) \/ WaitWake(t)
    BY <2>2 DEF WaitBlock, WaitWake
  <2>3. CASE WaitTake(t) \/ WaitUnlock(t)
    BY <2>3 DEF WaitTake, WaitUnlock
  <2>4. CASE ReleaseLockMutex(t) \/ ReleaseTest(t) \/ ReleaseAdd(t)
    BY <2>4 DEF ReleaseLockMutex, ReleaseTest, ReleaseAdd
  <2>5. CASE ReleaseUnlock(t) \/ ReleaseSignal(t)
    BY <2>5 DEF ReleaseUnlock, ReleaseSignal
  <2>. QED BY <1>4, <2>1, <2>2, <2>3, <2>4, <2>5 DEF Advance
<1>5. ASSUME NEW t \in Threads, WaitSpurious(t) \/ WaitTimeout(t) PROVE BlockedInv' /\ WindowInv'
  BY <1>5 DEF WaitSpurious, WaitTimeout
<1>. QED BY <1>2, <1>3, <1>4, <1>5 DEF Next

LEMMA MeetStep ==
  ASSUME CountInv, BlockedInv, WindowInv, MeetInv, [Next]_vars
  PROVE  MeetInv'
<1>. DEFINE Types ==
       /\ count \in Int /\ pc \in [Threads -> Labels] /\ timeout \in [Threads -> BOOLEAN]
       /\ blocked \subseteq Threads
<1>1. Types
  BY DEF CountInv, TypeOK
<1>. USE <1>1 DEF Goto
<1>2. CASE UNCHANGED vars
  BY <1>2 DEF vars, MeetInv, Wakeups, Signals, Awake
<1>3. ASSUME NEW t \in Threads, Call(t) PROVE MeetInv'
  <2>1. count' = count /\ blocked' = blocked /\ Wakeups \subseteq Wakeups'
    BY <1>3 DEF Call, WaitForSemaphore, ReleaseSemaphore, Wakeups, Signals, Awake
  <2>. QED BY <2>1, MeetKept
<1>4. ASSUME NEW t \in Threads, WaitSpurious(t) \/ WaitTimeout(t) PROVE MeetInv'
  <2>1. t \notin Wakeups /\ count' = count /\ blocked' \subseteq blocked
    BY <1>4 DEF WaitSpurious, WaitTimeout, CondLeave, BlockedInv, Wakeups, Signals, Awake
  <2>2. Wakeups \subseteq Wakeups'
    BY <1>4, <2>1 DEF WaitSpurious, WaitTimeout, CondLeave, Wakeups, Signals, Awake
  <2>. QED BY <2>1, <2>2, MeetKept
<1>5. ASSUME NEW t \in Threads,
             \/ WaitLockMutex(t) \/ WaitWake(t) \/ WaitUnlock(t)
             \/ ReleaseLockMutex(t) \/ ReleaseTest(t) \/ ReleaseUnlock(t)
      PROVE  MeetInv'
  <2>1. count' = count /\ blocked' = blocked
    BY <1>5 DEF WaitLockMutex, WaitWake, WaitUnlock, ReleaseLockMutex, ReleaseTest, ReleaseUnlock
  <2>2. Wakeups \subseteq Wakeups'
    BY <1>5, <2>1
    DEF WaitLockMutex, WaitWake, WaitUnlock, ReleaseLockMutex, ReleaseTest, ReleaseUnlock,
        Wakeups, Signals, Awake
  <2>. QED BY <2>1, <2>2, MeetKept
<1>6. ASSUME NEW t \in Threads, WaitTest(t) PROVE MeetInv'
  <2>1. CASE count <= 0
    <3>1. count' <= 0
      BY <1>6, <2>1 DEF WaitTest
    <3>. QED BY <3>1, WakeupsAreFinite, <1>6 DEF MeetInv, WaitTest
  <2>2. CASE count > 0
    <3>1. count' = count /\ blocked' = blocked /\ Wakeups \subseteq Wakeups'
      BY <1>6, <2>2 DEF WaitTest, Wakeups, Signals, Awake
    <3>. QED BY <3>1, MeetKept
  <2>. QED BY <2>1, <2>2
<1>7. ASSUME NEW t \in Threads, WaitBlock(t) PROVE MeetInv'
  <2>1. count' \in Int /\ count' <= 0
    BY <1>7 DEF WaitBlock, WindowInv
  <2>. QED BY <2>1, WakeupsAreFinite DEF MeetInv
<1>8. ASSUME NEW t \in Threads, WaitTake(t) PROVE MeetInv'
  <2>1. t \in Wakeups /\ count' = count - 1 /\ blocked' = blocked
    BY <1>8 DEF WaitTake, BlockedInv, Wakeups, Signals, Awake
  <2>2. Wakeups' = Wakeups \ {t}
    BY <1>8 DEF WaitTake, Wakeups, Signals, Awake
  <2>3. Cardinality(Wakeups') = Cardinality(Wakeups) - 1
    BY <2>1, <2>2, FS_RemoveElement, WakeupsAreFinite
  <2>. QED BY <2>1, <2>3, WakeupsAreFinite DEF MeetInv
<1>9. ASSUME NEW t \in Threads, ReleaseAdd(t) PROVE MeetInv'
  <2>1. t \notin Wakeups /\ count' = count + 1 /\ blocked' = blocked
    BY <1>9 DEF ReleaseAdd, Wakeups, Signals, Awake
  <2>2. Wakeups' = Wakeups \cup {t}
    BY <1>9 DEF ReleaseAdd, Wakeups, Signals, Awake
  <2>3. Cardinality(Wakeups') = Cardinality(Wakeups) + 1
    BY <2>1, <2>2, FS_AddElement, WakeupsAreFinite
  <2>. QED BY <2>1, <2>3, WakeupsAreFinite DEF MeetInv
<1>10. ASSUME NEW t \in Threads, ReleaseSignal(t) PROVE MeetInv'
  <2>1. count' = count /\ t \in Wakeups
    BY <1>10 DEF ReleaseSignal, Wakeups, Signals, Awake
  <2>2. CASE blocked = {}
    BY <1>10, <2>2 DEF ReleaseSignal, CondSignal, MeetInv
  <2>3. CASE blocked # {}
    <3>1. PICK w \in blocked : blocked' = blocked \ {w}
      BY <1>10, <2>3 DEF ReleaseSignal, CondSignal
    <3>2. w \notin Wakeups /\ w # t
      BY <1>10, <3>1 DEF BlockedInv, ReleaseSignal, Wakeups, Signals, Awake
    <3>3. Wakeups' = (Wakeups \ {t}) \cup {w}
      BY <1>10, <3>1, <3>2 DEF ReleaseSignal, BlockedInv, Wakeups, Signals, Awake
    <3>4. IsFiniteSet(Wakeups \ {t}) /\ Cardinality(Wakeups \ {t}) = Cardinality(Wakeups) - 1
      BY <2>1, FS_RemoveElement, WakeupsAreFinite
    <3>5. Cardinality((Wakeups \ {t}) \cup {w}) = Cardinality(Wakeups \ {t}) + 1
      BY <3>2, <3>4, FS_AddElement
    <3>. QED BY <2>1, <2>3, <3>3, <3>4, <3>5, WakeupsAreFinite DEF MeetInv
  <2>. QED BY <2>2, <2>3
<1>. QED BY <1>2, <1>3, <1>4, <1>5, <1>6, <1>7, <1>8, <1>9, <1>10 DEF Next, Advance

\* For any threads and any maximum, while units are free and threads asleep enough
\* wakeups are under way, although a release signals after it has unlocked the
\* mutex: newcomers, timeouts and spurious wakeups never use up a signal that a
\* sleeper needs.
THEOREM UnitsAndSleepersMeet == Spec => []EnoughWakeups
<1>1. Init => CountInv /\ BlockedInv /\ WindowInv /\ MeetInv
  <2>. SUFFICES ASSUME Init PROVE CountInv /\ BlockedInv /\ WindowInv /\ MeetInv
    OBVIOUS
  <2>1. CountInv
    BY CountInit
  <2>2. BlockedInv /\ WindowInv /\ MeetInv
    BY DEF Init, BlockedInv, WindowInv, MeetInv
  <2>. QED BY <2>1, <2>2
<1>2. CountInv /\ BlockedInv /\ WindowInv /\ MeetInv /\ [Next]_vars =>
        (CountInv /\ BlockedInv /\ WindowInv /\ MeetInv)'
  BY CountStep, SleepStep, MeetStep
<1>3. CountInv /\ BlockedInv /\ WindowInv /\ MeetInv => EnoughWakeups
  <2>. SUFFICES ASSUME MeetInv, CountInv PROVE EnoughWakeups
    OBVIOUS
  <2>1. CASE blocked = {}
    <3>1. Cardinality(blocked) = 0
      BY <2>1, FS_EmptySet
    <3>. QED BY <3>1, WakeupsAreFinite DEF EnoughWakeups, Wakeups
  <2>2. CASE blocked # {}
    BY <2>2 DEF MeetInv, EnoughWakeups, Wakeups
  <2>. QED BY <2>1, <2>2
<1>. QED BY <1>1, <1>2, <1>3, PTL DEF Spec

-----------------------------------------------------------------------------
(* The abstract semaphore.                                                 *)

\* Only a wait with a time limit runs out of time.
LimitInv == \A t \in Threads : timeout[t] => timed[t]

LEMMA LimitStep ==
  ASSUME CountInv, BlockedInv, LimitInv, [Next]_vars
  PROVE  LimitInv'
<1>1. pc \in [Threads -> Labels] /\ timed \in [Threads -> BOOLEAN] /\ timeout \in [Threads -> BOOLEAN]
  BY DEF CountInv, TypeOK
<1>2. CASE UNCHANGED <<timed, timeout>>
  BY <1>2 DEF LimitInv
<1>3. ASSUME NEW t \in Threads, NEW limit \in BOOLEAN, WaitForSemaphore(t, limit) PROVE LimitInv'
  <2>1. ~timeout[t]
    BY <1>3 DEF WaitForSemaphore, Goto, BlockedInv
  <2>. QED BY <1>1, <1>3, <2>1 DEF WaitForSemaphore, LimitInv
<1>4. ASSUME NEW t \in Threads, WaitUnlock(t) \/ WaitTimeout(t) PROVE LimitInv'
  BY <1>1, <1>4 DEF WaitUnlock, WaitTimeout, LimitInv
<1>5. ASSUME ~UNCHANGED <<timed, timeout>>
      PROVE  \E t \in Threads : \/ WaitForSemaphore(t, FALSE) \/ WaitForSemaphore(t, TRUE)
                                \/ WaitUnlock(t) \/ WaitTimeout(t)
  BY <1>5
  DEF Next, vars, Call, Advance, ReleaseSemaphore, WaitLockMutex, WaitTest, WaitBlock, WaitWake,
      WaitTake, ReleaseLockMutex, ReleaseTest, ReleaseAdd, ReleaseUnlock, ReleaseSignal, WaitSpurious
<1>. QED BY <1>2, <1>3, <1>4, <1>5

\* For any threads and any maximum, the primitives implement the abstract
\* semaphore: a unit is taken only if there is one, a wait without a time limit
\* never ends without a unit, and a release is refused only at the maximum.
THEOREM RefinesCountingSemaphore == Spec => ImplementsCountingSemaphore
<1>. DEFINE Inv == CountInv /\ BlockedInv /\ WindowInv /\ LimitInv
<1>1. Init => Abstract!Init
  BY DEF Init, Abstract!Init, Waiting, Releasing
<1>2. Init => Inv
  BY CountInit DEF Init, BlockedInv, WindowInv, LimitInv
<1>3. Inv /\ [Next]_vars => Inv'
  BY CountStep, SleepStep, LimitStep
<1>4. Inv /\ [Next]_vars => [Abstract!Next]_Abstract!vars
  <2>. SUFFICES ASSUME Inv, [Next]_vars PROVE [Abstract!Next]_Abstract!vars
    OBVIOUS
  <2>. USE DEF Goto
  <2>0. /\ pc \in [Threads -> Labels] /\ timed \in [Threads -> BOOLEAN] /\ count \in 0 .. MaxCount
        /\ MaxCount \in Nat
    BY SemaphoreAssumption DEF CountInv, TypeOK, CountInRange
  <2>1. CASE UNCHANGED vars
    BY <2>1 DEF vars, Abstract!vars, Waiting, Releasing
  <2>2. ASSUME NEW t \in Threads, WaitForSemaphore(t, FALSE) \/ WaitForSemaphore(t, TRUE)
        PROVE  Abstract!WaitFor(t)
    BY <2>0, <2>2 DEF WaitForSemaphore, Abstract!WaitFor, Waiting, Releasing
  <2>3. ASSUME NEW t \in Threads, ReleaseSemaphore(t) PROVE Abstract!Release(t)
    BY <2>0, <2>3 DEF ReleaseSemaphore, Abstract!Release, Waiting, Releasing
  <2>4. ASSUME NEW t \in Threads, WaitTest(t) PROVE [Abstract!GiveUp(t)]_Abstract!vars
    <3>1. CASE timeout[t]
      <4>1. timed[t]
        BY <3>1 DEF LimitInv
      <4>. QED BY <2>0, <2>4, <3>1, <4>1
               DEF WaitTest, Abstract!GiveUp, Abstract!StopWaiting, Waiting, Releasing
    <3>2. CASE ~timeout[t]
      BY <2>0, <2>4, <3>2 DEF WaitTest, Abstract!vars, Waiting, Releasing
    <3>. QED BY <3>1, <3>2
  <2>5. ASSUME NEW t \in Threads, WaitTake(t) PROVE Abstract!Take(t)
    <3>1. count > 0
      BY <2>5 DEF WaitTake, CountInv, TestedInv
    <3>. QED BY <2>0, <2>5, <3>1
             DEF WaitTake, Abstract!Take, Abstract!StopWaiting, Waiting, Releasing
  <2>6. ASSUME NEW t \in Threads, ReleaseTest(t) PROVE [Abstract!Refuse(t)]_Abstract!vars
    <3>1. CASE count >= MaxCount
      <4>1. count = MaxCount
        BY <2>0, <3>1
      <4>. QED BY <2>0, <2>6, <3>1, <4>1 DEF ReleaseTest, Abstract!Refuse, Waiting, Releasing
    <3>2. CASE count < MaxCount
      BY <2>0, <2>6, <3>2 DEF ReleaseTest, Abstract!vars, Waiting, Releasing
    <3>. QED BY <2>0, <3>1, <3>2
  <2>7. ASSUME NEW t \in Threads, ReleaseAdd(t) PROVE Abstract!Add(t)
    <3>1. count < MaxCount
      BY <2>7 DEF ReleaseAdd, CountInv, TestedInv
    <3>. QED BY <2>0, <2>7, <3>1 DEF ReleaseAdd, Abstract!Add, Waiting, Releasing
  <2>8. ASSUME NEW t \in Threads,
               \/ WaitLockMutex(t) \/ WaitBlock(t) \/ WaitWake(t) \/ WaitUnlock(t)
               \/ WaitSpurious(t) \/ WaitTimeout(t)
        PROVE  UNCHANGED Abstract!vars
    BY <2>0, <2>8 DEF WaitLockMutex, WaitBlock, WaitWake, WaitUnlock, WaitSpurious, WaitTimeout,
                      Abstract!vars, Waiting, Releasing
  <2>9. ASSUME NEW t \in Threads, ReleaseLockMutex(t) \/ ReleaseUnlock(t) \/ ReleaseSignal(t)
        PROVE  UNCHANGED Abstract!vars
    BY <2>0, <2>9 DEF ReleaseLockMutex, ReleaseUnlock, ReleaseSignal, Abstract!vars, Waiting,
                      Releasing
  <2>. QED BY <2>1, <2>2, <2>3, <2>4, <2>5, <2>6, <2>7, <2>8, <2>9
           DEF Next, Call, Advance, Abstract!Next
<1>. QED BY <1>1, <1>2, <1>3, <1>4, PTL DEF Spec, ImplementsCountingSemaphore, Abstract!Spec
=============================================================================
