--------------------------- MODULE PosixSemaphore ---------------------------
(***************************************************************************)
(* The <semaphore> primitives of the POSIX run-time, posix-threads.c.      *)
(*                                                                         *)
(* A SEMAPHORE is a count with its maximum, a mutex and a condition        *)
(* variable.  A release signals after it has unlocked the mutex, and one   *)
(* that finds the count at its maximum returns COUNT_EXCEEDED from inside  *)
(* the critical section, with the mutex still locked.                      *)
(***************************************************************************)
EXTENDS PthreadSync, Integers, FiniteSets

CONSTANTS
  InitialCount,   \* the initial-count: of the semaphore
  MaxCount        \* its maximum-count:

ASSUME SemaphoreAssumption ==
  /\ IsFiniteSet(Threads)
  /\ MaxCount \in Nat
  /\ InitialCount \in 0 .. MaxCount

VARIABLES
  count,     \* semaphore->count
  mutex,     \* semaphore->mutex
  blocked,   \* the threads blocked on semaphore->cond
  pc,        \* where each thread is in the primitives
  timed,     \* whether its wait has a time limit
  timeout    \* the local variable timeout of the wait

vars == <<count, mutex, blocked, pc, timed, timeout>>

\* Labels of the steps made with semaphore->mutex locked.
Inside == {"w_test", "w_block", "w_take", "w_unlock", "r_test", "r_add", "r_unlock"}
Labels == Inside \cup {"idle", "w_mutex", "w_sleep", "r_mutex", "r_signal"}

TypeOK ==
  /\ count \in Int
  /\ mutex \in ThreadOrNone
  /\ blocked \subseteq Threads
  /\ pc \in [Threads -> Labels]
  /\ timed \in [Threads -> BOOLEAN]
  /\ timeout \in [Threads -> BOOLEAN]

\* primitive_make_semaphore.
Init ==
  /\ count = InitialCount
  /\ mutex = NoThread
  /\ blocked = {}
  /\ pc = [t \in Threads |-> "idle"]
  /\ timed = [t \in Threads |-> FALSE]
  /\ timeout = [t \in Threads |-> FALSE]

Goto(t, from, to) ==
  /\ pc[t] = from
  /\ pc' = [pc EXCEPT ![t] = to]

-----------------------------------------------------------------------------
(* primitive_wait_for_semaphore and primitive_wait_for_semaphore_timed.    *)

WaitForSemaphore(t, limited) ==
  /\ Goto(t, "idle", "w_mutex")
  /\ timed' = [timed EXCEPT ![t] = limited]
  /\ UNCHANGED <<count, mutex, blocked, timeout>>

WaitLockMutex(t) ==
  /\ Goto(t, "w_mutex", "w_test")
  /\ MutexLock(mutex, t)
  /\ UNCHANGED <<count, blocked, timed, timeout>>

\* The condition of the while loop and the test after it.
WaitTest(t) ==
  /\ \/ timeout[t] /\ Goto(t, "w_test", "w_unlock")
     \/ ~timeout[t] /\ count <= 0 /\ Goto(t, "w_test", "w_block")
     \/ ~timeout[t] /\ count > 0 /\ Goto(t, "w_test", "w_take")
  /\ UNCHANGED <<count, mutex, blocked, timed, timeout>>

WaitBlock(t) ==
  /\ Goto(t, "w_block", "w_sleep")
  /\ CondBlock(mutex, blocked, t)
  /\ UNCHANGED <<count, timed, timeout>>

WaitSpurious(t) ==
  /\ CondLeave(blocked, t)
  /\ UNCHANGED <<count, mutex, pc, timed, timeout>>

WaitTimeout(t) ==
  /\ timed[t]
  /\ CondLeave(blocked, t)
  /\ timeout' = [timeout EXCEPT ![t] = TRUE]
  /\ UNCHANGED <<count, mutex, pc, timed>>

\* Mutant: the test of the loop is inverted: a woken thread goes on once there
\* is no unit.
WaitWake_Inverted(t) ==
  /\ t \notin blocked
  /\ \/ count > 0 /\ Goto(t, "w_sleep", "w_sleep") /\ UNCHANGED mutex
     \/ count <= 0 /\ Goto(t, "w_sleep", "w_test") /\ MutexLock(mutex, t)
  /\ UNCHANGED <<count, blocked, timed, timeout>>

WaitWake(t) ==
  /\ t \notin blocked
  /\ Goto(t, "w_sleep", "w_test")
  /\ MutexLock(mutex, t)
  /\ UNCHANGED <<count, blocked, timed, timeout>>

WaitTake(t) ==
  /\ Goto(t, "w_take", "w_unlock")
  /\ count' = count - 1
  /\ UNCHANGED <<mutex, blocked, timed, timeout>>

WaitUnlock(t) ==
  /\ Goto(t, "w_unlock", "idle")
  /\ MutexUnlock(mutex)
  /\ timed' = [timed EXCEPT ![t] = FALSE]
  /\ timeout' = [timeout EXCEPT ![t] = FALSE]
  /\ UNCHANGED <<count, blocked>>

-----------------------------------------------------------------------------
(* primitive_release_semaphore.                                            *)

ReleaseSemaphore(t) ==
  /\ Goto(t, "idle", "r_mutex")
  /\ UNCHANGED <<count, mutex, blocked, timed, timeout>>

ReleaseLockMutex(t) ==
  /\ Goto(t, "r_mutex", "r_test")
  /\ MutexLock(mutex, t)
  /\ UNCHANGED <<count, blocked, timed, timeout>>

\* Mutant: the last unit is refused.
ReleaseTest_RefusesLast(t) ==
  /\ \/ count + 1 >= MaxCount /\ Goto(t, "r_test", "idle")
     \/ count + 1 < MaxCount /\ Goto(t, "r_test", "r_add")
  /\ UNCHANGED <<count, mutex, blocked, timed, timeout>>

\* At the maximum: COUNT_EXCEEDED is returned and the mutex stays locked.
ReleaseTest(t) ==
  /\ \/ count >= MaxCount /\ Goto(t, "r_test", "idle")
     \/ count < MaxCount /\ Goto(t, "r_test", "r_add")
  /\ UNCHANGED <<count, mutex, blocked, timed, timeout>>

ReleaseAdd(t) ==
  /\ Goto(t, "r_add", "r_unlock")
  /\ count' = count + 1
  /\ UNCHANGED <<mutex, blocked, timed, timeout>>

\* Mutant: only the release that makes the count positive signals.
ReleaseUnlock_SignalsFirstOnly(t) ==
  /\ Goto(t, "r_unlock", IF count = 1 THEN "r_signal" ELSE "idle")
  /\ MutexUnlock(mutex)
  /\ UNCHANGED <<count, blocked, timed, timeout>>

ReleaseUnlock(t) ==
  /\ Goto(t, "r_unlock", "r_signal")
  /\ MutexUnlock(mutex)
  /\ UNCHANGED <<count, blocked, timed, timeout>>

\* Mutant: a release signals until its unit has been taken.
ReleaseSignal_UntilTaken(t) ==
  /\ Goto(t, "r_signal", IF count > 0 THEN "r_signal" ELSE "idle")
  /\ CondSignal(blocked)
  /\ UNCHANGED <<count, mutex, timed, timeout>>

\* The signal is sent without the mutex.
ReleaseSignal(t) ==
  /\ Goto(t, "r_signal", "idle")
  /\ CondSignal(blocked)
  /\ UNCHANGED <<count, mutex, timed, timeout>>

-----------------------------------------------------------------------------
Call(t) ==
  WaitForSemaphore(t, FALSE) \/ WaitForSemaphore(t, TRUE) \/ ReleaseSemaphore(t)

Advance(t) ==
  \/ WaitLockMutex(t) \/ WaitTest(t) \/ WaitBlock(t) \/ WaitWake(t)
  \/ WaitTake(t) \/ WaitUnlock(t)
  \/ ReleaseLockMutex(t) \/ ReleaseTest(t) \/ ReleaseAdd(t) \/ ReleaseUnlock(t)
  \/ ReleaseSignal(t)

Next ==
  \E t \in Threads : Call(t) \/ Advance(t) \/ WaitSpurious(t) \/ WaitTimeout(t)

Spec == Init /\ [][Next]_vars

\* The scheduler runs every thread that can run, and a thread that contends
\* for the mutex is not passed over for ever.
Fairness ==
  \A t \in Threads :
    /\ WF_vars(Advance(t))
    /\ SF_vars(WaitLockMutex(t) \/ WaitWake(t) \/ ReleaseLockMutex(t))

FairSpec == Spec /\ Fairness

-----------------------------------------------------------------------------
(* Properties.                                                             *)

\* The count stays between zero and its maximum: two threads never take the
\* same last unit, and a release never pushes the count over.
CountInRange == count \in 0 .. MaxCount

\* The releases whose signal is still to come, and the threads that are awake
\* and about to test the count.
Signals == {t \in Threads : pc[t] \in {"r_unlock", "r_signal"}}
Awake ==
  {t \in Threads :
    /\ ~timeout[t]
    /\ pc[t] \in {"w_test", "w_take"} \/ (pc[t] = "w_sleep" /\ t \notin blocked)}

\* Units and sleepers meet: with n units free and m threads asleep, at least
\* min(n, m) wakeups are under way, though signals are sent without the mutex
\* and may be overtaken by newcomers, spurious wakeups and timeouts.
EnoughWakeups ==
  \/ Cardinality(Signals \cup Awake) >= count
  \/ Cardinality(Signals \cup Awake) >= Cardinality(blocked)

\* Threads inside a wait that has no unit yet, and inside a release that has
\* not added its own.
Waiting == {t \in Threads : pc[t] \in {"w_mutex", "w_test", "w_block", "w_sleep", "w_take"}}
Releasing == {t \in Threads : pc[t] \in {"r_mutex", "r_test", "r_add"}}

\* The primitives implement the abstract semaphore: what a thread has found of
\* the count still holds when it takes, adds or refuses a unit, and a thread
\* that waits without a time limit does not return without a unit.
Abstract == INSTANCE CountingSemaphore WITH
  units <- count,
  waiting <- Waiting,
  limited <- {t \in Waiting : timed[t]},
  releasing <- Releasing

ImplementsCountingSemaphore == Abstract!Spec

\* A release that returned COUNT_EXCEEDED has left the mutex locked.
Leaked == mutex # NoThread /\ pc[mutex] \notin Inside

\* Until the mutex is leaked, a release returns, whatever the other threads do.
ReleaseReturns ==
  \A t \in Threads : pc[t] = "r_mutex" ~> (pc[t] = "idle" \/ Leaked)

\* Until the mutex is leaked, a unit that a thread waits for without a time limit
\* does not stay unused: in the end no unit is left or no such thread sleeps.
FreeUnitIsTaken ==
  (count > 0 /\ \E t \in Threads : pc[t] = "w_sleep" /\ ~timed[t])
    ~> (count = 0 \/ Leaked \/ \A t \in Threads : ~(pc[t] = "w_sleep" /\ ~timed[t]))

\* "This function does not block for any of the subclasses of <synchronization>
\* provided by the library", says the documentation of release.
ReleaseDoesNotBlock == \A t \in Threads : pc[t] = "r_mutex" ~> pc[t] = "idle"
=============================================================================
