------------------------- MODULE PosixRecursiveLock -------------------------
(***************************************************************************)
(* The <recursive-lock> primitives of the POSIX run-time, posix-threads.c. *)
(*                                                                         *)
(* A RECURSIVELOCK is a simple lock with a claim count.  The count is      *)
(* never accessed under the mutex by the thread that owns the lock: a      *)
(* nested wait-for and every release read and write it unprotected.  As in *)
(* PosixSimpleLock every access to shared memory is a step of its own,     *)
(* except count++ and --count of the owner, which are one: until a forced  *)
(* unlock nobody else writes the count between the load and the store.     *)
(***************************************************************************)
EXTENDS PthreadSync, Integers

CONSTANTS
  Unlockers,   \* the threads that may call primitive_unlock_recursive_lock
  MaxDepth     \* bound: how deep a client nests its claims

ASSUME RecursiveLockAssumption ==
  /\ Unlockers \subseteq Threads
  /\ MaxDepth \in Nat \ {0}

VARIABLES
  owner,     \* rlock->owner
  count,     \* rlock->count
  mutex,     \* rlock->mutex
  blocked,   \* the threads blocked on rlock->cond
  pc,        \* where each thread is in the primitives
  timed,     \* whether its wait has a time limit
  timeout,   \* the local variable timeout of the wait
  depth,     \* history: the claims each thread was granted and has not released
  forced     \* history: whether a thread has unlocked by force

rlock == <<owner, count, mutex, blocked>>
vars == <<owner, count, mutex, blocked, pc, timed, timeout, depth, forced>>

Inside == {"w_test", "w_block", "w_claim", "w_count", "w_unlock", "r_signal", "r_unlock"}
Waiting == {"w_mutex", "w_test", "w_block", "w_sleep", "w_claim"}
Labels == Inside \cup Waiting
            \cup {"idle", "w_again", "r_count", "r_clear", "r_mutex", "u_clear", "u_count"}

TypeOK ==
  /\ owner \in ThreadOrNone
  /\ count \in Int
  /\ mutex \in ThreadOrNone
  /\ blocked \subseteq Threads
  /\ pc \in [Threads -> Labels]
  /\ timed \in [Threads -> BOOLEAN]
  /\ timeout \in [Threads -> BOOLEAN]
  /\ depth \in [Threads -> 0 .. MaxDepth]
  /\ forced \in BOOLEAN

\* primitive_make_recursive_lock.
Init ==
  /\ owner = NoThread
  /\ count = 0
  /\ mutex = NoThread
  /\ blocked = {}
  /\ pc = [t \in Threads |-> "idle"]
  /\ timed = [t \in Threads |-> FALSE]
  /\ timeout = [t \in Threads |-> FALSE]
  /\ depth = [t \in Threads |-> 0]
  /\ forced = FALSE

Goto(t, from, to) ==
  /\ pc[t] = from
  /\ pc' = [pc EXCEPT ![t] = to]

-----------------------------------------------------------------------------
(* primitive_wait_for_recursive_lock and, with a time limit,               *)
(* primitive_wait_for_recursive_lock_timed.                                *)

\* Mutant: a nested claim is not recognised.
WaitForRecursiveLock_Unchecked(t, limited) ==
  /\ depth[t] < MaxDepth
  /\ Goto(t, "idle", "w_mutex")
  /\ timed' = [timed EXCEPT ![t] = limited]
  /\ UNCHANGED <<rlock, timeout, depth, forced>>

WaitForRecursiveLock(t, limited) ==
  /\ depth[t] < MaxDepth
  /\ \/ owner = t /\ Goto(t, "idle", "w_again") /\ UNCHANGED timed
     \/ owner # t /\ Goto(t, "idle", "w_mutex") /\ timed' = [timed EXCEPT ![t] = limited]
  /\ UNCHANGED <<rlock, timeout, depth, forced>>

\* A nested claim: count++ without the mutex.
WaitAgain(t) ==
  /\ Goto(t, "w_again", "idle")
  /\ count' = count + 1
  /\ depth' = [depth EXCEPT ![t] = @ + 1]
  /\ UNCHANGED <<owner, mutex, blocked, timed, timeout, forced>>

WaitLockMutex(t) ==
  /\ Goto(t, "w_mutex", "w_test")
  /\ MutexLock(mutex, t)
  /\ UNCHANGED <<owner, count, blocked, timed, timeout, depth, forced>>

WaitTest(t) ==
  /\ \/ owner # NoThread /\ ~timeout[t] /\ Goto(t, "w_test", "w_block")
     \/ owner = NoThread /\ ~timeout[t] /\ Goto(t, "w_test", "w_claim")
     \/ timeout[t] /\ Goto(t, "w_test", "w_unlock")
  /\ UNCHANGED <<rlock, timed, timeout, depth, forced>>

WaitBlock(t) ==
  /\ Goto(t, "w_block", "w_sleep")
  /\ CondBlock(mutex, blocked, t)
  /\ UNCHANGED <<owner, count, timed, timeout, depth, forced>>

WaitSpurious(t) ==
  /\ CondLeave(blocked, t)
  /\ UNCHANGED <<owner, count, mutex, pc, timed, timeout, depth, forced>>

WaitTimeout(t) ==
  /\ timed[t]
  /\ CondLeave(blocked, t)
  /\ timeout' = [timeout EXCEPT ![t] = TRUE]
  /\ UNCHANGED <<owner, count, mutex, pc, timed, depth, forced>>

\* Mutant: the test of the loop is inverted: a woken thread goes on once the
\* lock has been taken.
WaitWake_Inverted(t) ==
  /\ t \notin blocked
  /\ \/ owner = NoThread /\ Goto(t, "w_sleep", "w_sleep") /\ UNCHANGED mutex
     \/ owner # NoThread /\ Goto(t, "w_sleep", "w_test") /\ MutexLock(mutex, t)
  /\ UNCHANGED <<owner, count, blocked, timed, timeout, depth, forced>>

WaitWake(t) ==
  /\ t \notin blocked
  /\ Goto(t, "w_sleep", "w_test")
  /\ MutexLock(mutex, t)
  /\ UNCHANGED <<owner, count, blocked, timed, timeout, depth, forced>>

WaitClaim(t) ==
  /\ Goto(t, "w_claim", "w_count")
  /\ owner' = t
  /\ UNCHANGED <<count, mutex, blocked, timed, timeout, depth, forced>>

\* The first claim sets the count to 1.
WaitCount(t) ==
  /\ Goto(t, "w_count", "w_unlock")
  /\ count' = 1
  /\ UNCHANGED <<owner, mutex, blocked, timed, timeout, depth, forced>>

WaitUnlock(t) ==
  /\ Goto(t, "w_unlock", "idle")
  /\ MutexUnlock(mutex)
  /\ depth' = [depth EXCEPT ![t] = IF timeout[t] THEN @ ELSE @ + 1]
  /\ timed' = [timed EXCEPT ![t] = FALSE]
  /\ timeout' = [timeout EXCEPT ![t] = FALSE]
  /\ UNCHANGED <<owner, count, blocked, forced>>

-----------------------------------------------------------------------------
(* primitive_release_recursive_lock and primitive_unlock_recursive_lock.   *)

\* The call.  A thread that is told NOT_LOCKED has no claims left.
ReleaseRecursiveLock(t) ==
  /\ \/ owner # t /\ Goto(t, "idle", "idle") /\ depth' = [depth EXCEPT ![t] = 0]
     \/ /\ owner = t
        /\ Goto(t, "idle", "r_count")
        /\ depth' = [depth EXCEPT ![t] = IF @ > 0 THEN @ - 1 ELSE 0]
  /\ UNCHANGED <<rlock, timed, timeout, forced>>

\* Mutant: the lock is freed one release too early.
ReleaseCount_OneTooEarly(t) ==
  /\ Goto(t, "r_count", IF count - 1 <= 1 THEN "r_clear" ELSE "idle")
  /\ count' = count - 1
  /\ UNCHANGED <<owner, mutex, blocked, timed, timeout, depth, forced>>

\* count-- without the mutex; the outermost release goes on to free the lock.
ReleaseCount(t) ==
  /\ Goto(t, "r_count", IF count - 1 < 1 THEN "r_clear" ELSE "idle")
  /\ count' = count - 1
  /\ UNCHANGED <<owner, mutex, blocked, timed, timeout, depth, forced>>

\* The store that frees the lock, before the mutex is locked.
ReleaseClear(t) ==
  /\ Goto(t, "r_clear", "r_mutex")
  /\ owner' = NoThread
  /\ UNCHANGED <<count, mutex, blocked, timed, timeout, depth, forced>>

\* Mutant: the signal is sent without the mutex.
ReleaseLockMutex_Skipped(t) ==
  /\ Goto(t, "r_mutex", "r_signal")
  /\ UNCHANGED <<rlock, timed, timeout, depth, forced>>

ReleaseLockMutex(t) ==
  /\ Goto(t, "r_mutex", "r_signal")
  /\ MutexLock(mutex, t)
  /\ UNCHANGED <<owner, count, blocked, timed, timeout, depth, forced>>

ReleaseSignal(t) ==
  /\ Goto(t, "r_signal", "r_unlock")
  /\ CondSignal(blocked)
  /\ UNCHANGED <<owner, count, mutex, timed, timeout, depth, forced>>

ReleaseUnlock(t) ==
  /\ Goto(t, "r_unlock", "idle")
  /\ MutexUnlock(mutex)
  /\ UNCHANGED <<owner, count, blocked, timed, timeout, depth, forced>>

\* primitive_unlock_recursive_lock: a free lock is left alone.
UnlockRecursiveLock(t) ==
  /\ t \in Unlockers
  /\ owner # NoThread
  /\ Goto(t, "idle", "u_clear")
  /\ forced' = TRUE
  /\ UNCHANGED <<rlock, timed, timeout, depth>>

UnlockClear(t) ==
  /\ Goto(t, "u_clear", "u_count")
  /\ owner' = NoThread
  /\ UNCHANGED <<count, mutex, blocked, timed, timeout, depth, forced>>

UnlockCount(t) ==
  /\ Goto(t, "u_count", "r_mutex")
  /\ count' = 0
  /\ UNCHANGED <<owner, mutex, blocked, timed, timeout, depth, forced>>

-----------------------------------------------------------------------------
Call(t) ==
  \/ WaitForRecursiveLock(t, FALSE)
  \/ WaitForRecursiveLock(t, TRUE)
  \/ ReleaseRecursiveLock(t)
  \/ UnlockRecursiveLock(t)

Advance(t) ==
  \/ WaitAgain(t) \/ WaitLockMutex(t) \/ WaitTest(t) \/ WaitBlock(t) \/ WaitWake(t)
  \/ WaitClaim(t) \/ WaitCount(t) \/ WaitUnlock(t)
  \/ ReleaseCount(t) \/ ReleaseClear(t) \/ ReleaseLockMutex(t) \/ ReleaseSignal(t)
  \/ ReleaseUnlock(t) \/ UnlockClear(t) \/ UnlockCount(t)

Next ==
  \E t \in Threads : Call(t) \/ Advance(t) \/ WaitSpurious(t) \/ WaitTimeout(t)

Spec == Init /\ [][Next]_vars

\* The scheduler runs every thread that can run, and every thread that contends
\* for the mutex gets it eventually.  No client is obliged to call anything,
\* nothing makes a time limit pass, and no particular blocked thread is favoured
\* by a signal.
Fairness ==
  \A t \in Threads :
    /\ WF_vars(Advance(t))
    /\ SF_vars(WaitLockMutex(t) \/ WaitWake(t) \/ ReleaseLockMutex(t))

FairSpec == Spec /\ Fairness

-----------------------------------------------------------------------------
(* Properties.                                                             *)

\* Between its calls a thread owns the lock exactly when it was granted more
\* claims than it released, and then rlock->count is that number: the
\* unprotected updates of the count are never lost or seen by another owner.
\* It holds until a thread unlocks by force.
CountIsDepth ==
  ~forced =>
    \A t \in Threads :
      pc[t] = "idle" =>
        /\ owner = t <=> depth[t] > 0
        /\ owner = t => count = depth[t]

Awake(t) ==
  /\ ~timeout[t]
  /\ pc[t] \in {"w_test", "w_claim"} \/ (pc[t] = "w_sleep" /\ t \notin blocked)

\* The lock is never left free with a thread asleep on it and nobody left to
\* signal or to test the owner word again.
NoLostWakeup ==
  owner = NoThread /\ blocked # {} =>
    \E t \in Threads : pc[t] \in {"r_mutex", "r_signal", "u_count"} \/ Awake(t)

\* Nested claims are invisible: until a thread unlocks by force the primitives
\* implement the exclusive lock.
Abstract == INSTANCE ExclusiveLock WITH
  holder <- owner,
  waiting <- {t \in Threads : pc[t] \in Waiting}

ImplementsExclusiveLock ==
  Abstract!Init /\ [][forced' \/ Abstract!Next]_Abstract!vars

\* A free lock that a thread waits for without a time limit is claimed in the
\* end, by that thread or by another, although signals may go to threads whose
\* time limit passes and newcomers overtake the woken ones.
FreeLockIsClaimed ==
  (owner = NoThread /\ \E t \in Threads : pc[t] \in Waiting /\ ~timed[t])
    ~> owner # NoThread
=============================================================================
