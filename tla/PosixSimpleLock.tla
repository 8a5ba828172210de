-------------------------- MODULE PosixSimpleLock --------------------------
(***************************************************************************)
(* The <simple-lock> primitives of the POSIX run-time, posix-threads.c.    *)
(*                                                                         *)
(* A SIMPLELOCK is an owner word, a mutex and a condition variable.  The   *)
(* mutex is not the lock: it is held only for the few instructions that    *)
(* examine or hand over the owner word.  Three accesses to the owner word  *)
(* are made without it: the ALREADY_LOCKED and NOT_LOCKED tests and the    *)
(* store that frees the lock.  So every access to shared memory and every  *)
(* pthread call is a step of its own.                                      *)
(*                                                                         *)
(* A client thread may call any primitive whenever it is not inside one,   *)
(* whether or not it owns the lock.                                        *)
(***************************************************************************)
EXTENDS PthreadSync

CONSTANT
  Unlockers   \* the threads that may call primitive_unlock_simple_lock

ASSUME UnlockersAssumption == Unlockers \subseteq Threads

VARIABLES
  owner,     \* slock->owner
  mutex,     \* slock->mutex
  blocked,   \* the threads blocked on slock->cond
  pc,        \* where each thread is in the primitives
  timed,     \* whether its wait has a time limit
  timeout,   \* the local variable timeout of the wait
  result,    \* the code its last call returned
  held,      \* history: the threads that were told they have the lock
             \* and have not released it
  forced     \* history: whether a thread has unlocked by force

slock == <<owner, mutex, blocked>>
simpleLockVars == <<owner, mutex, blocked, pc, timed, timeout, result, held, forced>>

OK == "OK"
ALREADY_LOCKED == "ALREADY_LOCKED"
NOT_LOCKED == "NOT_LOCKED"
TIMEOUT == "TIMEOUT"
GENERAL_ERROR == "GENERAL_ERROR"
Running == "running"   \* the call has not returned yet
Codes == {OK, ALREADY_LOCKED, NOT_LOCKED, TIMEOUT, GENERAL_ERROR, Running}

\* Labels of the steps that are made with slock->mutex locked.
Inside == {"w_test", "w_block", "w_claim", "w_unlock", "r_signal", "r_unlock"}
\* Labels of a wait that has neither claimed the lock nor given up.
Waiting == {"w_mutex", "w_test", "w_block", "w_sleep", "w_claim"}
Labels == Inside \cup Waiting \cup {"idle", "r_clear", "r_mutex", "u_clear"}

TypeOK ==
  /\ owner \in ThreadOrNone
  /\ mutex \in ThreadOrNone
  /\ blocked \subseteq Threads
  /\ pc \in [Threads -> Labels]
  /\ timed \in [Threads -> BOOLEAN]
  /\ timeout \in [Threads -> BOOLEAN]
  /\ result \in [Threads -> Codes]
  /\ held \subseteq Threads
  /\ forced \in BOOLEAN

\* primitive_make_simple_lock.
SimpleLockInit ==
  /\ owner = NoThread
  /\ mutex = NoThread
  /\ blocked = {}
  /\ pc = [t \in Threads |-> "idle"]
  /\ timed = [t \in Threads |-> FALSE]
  /\ timeout = [t \in Threads |-> FALSE]
  /\ result = [t \in Threads |-> OK]
  /\ held = {}
  /\ forced = FALSE

\* Thread t goes from one label to another.
Goto(t, from, to) ==
  /\ pc[t] = from
  /\ pc' = [pc EXCEPT ![t] = to]

\* Thread t calls a primitive whose first step is at label "to".
Enter(t, to) ==
  /\ Goto(t, "idle", to)
  /\ result' = [result EXCEPT ![t] = Running]

\* Thread t is at "from" and returns code to its caller.
Return(t, from, code) ==
  /\ Goto(t, from, "idle")
  /\ result' = [result EXCEPT ![t] = code]

-----------------------------------------------------------------------------
(* primitive_wait_for_simple_lock, and with "limited" the same code with a *)
(* time limit, primitive_wait_for_simple_lock_timed.                       *)

\* Mutant: the owner is not told that it has the lock already.
WaitForSimpleLock_Unchecked(t, limited) ==
  /\ Enter(t, "w_mutex")
  /\ timed' = [timed EXCEPT ![t] = limited]
  /\ UNCHANGED <<slock, timeout, held, forced>>

\* The call, with the unprotected test for a lock that is already owned.
WaitForSimpleLock(t, limited) ==
  /\ \/ owner = t /\ Return(t, "idle", ALREADY_LOCKED) /\ UNCHANGED timed
     \/ owner # t /\ Enter(t, "w_mutex") /\ timed' = [timed EXCEPT ![t] = limited]
  /\ UNCHANGED <<slock, timeout, held, forced>>

WaitLockMutex(t) ==
  /\ Goto(t, "w_mutex", "w_test")
  /\ MutexLock(mutex, t)
  /\ UNCHANGED <<owner, blocked, timed, timeout, result, held, forced>>

\* The condition of the while loop and the test after it.
WaitTest(t) ==
  /\ \/ owner # NoThread /\ ~timeout[t] /\ Goto(t, "w_test", "w_block")
     \/ owner = NoThread /\ ~timeout[t] /\ Goto(t, "w_test", "w_claim")
     \/ timeout[t] /\ Goto(t, "w_test", "w_unlock")
  /\ UNCHANGED <<slock, timed, timeout, result, held, forced>>

WaitBlock(t) ==
  /\ Goto(t, "w_block", "w_sleep")
  /\ CondBlock(mutex, blocked, t)
  /\ UNCHANGED <<owner, timed, timeout, result, held, forced>>

\* A wakeup nobody signalled.
WaitSpurious(t) ==
  /\ CondLeave(blocked, t)
  /\ UNCHANGED <<owner, mutex, pc, timed, timeout, result, held, forced>>

\* pthread_cond_timedwait reports that the limit has passed.
WaitTimeout(t) ==
  /\ timed[t]
  /\ CondLeave(blocked, t)
  /\ timeout' = [timeout EXCEPT ![t] = TRUE]
  /\ UNCHANGED <<owner, mutex, pc, timed, result, held, forced>>

\* Mutant: "if" where the code has "while": a woken thread does not test again.
WaitWake_ClaimsAtOnce(t) ==
  /\ t \notin blocked
  /\ Goto(t, "w_sleep", "w_claim")
  /\ MutexLock(mutex, t)
  /\ UNCHANGED <<owner, blocked, timed, timeout, result, held, forced>>

\* A woken thread locks the mutex again before it returns from the cond wait.
WaitWake(t) ==
  /\ t \notin blocked
  /\ Goto(t, "w_sleep", "w_test")
  /\ MutexLock(mutex, t)
  /\ UNCHANGED <<owner, blocked, timed, timeout, result, held, forced>>

WaitClaim(t) ==
  /\ Goto(t, "w_claim", "w_unlock")
  /\ owner' = t
  /\ UNCHANGED <<mutex, blocked, timed, timeout, result, held, forced>>

WaitUnlock(t) ==
  /\ Return(t, "w_unlock", IF timeout[t] THEN TIMEOUT ELSE OK)
  /\ MutexUnlock(mutex)
  /\ held' = IF timeout[t] THEN held ELSE held \cup {t}
  /\ timed' = [timed EXCEPT ![t] = FALSE]
  /\ timeout' = [timeout EXCEPT ![t] = FALSE]
  /\ UNCHANGED <<owner, blocked, forced>>

-----------------------------------------------------------------------------
(* primitive_release_simple_lock, and primitive_unlock_simple_lock, which  *)
(* frees the lock whoever owns it.                                         *)

\* The call, with the unprotected test that the caller is the owner.
ReleaseSimpleLock(t) ==
  /\ \/ owner # t /\ Return(t, "idle", NOT_LOCKED) /\ UNCHANGED held
     \/ owner = t /\ Enter(t, "r_clear") /\ held' = held \ {t}
  /\ UNCHANGED <<slock, timed, timeout, forced>>

UnlockSimpleLock(t) ==
  /\ t \in Unlockers
  /\ \/ owner = NoThread /\ Return(t, "idle", OK) /\ UNCHANGED forced
     \/ owner # NoThread /\ Enter(t, "u_clear") /\ forced' = TRUE
  /\ UNCHANGED <<slock, timed, timeout, held>>

\* The store that frees the lock, made before the mutex is locked.
ReleaseClear(t) ==
  /\ Goto(t, "r_clear", "r_mutex") \/ Goto(t, "u_clear", "r_mutex")
  /\ owner' = NoThread
  /\ UNCHANGED <<mutex, blocked, timed, timeout, result, held, forced>>

\* Mutant: the signal is sent without the mutex.
ReleaseLockMutex_Skipped(t) ==
  /\ Goto(t, "r_mutex", "r_signal")
  /\ UNCHANGED <<slock, timed, timeout, result, held, forced>>

ReleaseLockMutex(t) ==
  /\ Goto(t, "r_mutex", "r_signal")
  /\ MutexLock(mutex, t)
  /\ UNCHANGED <<owner, blocked, timed, timeout, result, held, forced>>

ReleaseSignal(t) ==
  /\ Goto(t, "r_signal", "r_unlock")
  /\ CondSignal(blocked)
  /\ UNCHANGED <<owner, mutex, timed, timeout, result, held, forced>>

ReleaseUnlock(t) ==
  /\ Return(t, "r_unlock", OK)
  /\ MutexUnlock(mutex)
  /\ UNCHANGED <<owner, blocked, timed, timeout, held, forced>>

\* primitive_owned_simple_lock.
OwnedSimpleLock(t) == owner = t

-----------------------------------------------------------------------------
\* A client calls one of the primitives.
Call(t) ==
  \/ WaitForSimpleLock(t, FALSE)
  \/ WaitForSimpleLock(t, TRUE)
  \/ ReleaseSimpleLock(t)
  \/ UnlockSimpleLock(t)

\* A step of a thread that is inside a primitive and is not blocked.
Advance(t) ==
  \/ WaitLockMutex(t) \/ WaitTest(t) \/ WaitBlock(t) \/ WaitWake(t)
  \/ WaitClaim(t) \/ WaitUnlock(t)
  \/ ReleaseClear(t) \/ ReleaseLockMutex(t) \/ ReleaseSignal(t) \/ ReleaseUnlock(t)

SimpleLockStep(t) == Advance(t) \/ WaitSpurious(t) \/ WaitTimeout(t)

SimpleLockNext == \E t \in Threads : Call(t) \/ SimpleLockStep(t)

Spec == SimpleLockInit /\ [][SimpleLockNext]_simpleLockVars

-----------------------------------------------------------------------------
(* Properties.                                                             *)

\* A thread that wait-for told it has the lock is its owner until it
\* releases it: two threads are never both told so, and the store that frees
\* the lock without the mutex never takes it from somebody else.  It holds until
\* a thread unlocks by force.
MutualExclusion == ~forced => \A t \in held : owner = t

\* The threads on their way to the test of the owner word: woken and not
\* timed out.
Awake(t) ==
  /\ ~timeout[t]
  /\ pc[t] \in {"w_test", "w_claim"} \/ (pc[t] = "w_sleep" /\ t \notin blocked)

\* The lock is never left free with a thread asleep on its condition variable
\* and nobody left who will notice: although the owner word is cleared without
\* the mutex, between a waiter's test and its going to sleep too, either a
\* signal is still to come or some thread is awake that will test again.
NoLostWakeup ==
  owner = NoThread /\ blocked # {} =>
    \E t \in Threads : pc[t] \in {"r_mutex", "r_signal"} \/ Awake(t)

\* Until a thread unlocks by force the primitives implement the abstract
\* exclusive lock: what the unprotected accesses do is a wait, a claim, a
\* release by the holder, or nothing that a client can see.
Abstract == INSTANCE ExclusiveLock WITH
  holder <- owner,
  waiting <- {t \in Threads : pc[t] \in Waiting}

ImplementsExclusiveLock ==
  Abstract!Init /\ [][forced' \/ Abstract!Next]_Abstract!vars
=============================================================================
