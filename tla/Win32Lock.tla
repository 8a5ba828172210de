----------------------------- MODULE Win32Lock -----------------------------
(***************************************************************************)
(* The <simple-lock> and <recursive-lock> primitives of the Win32          *)
(* run-time, win32-threads-primitives.c.                                   *)
(*                                                                         *)
(* A lock is an owner word, a count of the claims on it (-1 is none) and a *)
(* kernel semaphore with a maximum of one.  A claim that takes the count   *)
(* from -1 to 0 has the lock; any other waits for the semaphore, which a   *)
(* release hands on when the count says there is somebody to hand it to.   *)
(* Nothing protects the three words together: every access is a step of    *)
(* its own, except that a store to recursion_count goes with the store to  *)
(* the owner word beside it.                                               *)
(*                                                                         *)
(* The two kinds of lock differ in where they look at the owner word: a    *)
(* behaviour is about one lock, whose kind is chosen in the initial state. *)
(***************************************************************************)
EXTENDS Win32Sync, FiniteSets

CONSTANTS
  Unlockers,      \* the threads that may unlock a lock by force
  Hasty,          \* the threads that may wait with a time limit
  MaxAbandoned,   \* bound: waits for the semaphore that time out
  MaxDepth        \* bound: nested claims of a recursive lock

ASSUME Win32LockAssumption ==
  /\ IsFiniteSet(Threads)
  /\ Unlockers \subseteq Threads
  /\ Hasty \subseteq Threads
  /\ MaxAbandoned \in Nat
  /\ MaxDepth \in Nat \ {0}

VARIABLES
  kind,             \* "simple" or "recursive"
  owner,            \* lock->owner
  lock_count,       \* lock->lock_count
  semaphore,        \* lock->semaphore
  recursion_count,  \* rlock->recursion_count
  pc,               \* where each thread is in the primitives
  timed,            \* whether its wait has a time limit
  loaded,           \* the value that lock_count-- has loaded
  result,           \* the code its last call returned
  depth,            \* history: the claims each thread was granted and has
                    \* not released
  abandoned,        \* history: the waits for the semaphore that timed out
  lost,             \* history: whether lock_count-- has overwritten a claim
  crossed           \* history: whether a forced unlock has crossed another
                    \* thread's call (Crossing)

lock == <<kind, owner, lock_count, semaphore, recursion_count>>
lockHistory == <<depth, abandoned, lost>>
lockState == <<lock, pc, timed, loaded, result, lockHistory>>
lockVars == <<lockState, crossed>>

OK == "OK"
ALREADY_LOCKED == "ALREADY_LOCKED"
NOT_LOCKED == "NOT_LOCKED"
TIMEOUT == "TIMEOUT"
GENERAL_ERROR == "GENERAL_ERROR"
Running == "running"   \* the call has not returned yet
Codes == {OK, ALREADY_LOCKED, NOT_LOCKED, TIMEOUT, GENERAL_ERROR, Running}

\* Labels of a wait that has not been counted yet or does not have the lock.
Waiting == {"w_inc", "w_self", "w_sem", "w_own"}
Labels == Waiting \cup
  {"idle", "w_again", "w_load", "w_store",
   "r_count", "r_clear", "u_clear", "r_dec", "r_post"}

LockTypeOK ==
  /\ kind \in {"simple", "recursive"}
  /\ owner \in ThreadOrNone
  /\ lock_count \in Int
  /\ semaphore \in 0..1
  /\ recursion_count \in Int
  /\ pc \in [Threads -> Labels]
  /\ timed \in [Threads -> BOOLEAN]
  /\ loaded \in [Threads -> Int]
  /\ result \in [Threads -> Codes]
  /\ depth \in [Threads -> Int]
  /\ abandoned \in Nat
  /\ lost \in BOOLEAN
  /\ crossed \in BOOLEAN

\* primitive_make_simple_lock or primitive_make_recursive_lock.
LockInit ==
  /\ kind \in {"simple", "recursive"}
  /\ owner = NoThread
  /\ lock_count = -1
  /\ semaphore = 0
  /\ recursion_count = 0
  /\ pc = [t \in Threads |-> "idle"]
  /\ timed = [t \in Threads |-> FALSE]
  /\ loaded = [t \in Threads |-> 0]
  /\ result = [t \in Threads |-> OK]
  /\ depth = [t \in Threads |-> 0]
  /\ abandoned = 0
  /\ lost = FALSE
  /\ crossed = FALSE

Goto(t, from, to) ==
  /\ pc[t] = from
  /\ pc' = [pc EXCEPT ![t] = to]

Enter(t, to) ==
  /\ Goto(t, "idle", to)
  /\ result' = [result EXCEPT ![t] = Running]

Return(t, from, code) ==
  /\ Goto(t, from, "idle")
  /\ result' = [result EXCEPT ![t] = code]

-----------------------------------------------------------------------------
(* primitive_wait_for_simple_lock, primitive_wait_for_recursive_lock and   *)
(* their _timed and _internal forms.                                       *)

\* The owner of a recursive lock only counts the nested claim.  A simple lock
\* does not look at the owner before it has counted the claim.
WaitForLock(t, limited) ==
  /\ limited => t \in Hasty
  /\ \/ /\ kind = "recursive" /\ owner = t /\ depth[t] < MaxDepth
        /\ Enter(t, "w_again")
     \/ /\ kind = "simple" \/ owner # t
        /\ Enter(t, "w_inc")
  /\ timed' = [timed EXCEPT ![t] = limited]
  /\ UNCHANGED <<lock, loaded, lockHistory>>

WaitAgain(t) ==
  /\ Return(t, "w_again", OK)
  /\ recursion_count' = recursion_count + 1
  /\ depth' = [depth EXCEPT ![t] = @ + 1]
  /\ timed' = [timed EXCEPT ![t] = FALSE]
  /\ UNCHANGED <<kind, owner, lock_count, semaphore, loaded, abandoned, lost>>

WaitIncrement(t) ==
  /\ InterlockedIncrement(lock_count)
  /\ \/ lock_count' = 0 /\ Goto(t, "w_inc", "w_own")
     \/ lock_count' # 0 /\ kind = "simple" /\ Goto(t, "w_inc", "w_self")
     \/ lock_count' # 0 /\ kind = "recursive" /\ Goto(t, "w_inc", "w_sem")
  /\ UNCHANGED <<kind, owner, semaphore, recursion_count, timed, loaded, result, lockHistory>>

\* A simple lock that is not free: is it the caller's own?
WaitSelf(t) ==
  /\ \/ owner = t /\ Goto(t, "w_self", "w_load")
     \/ owner # t /\ Goto(t, "w_self", "w_sem")
  /\ UNCHANGED <<lock, timed, loaded, result, lockHistory>>

\* slock->lock_count-- takes the claim back.  It is not an interlocked
\* operation: the load and the store are two steps.
WaitUncountLoad(t) ==
  /\ Goto(t, "w_load", "w_store")
  /\ loaded' = [loaded EXCEPT ![t] = lock_count]
  /\ UNCHANGED <<lock, timed, result, lockHistory>>

WaitUncountStore(t) ==
  /\ Return(t, "w_store", ALREADY_LOCKED)
  /\ lock_count' = loaded[t] - 1
  /\ lost' = (lost \/ lock_count # loaded[t])
  /\ loaded' = [loaded EXCEPT ![t] = 0]
  /\ timed' = [timed EXCEPT ![t] = FALSE]
  /\ UNCHANGED <<kind, owner, semaphore, recursion_count, depth, abandoned>>

WaitSemaphore(t) ==
  /\ Goto(t, "w_sem", "w_own")
  /\ SemaphoreWait(semaphore)
  /\ UNCHANGED <<kind, owner, lock_count, recursion_count, timed, loaded, result, lockHistory>>

\* The time limit passes.  The claim stays in lock_count.
WaitTimeout(t) ==
  /\ semaphore = 0
  /\ timed[t] /\ abandoned < MaxAbandoned
  /\ Return(t, "w_sem", TIMEOUT)
  /\ abandoned' = abandoned + 1
  /\ timed' = [timed EXCEPT ![t] = FALSE]
  /\ UNCHANGED <<lock, loaded, depth, lost>>

WaitOwn(t) ==
  /\ Return(t, "w_own", OK)
  /\ owner' = t
  /\ recursion_count' = IF kind = "recursive" THEN 1 ELSE recursion_count
  /\ depth' = [depth EXCEPT ![t] = 1]
  /\ timed' = [timed EXCEPT ![t] = FALSE]
  /\ UNCHANGED <<kind, lock_count, semaphore, loaded, abandoned, lost>>

-----------------------------------------------------------------------------
(* primitive_release_simple_lock, primitive_release_recursive_lock, and    *)
(* primitive_unlock_simple_lock and primitive_unlock_recursive_lock, which *)
(* free the lock whoever owns it.                                          *)

ReleaseLock(t) ==
  /\ \/ owner # t /\ Return(t, "idle", NOT_LOCKED) /\ UNCHANGED depth
     \/ /\ owner = t
        /\ Enter(t, IF kind = "recursive" THEN "r_count" ELSE "r_clear")
        /\ depth' = [depth EXCEPT ![t] = @ - 1]
  /\ UNCHANGED <<lock, timed, loaded, abandoned, lost>>

ReleaseCount(t) ==
  /\ recursion_count' = recursion_count - 1
  /\ \/ recursion_count' = 0 /\ Goto(t, "r_count", "r_clear") /\ UNCHANGED result
     \/ recursion_count' # 0 /\ Return(t, "r_count", OK)
  /\ UNCHANGED <<kind, owner, lock_count, semaphore, timed, loaded, lockHistory>>

UnlockLock(t) ==
  /\ t \in Unlockers
  /\ \/ owner = NoThread /\ Return(t, "idle", OK)
     \/ owner # NoThread /\ Enter(t, "u_clear")
  /\ UNCHANGED <<lock, timed, loaded, lockHistory>>

ReleaseClear(t) ==
  /\ Goto(t, "r_clear", "r_dec")
  /\ owner' = NoThread
  /\ UNCHANGED <<kind, lock_count, semaphore, recursion_count, timed, loaded, result, lockHistory>>

\* Mutant: the lock is taken from its owner and not freed.
UnlockClear_TakesOver(t) ==
  /\ Goto(t, "u_clear", "r_dec")
  /\ recursion_count' = IF kind = "recursive" THEN 0 ELSE recursion_count
  /\ owner' = t
  /\ depth' = [u \in Threads |-> IF u = owner THEN 0 ELSE depth[u]]
  /\ UNCHANGED <<kind, lock_count, semaphore, timed, loaded, result, abandoned, lost>>

\* The claims of the owner are void from here on.
UnlockClear(t) ==
  /\ Goto(t, "u_clear", "r_dec")
  /\ recursion_count' = IF kind = "recursive" THEN 0 ELSE recursion_count
  /\ owner' = NoThread
  /\ depth' = [u \in Threads |-> IF u = owner THEN 0 ELSE depth[u]]
  /\ UNCHANGED <<kind, lock_count, semaphore, timed, loaded, result, abandoned, lost>>

\* Mutant: the semaphore is released whether or not anybody waits for it.
ReleaseDecrement_Always(t) ==
  /\ InterlockedDecrement(lock_count)
  /\ Goto(t, "r_dec", "r_post")
  /\ UNCHANGED <<kind, owner, semaphore, recursion_count, timed, loaded, result, lockHistory>>

\* Mutant: a single waiter is overlooked.
ReleaseDecrement_OffByOne(t) ==
  /\ InterlockedDecrement(lock_count)
  /\ \/ lock_count' > 0 /\ Goto(t, "r_dec", "r_post") /\ UNCHANGED result
     \/ lock_count' <= 0 /\ Return(t, "r_dec", OK)
  /\ UNCHANGED <<kind, owner, semaphore, recursion_count, timed, loaded, lockHistory>>

\* The semaphore is handed on if the count says that somebody waits for it.
ReleaseDecrement(t) ==
  /\ InterlockedDecrement(lock_count)
  /\ \/ lock_count' >= 0 /\ Goto(t, "r_dec", "r_post") /\ UNCHANGED result
     \/ lock_count' < 0 /\ Return(t, "r_dec", OK)
  /\ UNCHANGED <<kind, owner, semaphore, recursion_count, timed, loaded, lockHistory>>

ReleasePost(t) ==
  /\ Return(t, "r_post", IF semaphore < 1 THEN OK ELSE GENERAL_ERROR)
  /\ SemaphoreRelease(semaphore, 1)
  /\ UNCHANGED <<kind, owner, lock_count, recursion_count, timed, loaded, lockHistory>>

\* primitive_owned_simple_lock and primitive_owned_recursive_lock.
OwnedLock(t) == owner = t

-----------------------------------------------------------------------------
\* A client calls one of the primitives.  Bound: no new calls once a forced
\* unlock has crossed another call; the properties claim nothing from there on.
Call(t) ==
  /\ ~crossed
  /\ \/ \E limited \in BOOLEAN : WaitForLock(t, limited)
     \/ ReleaseLock(t)
     \/ UnlockLock(t)

\* A step of a thread that is inside a primitive and is not blocked.
Advance(t) ==
  \/ WaitIncrement(t) \/ WaitSelf(t) \/ WaitUncountLoad(t) \/ WaitUncountStore(t)
  \/ WaitSemaphore(t) \/ WaitOwn(t) \/ WaitAgain(t)
  \/ ReleaseCount(t) \/ ReleaseClear(t) \/ UnlockClear(t)
  \/ ReleaseDecrement(t) \/ ReleasePost(t)

\* A thread that unlocks by force has looked at the owner word and not cleared
\* it yet, while the owner is inside a call too or another thread is as far.
Crossing ==
  \E t, u \in Threads :
    /\ t # u /\ pc[t] = "u_clear"
    /\ (owner = u /\ pc[u] # "idle") \/ pc[u] = "u_clear"

LockStep(t) == Call(t) \/ Advance(t) \/ WaitTimeout(t)

LockNext ==
  /\ \E t \in Threads : LockStep(t)
  /\ crossed' = (crossed \/ Crossing')

LockSpec == LockInit /\ [][LockNext]_lockVars

-----------------------------------------------------------------------------
(* Properties.                                                             *)

\* The threads that have the lock or are handing it on.
Having ==
  {t \in Threads : owner = t \/ pc[t] \in {"w_own", "r_clear", "r_dec", "r_post"}}

\* The lock is in one place: a thread has it, or is handing it on, or it lies in
\* the semaphore.  So two claims are never granted, the semaphore never exceeds
\* its maximum although the claims of waits that timed out are still counted,
\* and a thread that was granted a claim is the owner, to the depth counted.
\* It holds whatever lock_count-- overwrites, and when the lock is taken from
\* its owner by force, unless that crosses a call of the owner.
LockInOnePlace ==
  ~crossed =>
    /\ \A t, u \in Having : t = u
    /\ Having # {} => semaphore = 0
    /\ \A t \in Threads : depth[t] > 0 => owner = t
    /\ \A t \in Threads : kind = "recursive" /\ owner = t /\ pc[t] = "idle" =>
         recursion_count = depth[t]

\* A thread that waits for the semaphore is never left behind: somebody has the
\* lock or is handing it on, or it lies in the semaphore.  It holds unless a
\* second claim by the owner of a simple lock has overwritten the count.
NobodyLeftBehind ==
  ~crossed /\ ~lost =>
    ((\E t \in Threads : pc[t] = "w_sem") => Having # {} \/ semaphore = 1)

Abstract == INSTANCE ExclusiveLock WITH
  holder <- owner,
  waiting <- {t \in Threads : pc[t] \in Waiting /\ owner # t}

\* Both kinds of lock implement the abstract exclusive lock, timeouts, second
\* claims and forced unlocks included, until a forced unlock crosses a call of
\* the owner.
ImplementsExclusiveLock ==
  Abstract!Init /\ [][crossed' \/ Abstract!Next]_Abstract!vars
=============================================================================
