--------------------------- MODULE ReadWriteLock ---------------------------
(***************************************************************************)
(* The <read-write-lock> of locks.dylan, which is written in Dylan on top  *)
(* of a <notification> and its associated <simple-lock>.                   *)
(*                                                                         *)
(* The state of the lock is the thread that owns it in write mode, or the  *)
(* number of claims in read mode.  It is touched only inside               *)
(* with-lock (inner-lock), so what a thread does with it between claiming  *)
(* the inner lock and calling the notification or leaving with-lock is one *)
(* step.                                                                   *)
(*                                                                         *)
(* The inner lock is modelled by its contract, which PosixSimpleLock is    *)
(* shown to keep: it is claimed and released in one step.  It never leaves *)
(* this class, so nobody takes it away by force, and the calls of it in    *)
(* the notification succeed.  The notification is that of posix-threads.c, *)
(* step for step, with its mutex: a woken thread has notification->mutex   *)
(* locked while it waits for the inner lock, and release-all locks it with *)
(* the inner lock owned.                                                   *)
(*                                                                         *)
(* A release in read mode decrements the count whoever calls it: one by a  *)
(* thread that has no claim ends a claim of another thread.                *)
(***************************************************************************)
EXTENDS PthreadSync, Integers, FiniteSets

CONSTANT
  MaxReads     \* bound: the claims in read mode one thread has at a time

ASSUME ReadWriteLockAssumption ==
  /\ Threads \cap Nat = {}
  /\ MaxReads \in Nat

VARIABLES
  state,       \* rw-lock-state
  inner,       \* the owner of inner-lock
  nmutex,      \* notification->mutex
  waiting,     \* the threads blocked on notification->cond
  pc,          \* where each thread is in wait-for or release
  mode,        \* the mode: of its wait-for
  timed,       \* whether its wait-for has a timeout:
  timeout,     \* whether that has passed
  reads,       \* history: the claims in read mode, as pairs of thread and number
  writers      \* history: the threads that have claimed in write mode

clients == <<mode, timed, reads, writers>>
vars == <<state, inner, nmutex, waiting, pc, mode, timed, timeout, reads, writers>>

Read == "read"
Write == "write"
Labels ==
  {"idle", "w_lock", "w_body", "r_lock", "r_body", "unlock",
   "n_mutex", "n_release", "n_block", "w_wait", "n_claim", "n_unlock",
   "a_mutex", "a_signal", "a_unlock"}

\* Labels at which a thread owns the inner lock.
Owning ==
  {"w_body", "r_body", "unlock", "n_mutex", "n_release", "n_unlock",
   "a_mutex", "a_signal", "a_unlock"}

\* Labels at which a thread has notification->mutex locked.
Inside == {"n_release", "n_block", "n_claim", "n_unlock", "a_signal", "a_unlock"}

TypeOK ==
  /\ state \in Nat \cup Threads
  /\ inner \in ThreadOrNone
  /\ nmutex \in ThreadOrNone
  /\ waiting \subseteq Threads
  /\ pc \in [Threads -> Labels]
  /\ mode \in [Threads -> {Read, Write}]
  /\ timed \in [Threads -> BOOLEAN]
  /\ timeout \in [Threads -> BOOLEAN]
  /\ reads \subseteq Threads \X (1 .. MaxReads)
  /\ writers \subseteq Threads

Init ==
  /\ state = 0
  /\ inner = NoThread
  /\ nmutex = NoThread
  /\ waiting = {}
  /\ pc = [t \in Threads |-> "idle"]
  /\ mode = [t \in Threads |-> Read]
  /\ timed = [t \in Threads |-> FALSE]
  /\ timeout = [t \in Threads |-> FALSE]
  /\ reads = {}
  /\ writers = {}

Goto(t, from, to) ==
  /\ pc[t] = from
  /\ pc' = [pc EXCEPT ![t] = to]

ReadsOf(t) == {c \in reads : c[1] = t}

\* locked-for-writing?, by thread t.
LockedForWriting(t) == state = t

\* locked-for-reading?
LockedForReading == state \in Nat \ {0}
\* Mutant: a writer is let in beside readers.
FreeFor_AnyInteger(t) == state \in Nat

\* lock-is-free? and lock-is-free-for-reading?, for the mode thread t wants.
FreeFor(t) == IF mode[t] = Write THEN state = 0 ELSE state \in Nat

-----------------------------------------------------------------------------
(* wait-for.                                                               *)

WaitFor(t, m, limited) ==
  /\ m = Read => Cardinality(ReadsOf(t)) < MaxReads
  /\ Goto(t, "idle", "w_lock")
  /\ mode' = [mode EXCEPT ![t] = m]
  /\ timed' = [timed EXCEPT ![t] = limited]
  /\ UNCHANGED <<state, inner, nmutex, waiting, timeout, reads, writers>>

WaitLockInner(t) ==
  /\ Goto(t, "w_lock", "w_body")
  /\ inner = NoThread
  /\ inner' = t
  /\ UNCHANGED <<state, nmutex, waiting, clients, timeout>>

\* A wait that timed out leaves through exit(#f).
WaitFail(t) ==
  /\ timeout[t]
  /\ Goto(t, "w_body", "unlock")
  /\ UNCHANGED <<state, inner, nmutex, waiting, clients, timeout>>

\* The until test fails: wait-for (monitor), whose owner test succeeds.
WaitBlock(t) ==
  /\ ~timeout[t] /\ ~FreeFor(t)
  /\ Goto(t, "w_body", "n_mutex")
  /\ UNCHANGED <<state, inner, nmutex, waiting, clients, timeout>>

WaitClaim(t) ==
  /\ ~timeout[t] /\ FreeFor(t)
  /\ Goto(t, "w_body", "unlock")
  /\ \/ /\ mode[t] = Write
        /\ state' = t
        /\ writers' = writers \cup {t}
        /\ UNCHANGED reads
     \/ /\ mode[t] = Read
        /\ state' = state + 1
        /\ \E k \in 1 .. MaxReads :
             <<t, k>> \notin reads /\ reads' = reads \cup {<<t, k>>}
        /\ UNCHANGED writers
  /\ UNCHANGED <<inner, nmutex, waiting, mode, timed, timeout>>

-----------------------------------------------------------------------------
(* wait-for of the notification.                                           *)

NWaitLockMutex(t) ==
  /\ Goto(t, "n_mutex", "n_release")
  /\ MutexLock(nmutex, t)
  /\ UNCHANGED <<state, inner, waiting, clients, timeout>>

NWaitRelease(t) ==
  /\ Goto(t, "n_release", "n_block")
  /\ inner' = NoThread
  /\ UNCHANGED <<state, nmutex, waiting, clients, timeout>>

NWaitBlock(t) ==
  /\ Goto(t, "n_block", "w_wait")
  /\ CondBlock(nmutex, waiting, t)
  /\ UNCHANGED <<state, inner, clients, timeout>>

NWaitSpurious(t) ==
  /\ CondLeave(waiting, t)
  /\ UNCHANGED <<state, inner, nmutex, pc, clients, timeout>>

NWaitTimeout(t) ==
  /\ timed[t]
  /\ CondLeave(waiting, t)
  /\ timeout' = [timeout EXCEPT ![t] = TRUE]
  /\ UNCHANGED <<state, inner, nmutex, pc, clients>>

\* A thread that is no longer blocked locks the mutex again.
NWaitWake(t) ==
  /\ t \notin waiting
  /\ Goto(t, "w_wait", "n_claim")
  /\ MutexLock(nmutex, t)
  /\ UNCHANGED <<state, inner, waiting, clients, timeout>>

NWaitClaim(t) ==
  /\ Goto(t, "n_claim", "n_unlock")
  /\ inner = NoThread
  /\ inner' = t
  /\ UNCHANGED <<state, nmutex, waiting, clients, timeout>>

\* Mutant: a wait that timed out returns without unlocking the mutex.
NWaitUnlock_NotLate(t) ==
  /\ Goto(t, "n_unlock", "w_body")
  /\ IF timeout[t] THEN UNCHANGED nmutex ELSE MutexUnlock(nmutex)
  /\ UNCHANGED <<state, inner, waiting, clients, timeout>>

NWaitUnlock(t) ==
  /\ Goto(t, "n_unlock", "w_body")
  /\ MutexUnlock(nmutex)
  /\ UNCHANGED <<state, inner, waiting, clients, timeout>>

-----------------------------------------------------------------------------
(* release.                                                                *)

\* Any thread may call it, whether or not it has a claim.
Release(t) ==
  /\ Goto(t, "idle", "r_lock")
  /\ UNCHANGED <<state, inner, nmutex, waiting, clients, timeout>>

ReleaseLockInner(t) ==
  /\ Goto(t, "r_lock", "r_body")
  /\ inner = NoThread
  /\ inner' = t
  /\ UNCHANGED <<state, nmutex, waiting, clients, timeout>>

\* The owner in write mode frees the lock and calls release-all.
ReleaseWrite(t) ==
  /\ LockedForWriting(t)
  /\ Goto(t, "r_body", "a_mutex")
  /\ state' = 0
  /\ writers' = writers \ {t}
  /\ UNCHANGED <<inner, nmutex, waiting, mode, timed, timeout, reads>>

\* Mutant: the old count is tested in place of the new one.
ReleaseRead_TestsOldCount(t) ==
  /\ ~LockedForWriting(t) /\ LockedForReading
  /\ Goto(t, "r_body", IF state = 0 THEN "a_mutex" ELSE "unlock")
  /\ state' = state - 1
  /\ \E c \in IF ReadsOf(t) # {} THEN ReadsOf(t) ELSE reads : reads' = reads \ {c}
  /\ UNCHANGED <<inner, nmutex, waiting, mode, timed, timeout, writers>>

\* In read mode the count goes down, and at zero release-all is called.
ReleaseRead(t) ==
  /\ ~LockedForWriting(t) /\ LockedForReading
  /\ Goto(t, "r_body", IF state - 1 = 0 THEN "a_mutex" ELSE "unlock")
  /\ state' = state - 1
  /\ \E c \in IF ReadsOf(t) # {} THEN ReadsOf(t) ELSE reads : reads' = reads \ {c}
  /\ UNCHANGED <<inner, nmutex, waiting, mode, timed, timeout, writers>>

\* Otherwise a <not-owned-error> is signalled after with-lock.
ReleaseError(t) ==
  /\ ~LockedForWriting(t) /\ ~LockedForReading
  /\ Goto(t, "r_body", "unlock")
  /\ UNCHANGED <<state, inner, nmutex, waiting, clients, timeout>>

\* The end of with-lock, in both; the arguments of the call are forgotten.
Unlock(t) ==
  /\ Goto(t, "unlock", "idle")
  /\ inner' = NoThread
  /\ mode' = [mode EXCEPT ![t] = Read]
  /\ timed' = [timed EXCEPT ![t] = FALSE]
  /\ timeout' = [timeout EXCEPT ![t] = FALSE]
  /\ UNCHANGED <<state, nmutex, waiting, reads, writers>>

-----------------------------------------------------------------------------
(* release-all of the notification.                                        *)

NReleaseLockMutex(t) ==
  /\ Goto(t, "a_mutex", "a_signal")
  /\ MutexLock(nmutex, t)
  /\ UNCHANGED <<state, inner, waiting, clients, timeout>>

NReleaseBroadcast(t) ==
  /\ Goto(t, "a_signal", "a_unlock")
  /\ CondBroadcast(waiting)
  /\ UNCHANGED <<state, inner, nmutex, clients, timeout>>

NReleaseUnlock(t) ==
  /\ Goto(t, "a_unlock", "unlock")
  /\ MutexUnlock(nmutex)
  /\ UNCHANGED <<state, inner, waiting, clients, timeout>>

-----------------------------------------------------------------------------
Call(t) ==
  \/ \E m \in {Read, Write}, limited \in BOOLEAN : WaitFor(t, m, limited)
  \/ Release(t)

WaitStep(t) ==
  \/ WaitLockInner(t) \/ WaitFail(t) \/ WaitBlock(t) \/ WaitClaim(t)
  \/ NWaitLockMutex(t) \/ NWaitRelease(t) \/ NWaitBlock(t)
  \/ NWaitWake(t) \/ NWaitClaim(t) \/ NWaitUnlock(t)

ReleaseStep(t) ==
  \/ ReleaseLockInner(t) \/ ReleaseWrite(t) \/ ReleaseRead(t) \/ ReleaseError(t)
  \/ NReleaseLockMutex(t) \/ NReleaseBroadcast(t) \/ NReleaseUnlock(t)

Advance(t) == WaitStep(t) \/ ReleaseStep(t) \/ Unlock(t)

Next ==
  \E t \in Threads : Call(t) \/ Advance(t) \/ NWaitSpurious(t) \/ NWaitTimeout(t)

Spec == Init /\ [][Next]_vars

\* A thread that can take a step takes one in the end, and a thread that
\* contends for notification->mutex gets it.  Nothing of the kind is assumed of
\* the inner lock: a thread may be overtaken there every time it is free.
Fairness ==
  \A t \in Threads :
    /\ WF_vars(Advance(t))
    /\ SF_vars(NWaitLockMutex(t) \/ NWaitWake(t) \/ NReleaseLockMutex(t))

FairSpec == Spec /\ Fairness

-----------------------------------------------------------------------------
(* Properties.                                                             *)

\* While a thread has the lock in write mode no other thread has it in any
\* mode, and the count of readers is the number of claims in read mode that
\* were granted and not ended by a release, by their owner or by another thread.
ReadersAndWritersExclude ==
  \/ writers = {} /\ state = Cardinality(reads)
  \/ \E t \in Threads : writers = {t} /\ state = t /\ reads = {}

\* The threads that have found the lock taken and go to sleep, or sleep.
Sleepers == waiting \cup {t \in Threads : pc[t] \in {"n_mutex", "n_release", "n_block"}}

\* No thread sleeps, or goes to sleep, while the lock is free for what it wants,
\* unless a release-all is still to broadcast: every change of state that could
\* let it in calls release-all, which comes to wake all that looked before it.
NoSleeperOnFreeLock ==
  \A t \in Sleepers : FreeFor(t) => \E u \in Threads : pc[u] \in {"a_mutex", "a_signal"}

\* A release-all waits, owning the inner lock, for the mutex that a woken thread
\* keeps while it waits for the inner lock (posix-threads.c 956 against 597).
\* Neither goes on, and no thread claims or releases the lock any more.
Embraced ==
  \E t, u \in Threads : pc[t] = "n_claim" /\ pc[u] = "a_mutex"

\* A release of a free lock, which is an error.
Misused == state = 0 /\ \E t \in Threads : pc[t] = "r_body"

\* A free lock that a thread waits for without a timeout is claimed in the end,
\* by some thread, unless the embrace stops them all, or threads go on for ever
\* calling release on the free lock and take the inner lock each time to be told.
FreeLockIsClaimed ==
  \/ []<>Misused
  \/ (state = 0 /\ \E t \in Threads : pc[t] = "w_wait" /\ ~timed[t])
       ~> (state # 0 \/ Embraced)
=============================================================================
