------------------------- MODULE PosixNotification -------------------------
(***************************************************************************)
(* The <notification> primitives of the POSIX run-time, posix-threads.c,   *)
(* with the simple lock they are associated with.                          *)
(*                                                                         *)
(* A NOTIFICATION is a mutex and a condition variable.  wait-for releases  *)
(* the simple lock and claims it again by calling the lock's primitives,   *)
(* both times with notification->mutex locked; release and release-all     *)
(* lock notification->mutex while the caller owns the simple lock.         *)
(*                                                                         *)
(* The simple lock is PosixSimpleLock, step for step.  npc says where a    *)
(* thread is in the notification primitives, pc where it is in the lock    *)
(* primitive that it or its client has called.                             *)
(***************************************************************************)
EXTENDS PosixSimpleLock

VARIABLES
  nmutex,     \* notification->mutex
  nblocked,   \* the threads blocked on notification->cond
  npc,        \* where each thread is in the notification primitives
  ntimed,     \* whether its wait has a time limit
  ntimeout    \* the local variable timeout of the wait

notificationVars == <<nmutex, nblocked, npc, ntimed, ntimeout>>
vars == <<simpleLockVars, notificationVars>>

\* Labels of a wait-for that has not been woken.
Committing == {"n_mutex", "n_release", "n_releasing", "n_block"}
\* Labels of the steps made with notification->mutex locked.
NInside ==
  {"n_release", "n_releasing", "n_block", "n_claim", "n_claiming", "n_unlock",
   "s_signal", "a_signal", "s_unlock"}
NLabels == NInside \cup {"out", "n_mutex", "n_sleep", "s_mutex", "a_mutex"}

NotificationTypeOK ==
  /\ TypeOK
  /\ nmutex \in ThreadOrNone
  /\ nblocked \subseteq Threads
  /\ npc \in [Threads -> NLabels]
  /\ ntimed \in [Threads -> BOOLEAN]
  /\ ntimeout \in [Threads -> BOOLEAN]

\* primitive_make_notification.
NotificationInit ==
  /\ nmutex = NoThread
  /\ nblocked = {}
  /\ npc = [t \in Threads |-> "out"]
  /\ ntimed = [t \in Threads |-> FALSE]
  /\ ntimeout = [t \in Threads |-> FALSE]

Init == SimpleLockInit /\ NotificationInit

\* Thread t, which is not inside a lock primitive, goes between two labels.
NGoto(t, from, to) ==
  /\ pc[t] = "idle"
  /\ npc[t] = from
  /\ npc' = [npc EXCEPT ![t] = to]

\* Thread t returns code to its client.
NReturn(t, from, code) ==
  /\ NGoto(t, from, "out")
  /\ result' = [result EXCEPT ![t] = code]
  /\ UNCHANGED <<owner, mutex, blocked, pc, timed, timeout, held, forced>>

-----------------------------------------------------------------------------
(* primitive_wait_for_notification and                                     *)
(* primitive_wait_for_notification_timed.                                  *)

\* Mutant: the test that the caller owns the lock is left out.
WaitForNotification_Unchecked(t, limited) ==
  /\ NGoto(t, "out", "n_mutex")
  /\ ntimed' = [ntimed EXCEPT ![t] = limited]
  /\ UNCHANGED <<simpleLockVars, nmutex, nblocked, ntimeout>>

WaitForNotification(t, limited) ==
  /\ \/ /\ ~OwnedSimpleLock(t)
        /\ NReturn(t, "out", NOT_LOCKED)
        /\ UNCHANGED ntimed
     \/ /\ OwnedSimpleLock(t)
        /\ NGoto(t, "out", "n_mutex")
        /\ ntimed' = [ntimed EXCEPT ![t] = limited]
        /\ UNCHANGED simpleLockVars
  /\ UNCHANGED <<nmutex, nblocked, ntimeout>>

\* Mutant: the lock is released without notification->mutex.
NWaitLockMutex_Skipped(t) ==
  /\ NGoto(t, "n_mutex", "n_release")
  /\ UNCHANGED <<simpleLockVars, nmutex, nblocked, ntimed, ntimeout>>

NWaitLockMutex(t) ==
  /\ NGoto(t, "n_mutex", "n_release")
  /\ MutexLock(nmutex, t)
  /\ UNCHANGED <<simpleLockVars, nblocked, ntimed, ntimeout>>

\* primitive_release_simple_lock is called ...
NWaitRelease(t) ==
  /\ NGoto(t, "n_release", "n_releasing")
  /\ ReleaseSimpleLock(t)
  /\ UNCHANGED <<nmutex, nblocked, ntimed, ntimeout>>

\* ... and has returned.  The wait without a time limit gives up if it failed,
\* with notification->mutex locked; the timed one does not look.
NWaitReleased(t) ==
  /\ \/ /\ result[t] = OK \/ ntimed[t]
        /\ NGoto(t, "n_releasing", "n_block")
        /\ UNCHANGED simpleLockVars
     \/ /\ result[t] # OK /\ ~ntimed[t]
        /\ NReturn(t, "n_releasing", GENERAL_ERROR)
  /\ UNCHANGED <<nmutex, nblocked, ntimed, ntimeout>>

NWaitBlock(t) ==
  /\ NGoto(t, "n_block", "n_sleep")
  /\ CondBlock(nmutex, nblocked, t)
  /\ UNCHANGED <<simpleLockVars, ntimed, ntimeout>>

\* A wakeup nobody signalled: it is passed on to the client.
NWaitSpurious(t) ==
  /\ CondLeave(nblocked, t)
  /\ UNCHANGED <<simpleLockVars, nmutex, npc, ntimed, ntimeout>>

NWaitTimeout(t) ==
  /\ ntimed[t]
  /\ CondLeave(nblocked, t)
  /\ ntimeout' = [ntimeout EXCEPT ![t] = TRUE]
  /\ UNCHANGED <<simpleLockVars, nmutex, npc, ntimed>>

\* Mutant: wait-for returns without claiming the simple lock again.
NWaitWake_WithoutClaim(t) ==
  /\ t \notin nblocked
  /\ NGoto(t, "n_sleep", "n_unlock")
  /\ MutexLock(nmutex, t)
  /\ UNCHANGED <<simpleLockVars, nblocked, ntimed, ntimeout>>

\* The woken thread locks notification->mutex on its way out of the cond wait.
NWaitWake(t) ==
  /\ t \notin nblocked
  /\ NGoto(t, "n_sleep", "n_claim")
  /\ MutexLock(nmutex, t)
  /\ UNCHANGED <<simpleLockVars, nblocked, ntimed, ntimeout>>

\* primitive_wait_for_simple_lock is called with notification->mutex locked.
NWaitClaim(t) ==
  /\ NGoto(t, "n_claim", "n_claiming")
  /\ WaitForSimpleLock(t, FALSE)
  /\ UNCHANGED <<nmutex, nblocked, ntimed, ntimeout>>

NWaitClaimed(t) ==
  /\ IF result[t] = OK \/ ntimed[t]
     THEN NGoto(t, "n_claiming", "n_unlock") /\ UNCHANGED simpleLockVars
     ELSE NReturn(t, "n_claiming", GENERAL_ERROR)
  /\ UNCHANGED <<nmutex, nblocked, ntimed, ntimeout>>

NWaitUnlock(t) ==
  /\ NReturn(t, "n_unlock", IF ntimeout[t] THEN TIMEOUT ELSE OK)
  /\ MutexUnlock(nmutex)
  /\ ntimed' = [ntimed EXCEPT ![t] = FALSE]
  /\ ntimeout' = [ntimeout EXCEPT ![t] = FALSE]
  /\ UNCHANGED nblocked

-----------------------------------------------------------------------------
(* primitive_release_notification and primitive_release_all_notification.  *)

ReleaseNotification(t) ==
  /\ \/ ~OwnedSimpleLock(t) /\ NReturn(t, "out", NOT_LOCKED)
     \/ OwnedSimpleLock(t) /\ NGoto(t, "out", "s_mutex") /\ UNCHANGED simpleLockVars
  /\ UNCHANGED <<nmutex, nblocked, ntimed, ntimeout>>

ReleaseAllNotification(t) ==
  /\ \/ ~OwnedSimpleLock(t) /\ NReturn(t, "out", NOT_LOCKED)
     \/ OwnedSimpleLock(t) /\ NGoto(t, "out", "a_mutex") /\ UNCHANGED simpleLockVars
  /\ UNCHANGED <<nmutex, nblocked, ntimed, ntimeout>>

NReleaseLockMutex(t) ==
  /\ NGoto(t, "s_mutex", "s_signal") \/ NGoto(t, "a_mutex", "a_signal")
  /\ MutexLock(nmutex, t)
  /\ UNCHANGED <<simpleLockVars, nblocked, ntimed, ntimeout>>

NReleaseSignal(t) ==
  /\ \/ NGoto(t, "s_signal", "s_unlock") /\ CondSignal(nblocked)
     \/ NGoto(t, "a_signal", "s_unlock") /\ CondBroadcast(nblocked)
  /\ UNCHANGED <<simpleLockVars, nmutex, ntimed, ntimeout>>

NReleaseUnlock(t) ==
  /\ NReturn(t, "s_unlock", OK)
  /\ MutexUnlock(nmutex)
  /\ UNCHANGED <<nblocked, ntimed, ntimeout>>

-----------------------------------------------------------------------------
\* A client that is outside the notification primitives calls one of them, or
\* one of the lock's.
NCall(t) ==
  \/ npc[t] = "out" /\ Call(t) /\ UNCHANGED notificationVars
  \/ WaitForNotification(t, FALSE)
  \/ WaitForNotification(t, TRUE)
  \/ ReleaseNotification(t)
  \/ ReleaseAllNotification(t)

NAdvance(t) ==
  \/ Advance(t) /\ UNCHANGED notificationVars
  \/ NWaitLockMutex(t) \/ NWaitRelease(t) \/ NWaitReleased(t) \/ NWaitBlock(t)
  \/ NWaitWake(t) \/ NWaitClaim(t) \/ NWaitClaimed(t) \/ NWaitUnlock(t)
  \/ NReleaseLockMutex(t) \/ NReleaseSignal(t) \/ NReleaseUnlock(t)

NLeave(t) ==
  \/ (WaitSpurious(t) \/ WaitTimeout(t)) /\ UNCHANGED notificationVars
  \/ NWaitSpurious(t)
  \/ NWaitTimeout(t)

Next == \E t \in Threads : NCall(t) \/ NAdvance(t) \/ NLeave(t)

NotificationSpec == Init /\ [][Next]_vars

\* The scheduler runs every thread that can run, and a thread that contends
\* for one of the two mutexes is not passed over for ever.
NotificationFairness ==
  \A t \in Threads :
    /\ WF_vars(NAdvance(t))
    /\ SF_vars((WaitLockMutex(t) \/ WaitWake(t) \/ ReleaseLockMutex(t))
                 /\ UNCHANGED notificationVars)
    /\ SF_vars(NWaitLockMutex(t) \/ NWaitWake(t) \/ NReleaseLockMutex(t))

NotificationFairSpec == NotificationSpec /\ NotificationFairness

-----------------------------------------------------------------------------
(* Properties.                                                             *)

\* wait-for gives up the lock and starts to wait atomically, as far as a
\* thread that owns the lock can tell: when a release is about to signal,
\* every thread that is inside wait-for is already blocked or already woken.
\* None is caught between releasing the lock and going to sleep.  It holds
\* until a thread unlocks the lock by force.
NoMissedNotification ==
  ~forced =>
    \A r, t \in Threads :
      npc[r] \in {"s_signal", "a_signal"} => npc[t] \notin Committing

\* notification->mutex is never left locked by a thread that has returned from
\* a primitive: the early returns of wait-for after a release or a claim of the
\* lock that failed leave it locked, and until a thread unlocks by force none
\* of them is taken, whatever the others do between the test of the owner word
\* and the release, or between the wakeup and the claim.
MutexIsNotLeaked ==
  ~forced => \A t \in Threads : nmutex = t => npc[t] \in NInside

\* "It is guaranteed that the lock will be owned on return" from wait-for,
\* notified or timed out, and no other thread believes it has it too.  It holds
\* until a thread unlocks the lock by force.
OwnedOnReturn ==
  ~forced => \A t \in Threads : npc[t] = "n_unlock" => held = {t}

\* Until a thread unlocks by force the notification and its lock implement the
\* abstract monitor: the wait begins when the owner word is cleared, long before
\* the thread is blocked on the condition variable, and still a release finds it.
AbstractMonitor == INSTANCE Monitor WITH
  holder <- owner,
  entering <- {t \in Threads : npc[t] = "out" /\ pc[t] \in Waiting},
  sleeping <- {t \in Threads : \/ npc[t] = "n_releasing" /\ pc[t] # "r_clear"
                               \/ npc[t] = "n_block"
                               \/ npc[t] = "n_sleep" /\ t \in nblocked},
  returning <- {t \in Threads : \/ npc[t] = "n_sleep" /\ t \notin nblocked
                                \/ npc[t] = "n_claim"
                                \/ npc[t] = "n_claiming" /\ pc[t] \in Waiting},
  notifying <- {t \in Threads : npc[t] \in {"s_mutex", "s_signal"}},
  notifyingAll <- {t \in Threads : npc[t] \in {"a_mutex", "a_signal"}}

ImplementsMonitor ==
  AbstractMonitor!Init /\ [][forced' \/ AbstractMonitor!Next]_AbstractMonitor!vars

\* "This function does not block for any of the subclasses of <synchronization>
\* provided by the library", says the documentation of release.
NotificationReleaseReturns ==
  \A t \in Threads : npc[t] = "s_mutex" ~> npc[t] = "out"
=============================================================================
