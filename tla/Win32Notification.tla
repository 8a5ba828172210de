------------------------- MODULE Win32Notification -------------------------
(***************************************************************************)
(* The <notification> primitives of the Win32 run-time,                    *)
(* win32-threads-primitives.c, and the simple lock they are used with.     *)
(*                                                                         *)
(* A notification is two manual-reset events, the number of threads that   *)
(* wait, and a target word that says what kind of release is being handed  *)
(* out: 0 a release nobody has taken yet, 1 one that was taken, -1 a       *)
(* release-all.  A release resets the anti-notifier and sets the notifier; *)
(* the waiter that completes it puts both back, and until then every other *)
(* wait-for or release waits for the anti-notifier, owning the lock.  The  *)
(* words are not protected by the lock: a waiter looks at them after it    *)
(* has given the lock up.                                                  *)
(***************************************************************************)
EXTENDS Win32Lock

VARIABLES
  notifier,       \* notification->notifier is set
  anti_notifier,  \* notification->anti_notifier is set
  target,         \* notification->target
  count,          \* notification->count
  npc,            \* where each thread is in the primitives
  ntimed,         \* whether its wait has a time limit
  ntimeout,       \* whether the limit has passed
  tmp1,           \* the local variable tmp1, and in a release the target to be
  tmp2,           \* the local variable tmp2
  overlapped      \* history: whether a release has overlapped the steps a
                  \* waiter takes to leave (Overlap)

notification == <<notifier, anti_notifier, target, count>>
nlocals == <<ntimed, ntimeout, tmp1, tmp2>>
notificationVars == <<notification, npc, nlocals>>
state == <<lockState, notificationVars>>
vars == <<lockVars, notificationVars, overlapped>>

\* Labels of a wait-for that is counted.
Counted == {"n_release", "n_releasing", "n_wait", "n_cas", "n_dec", "n_late"}
\* Labels of a release that has seen a waiter and not set the notifier yet.
Releasing == {"s_target", "s_reset", "s_set"}
\* Labels of a wait-for that will complete the release that is handed out.
Completing == {"n_reset", "n_set"}
NLabels == Counted \cup Releasing \cup Completing \cup
  {"out", "n_anti", "n_inc", "n_probe", "n_claim", "n_claiming", "s_anti", "s_count"}

NotificationTypeOK ==
  /\ notifier \in BOOLEAN
  /\ anti_notifier \in BOOLEAN
  /\ target \in {-1, 0, 1}
  /\ count \in 0..Cardinality(Threads)
  /\ npc \in [Threads -> NLabels]
  /\ ntimed \in [Threads -> BOOLEAN]
  /\ ntimeout \in [Threads -> BOOLEAN]
  /\ tmp1 \in [Threads -> {-1, 0, 1}]
  /\ tmp2 \in [Threads -> 0..Cardinality(Threads)]
  /\ overlapped \in BOOLEAN

\* primitive_make_notification, and the lock that is used with it.
Init ==
  /\ LockInit
  /\ notifier = FALSE
  /\ anti_notifier = TRUE
  /\ target = 1
  /\ count = 0
  /\ npc = [t \in Threads |-> "out"]
  /\ ntimed = [t \in Threads |-> FALSE]
  /\ ntimeout = [t \in Threads |-> FALSE]
  /\ tmp1 = [t \in Threads |-> 0]
  /\ tmp2 = [t \in Threads |-> 0]
  /\ overlapped = FALSE

NGoto(t, from, to) ==
  /\ npc[t] = from
  /\ npc' = [npc EXCEPT ![t] = to]

\* Thread t, outside the lock's primitives, returns code to its caller.
NReturn(t, from, code) ==
  /\ pc[t] = "idle"
  /\ NGoto(t, from, "out")
  /\ result' = [result EXCEPT ![t] = code]
  /\ ntimed' = [ntimed EXCEPT ![t] = FALSE]
  /\ ntimeout' = [ntimeout EXCEPT ![t] = FALSE]
  /\ tmp1' = [tmp1 EXCEPT ![t] = 0]
  /\ tmp2' = [tmp2 EXCEPT ![t] = 0]
  /\ UNCHANGED <<lock, pc, timed, loaded, lockHistory>>

-----------------------------------------------------------------------------
(* primitive_wait_for_notification and                                     *)
(* primitive_wait_for_notification_timed.                                  *)

WaitForNotification(t, limited) ==
  /\ limited => t \in Hasty
  /\ \/ ~OwnedLock(t) /\ NReturn(t, "out", NOT_LOCKED)
     \/ /\ OwnedLock(t) /\ pc[t] = "idle" /\ NGoto(t, "out", "n_anti")
        /\ ntimed' = [ntimed EXCEPT ![t] = limited]
        /\ UNCHANGED <<lockState, ntimeout, tmp1, tmp2>>
  /\ UNCHANGED notification

\* A release is being handed out until the anti-notifier is set.  The timed wait
\* may give up here; it still owns the lock.
NWaitAnti(t) ==
  /\ \/ anti_notifier /\ NGoto(t, "n_anti", "n_inc") /\ UNCHANGED <<lockState, nlocals>>
     \/ ~anti_notifier /\ ntimed[t] /\ NReturn(t, "n_anti", TIMEOUT)
  /\ UNCHANGED notification

NWaitIncrement(t) ==
  /\ NGoto(t, "n_inc", "n_release")
  /\ InterlockedIncrement(count)
  /\ UNCHANGED <<lockState, notifier, anti_notifier, target, nlocals>>

\* primitive_release_simple_lock is called ...
NWaitRelease(t) ==
  /\ NGoto(t, "n_release", "n_releasing")
  /\ ReleaseLock(t)
  /\ UNCHANGED <<notification, nlocals>>

\* ... and has returned.  The wait without a time limit gives up if it failed;
\* the timed one does not look.
NWaitReleased(t) ==
  /\ pc[t] = "idle"
  /\ \/ /\ result[t] = OK \/ ntimed[t]
        /\ NGoto(t, "n_releasing", "n_wait")
        /\ UNCHANGED <<lockState, nlocals>>
     \/ /\ result[t] # OK /\ ~ntimed[t]
        /\ NReturn(t, "n_releasing", GENERAL_ERROR)
  /\ UNCHANGED notification

NWaitNotifier(t) ==
  /\ notifier
  /\ NGoto(t, "n_wait", "n_cas")
  /\ UNCHANGED <<lockState, notification, nlocals>>

NWaitTimeout(t) ==
  /\ ~notifier /\ ntimed[t]
  /\ NGoto(t, "n_wait", "n_late")
  /\ ntimeout' = [ntimeout EXCEPT ![t] = TRUE]
  /\ UNCHANGED <<lockState, notification, ntimed, tmp1, tmp2>>

\* The first to see a release takes it; one that was taken is none of ours.
NWaitTake(t) ==
  /\ InterlockedCompareExchange(target, 1, 0)
  /\ tmp1' = [tmp1 EXCEPT ![t] = IF target = 1 THEN 0 ELSE target]
  /\ \/ target = 1 /\ NGoto(t, "n_cas", "n_wait")
     \/ target # 1 /\ NGoto(t, "n_cas", "n_dec")
  /\ UNCHANGED <<lockState, notifier, anti_notifier, count, ntimed, ntimeout, tmp2>>

\* Unless it was a release-all and others have still to be woken, the release is
\* complete.
NWaitDecrement(t) ==
  /\ InterlockedDecrement(count)
  /\ tmp1' = [tmp1 EXCEPT ![t] = 0]
  /\ \/ (tmp1[t] # -1 \/ count' <= 0) /\ NGoto(t, "n_dec", "n_reset")
     \/ ~(tmp1[t] # -1 \/ count' <= 0) /\ NGoto(t, "n_dec", "n_claim")
  /\ UNCHANGED <<lockState, notifier, anti_notifier, target, ntimed, ntimeout, tmp2>>

\* Mutant: the waiter takes itself off the count twice.
NWaitLate_Twice(t) ==
  /\ NGoto(t, "n_late", "n_probe")
  /\ count' = count - 2
  /\ tmp2' = [tmp2 EXCEPT ![t] = count']
  /\ UNCHANGED <<lockState, notifier, anti_notifier, target, ntimed, ntimeout, tmp1>>

\* Mutant: the waiter stays in the count.
NWaitLate_Stays(t) ==
  /\ NGoto(t, "n_late", "n_probe")
  /\ tmp2' = [tmp2 EXCEPT ![t] = count]
  /\ UNCHANGED <<lockState, notification, ntimed, ntimeout, tmp1>>

\* A waiter whose time limit has passed takes itself off the count ...
NWaitLate(t) ==
  /\ NGoto(t, "n_late", "n_probe")
  /\ InterlockedDecrement(count)
  /\ tmp2' = [tmp2 EXCEPT ![t] = count']
  /\ UNCHANGED <<lockState, notifier, anti_notifier, target, ntimed, ntimeout, tmp1>>

\* Mutant: the release is left to a waiter that has gone.
NWaitProbe_Leaves(t) ==
  /\ NGoto(t, "n_probe", "n_claim")
  /\ tmp2' = [tmp2 EXCEPT ![t] = 0]
  /\ UNCHANGED <<lockState, notification, ntimed, ntimeout, tmp1>>

\* ... and completes a release that was meant for it, if it was the last.
NWaitProbe(t) ==
  /\ \/ notifier /\ tmp2[t] <= 0 /\ NGoto(t, "n_probe", "n_reset")
     \/ ~(notifier /\ tmp2[t] <= 0) /\ NGoto(t, "n_probe", "n_claim")
  /\ tmp2' = [tmp2 EXCEPT ![t] = 0]
  /\ UNCHANGED <<lockState, notification, ntimed, ntimeout, tmp1>>

NWaitReset(t) ==
  /\ NGoto(t, "n_reset", "n_set")
  /\ ResetEvent(notifier)
  /\ UNCHANGED <<lockState, anti_notifier, target, count, nlocals>>

NWaitSetAnti(t) ==
  /\ NGoto(t, "n_set", "n_claim")
  /\ SetEvent(anti_notifier)
  /\ UNCHANGED <<lockState, notifier, target, count, nlocals>>

\* Mutant: a wait that timed out returns without the lock.
NWaitClaim_NotLate(t) ==
  /\ NGoto(t, "n_claim", "n_claiming")
  /\ IF ntimeout[t] THEN UNCHANGED lockState ELSE WaitForLock(t, FALSE)
  /\ UNCHANGED <<notification, nlocals>>

\* primitive_wait_for_simple_lock is called ...
NWaitClaim(t) ==
  /\ NGoto(t, "n_claim", "n_claiming")
  /\ WaitForLock(t, FALSE)
  /\ UNCHANGED <<notification, nlocals>>

\* ... and has returned.  A wait that timed out does not look at its result.
NWaitClaimed(t) ==
  /\ NReturn(t, "n_claiming",
       IF ntimeout[t] THEN TIMEOUT ELSE IF result[t] = OK THEN OK ELSE GENERAL_ERROR)
  /\ UNCHANGED notification

-----------------------------------------------------------------------------
(* primitive_release_notification and, with the target -1,                 *)
(* primitive_release_all_notification.                                     *)

ReleaseNotification(t, new) ==
  /\ \/ ~OwnedLock(t) /\ NReturn(t, "out", NOT_LOCKED)
     \/ /\ OwnedLock(t) /\ pc[t] = "idle" /\ NGoto(t, "out", "s_anti")
        /\ tmp1' = [tmp1 EXCEPT ![t] = new]
        /\ UNCHANGED <<lockState, ntimed, ntimeout, tmp2>>
  /\ UNCHANGED notification

NReleaseAnti(t) ==
  /\ anti_notifier
  /\ NGoto(t, "s_anti", "s_count")
  /\ UNCHANGED <<lockState, notification, nlocals>>

NReleaseTest(t) ==
  /\ \/ count > 0 /\ NGoto(t, "s_count", "s_target") /\ UNCHANGED <<lockState, nlocals>>
     \/ count <= 0 /\ NReturn(t, "s_count", OK)
  /\ UNCHANGED notification

NReleaseTarget(t) ==
  /\ NGoto(t, "s_target", "s_reset")
  /\ target' = tmp1[t]
  /\ UNCHANGED <<lockState, notifier, anti_notifier, count, nlocals>>

NReleaseResetAnti(t) ==
  /\ NGoto(t, "s_reset", "s_set")
  /\ ResetEvent(anti_notifier)
  /\ UNCHANGED <<lockState, notifier, target, count, nlocals>>

NReleaseSet(t) ==
  /\ NReturn(t, "s_set", OK)
  /\ SetEvent(notifier)
  /\ UNCHANGED <<anti_notifier, target, count>>

-----------------------------------------------------------------------------
\* A client that is outside the notification primitives calls one of them, or
\* one of the lock's.  Bound: no new calls after a crossing or an overlap.
NCall(t) ==
  \/ npc[t] = "out" /\ ~overlapped /\ Call(t) /\ UNCHANGED notificationVars
  \/ /\ kind = "simple" /\ ~crossed /\ ~overlapped
     /\ \/ \E limited \in BOOLEAN : WaitForNotification(t, limited)
        \/ \E new \in {0, -1} : ReleaseNotification(t, new)

\* A step of a thread inside a primitive.
NAdvance(t) ==
  \/ Advance(t) /\ UNCHANGED notificationVars
  \/ NWaitAnti(t) \/ NWaitIncrement(t) \/ NWaitRelease(t) \/ NWaitReleased(t)
  \/ NWaitNotifier(t) \/ NWaitTake(t) \/ NWaitDecrement(t)
  \/ NWaitLate(t) \/ NWaitProbe(t) \/ NWaitReset(t) \/ NWaitSetAnti(t)
  \/ NWaitClaim(t) \/ NWaitClaimed(t)
  \/ NReleaseAnti(t) \/ NReleaseTest(t) \/ NReleaseTarget(t)
  \/ NReleaseResetAnti(t) \/ NReleaseSet(t)

NTimeout(t) == NWaitTimeout(t) \/ (WaitTimeout(t) /\ UNCHANGED notificationVars)

\* A release is on its way while another thread is still leaving: a timed-out
\* waiter between its two looks at the notification, or a waiter late from an
\* earlier round that has taken the target of this one, or what an earlier
\* one left in it.
Overlap ==
  \E r, t \in Threads :
    npc[r] \in Releasing /\ npc[t] \in {"n_dec", "n_probe"} \cup Completing

\* A forced unlock crosses a notification primitive of the owner.
NCrossing == \E t, u \in Threads : pc[t] = "u_clear" /\ owner = u /\ npc[u] # "out"

Next ==
  /\ \E t \in Threads : NCall(t) \/ NAdvance(t) \/ NTimeout(t)
  /\ crossed' = (crossed \/ Crossing' \/ NCrossing')
  /\ overlapped' = (overlapped \/ Overlap')

Spec == Init /\ [][Next]_vars

\* The scheduler runs every thread that can run.
FairSpec == Spec /\ \A t \in Threads : WF_state(NAdvance(t))

-----------------------------------------------------------------------------
(* Properties.                                                             *)

\* count is the number of threads inside a wait that has not been notified and
\* has not timed out: it is what a release decides by.
CountIsWaiters ==
  ~crossed => count = Cardinality({t \in Threads : npc[t] \in Counted})

\* The handshake is never left half done: while the anti-notifier is reset, so
\* that every other wait-for and release has to wait, there is a thread that
\* will set it, either a release on its way or a waiter that takes the release.
\* It holds unless a release has overlapped a waiter that is leaving.
HandshakeIsCompleted ==
  ~crossed /\ ~overlapped /\ ~anti_notifier =>
    \/ \E t \in Threads : npc[t] \in {"s_set"} \cup Completing
    \/ \E t \in Threads : npc[t] = "n_dec" /\ (tmp1[t] = 0 \/ target = -1)
    \/ notifier /\ target # 1 /\ \E t \in Threads : npc[t] \in Counted \cup {"n_probe"}

\* "It is guaranteed that the lock will be owned on return" from wait-for,
\* notified or timed out.
OwnedOnReturn ==
  ~crossed => \A t \in Threads :
    npc[t] = "n_claiming" /\ pc[t] = "idle" => owner = t /\ depth[t] > 0

\* The anti-notifier "is used to block calls to wait-for and release when a
\* previous wait-for is in the middle of processing a previous release": that
\* wait-for sets it again.
AntiNotifierIsSetAgain == ~anti_notifier ~> anti_notifier
=============================================================================
