------------------------------ MODULE Monitor ------------------------------
(***************************************************************************)
(* What a notification of the Dylan threads library and its lock promise   *)
(* together: wait-for gives up the lock and begins to wait in one step, a  *)
(* release wakes a thread that waits if there is one, a release-all wakes  *)
(* them all, and who is woken goes on with the lock.                       *)
(***************************************************************************)
CONSTANTS Threads, NoThread

VARIABLES
  holder,         \* the thread that has the lock, or NoThread
  entering,       \* the threads inside a wait-for of the lock
  sleeping,       \* the threads that wait for the notification
  returning,      \* those that were woken and have not the lock yet
  notifying,      \* the threads inside a release that has woken nobody yet
  notifyingAll    \* the threads inside such a release-all

vars == <<holder, entering, sleeping, returning, notifying, notifyingAll>>

Init ==
  /\ holder = NoThread
  /\ entering = {} /\ sleeping = {} /\ returning = {}
  /\ notifying = {} /\ notifyingAll = {}

-----------------------------------------------------------------------------
(* The lock.                                                               *)

Enter(t) ==
  /\ holder # t
  /\ t \notin entering \cup sleeping \cup returning
  /\ entering' = entering \cup {t}
  /\ UNCHANGED <<holder, sleeping, returning, notifying, notifyingAll>>

Claim(t) ==
  /\ t \in entering
  /\ holder = NoThread
  /\ holder' = t
  /\ entering' = entering \ {t}
  /\ UNCHANGED <<sleeping, returning, notifying, notifyingAll>>

GiveUp(t) ==
  /\ t \in entering
  /\ entering' = entering \ {t}
  /\ UNCHANGED <<holder, sleeping, returning, notifying, notifyingAll>>

Release(t) ==
  /\ holder = t
  /\ t \notin notifying \cup notifyingAll
  /\ holder' = NoThread
  /\ UNCHANGED <<entering, sleeping, returning, notifying, notifyingAll>>

-----------------------------------------------------------------------------
(* The notification.                                                       *)

\* The lock is given up and the wait begins, in one step.
Wait(t) ==
  /\ holder = t
  /\ t \notin notifying \cup notifyingAll
  /\ holder' = NoThread
  /\ sleeping' = sleeping \cup {t}
  /\ UNCHANGED <<entering, returning, notifying, notifyingAll>>

Wake(threads) ==
  /\ sleeping' = sleeping \ threads
  /\ returning' = returning \cup threads

\* A thread wakes unnotified: its time is up, or for no reason.
WakeAlone(t) ==
  /\ t \in sleeping
  /\ Wake({t})
  /\ UNCHANGED <<holder, entering, notifying, notifyingAll>>

\* A woken thread has the lock before its wait returns.
Return(t) ==
  /\ t \in returning
  /\ holder = NoThread
  /\ holder' = t
  /\ returning' = returning \ {t}
  /\ UNCHANGED <<entering, sleeping, notifying, notifyingAll>>

Begin(t) ==
  /\ holder = t
  /\ \/ notifying' = notifying \cup {t} /\ UNCHANGED notifyingAll
     \/ notifyingAll' = notifyingAll \cup {t} /\ UNCHANGED notifying
  /\ UNCHANGED <<holder, entering, sleeping, returning>>

\* One thread is woken, if any waits.
Notify(t) ==
  /\ t \in notifying /\ holder = t
  /\ notifying' = notifying \ {t}
  /\ \/ sleeping = {} /\ UNCHANGED <<sleeping, returning>>
     \/ \E u \in sleeping : Wake({u})
  /\ UNCHANGED <<holder, entering, notifyingAll>>

NotifyAll(t) ==
  /\ t \in notifyingAll /\ holder = t
  /\ notifyingAll' = notifyingAll \ {t}
  /\ Wake(sleeping)
  /\ UNCHANGED <<holder, entering, notifying>>

-----------------------------------------------------------------------------
Next ==
  \E t \in Threads :
    \/ Enter(t) \/ Claim(t) \/ GiveUp(t) \/ Release(t)
    \/ Wait(t) \/ WakeAlone(t) \/ Return(t)
    \/ Begin(t) \/ Notify(t) \/ NotifyAll(t)

Spec == Init /\ [][Next]_vars
=============================================================================
