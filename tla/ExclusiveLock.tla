--------------------------- MODULE ExclusiveLock ---------------------------
(***************************************************************************)
(* What an exclusive lock of the Dylan threads library promises: at any    *)
(* time at most one thread holds it, a free lock is claimed by one of the  *)
(* threads that are waiting for it, a thread may give up waiting, and only *)
(* the holder's own release frees it.                                      *)
(***************************************************************************)
CONSTANTS Threads, NoThread

VARIABLES
  holder,    \* the thread that holds the lock, or NoThread
  waiting    \* the threads inside a wait-for that has not succeeded

vars == <<holder, waiting>>

Init == holder = NoThread /\ waiting = {}

\* A thread that does not hold the lock asks for it.
WaitFor(t) ==
  /\ holder # t
  /\ t \notin waiting
  /\ waiting' = waiting \cup {t}
  /\ UNCHANGED holder

\* The free lock goes to a thread that is waiting for it.
Claim(t) ==
  /\ t \in waiting
  /\ holder = NoThread
  /\ holder' = t
  /\ waiting' = waiting \ {t}

\* A thread stops waiting without the lock.
GiveUp(t) ==
  /\ t \in waiting
  /\ waiting' = waiting \ {t}
  /\ UNCHANGED holder

\* The holder releases.
Release(t) ==
  /\ holder = t
  /\ holder' = NoThread
  /\ UNCHANGED waiting

Next == \E t \in Threads : WaitFor(t) \/ Claim(t) \/ GiveUp(t) \/ Release(t)

Spec == Init /\ [][Next]_vars
=============================================================================
