------------------------- MODULE CountingSemaphore -------------------------
(***************************************************************************)
(* What a semaphore of the Dylan threads library promises: a wait takes a  *)
(* unit when there is one, and gives up only if it has a time limit; a     *)
(* release adds a unit, and is refused only if the semaphore is full.      *)
(***************************************************************************)
EXTENDS Integers

CONSTANTS Threads, InitialCount, MaxCount

VARIABLES
  units,      \* the units that are free
  waiting,    \* the threads inside a wait-for that has no unit yet
  limited,    \* those of them that wait with a time limit
  releasing   \* the threads inside a release that has not added its unit

vars == <<units, waiting, limited, releasing>>

Init == units = InitialCount /\ waiting = {} /\ limited = {} /\ releasing = {}

WaitFor(t) ==
  /\ t \notin waiting \cup releasing
  /\ waiting' = waiting \cup {t}
  /\ limited' \in {limited, limited \cup {t}}
  /\ UNCHANGED <<units, releasing>>

StopWaiting(t) ==
  /\ waiting' = waiting \ {t}
  /\ limited' = limited \ {t}

\* A unit goes to a thread that is waiting for one.
Take(t) ==
  /\ t \in waiting
  /\ units > 0
  /\ units' = units - 1
  /\ StopWaiting(t)
  /\ UNCHANGED releasing

\* The time of a thread is up before it has a unit.
GiveUp(t) ==
  /\ t \in limited
  /\ StopWaiting(t)
  /\ UNCHANGED <<units, releasing>>

Release(t) ==
  /\ t \notin waiting \cup releasing
  /\ releasing' = releasing \cup {t}
  /\ UNCHANGED <<units, waiting, limited>>

Add(t) ==
  /\ t \in releasing
  /\ units < MaxCount
  /\ units' = units + 1
  /\ releasing' = releasing \ {t}
  /\ UNCHANGED <<waiting, limited>>

Refuse(t) ==
  /\ t \in releasing
  /\ units = MaxCount
  /\ releasing' = releasing \ {t}
  /\ UNCHANGED <<units, waiting, limited>>

Next ==
  \E t \in Threads :
    WaitFor(t) \/ Take(t) \/ GiveUp(t) \/ Release(t) \/ Add(t) \/ Refuse(t)

Spec == Init /\ [][Next]_vars
=============================================================================
