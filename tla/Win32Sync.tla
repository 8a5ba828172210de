----------------------------- MODULE Win32Sync -----------------------------
(***************************************************************************)
(* The objects that win32-threads-primitives.c is written on.  A kernel    *)
(* semaphore is its count, a manual-reset event is whether it is set, a    *)
(* critical section is the thread that is in it.  These are external; they *)
(* are modelled from the way the run-time uses them.  The three interlocked *)
(* operations are the run-time's own, a single locked instruction each.    *)
(***************************************************************************)
EXTENDS Integers

CONSTANTS
  Threads,   \* the threads of the process
  NoThread   \* the null handle: an unowned lock, a critical section nobody is in

ASSUME Win32NoThreadAssumption == NoThread \notin Threads

ThreadOrNone == Threads \cup {NoThread}

\* WaitForSingleObject on a semaphore: blocks (is disabled) while it is zero.
SemaphoreWait(semaphore) ==
  /\ semaphore > 0
  /\ semaphore' = semaphore - 1

\* ReleaseSemaphore(semaphore, 1, ...) of a semaphore with a maximum: FALSE,
\* and no effect, at the maximum.
SemaphoreRelease(semaphore, max) ==
  semaphore' = IF semaphore < max THEN semaphore + 1 ELSE semaphore

\* SetEvent and ResetEvent.  WaitForSingleObject on a manual-reset event is
\* enabled while the event is set, and leaves it set.  A wait with a time limit
\* times out only while the object it waits for is not signalled.
SetEvent(event) == event' = TRUE
ResetEvent(event) == event' = FALSE

\* EnterCriticalSection of a critical section the thread is not in, and
\* LeaveCriticalSection.
EnterCriticalSection(section, t) ==
  /\ section = NoThread
  /\ section' = t

LeaveCriticalSection(section) == section' = NoThread

\* internal_InterlockedIncrement and internal_InterlockedDecrement return the
\* new value, internal_InterlockedCompareExchange the old one.
InterlockedIncrement(var) == var' = var + 1
InterlockedDecrement(var) == var' = var - 1
InterlockedCompareExchange(var, exchange, compare) ==
  var' = IF var = compare THEN exchange ELSE var
=============================================================================
