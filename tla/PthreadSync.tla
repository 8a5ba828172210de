---------------------------- MODULE PthreadSync ----------------------------
(***************************************************************************)
(* The POSIX synchronisation objects that posix-threads.c is written on:   *)
(* a mutex is the thread that has it locked (or NoThread), a condition     *)
(* variable is the set of threads blocked in pthread_cond_wait on it.      *)
(*                                                                         *)
(* These are external to the repository; they are modelled from the way    *)
(* posix-threads.c uses them.  Nothing is assumed about which blocked      *)
(* thread a signal or an unlock favours, and a thread may be woken without *)
(* a signal (a spurious wakeup), as POSIX allows.                          *)
(***************************************************************************)
CONSTANTS
  Threads,   \* the threads of the process
  NoThread   \* the null thread id: an unowned lock, an unlocked mutex

ASSUME NoThreadAssumption == NoThread \notin Threads

ThreadOrNone == Threads \cup {NoThread}

\* pthread_mutex_lock: blocks (is disabled) while any thread has the mutex.
\* The mutexes are of the default type, so a thread that locks a mutex it
\* already has blocks on itself.
MutexLock(mutex, t) ==
  /\ mutex = NoThread
  /\ mutex' = t

\* pthread_mutex_unlock by the thread that has the mutex.
MutexUnlock(mutex) == mutex' = NoThread

\* The blocking half of pthread_cond_wait and pthread_cond_timedwait: the
\* mutex is given up and the thread is blocked in one atomic step.
CondBlock(mutex, blocked, t) ==
  /\ mutex' = NoThread
  /\ blocked' = blocked \cup {t}

\* pthread_cond_signal: wakes one blocked thread, if there is one.
CondSignal(blocked) ==
  \/ blocked = {} /\ blocked' = blocked
  \/ \E w \in blocked : blocked' = blocked \ {w}

\* pthread_cond_broadcast: wakes all of them.
CondBroadcast(blocked) == blocked' = {}

\* A blocked thread stops waiting on its own: spuriously, or on its timeout.
CondLeave(blocked, t) ==
  /\ t \in blocked
  /\ blocked' = blocked \ {t}
=============================================================================
