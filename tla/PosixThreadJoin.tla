-------------------------- MODULE PosixThreadJoin --------------------------
(***************************************************************************)
(* Making, ending and joining threads: posix-threads.c below <thread> and  *)
(* join-thread of thread.dylan.                                            *)
(*                                                                         *)
(* The handle1 word of a thread holds the flags COMPLETED, MARKED (it is   *)
(* in a join that has not returned) and JOINED.  They are read and written *)
(* under the one thread_join_lock, so what a join does between locking it  *)
(* and blocking or unlocking is one step.  primitive_thread_join_multiple  *)
(* returns its error with thread_join_lock still locked.                   *)
(***************************************************************************)
EXTENDS PthreadSync, Naturals, Sequences, FiniteSets

CONSTANTS
  Main,           \* the first thread, which was not made by make(<thread>)
  JoinVectors     \* the argument lists that clients pass to join-thread

ASSUME ThreadJoinAssumption ==
  /\ Main \in Threads
  /\ JoinVectors \subseteq Seq(Threads)
  /\ \A v \in JoinVectors : v # <<>>

VARIABLES
  completed, marked, joined,   \* the threads with that flag in handle1
  results,     \* the threads whose function-results slot is filled
  mutex,       \* thread_join_lock
  blocked,     \* the threads blocked on thread_exit_event
  pc,          \* where each thread is
  vec,         \* the threads it is joining
  got,         \* the thread that its last join returned
  joins        \* history: how many joins have returned each thread, up to 2

flags == <<completed, marked, joined>>
vars == <<completed, marked, joined, results, mutex, blocked, pc, vec, got, joins>>

Elements(v) == {v[i] : i \in DOMAIN v}
Occurrences(v, x) == Cardinality({i \in DOMAIN v : v[i] = x})

\* Labels of the steps made with thread_join_lock locked.
Inside == {"j_check", "j_dup", "j_scan", "j_unlock", "x_flag", "x_event", "x_unlock"}
Labels == Inside \cup {"new", "run", "j_mutex", "j_sleep", "x_mutex", "dead"}

TypeOK ==
  /\ completed \subseteq Threads
  /\ marked \subseteq Threads
  /\ joined \subseteq Threads
  /\ results \subseteq Threads
  /\ mutex \in ThreadOrNone
  /\ blocked \subseteq Threads
  /\ pc \in [Threads -> Labels]
  /\ vec \in [Threads -> JoinVectors \cup {<<>>}]
  /\ got \in [Threads -> ThreadOrNone]
  /\ joins \in [Threads -> 0 .. 2]

Init ==
  /\ completed = {} /\ marked = {} /\ joined = {}
  /\ results = {}
  /\ mutex = NoThread
  /\ blocked = {}
  /\ pc = [t \in Threads |-> IF t = Main THEN "run" ELSE "new"]
  /\ vec = [t \in Threads |-> <<>>]
  /\ got = [t \in Threads |-> NoThread]
  /\ joins = [t \in Threads |-> 0]

Goto(t, from, to) ==
  /\ pc[t] = from
  /\ pc' = [pc EXCEPT ![t] = to]

-----------------------------------------------------------------------------
(* The life of a thread.                                                   *)

\* primitive_make_thread, called by a running thread p: no flags are set, and
\* the new thread starts at once.
MakeThread(p, t) ==
  /\ pc[p] = "run"
  /\ Goto(t, "new", "run")
  /\ UNCHANGED <<flags, results, mutex, blocked, vec, got, joins>>

\* The thread's function returns and trampoline-function stores its values.
FunctionReturns(t) ==
  /\ t # Main
  /\ Goto(t, "run", "x_mutex")
  /\ results' = results \cup {t}
  /\ UNCHANGED <<flags, mutex, blocked, vec, got, joins>>

\* The end of trampoline.
ExitLockMutex(t) ==
  /\ Goto(t, "x_mutex", "x_flag")
  /\ MutexLock(mutex, t)
  /\ UNCHANGED <<flags, results, blocked, vec, got, joins>>

ExitFlag(t) ==
  /\ Goto(t, "x_flag", "x_event")
  /\ completed' = completed \cup {t}
  /\ UNCHANGED <<marked, joined, results, mutex, blocked, vec, got, joins>>

\* Mutant: the exit event wakes one of the threads that wait for it.
ExitBroadcast_SignalsOne(t) ==
  /\ Goto(t, "x_event", "x_unlock")
  /\ CondSignal(blocked)
  /\ UNCHANGED <<flags, results, mutex, vec, got, joins>>

ExitBroadcast(t) ==
  /\ Goto(t, "x_event", "x_unlock")
  /\ CondBroadcast(blocked)
  /\ UNCHANGED <<flags, results, mutex, vec, got, joins>>

\* Mutant: the thread lives on until it has been joined.
ExitUnlock_UntilJoined(t) ==
  /\ Goto(t, "x_unlock", IF t \in joined THEN "dead" ELSE "x_unlock")
  /\ mutex' = IF mutex = t THEN NoThread ELSE mutex
  /\ UNCHANGED <<flags, results, blocked, vec, got, joins>>

ExitUnlock(t) ==
  /\ Goto(t, "x_unlock", "dead")
  /\ MutexUnlock(mutex)
  /\ UNCHANGED <<flags, results, blocked, vec, got, joins>>

-----------------------------------------------------------------------------
(* primitive_thread_join_single, for one thread, and                       *)
(* primitive_thread_join_multiple, for several.                            *)

Single(v) == Len(v) = 1

JoinThread(t, v) ==
  /\ \A x \in Elements(v) : pc[x] # "new"
  /\ Goto(t, "run", "j_mutex")
  /\ vec' = [vec EXCEPT ![t] = v]
  /\ got' = [got EXCEPT ![t] = NoThread]
  /\ UNCHANGED <<flags, results, mutex, blocked, joins>>

JoinLockMutex(t) ==
  /\ Goto(t, "j_mutex", "j_check")
  /\ MutexLock(mutex, t)
  /\ UNCHANGED <<flags, results, blocked, vec, got, joins>>

\* Mutant: the test for a duplicate join forgets the JOINED flag.
JoinCheck_IgnoresJoined(t) ==
  /\ \/ /\ Elements(vec[t]) \cap marked # {}
        /\ Goto(t, "j_check", IF Single(vec[t]) THEN "j_dup" ELSE "run")
        /\ UNCHANGED marked
     \/ /\ Elements(vec[t]) \cap marked = {}
        /\ Goto(t, "j_check", "j_scan")
        /\ marked' = marked \cup Elements(vec[t])
  /\ UNCHANGED <<completed, joined, results, mutex, blocked, vec, got, joins>>

\* A thread that is marked or joined is a duplicate join; otherwise all are
\* marked.  Only the single join unlocks thread_join_lock on the error.
JoinCheck(t) ==
  /\ \/ /\ Elements(vec[t]) \cap (marked \cup joined) # {}
        /\ Goto(t, "j_check", IF Single(vec[t]) THEN "j_dup" ELSE "run")
        /\ UNCHANGED marked
     \/ /\ Elements(vec[t]) \cap (marked \cup joined) = {}
        /\ Goto(t, "j_check", "j_scan")
        /\ marked' = marked \cup Elements(vec[t])
  /\ UNCHANGED <<completed, joined, results, mutex, blocked, vec, got, joins>>

JoinDuplicate(t) ==
  /\ Goto(t, "j_dup", "run")
  /\ MutexUnlock(mutex)
  /\ UNCHANGED <<flags, results, blocked, vec, got, joins>>

\* The first thread of the vector that has completed, if any has.
FirstCompleted(v) ==
  LET done == {i \in DOMAIN v : v[i] \in completed}
  IN  v[CHOOSE i \in done : \A j \in done : i <= j]

\* Mutant: only the joined thread loses its mark.
JoinScan_LeavesMarks(t) ==
  /\ \/ /\ Elements(vec[t]) \cap completed = {}
        /\ Goto(t, "j_scan", "j_sleep")
        /\ CondBlock(mutex, blocked, t)
        /\ UNCHANGED <<marked, joined, got, joins>>
     \/ /\ Elements(vec[t]) \cap completed # {}
        /\ Goto(t, "j_scan", "j_unlock")
        /\ LET x == FirstCompleted(vec[t])
           IN  /\ joined' = joined \cup {x}
               /\ marked' = marked \ {x}
               /\ got' = [got EXCEPT ![t] = x]
               /\ joins' = [joins EXCEPT ![x] = IF @ < 2 THEN @ + 1 ELSE @]
        /\ UNCHANGED <<mutex, blocked>>
  /\ UNCHANGED <<completed, results, vec>>

\* Without a completed thread the join blocks, and scans again when it is woken.
\* A completed thread becomes joined, and MARKED is flipped (^=) in each
\* thread once for every time it is in the vector.
JoinScan(t) ==
  /\ \/ /\ Elements(vec[t]) \cap completed = {}
        /\ Goto(t, "j_scan", "j_sleep")
        /\ CondBlock(mutex, blocked, t)
        /\ UNCHANGED <<marked, joined, got, joins>>
     \/ /\ Elements(vec[t]) \cap completed # {}
        /\ Goto(t, "j_scan", "j_unlock")
        /\ LET x == FirstCompleted(vec[t])
           IN  /\ joined' = joined \cup {x}
               /\ got' = [got EXCEPT ![t] = x]
               /\ joins' = [joins EXCEPT ![x] = IF @ < 2 THEN @ + 1 ELSE @]
        /\ marked' = {x \in Threads : (x \in marked) # (Occurrences(vec[t], x) % 2 = 1)}
        /\ UNCHANGED <<mutex, blocked>>
  /\ UNCHANGED <<completed, results, vec>>

JoinSpurious(t) ==
  /\ CondLeave(blocked, t)
  /\ UNCHANGED <<flags, results, mutex, pc, vec, got, joins>>

\* Mutant: a woken join goes on while none of its threads has completed.
JoinWake_Inverted(t) ==
  /\ t \notin blocked
  /\ \/ /\ Elements(vec[t]) \cap completed = {}
        /\ Goto(t, "j_sleep", "j_scan") /\ MutexLock(mutex, t)
     \/ /\ Elements(vec[t]) \cap completed # {}
        /\ Goto(t, "j_sleep", "j_sleep") /\ UNCHANGED mutex
  /\ UNCHANGED <<flags, results, blocked, vec, got, joins>>

JoinWake(t) ==
  /\ t \notin blocked
  /\ Goto(t, "j_sleep", "j_scan")
  /\ MutexLock(mutex, t)
  /\ UNCHANGED <<flags, results, blocked, vec, got, joins>>

JoinUnlock(t) ==
  /\ Goto(t, "j_unlock", "run")
  /\ MutexUnlock(mutex)
  /\ UNCHANGED <<flags, results, blocked, vec, got, joins>>

-----------------------------------------------------------------------------
Advance(t) ==
  \/ ExitLockMutex(t) \/ ExitFlag(t) \/ ExitBroadcast(t) \/ ExitUnlock(t)
  \/ JoinLockMutex(t) \/ JoinCheck(t) \/ JoinDuplicate(t) \/ JoinScan(t) \/ JoinWake(t)
  \/ JoinUnlock(t)

Next ==
  \E t \in Threads :
    \/ \E p \in Threads : MakeThread(p, t)
    \/ FunctionReturns(t)
    \/ \E v \in JoinVectors : JoinThread(t, v)
    \/ Advance(t)
    \/ JoinSpurious(t)

Spec == Init /\ [][Next]_vars

\* Threads that can run do run, and get thread_join_lock in the end.
Fairness ==
  \A t \in Threads :
    /\ WF_vars(Advance(t))
    /\ SF_vars(ExitLockMutex(t) \/ JoinLockMutex(t) \/ JoinWake(t))

FairSpec == Spec /\ Fairness

-----------------------------------------------------------------------------
(* Properties.                                                             *)

\* A thread is joined by at most one of the calls that compete for it, and its
\* values are there by then.
JoinedOnce ==
  /\ \A x \in Threads : joins[x] <= 1
  /\ \A t \in Threads : got[t] # NoThread => got[t] \in results

\* No join sleeps on a thread that has terminated, except in the moment before
\* that thread's broadcast.
NoLostExit ==
  \A t \in blocked :
    Elements(vec[t]) \cap completed # {} => \E u \in Threads : pc[u] = "x_event"

\* The MARKED flag is never left behind: it is set in the threads that some
\* join is waiting for and in no other.
MarkedWhileJoining ==
  marked = UNION {Elements(vec[t]) : t \in {u \in Threads : pc[u] \in {"j_scan", "j_sleep"}}}

\* A duplicate join of several threads has left thread_join_lock locked.
Leaked == mutex # NoThread /\ pc[mutex] \notin Inside

\* Until the lock is leaked, a thread whose function has returned terminates.
ThreadsTerminate ==
  \A t \in Threads : pc[t] = "x_mutex" ~> (pc[t] = "dead" \/ Leaked)

\* Until the lock is leaked, a join that sleeps comes back when one of its
\* threads has terminated, whichever other joins the same event wakes.
JoinsReturn ==
  \A t, x \in Threads :
    (pc[t] = "j_sleep" /\ x \in Elements(vec[t]) /\ x \in completed)
      ~> (pc[t] = "run" \/ Leaked)
=============================================================================
