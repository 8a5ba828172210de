----------------------- MODULE PosixThreadJoin_proofs -----------------------
(***************************************************************************)
(* Proofs about PosixThreadJoin, for any set of threads, finite or not,    *)
(* and any argument lists of join-thread.                                  *)
(***************************************************************************)
EXTENDS PosixThreadJoin, FiniteSetTheorems, WellFoundedInduction, TLAPS

\* A join that has marked its threads and not taken one of them yet.
Joining(t) == pc[t] \in {"j_scan", "j_sleep"}

\* The threads of such a join are marked and not joined, and no two joins have
\* a thread in common.
ClaimInv ==
  /\ \A t \in Threads : Joining(t) =>
       Elements(vec[t]) \subseteq marked /\ Elements(vec[t]) \cap joined = {}
  /\ \A t, u \in Threads : Joining(t) /\ Joining(u) /\ t # u =>
       Elements(vec[t]) \cap Elements(vec[u]) = {}

\* The JOINED flag says whether a join has returned the thread.
OnceInv == \A x \in Threads : joins[x] = IF x \in joined THEN 1 ELSE 0

\* The values of a thread's function are stored before its flag is set.
ResultsInv ==
  /\ completed \subseteq results
  /\ \A t \in Threads : pc[t] \in {"x_mutex", "x_flag"} => t \in results
  /\ \A t \in Threads : got[t] # NoThread => got[t] \in results

\* A thread blocked on thread_exit_event is in its cond wait.
BlockedInv == \A t \in blocked : pc[t] = "j_sleep"

JoinInv ==
  /\ TypeOK
  /\ ClaimInv /\ OnceInv /\ ResultsInv
  /\ BlockedInv /\ NoLostExit

\* The MARKED flags, when no argument list has a thread twice.
MarkInv ==
  \A x \in Threads : x \in marked <=> \E t \in Threads : Joining(t) /\ x \in Elements(vec[t])

-----------------------------------------------------------------------------
(* Argument lists.                                                         *)

\* A non-empty set of numbers has a least one.
LEMMA LeastOfNaturals ==
  ASSUME NEW S \in SUBSET Nat, S # {}
  PROVE  \E i \in S : \A j \in S : i <= j
<1>1. IsWellFoundedOn({p \in Nat \X Nat : p[1] < p[2]}, Nat)
  BY NatLessThanWellFounded DEF OpToRel
<1>2. PICK i \in S : \A j \in S : ~(<<j, i>> \in {p \in Nat \X Nat : p[1] < p[2]})
  BY <1>1, WFMin
<1>3. ASSUME NEW j \in S PROVE i <= j
  <2>1. ~(j < i)
    BY <1>2
  <2>. QED BY <2>1
<1>. QED BY <1>3

LEMMA ElementsAreThreads ==
  ASSUME NEW v \in Seq(Threads)
  PROVE  Elements(v) \subseteq Threads /\ DOMAIN v \in SUBSET Nat
BY DEF Elements

\* The scan for a completed thread finds one if there is one.
LEMMA FirstIsCompleted ==
  ASSUME NEW v \in Seq(Threads), Elements(v) \cap completed # {}
  PROVE  FirstCompleted(v) \in Elements(v) \cap completed
<1>. DEFINE done == {i \in DOMAIN v : v[i] \in completed}
            first == CHOOSE i \in done : \A j \in done : i <= j
<1>1. done \in SUBSET Nat /\ done # {}
  BY ElementsAreThreads DEF Elements
<1>2. \E i \in done : \A j \in done : i <= j
  <2>. HIDE DEF done
  <2>. QED BY <1>1, LeastOfNaturals
<1>3. first \in done
  <2>. HIDE DEF done
  <2>. QED BY <1>2
<1>4. FirstCompleted(v) = v[first]
  BY DEF FirstCompleted
<1>5. v[first] \in Elements(v) /\ v[first] \in completed
  <2>1. first \in DOMAIN v /\ v[first] \in completed
    BY <1>3
  <2>. HIDE DEF first
  <2>. QED BY <2>1 DEF Elements
<1>. QED BY <1>4, <1>5

\* What is not in the list is flipped no times.
LEMMA NotInListNotFlipped ==
  ASSUME NEW v, NEW x, x \notin Elements(v)
  PROVE  Occurrences(v, x) % 2 # 1
<1>1. {i \in DOMAIN v : v[i] = x} = {}
  BY DEF Elements
<1>2. Occurrences(v, x) = 0
  BY <1>1, FS_EmptySet DEF Occurrences
<1>. QED BY <1>2

\* What is in a list without duplicates is flipped once.
LEMMA InListFlippedOnce ==
  ASSUME NEW v, NEW x \in Elements(v), \A i, j \in DOMAIN v : v[i] = v[j] => i = j
  PROVE  Occurrences(v, x) % 2 = 1
<1>1. PICK i \in DOMAIN v : v[i] = x
  BY DEF Elements
<1>2. {j \in DOMAIN v : v[j] = x} = {i}
  BY <1>1
<1>3. Occurrences(v, x) = 1
  BY <1>2, FS_Singleton DEF Occurrences
<1>. QED BY <1>3

-----------------------------------------------------------------------------
(* Steps.                                                                  *)

LEMMA VectorsAreLists ==
  ASSUME TypeOK, NEW t \in Threads
  PROVE  vec[t] \in Seq(Threads)
<1>1. <<>> \in Seq(Threads)
  OBVIOUS
<1>2. vec[t] \in JoinVectors \/ vec[t] = <<>>
  BY DEF TypeOK
<1>3. JoinVectors \subseteq Seq(Threads)
  BY ThreadJoinAssumption
<1>. QED BY <1>1, <1>2, <1>3

\* The scan that finds a completed thread.
LEMMA ScanFinds ==
  ASSUME TypeOK, NEW t \in Threads, JoinScan(t), Elements(vec[t]) \cap completed # {}
  PROVE  \E x \in Elements(vec[t]) \cap completed :
           /\ x \in Threads
           /\ pc[t] = "j_scan" /\ pc' = [pc EXCEPT ![t] = "j_unlock"]
           /\ joined' = joined \cup {x}
           /\ got' = [got EXCEPT ![t] = x]
           /\ joins' = [joins EXCEPT ![x] = IF @ < 2 THEN @ + 1 ELSE @]
<1>. DEFINE x == FirstCompleted(vec[t])
<1>1. vec[t] \in Seq(Threads)
  BY VectorsAreLists
<1>2. x \in Elements(vec[t]) \cap completed /\ x \in Threads
  BY <1>1, FirstIsCompleted, ElementsAreThreads
<1>3. /\ pc[t] = "j_scan" /\ pc' = [pc EXCEPT ![t] = "j_unlock"]
      /\ joined' = joined \cup {x}
      /\ got' = [got EXCEPT ![t] = x]
      /\ joins' = [joins EXCEPT ![x] = IF @ < 2 THEN @ + 1 ELSE @]
  BY DEF JoinScan, Goto
<1>. HIDE DEF x
<1>. QED BY <1>2, <1>3

LEMMA TypeStep ==
  ASSUME TypeOK, [Next]_vars
  PROVE  TypeOK'
<1>. USE NoThreadAssumption
     DEF TypeOK, ThreadOrNone, Labels, Inside, Goto, flags, MutexLock, MutexUnlock, CondBlock,
         CondBroadcast, CondLeave
<1>1. CASE UNCHANGED vars
  BY <1>1 DEF vars
<1>2. ASSUME NEW t \in Threads, NEW p \in Threads, MakeThread(p, t) PROVE TypeOK'
  BY <1>2 DEF MakeThread
<1>3. ASSUME NEW t \in Threads, FunctionReturns(t) \/ ExitLockMutex(t) \/ ExitFlag(t) PROVE TypeOK'
  BY <1>3 DEF FunctionReturns, ExitLockMutex, ExitFlag
<1>4. ASSUME NEW t \in Threads, ExitBroadcast(t) \/ ExitUnlock(t) \/ JoinSpurious(t) PROVE TypeOK'
  BY <1>4 DEF ExitBroadcast, ExitUnlock, JoinSpurious
<1>5. ASSUME NEW t \in Threads, NEW v \in JoinVectors, JoinThread(t, v) PROVE TypeOK'
  BY <1>5 DEF JoinThread
<1>6. ASSUME NEW t \in Threads, JoinLockMutex(t) \/ JoinDuplicate(t) \/ JoinWake(t) \/ JoinUnlock(t)
      PROVE  TypeOK'
  BY <1>6 DEF JoinLockMutex, JoinDuplicate, JoinWake, JoinUnlock
<1>7. ASSUME NEW t \in Threads, JoinCheck(t) PROVE TypeOK'
  <2>1. vec[t] \in Seq(Threads)
    BY VectorsAreLists
  <2>2. Elements(vec[t]) \subseteq Threads
    BY <2>1, ElementsAreThreads
  <2>. QED BY <1>7, <2>2 DEF JoinCheck
<1>8. ASSUME NEW t \in Threads, JoinScan(t) PROVE TypeOK'
  <2>1. CASE Elements(vec[t]) \cap completed = {}
    BY <1>8, <2>1 DEF JoinScan
  <2>2. CASE Elements(vec[t]) \cap completed # {}
    <3>1. PICK x \in Threads :
            /\ pc' = [pc EXCEPT ![t] = "j_unlock"]
            /\ joined' = joined \cup {x}
            /\ got' = [got EXCEPT ![t] = x]
            /\ joins' = [joins EXCEPT ![x] = IF @ < 2 THEN @ + 1 ELSE @]
      BY <1>8, <2>2, ScanFinds
    <3>2. joins' \in [Threads -> 0 .. 2]
      BY <3>1
    <3>3. marked' \subseteq Threads
      BY <1>8, <2>2 DEF JoinScan
    <3>. QED BY <1>8, <2>2, <3>1, <3>2, <3>3 DEF JoinScan
  <2>. QED BY <2>1, <2>2
<1>. QED BY <1>1, <1>2, <1>3, <1>4, <1>5, <1>6, <1>7, <1>8 DEF Next, Advance

\* The flags.  A join takes only threads that are neither marked nor joined, and
\* leaves the marks of all others alone.
LEMMA ClaimStep ==
  ASSUME TypeOK, ClaimInv, [Next]_vars
  PROVE  ClaimInv'
<1>. USE DEF TypeOK, Labels, Goto, flags, ClaimInv, Joining
<1>1. CASE UNCHANGED vars
  BY <1>1 DEF vars
<1>2. ASSUME NEW t \in Threads, NEW p \in Threads, MakeThread(p, t) PROVE ClaimInv'
  BY <1>2 DEF MakeThread
<1>3. ASSUME NEW t \in Threads, FunctionReturns(t) \/ ExitLockMutex(t) \/ ExitFlag(t)
      PROVE  ClaimInv'
  BY <1>3 DEF FunctionReturns, ExitLockMutex, ExitFlag
<1>4. ASSUME NEW t \in Threads, ExitBroadcast(t) \/ ExitUnlock(t) \/ JoinSpurious(t)
      PROVE  ClaimInv'
  BY <1>4 DEF ExitBroadcast, ExitUnlock, JoinSpurious
<1>5. ASSUME NEW t \in Threads, NEW v \in JoinVectors, JoinThread(t, v) PROVE ClaimInv'
  BY <1>5 DEF JoinThread
<1>6. ASSUME NEW t \in Threads, JoinLockMutex(t) \/ JoinDuplicate(t) \/ JoinWake(t) \/ JoinUnlock(t)
      PROVE  ClaimInv'
  BY <1>6 DEF JoinLockMutex, JoinDuplicate, JoinWake, JoinUnlock
<1>7. ASSUME NEW t \in Threads, JoinCheck(t) PROVE ClaimInv'
  BY <1>7 DEF JoinCheck
<1>8. ASSUME NEW t \in Threads, JoinScan(t) PROVE ClaimInv'
  <2>1. CASE Elements(vec[t]) \cap completed = {}
    BY <1>8, <2>1 DEF JoinScan
  <2>2. CASE Elements(vec[t]) \cap completed # {}
    <3>1. PICK x \in Elements(vec[t]) :
            /\ pc[t] = "j_scan" /\ pc' = [pc EXCEPT ![t] = "j_unlock"]
            /\ joined' = joined \cup {x}
      BY <1>8, <2>2, ScanFinds
    <3>2. \A y \in Threads : y \notin Elements(vec[t]) /\ y \in marked => y \in marked'
      <4>1. marked' = {y \in Threads : (y \in marked) # (Occurrences(vec[t], y) % 2 = 1)}
        BY <1>8, <2>2 DEF JoinScan
      <4>. QED BY <4>1, NotInListNotFlipped
    <3>3. vec' = vec
      BY <1>8 DEF JoinScan
    <3>. QED BY <3>1, <3>2, <3>3
  <2>. QED BY <2>1, <2>2
<1>. QED BY <1>1, <1>2, <1>3, <1>4, <1>5, <1>6, <1>7, <1>8 DEF Next, Advance

\* The joins that returned, and the values.
LEMMA OnceStep ==
  ASSUME TypeOK, ClaimInv, OnceInv, ResultsInv, [Next]_vars
  PROVE  OnceInv' /\ ResultsInv'
<1>. USE DEF TypeOK, Labels, Inside, Goto, flags, OnceInv, ResultsInv
<1>1. CASE UNCHANGED vars
  BY <1>1 DEF vars
<1>2. ASSUME NEW t \in Threads, NEW p \in Threads, MakeThread(p, t) PROVE OnceInv' /\ ResultsInv'
  BY <1>2 DEF MakeThread
<1>3. ASSUME NEW t \in Threads, FunctionReturns(t) \/ ExitLockMutex(t) \/ ExitFlag(t)
      PROVE  OnceInv' /\ ResultsInv'
  BY <1>3 DEF FunctionReturns, ExitLockMutex, ExitFlag
<1>4. ASSUME NEW t \in Threads, ExitBroadcast(t) \/ ExitUnlock(t) \/ JoinSpurious(t)
      PROVE  OnceInv' /\ ResultsInv'
  BY <1>4 DEF ExitBroadcast, ExitUnlock, JoinSpurious
<1>5. ASSUME NEW t \in Threads, NEW v \in JoinVectors, JoinThread(t, v)
      PROVE  OnceInv' /\ ResultsInv'
  BY <1>5 DEF JoinThread
<1>6. ASSUME NEW t \in Threads,
             \/ JoinLockMutex(t) \/ JoinDuplicate(t) \/ JoinWake(t) \/ JoinUnlock(t)
             \/ JoinCheck(t)
      PROVE  OnceInv' /\ ResultsInv'
  BY <1>6 DEF JoinLockMutex, JoinDuplicate, JoinWake, JoinUnlock, JoinCheck
<1>7. ASSUME NEW t \in Threads, JoinScan(t) PROVE OnceInv' /\ ResultsInv'
  <2>1. CASE Elements(vec[t]) \cap completed = {}
    BY <1>7, <2>1 DEF JoinScan
  <2>2. CASE Elements(vec[t]) \cap completed # {}
    <3>1. PICK x \in Elements(vec[t]) \cap completed :
            /\ x \in Threads
            /\ pc[t] = "j_scan" /\ pc' = [pc EXCEPT ![t] = "j_unlock"]
            /\ joined' = joined \cup {x}
            /\ got' = [got EXCEPT ![t] = x]
            /\ joins' = [joins EXCEPT ![x] = IF @ < 2 THEN @ + 1 ELSE @]
      BY <1>7, <2>2, ScanFinds
    <3>2. x \notin joined
      BY <3>1 DEF ClaimInv, Joining
    <3>3. OnceInv'
      BY <3>1, <3>2
    <3>4. completed' = completed /\ results' = results
      BY <1>7 DEF JoinScan
    <3>5. ResultsInv'
      BY <3>1, <3>4
    <3>. QED BY <3>3, <3>5
  <2>. QED BY <2>1, <2>2
<1>. QED BY <1>1, <1>2, <1>3, <1>4, <1>5, <1>6, <1>7 DEF Next, Advance

\* The sleepers.
LEMMA SleepStep ==
  ASSUME TypeOK, BlockedInv, NoLostExit, [Next]_vars
  PROVE  BlockedInv' /\ NoLostExit'
<1>. DEFINE Q == BlockedInv' /\ NoLostExit'
<1>. USE DEF TypeOK, Labels, Inside, Goto, flags, BlockedInv, NoLostExit, CondBlock, CondBroadcast,
             CondLeave
<1>1. CASE UNCHANGED vars
  BY <1>1 DEF vars
<1>2. ASSUME NEW t \in Threads, NEW p \in Threads, MakeThread(p, t) PROVE Q
  BY <1>2 DEF MakeThread
<1>3. ASSUME NEW t \in Threads, FunctionReturns(t) \/ ExitLockMutex(t) PROVE Q
  BY <1>3 DEF FunctionReturns, ExitLockMutex
<1>4. ASSUME NEW t \in Threads, ExitFlag(t) PROVE Q
  BY <1>4 DEF ExitFlag
<1>5. ASSUME NEW t \in Threads, ExitBroadcast(t) \/ ExitUnlock(t) \/ JoinSpurious(t) PROVE Q
  BY <1>5 DEF ExitBroadcast, ExitUnlock, JoinSpurious
<1>6. ASSUME NEW t \in Threads, NEW v \in JoinVectors, JoinThread(t, v) PROVE Q
  BY <1>6 DEF JoinThread
<1>7. ASSUME NEW t \in Threads,
             \/ JoinLockMutex(t) \/ JoinDuplicate(t) \/ JoinWake(t) \/ JoinUnlock(t)
             \/ JoinCheck(t)
      PROVE  Q
  BY <1>7 DEF JoinLockMutex, JoinDuplicate, JoinWake, JoinUnlock, JoinCheck
<1>8. ASSUME NEW t \in Threads, JoinScan(t) PROVE Q
  <2>1. CASE Elements(vec[t]) \cap completed = {}
    BY <1>8, <2>1 DEF JoinScan
  <2>2. CASE Elements(vec[t]) \cap completed # {}
    <3>1. /\ pc[t] = "j_scan" /\ pc' = [pc EXCEPT ![t] = "j_unlock"]
          /\ UNCHANGED <<completed, vec, blocked>>
      BY <1>8, <2>2 DEF JoinScan
    <3>. QED BY <3>1
  <2>. QED BY <2>1, <2>2
<1>. QED BY <1>1, <1>2, <1>3, <1>4, <1>5, <1>6, <1>7, <1>8 DEF Next, Advance

-----------------------------------------------------------------------------
(* What follows.                                                           *)

LEMMA JoinInvInit == Init => JoinInv
<1>. SUFFICES ASSUME Init PROVE JoinInv
  OBVIOUS
<1>1. TypeOK
  BY DEF Init, TypeOK, ThreadOrNone, Labels, Inside
<1>2. \A t \in Threads : pc[t] \in {"run", "new"}
  BY DEF Init
<1>3. ClaimInv /\ OnceInv /\ ResultsInv
  BY <1>2 DEF Init, ClaimInv, Joining, OnceInv, ResultsInv
<1>4. BlockedInv /\ NoLostExit
  BY DEF Init, BlockedInv, NoLostExit
<1>. QED BY <1>1, <1>3, <1>4 DEF JoinInv

LEMMA JoinInvStep ==
  ASSUME JoinInv, [Next]_vars
  PROVE  JoinInv'
BY TypeStep, ClaimStep, OnceStep, SleepStep DEF JoinInv

LEMMA JoinInvariant == Spec => []JoinInv
BY JoinInvInit, JoinInvStep, PTL DEF Spec

\* For any threads and any argument lists, with duplicates or not, the joins that
\* compete for a thread return it at most once, and its values with it.
THEOREM ThreadIsJoinedOnce == Spec => []JoinedOnce
<1>1. JoinInv => JoinedOnce
  <2>1. ASSUME JoinInv, NEW x \in Threads PROVE joins[x] <= 1
    BY <2>1 DEF JoinInv, OnceInv
  <2>. QED BY <2>1 DEF JoinInv, ResultsInv, JoinedOnce
<1>. QED BY <1>1, JoinInvariant, PTL

\* For any threads and any argument lists, no join sleeps on a thread that has
\* terminated: it was woken, or the broadcast is still to come.
THEOREM ExitIsNotLost == Spec => []NoLostExit
<1>1. JoinInv => NoLostExit
  BY DEF JoinInv
<1>. QED BY <1>1, JoinInvariant, PTL

-----------------------------------------------------------------------------
(* The MARKED flags.                                                       *)

\* No argument list has a thread twice.
Distinct == \A v \in JoinVectors : \A i, j \in DOMAIN v : v[i] = v[j] => i = j

LEMMA MarkStep ==
  ASSUME Distinct, TypeOK, ClaimInv, MarkInv, [Next]_vars
  PROVE  MarkInv'
<1>. USE DEF TypeOK, Labels, Goto, flags, MarkInv, Joining
<1>1. CASE UNCHANGED vars
  BY <1>1 DEF vars
<1>2. ASSUME NEW t \in Threads, NEW p \in Threads, MakeThread(p, t) PROVE MarkInv'
  BY <1>2 DEF MakeThread
<1>3. ASSUME NEW t \in Threads, FunctionReturns(t) \/ ExitLockMutex(t) \/ ExitFlag(t)
      PROVE  MarkInv'
  BY <1>3 DEF FunctionReturns, ExitLockMutex, ExitFlag
<1>4. ASSUME NEW t \in Threads, ExitBroadcast(t) \/ ExitUnlock(t) \/ JoinSpurious(t)
      PROVE  MarkInv'
  BY <1>4 DEF ExitBroadcast, ExitUnlock, JoinSpurious
<1>5. ASSUME NEW t \in Threads, NEW v \in JoinVectors, JoinThread(t, v) PROVE MarkInv'
  BY <1>5 DEF JoinThread
<1>6. ASSUME NEW t \in Threads, JoinLockMutex(t) \/ JoinDuplicate(t) \/ JoinWake(t) \/ JoinUnlock(t)
      PROVE  MarkInv'
  BY <1>6 DEF JoinLockMutex, JoinDuplicate, JoinWake, JoinUnlock
<1>7. ASSUME NEW t \in Threads, JoinCheck(t) PROVE MarkInv'
  BY <1>7 DEF JoinCheck
<1>8. ASSUME NEW t \in Threads, JoinScan(t) PROVE MarkInv'
  <2>1. CASE Elements(vec[t]) \cap completed = {}
    BY <1>8, <2>1 DEF JoinScan
  <2>2. CASE Elements(vec[t]) \cap completed # {}
    <3>1. /\ pc[t] = "j_scan" /\ pc' = [pc EXCEPT ![t] = "j_unlock"] /\ vec' = vec
          /\ marked' = {x \in Threads : (x \in marked) # (Occurrences(vec[t], x) % 2 = 1)}
      BY <1>8, <2>2 DEF JoinScan
    <3>2. vec[t] \in JoinVectors
      BY <2>2 DEF Elements
    <3>3. \A i, j \in DOMAIN vec[t] : vec[t][i] = vec[t][j] => i = j
      BY <3>2 DEF Distinct
    <3>4. \A x \in Elements(vec[t]) : Occurrences(vec[t], x) % 2 = 1
      BY <3>3, InListFlippedOnce
    <3>5. Elements(vec[t]) \subseteq marked
      BY <3>1 DEF ClaimInv
    <3>6. \A x \in Threads : x \in marked' <=> x \in marked /\ x \notin Elements(vec[t])
      BY <3>1, <3>4, <3>5, NotInListNotFlipped
    <3>7. \A u \in Threads : u # t /\ Joining(u) => Elements(vec[u]) \cap Elements(vec[t]) = {}
      BY <3>1 DEF ClaimInv
    <3>. QED BY <3>1, <3>6, <3>7
  <2>. QED BY <2>1, <2>2
<1>. QED BY <1>1, <1>2, <1>3, <1>4, <1>5, <1>6, <1>7, <1>8 DEF Next, Advance

\* For any threads and any argument lists without duplicates, MARKED is set in
\* the threads that some join waits for and in no other: a join that returns one
\* of its threads leaves the others to be joined again.
THEOREM MarksAreNotLeft ==
  ASSUME Distinct
  PROVE  Spec => []MarkedWhileJoining
<1>1. Init => MarkInv
  BY DEF Init, MarkInv, Joining
<1>2. JoinInv /\ MarkInv /\ [Next]_vars => MarkInv'
  BY MarkStep DEF JoinInv
<1>3. JoinInv /\ MarkInv => MarkedWhileJoining
  <2>. SUFFICES ASSUME JoinInv, MarkInv PROVE MarkedWhileJoining
    OBVIOUS
  <2>. DEFINE wanted == UNION {Elements(vec[t]) : t \in {u \in Threads : Joining(u)}}
  <2>1. \A t \in Threads : vec[t] \in Seq(Threads)
    BY VectorsAreLists DEF JoinInv
  <2>2. wanted \subseteq Threads /\ marked \subseteq Threads
    BY <2>1, ElementsAreThreads DEF JoinInv, TypeOK
  <2>3. \A x \in Threads : x \in marked <=> x \in wanted
    BY DEF MarkInv
  <2>4. marked = wanted
    BY <2>2, <2>3
  <2>. QED BY <2>4 DEF MarkedWhileJoining, Joining
<1>. QED BY <1>1, <1>2, <1>3, JoinInvariant, PTL DEF Spec
=============================================================================
