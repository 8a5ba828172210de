------------------------ MODULE PosixThreadVariables ------------------------
(***************************************************************************)
(* Thread variables of the POSIX run-time, posix-threads.c.                *)
(*                                                                         *)
(* Every thread has a vector with its values of the thread variables.  It  *)
(* is reached in two ways: by the thread through the pthread key           *)
(* tlv_vector_key, and by a thread that allocates a variable through       *)
(* tlv_vector_list, the linked list of all the vectors.  Growing replaces  *)
(* the vectors in the list and leaves the keys as they are.  The list is   *)
(* protected by tlv_vector_list_lock, except in remove_tlv_vector, which a *)
(* thread calls as it ends: its steps interleave with those of the others, *)
(* and `overlapped' records whether they have met.                         *)
(*                                                                         *)
(* Offsets are counted from 1; the vectors of a thread t are vectors[t][i] *)
(* in the order in which they were allocated.                              *)
(***************************************************************************)
EXTENDS PthreadSync, Naturals, Sequences, FiniteSets

CONSTANTS
  Main,           \* the first thread
  Initial,        \* the value that a variable is allocated with
  Junk,           \* what is read from memory that was never written
  InitialSize,    \* TLV_VECTOR_INITIAL_SIZE
  MaxVariables    \* bound: the variables that are allocated

ASSUME ThreadVariablesAssumption ==
  /\ Main \in Threads /\ IsFiniteSet(Threads)
  /\ Initial # Junk /\ {Initial, Junk} \cap Threads = {}
  /\ InitialSize \in Nat \ {0}
  /\ MaxVariables \in Nat

VARIABLES
  lock,        \* tlv_vector_list_lock
  offset,      \* the last offset given out: TLV_vector_offset
  default,     \* default_tlv_vector
  vectors,     \* the vectors allocated for each thread
  key,         \* which of them tlv_vector_key of the thread refers to
  listed,      \* which of them its element of tlv_vector_list refers to
  head, next,  \* tlv_vector_list, its elements named by their threads
  freed,       \* the threads whose element and listed vector are freed
  pc,          \* where each thread is
  cur, last,   \* its local variables list (or current) and last
  handles,     \* the variables whose allocation has returned
  assigned,    \* history: the value a thread last gave each variable
  overlapped   \* history: whether a thread has been in remove_tlv_vector while
               \* another one was there too or had the lock of the list

list == <<head, next, freed>>
memory == <<vectors, key, listed>>
vars == <<lock, offset, default, vectors, key, listed, head, next, freed, pc, cur, last,
          handles, assigned, overlapped>>

Variables == 1 .. MaxVariables
Values == Threads \cup {Initial, Junk}

\* Labels of the steps made with tlv_vector_list_lock, and of those that end
\* a thread, made without it.
Starting == {"i_lock", "i_vector", "i_next", "i_head", "i_unlock"}
Allocating == {"a_lock", "a_offset", "g_default", "g_walk", "a_default", "a_walk", "a_unlock"}
Ending == {"x_head", "x_first", "x_walk", "x_free"}
Labels == Starting \cup Allocating \cup Ending \cup {"new", "run", "dead"}

TypeOK ==
  /\ lock \in ThreadOrNone
  /\ offset \in 0 .. MaxVariables
  /\ DOMAIN default \subseteq Nat /\ \A i \in DOMAIN default : default[i] \in Values
  /\ \A t \in Threads : \A i \in DOMAIN vectors[t] :
       \A v \in DOMAIN vectors[t][i] : vectors[t][i][v] \in Values
  /\ \A t \in Threads : key[t] \in 0 .. Len(vectors[t]) /\ listed[t] \in 0 .. Len(vectors[t])
  /\ head \in ThreadOrNone
  /\ next \in [Threads -> ThreadOrNone]
  /\ freed \subseteq Threads
  /\ pc \in [Threads -> Labels]
  /\ cur \in [Threads -> ThreadOrNone]
  /\ last \in [Threads -> ThreadOrNone]
  /\ handles \subseteq Variables
  /\ assigned \in [Threads -> [Variables -> Values]]
  /\ overlapped \in BOOLEAN

\* initialize_threads_primitives; the first thread is initialized next.
Init ==
  /\ lock = NoThread
  /\ offset = 0
  /\ default = [i \in 1 .. InitialSize |-> Junk]
  /\ vectors = [t \in Threads |-> <<>>]
  /\ key = [t \in Threads |-> 0]
  /\ listed = [t \in Threads |-> 0]
  /\ head = NoThread
  /\ next = [t \in Threads |-> NoThread]
  /\ freed = {}
  /\ pc = [t \in Threads |-> IF t = Main THEN "i_lock" ELSE "new"]
  /\ cur = [t \in Threads |-> NoThread]
  /\ last = [t \in Threads |-> NoThread]
  /\ handles = {}
  /\ assigned = [t \in Threads |-> [v \in Variables |-> Initial]]
  /\ overlapped = FALSE

Goto(t, from, to) ==
  /\ pc[t] = from
  /\ pc' = [pc EXCEPT ![t] = to]

\* grow_tlv_vector and copy_tlv_vector: a larger copy.
Grown(vector, size) ==
  [i \in 1 .. size |-> IF i \in DOMAIN vector THEN vector[i] ELSE Junk]

\* primitive_read_thread_variable: what the thread finds in its own vector.
ReadThreadVariable(t, v) ==
  LET vector == vectors[t][key[t]] IN IF v \in DOMAIN vector THEN vector[v] ELSE Junk

\* No thread of the set is at one of the labels.
NoneAt(threads, labels) == \A u \in threads : pc[u] \notin labels

-----------------------------------------------------------------------------
(* primitive_initialize_current_thread, called on the new thread.          *)

MakeThread(p, t) ==
  /\ pc[p] = "run"
  /\ Goto(t, "new", "i_lock")
  /\ UNCHANGED <<lock, offset, default, memory, list, cur, last, handles, assigned, overlapped>>

\* pthread_mutex_lock(&tlv_vector_list_lock), here and in an allocation.
LockList(t) ==
  /\ Goto(t, "i_lock", "i_vector") \/ Goto(t, "a_lock", "a_offset")
  /\ MutexLock(lock, t)
  /\ overlapped' = (overlapped \/ ~NoneAt(Threads, Ending))
  /\ UNCHANGED <<offset, default, memory, list, cur, last, handles, assigned>>

\* A copy of the default vector becomes the vector of the thread.
InitializeVector(t) ==
  /\ Goto(t, "i_vector", "i_next")
  /\ vectors' = [vectors EXCEPT ![t] = <<default>>]
  /\ key' = [key EXCEPT ![t] = 1]
  /\ listed' = [listed EXCEPT ![t] = 1]
  /\ UNCHANGED <<lock, offset, default, list, cur, last, handles, assigned, overlapped>>

\* add_tlv_vector: the new element points to the first one ...
AddNext(t) ==
  /\ Goto(t, "i_next", "i_head")
  /\ next' = [next EXCEPT ![t] = head]
  /\ UNCHANGED <<lock, offset, default, memory, head, freed, cur, last, handles, assigned,
                 overlapped>>

\* ... and becomes the first one.
AddHead(t) ==
  /\ Goto(t, "i_head", "i_unlock")
  /\ head' = t
  /\ UNCHANGED <<lock, offset, default, memory, next, freed, cur, last, handles, assigned,
                 overlapped>>

InitializeUnlock(t) ==
  /\ Goto(t, "i_unlock", "run")
  /\ MutexUnlock(lock)
  /\ UNCHANGED <<offset, default, memory, list, cur, last, handles, assigned, overlapped>>

-----------------------------------------------------------------------------
(* primitive_allocate_thread_variable.                                     *)

AllocateThreadVariable(t) ==
  /\ Cardinality({u \in Threads : pc[u] \in {"a_lock", "a_offset"}}) + offset < MaxVariables
  /\ Goto(t, "run", "a_lock")
  /\ UNCHANGED <<lock, offset, default, memory, list, cur, last, handles, assigned, overlapped>>

\* Mutant: the vectors are grown one variable too late.
AllocateOffset_GrowsLate(t) ==
  /\ Goto(t, "a_offset", IF offset > Len(default) THEN "g_default" ELSE "a_default")
  /\ offset' = offset + 1
  /\ UNCHANGED <<lock, default, memory, list, cur, last, handles, assigned, overlapped>>

\* The offset is taken; if it is outside the vectors they are grown.
AllocateOffset(t) ==
  /\ Goto(t, "a_offset", IF offset + 1 > Len(default) THEN "g_default" ELSE "a_default")
  /\ offset' = offset + 1
  /\ UNCHANGED <<lock, default, memory, list, cur, last, handles, assigned, overlapped>>

\* grow_all_tlv_vectors: first the default vector ...
GrowDefault(t) ==
  /\ Goto(t, "g_default", "g_walk")
  /\ default' = Grown(default, 2 * Len(default))
  /\ cur' = [cur EXCEPT ![t] = head]
  /\ UNCHANGED <<lock, offset, memory, list, last, handles, assigned, overlapped>>

\* ... then each vector of the list, in the list.
GrowWalk(t) ==
  /\ \/ /\ cur[t] = NoThread
        /\ Goto(t, "g_walk", "a_default")
        /\ UNCHANGED <<vectors, listed, cur>>
     \/ /\ cur[t] # NoThread
        /\ Goto(t, "g_walk", "g_walk")
        /\ LET u == cur[t]
               grown == Grown(vectors[u][listed[u]], Len(default))
           IN  /\ vectors' = [vectors EXCEPT ![u] = Append(@, grown)]
               /\ listed' = [listed EXCEPT ![u] = Len(vectors[u]) + 1]
               /\ cur' = [cur EXCEPT ![t] = next[u]]
  /\ UNCHANGED <<lock, offset, default, key, list, last, handles, assigned, overlapped>>

\* Mutant: the walk starts at the second element of the list.
AllocateDefault_SkipsFirst(t) ==
  /\ Goto(t, "a_default", "a_walk")
  /\ default' = [default EXCEPT ![offset] = Initial]
  /\ cur' = [cur EXCEPT ![t] = next[head]]
  /\ UNCHANGED <<lock, offset, memory, list, last, handles, assigned, overlapped>>

AllocateDefault(t) ==
  /\ Goto(t, "a_default", "a_walk")
  /\ default' = [default EXCEPT ![offset] = Initial]
  /\ cur' = [cur EXCEPT ![t] = head]
  /\ UNCHANGED <<lock, offset, memory, list, last, handles, assigned, overlapped>>

\* update_tlv_vectors gives the initial value to each vector of the list.
UpdateWalk(t) ==
  /\ \/ /\ cur[t] = NoThread
        /\ Goto(t, "a_walk", "a_unlock")
        /\ UNCHANGED <<vectors, cur>>
     \/ /\ cur[t] # NoThread
        /\ Goto(t, "a_walk", "a_walk")
        /\ LET u == cur[t]
           IN  /\ vectors' = [vectors EXCEPT ![u][listed[u]][offset] = Initial]
               /\ cur' = [cur EXCEPT ![t] = next[u]]
  /\ UNCHANGED <<lock, offset, default, key, listed, list, last, handles, assigned, overlapped>>

AllocateUnlock(t) ==
  /\ Goto(t, "a_unlock", "run")
  /\ MutexUnlock(lock)
  /\ handles' = handles \cup {offset}
  /\ UNCHANGED <<offset, default, memory, list, cur, last, assigned, overlapped>>

\* primitive_write_thread_variable: one step, in the thread's own vector.  A
\* store outside the vector leaves nothing there to be relied on.
WriteThreadVariable(t, v) ==
  /\ pc[t] = "run"
  /\ v \in handles
  /\ lock = NoThread
  /\ vectors' = [vectors EXCEPT ![t][key[t]] =
                   IF v \in DOMAIN @ THEN [@ EXCEPT ![v] = t] ELSE @]
  /\ assigned' = [assigned EXCEPT ![t][v] = t]
  /\ UNCHANGED <<lock, offset, default, key, listed, list, pc, cur, last, handles,
                 overlapped>>

-----------------------------------------------------------------------------
(* remove_tlv_vector, called by trampoline when the thread's function has  *)
(* returned, without the lock.                                             *)

FunctionReturns(t) ==
  /\ t # Main
  /\ Goto(t, "run", "x_head")
  /\ overlapped' = (overlapped \/ lock # NoThread \/ ~NoneAt(Threads, Ending))
  /\ UNCHANGED <<lock, offset, default, memory, list, cur, last, handles, assigned>>

\* An empty list, a match of the first element, or a walk from the second.  The
\* code reads the head of the list once for each test; here it is read once.
RemoveTest(t) ==
  /\ \/ head = NoThread /\ Goto(t, "x_head", "dead") /\ UNCHANGED <<cur, last>>
     \/ head = t /\ Goto(t, "x_head", "x_first") /\ UNCHANGED <<cur, last>>
     \/ /\ head \notin {NoThread, t}
        /\ Goto(t, "x_head", "x_walk")
        /\ last' = [last EXCEPT ![t] = head]
        /\ cur' = [cur EXCEPT ![t] = next[head]]
  /\ UNCHANGED <<lock, offset, default, memory, list, handles, assigned, overlapped>>

\* The first element is cut off, whichever it is by now (the code has no test
\* for a list that has become empty).
RemoveFirst(t) ==
  /\ Goto(t, "x_first", "x_free")
  /\ head # NoThread
  /\ head' = next[head]
  /\ UNCHANGED <<lock, offset, default, memory, next, freed, cur, last, handles, assigned,
                 overlapped>>

RemoveWalk(t) ==
  /\ \/ cur[t] = NoThread /\ Goto(t, "x_walk", "dead") /\ UNCHANGED <<next, cur, last>>
     \/ /\ cur[t] = t
        /\ Goto(t, "x_walk", "x_free")
        /\ next' = [next EXCEPT ![last[t]] = next[t]]
        /\ UNCHANGED <<cur, last>>
     \/ /\ cur[t] \notin {NoThread, t}
        /\ Goto(t, "x_walk", "x_walk")
        /\ last' = [last EXCEPT ![t] = cur[t]]
        /\ cur' = [cur EXCEPT ![t] = next[cur[t]]]
        /\ UNCHANGED next
  /\ UNCHANGED <<lock, offset, default, memory, head, freed, handles, assigned, overlapped>>

RemoveFree(t) ==
  /\ Goto(t, "x_free", "dead")
  /\ freed' = freed \cup {t}
  /\ UNCHANGED <<lock, offset, default, memory, head, next, cur, last, handles, assigned,
                 overlapped>>

-----------------------------------------------------------------------------
Next ==
  \E t \in Threads :
    \/ \E p \in Threads : MakeThread(p, t)
    \/ LockList(t) \/ InitializeVector(t) \/ AddNext(t) \/ AddHead(t) \/ InitializeUnlock(t)
    \/ AllocateThreadVariable(t) \/ AllocateOffset(t) \/ GrowDefault(t) \/ GrowWalk(t)
    \/ AllocateDefault(t) \/ UpdateWalk(t) \/ AllocateUnlock(t)
    \/ \E v \in Variables : WriteThreadVariable(t, v)
    \/ FunctionReturns(t) \/ RemoveTest(t) \/ RemoveFirst(t) \/ RemoveWalk(t) \/ RemoveFree(t)

Spec == Init /\ [][Next]_vars

-----------------------------------------------------------------------------
(* Properties.                                                             *)

\* A running thread reads what it last assigned to a variable or, if it has not,
\* the variable's initial value, whichever of the thread and the variable came
\* first.  Restricted to the variables that fit into the vector the thread
\* started with: it never learns of another.  It holds until a thread ends while
\* another ends too or has the lock of the list.
SeesItsValue ==
  ~overlapped =>
    \A t \in Threads, v \in handles :
      pc[t] = "run" /\ v \in DOMAIN vectors[t][key[t]] =>
        ReadThreadVariable(t, v) = assigned[t][v]

\* "Whenever a thread variable is allocated, it's initial value must be given to
\* all threads which are in existence", says the design document.
GivenToAllThreads ==
  \A t \in Threads, v \in handles :
    pc[t] = "run" => ReadThreadVariable(t, v) = assigned[t][v]

\* The element that is n links from the head of the list.
Link[n \in 0 .. Cardinality(Threads)] ==
  IF n = 0 THEN head ELSE IF Link[n - 1] = NoThread THEN NoThread ELSE next[Link[n - 1]]
InList == {Link[n] : n \in DOMAIN Link} \ {NoThread}

\* Between allocations the list holds the threads that have been initialized and
\* have not begun to end, the list ends, and every vector in it, like the default
\* vector, has room for all the variables allocated so far.  It holds until a
\* thread ends while another ends too or has the lock of the list.
ListIsComplete ==
  ~overlapped /\ lock = NoThread /\ NoneAt(Threads, Ending) =>
    /\ InList = {t \in Threads : pc[t] \in {"run", "a_lock"}}
    /\ Link[Cardinality(Threads)] = NoThread
    /\ \A t \in InList : handles \subseteq DOMAIN vectors[t][listed[t]]
    /\ handles \subseteq DOMAIN default

\* "Under the control of THREADVECTORLOCK, remove the vector from the list", says
\* the design document of a thread that ends, and only then "Free the vector":
\* no thread that walks the list stands on an element that has been freed.
NoFreedElement ==
  \A t \in Threads :
    pc[t] \in {"g_walk", "a_walk", "x_walk"} => cur[t] \notin freed
=============================================================================
