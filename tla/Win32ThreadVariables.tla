------------------------ MODULE Win32ThreadVariables ------------------------
(***************************************************************************)
(* Thread variables of the Win32 run-time, win32-threads-primitives.c.     *)
(* linux-threads-primitives.c has the same code on a pthread mutex.        *)
(*                                                                         *)
(* Every thread has a vector with its values, which it reaches through its *)
(* thread environment block (TEB) and others through tlv_vector_list.      *)
(* Reads and writes take no lock.  A thread that grows the vectors, inside *)
(* the critical section of the list, keeps writers out by a counter: it    *)
(* replaces a count of zero by TLV_GROW, and a writer that finds the count *)
(* negative takes itself off it and waits for the critical section.        *)
(*                                                                         *)
(* A vector is the sequence of its slots: the first one has the TEB of its *)
(* thread, so that the thread can be given a larger vector.  The vectors   *)
(* of thread t are vectors[t][i], in the order they were allocated.        *)
(***************************************************************************)
EXTENDS Win32Sync, Sequences, FiniteSets

CONSTANTS
  Main,           \* the first thread
  Initial,        \* the value that a variable is allocated with
  Junk,           \* what is read from a slot that was never written
  InitialSize,    \* TLV_VECTOR_INITIAL_SIZE
  MaxVariables,   \* bound: the variables that are allocated
  MaxWrites       \* bound: the writes that are made

TLV_GROW == -2000000

\* The threads are fewer than TLV_GROW has room for: a writer that comes while
\* the vectors are being grown finds the counter negative, however many came
\* before it.
ASSUME Win32VariablesAssumption ==
  /\ Main \in Threads
  /\ IsFiniteSet(Threads) /\ Cardinality(Threads) < -TLV_GROW
  /\ Initial # Junk /\ {Initial, Junk} \cap Threads = {}
  /\ InitialSize \in Nat \ {0}
  /\ MaxVariables \in Nat /\ MaxWrites \in Nat

VARIABLES
  section,             \* the critical section tlv_vector_list_lock
  tlv_writer_counter,
  offset,              \* the last slot given out: TLV_vector_offset
  default,             \* default_tlv_vector
  vectors,             \* the vectors allocated for each thread
  teb,                 \* which of them the TEB of the thread refers to
  listed,              \* which of them its element of the list refers to
  tlv_vector_list,     \* the list, its elements named by their threads
  walk,                \* the rest of the list, for the thread in the section
  pc,                  \* where each thread is in the primitives
  vector,              \* its local variable tlv_vector
  slot,                \* the variable it reads or writes, as a slot
  handles,             \* the variables whose allocation has returned
  assigned,            \* history: the value a thread last gave each variable
  writes               \* the writes made so far

memory == <<default, vectors, teb, listed, tlv_vector_list>>
locals == <<walk, vector, slot>>
client == <<handles, assigned, writes>>
vars == <<section, tlv_writer_counter, offset, memory, pc, locals, client>>

\* The first variable takes the second slot.
Slots == 2 .. MaxVariables + 1

\* initialize_threads_primitives; the first thread is initialized next.
Init ==
  /\ section = NoThread
  /\ tlv_writer_counter = 0
  /\ offset = 1
  /\ default = [i \in 1 .. InitialSize |-> Junk]
  /\ vectors = [t \in Threads |-> <<>>]
  /\ teb = [t \in Threads |-> 0]
  /\ listed = [t \in Threads |-> 0]
  /\ tlv_vector_list = <<>>
  /\ walk = <<>>
  /\ pc = [t \in Threads |-> IF t = Main THEN "i_enter" ELSE "new"]
  /\ vector = [t \in Threads |-> 0]
  /\ slot = [t \in Threads |-> 0]
  /\ handles = {}
  /\ assigned = [t \in Threads |-> [v \in Slots |-> Initial]]
  /\ writes = 0

Goto(t, from, to) ==
  /\ pc[t] = from
  /\ pc' = [pc EXCEPT ![t] = to]

\* make_dylan_vector and copy_tlv_vector: a copy with room for size slots.
Copied(source, size) ==
  [i \in 1 .. size |-> IF i \in DOMAIN source THEN source[i] ELSE Junk]

-----------------------------------------------------------------------------
(* primitive_initialize_current_thread, on the new thread, and             *)
(* remove_tlv_vector, when its function has returned.                      *)

MakeThread(p, t) ==
  /\ pc[p] = "run"
  /\ Goto(t, "new", "i_enter")
  /\ UNCHANGED <<section, tlv_writer_counter, offset, memory, locals, client>>

\* EnterCriticalSection(&tlv_vector_list_lock), in all of the primitives.
EnterSection(t) ==
  /\ \/ Goto(t, "i_enter", "i_vector")
     \/ Goto(t, "a_enter", "a_offset")
     \/ Goto(t, "x_enter", "x_cut")
  /\ EnterCriticalSection(section, t)
  /\ UNCHANGED <<tlv_writer_counter, offset, memory, locals, client>>

LeaveSection(t) ==
  /\ \/ Goto(t, "i_leave", "run") /\ UNCHANGED handles
     \/ Goto(t, "a_leave", "run") /\ handles' = handles \cup {offset}
     \/ Goto(t, "x_leave", "dead") /\ UNCHANGED handles
  /\ LeaveCriticalSection(section)
  /\ UNCHANGED <<tlv_writer_counter, offset, memory, locals, assigned, writes>>

\* A copy of the default vector, with the TEB in its first slot, becomes the
\* vector of the thread; add_tlv_vector puts it at the front of the list.
InitializeVector(t) ==
  /\ Goto(t, "i_vector", "i_leave")
  /\ vectors' = [vectors EXCEPT ![t] = <<[default EXCEPT ![1] = t]>>]
  /\ teb' = [teb EXCEPT ![t] = 1]
  /\ listed' = [listed EXCEPT ![t] = 1]
  /\ tlv_vector_list' = <<t>> \o tlv_vector_list
  /\ UNCHANGED <<section, tlv_writer_counter, offset, default, locals, client>>

\* The function of the thread returns.  remove_tlv_vector looks whether the list
\* is empty before it enters the critical section.
FunctionReturns(t) ==
  /\ t # Main
  /\ Goto(t, "run", IF tlv_vector_list = <<>> THEN "dead" ELSE "x_enter")
  /\ UNCHANGED <<section, tlv_writer_counter, offset, memory, locals, client>>

\* The list without the element of thread t, if it has one.
CutOut(list, t) ==
  IF \E i \in DOMAIN list : list[i] = t
    THEN LET i == CHOOSE i \in DOMAIN list : list[i] = t
         IN  [j \in 1 .. Len(list) - 1 |-> IF j < i THEN list[j] ELSE list[j + 1]]
    ELSE list

RemoveVector(t) ==
  /\ Goto(t, "x_cut", "x_leave")
  /\ tlv_vector_list' = CutOut(tlv_vector_list, t)
  /\ UNCHANGED <<section, tlv_writer_counter, offset, default, vectors, teb, listed, locals, client>>

-----------------------------------------------------------------------------
(* primitive_allocate_thread_variable.                                     *)

AllocateThreadVariable(t) ==
  /\ Cardinality({u \in Threads : pc[u] \in {"a_enter", "a_offset"}}) + offset <= MaxVariables
  /\ Goto(t, "run", "a_enter")
  /\ UNCHANGED <<section, tlv_writer_counter, offset, memory, locals, client>>

\* The slot is taken; if it is outside the vectors they are grown.
AllocateOffset(t) ==
  /\ Goto(t, "a_offset", IF offset + 1 > Len(default) THEN "g_claim" ELSE "a_default")
  /\ offset' = offset + 1
  /\ UNCHANGED <<section, tlv_writer_counter, memory, locals, client>>

\* Mutant: writers that have begun are not waited for.
GrowClaim_AtOnce(t) ==
  /\ tlv_writer_counter' = TLV_GROW
  /\ Goto(t, "g_claim", "g_default")
  /\ UNCHANGED <<section, offset, memory, locals, client>>

\* grow_all_tlv_vectors spins until there is no writer, and keeps them out.
GrowClaim(t) ==
  /\ tlv_writer_counter = 0
  /\ InterlockedCompareExchange(tlv_writer_counter, TLV_GROW, 0)
  /\ Goto(t, "g_claim", "g_default")
  /\ UNCHANGED <<section, offset, memory, locals, client>>

GrowDefault(t) ==
  /\ Goto(t, "g_default", "g_copy")
  /\ default' = Copied(default, 2 * Len(default))
  /\ walk' = tlv_vector_list
  /\ UNCHANGED <<section, tlv_writer_counter, offset, vectors, teb, listed, tlv_vector_list,
                 vector, slot, client>>

\* grow_tlv_vector for each element of the list: a larger copy of its vector ...
GrowCopy(t) ==
  /\ \/ walk = <<>> /\ Goto(t, "g_copy", "g_done") /\ UNCHANGED vectors
     \/ /\ walk # <<>>
        /\ Goto(t, "g_copy", "g_install")
        /\ LET u == Head(walk) IN
             vectors' = [vectors EXCEPT ![u] =
                           Append(@, Copied(@[listed[u]], Len(default)))]
  /\ UNCHANGED <<section, tlv_writer_counter, offset, default, teb, listed, tlv_vector_list,
                 locals, client>>

\* Mutant: the TEB keeps the old vector, as in posix-threads.c.
GrowInstall_ListOnly(t) ==
  /\ Goto(t, "g_install", "g_copy")
  /\ LET u == Head(walk) IN listed' = [listed EXCEPT ![u] = Len(vectors[u])]
  /\ walk' = Tail(walk)
  /\ UNCHANGED <<section, tlv_writer_counter, offset, default, vectors, teb, tlv_vector_list,
                 vector, slot, client>>

\* ... takes its place in the TEB that the first slot names, and in the list.
GrowInstall(t) ==
  /\ Goto(t, "g_install", "g_copy")
  /\ LET u == Head(walk)
         owner == vectors[u][listed[u]][1]
     IN  /\ teb' = [teb EXCEPT ![owner] = Len(vectors[u])]
         /\ listed' = [listed EXCEPT ![u] = Len(vectors[u])]
  /\ walk' = Tail(walk)
  /\ UNCHANGED <<section, tlv_writer_counter, offset, default, vectors, tlv_vector_list, vector,
                 slot, client>>

\* Writers may go on.  A writer that has yet to take itself off is waited for.
GrowDone(t) ==
  /\ tlv_writer_counter = TLV_GROW
  /\ InterlockedCompareExchange(tlv_writer_counter, 0, TLV_GROW)
  /\ Goto(t, "g_done", "a_default")
  /\ UNCHANGED <<section, offset, memory, locals, client>>

\* The initial value goes into the default vector and, by update_tlv_vectors, into
\* each vector of the list: one step, since no other thread has the slot yet.
AllocateDefault(t) ==
  /\ Goto(t, "a_default", "a_leave")
  /\ default' = [default EXCEPT ![offset] = Initial]
  /\ vectors' = [u \in Threads |->
                   IF \E i \in DOMAIN tlv_vector_list : tlv_vector_list[i] = u
                     THEN [vectors[u] EXCEPT ![listed[u]][offset] = Initial]
                     ELSE vectors[u]]
  /\ UNCHANGED <<section, tlv_writer_counter, offset, teb, listed, tlv_vector_list, locals, client>>

-----------------------------------------------------------------------------
(* primitive_read_thread_variable and primitive_write_thread_variable.     *)

ReadThreadVariable(t, v) ==
  /\ v \in handles
  /\ Goto(t, "run", "r_load")
  /\ vector' = [vector EXCEPT ![t] = teb[t]]
  /\ slot' = [slot EXCEPT ![t] = v]
  /\ UNCHANGED <<section, tlv_writer_counter, offset, memory, walk, client>>

ReadLoad(t) ==
  /\ Goto(t, "r_load", "run")
  /\ slot' = [slot EXCEPT ![t] = 0]
  /\ vector' = [vector EXCEPT ![t] = 0]
  /\ UNCHANGED <<section, tlv_writer_counter, offset, memory, walk, client>>

WriteThreadVariable(t, v) ==
  /\ v \in handles
  /\ writes < MaxWrites
  /\ writes' = writes + 1
  /\ Goto(t, "run", "w_inc")
  /\ slot' = [slot EXCEPT ![t] = v]
  /\ UNCHANGED <<section, tlv_writer_counter, offset, memory, walk, vector, handles, assigned>>

WriteIncrement(t) ==
  /\ InterlockedIncrement(tlv_writer_counter)
  /\ Goto(t, "w_inc", IF tlv_writer_counter' < 0 THEN "w_dec" ELSE "w_vector")
  /\ UNCHANGED <<section, offset, memory, locals, client>>

\* Mutant: the writer tries again at once, without the critical section.
WriteDecrement_Spins(t) ==
  /\ InterlockedDecrement(tlv_writer_counter)
  /\ Goto(t, "w_dec", "w_inc")
  /\ UNCHANGED <<section, offset, memory, locals, client>>

\* primitive_write_thread_variable_internal: the writer takes itself off the
\* count and, if the vectors are still being grown, ...
WriteDecrement(t) ==
  /\ InterlockedDecrement(tlv_writer_counter)
  /\ Goto(t, "w_dec", IF tlv_writer_counter' < 0 THEN "w_enter" ELSE "w_inc")
  /\ UNCHANGED <<section, offset, memory, locals, client>>

\* ... enters the critical section and leaves it again.
WriteEnter(t) ==
  /\ section = NoThread
  /\ Goto(t, "w_enter", "w_inc")
  /\ UNCHANGED <<section, tlv_writer_counter, offset, memory, locals, client>>

WriteVector(t) ==
  /\ Goto(t, "w_vector", "w_store")
  /\ vector' = [vector EXCEPT ![t] = teb[t]]
  /\ UNCHANGED <<section, tlv_writer_counter, offset, memory, walk, slot, client>>

WriteStore(t) ==
  /\ Goto(t, "w_store", "w_done")
  /\ vectors' = [vectors EXCEPT ![t][vector[t]][slot[t]] = t]
  /\ assigned' = [assigned EXCEPT ![t][slot[t]] = t]
  /\ UNCHANGED <<section, tlv_writer_counter, offset, default, teb, listed, tlv_vector_list,
                 locals, handles, writes>>

WriteDone(t) ==
  /\ Goto(t, "w_done", "run")
  /\ InterlockedDecrement(tlv_writer_counter)
  /\ slot' = [slot EXCEPT ![t] = 0]
  /\ vector' = [vector EXCEPT ![t] = 0]
  /\ UNCHANGED <<section, offset, memory, walk, client>>

-----------------------------------------------------------------------------
Call(t) ==
  \/ \E u \in Threads : MakeThread(t, u)
  \/ FunctionReturns(t)
  \/ AllocateThreadVariable(t)
  \/ \E v \in Slots : ReadThreadVariable(t, v) \/ WriteThreadVariable(t, v)

\* A step of a thread inside a primitive.
Advance(t) ==
  \/ EnterSection(t) \/ LeaveSection(t) \/ InitializeVector(t) \/ RemoveVector(t)
  \/ AllocateOffset(t) \/ GrowClaim(t) \/ GrowDefault(t) \/ GrowCopy(t) \/ GrowInstall(t)
  \/ GrowDone(t) \/ AllocateDefault(t)
  \/ ReadLoad(t)
  \/ WriteIncrement(t) \/ WriteDecrement(t) \/ WriteEnter(t) \/ WriteVector(t)
  \/ WriteStore(t) \/ WriteDone(t)

Next == \E t \in Threads : Call(t) \/ Advance(t)

Spec == Init /\ [][Next]_vars

\* The scheduler runs every thread that can run, and a critical section is given
\* to a thread that waits for it.
FairSpec == Spec /\ \A t \in Threads : WF_vars(Advance(t))

-----------------------------------------------------------------------------
(* Properties.                                                             *)

\* A thread that has fetched its vector to read a variable finds there what it
\* last assigned or, if it has not, the initial value, whichever of the thread
\* and the variable came first and however often the vectors have been grown
\* since: growing loses no write, and leaves no thread with a vector that is
\* too short or of another thread.
SeesItsValue ==
  \A t \in Threads : pc[t] = "r_load" =>
    /\ slot[t] \in DOMAIN vectors[t][vector[t]]
    /\ vectors[t][vector[t]][slot[t]] = assigned[t][slot[t]]

Growing == \E t \in Threads : pc[t] \in {"g_default", "g_copy", "g_install", "g_done"}

\* The counter tells the writers and whether the vectors are being grown, also
\* while writers that came too late take themselves off it; and no thread is
\* between fetching its vector and storing in it while they are.
CounterIsWriters ==
  /\ tlv_writer_counter =
       (IF Growing THEN TLV_GROW ELSE 0)
       + Cardinality({t \in Threads : pc[t] \in {"w_dec", "w_vector", "w_store", "w_done"}})
  /\ Growing => \A t \in Threads : pc[t] \notin {"w_vector", "w_store", "w_done"}

\* Every call returns: writers do not wait for ever for the thread that grows the
\* vectors, nor that thread for them, as long as the threads do not go on
\* writing for ever (MaxWrites).
CallsReturn ==
  \A t \in Threads : []<>(pc[t] \in {"new", "run", "dead"})
=============================================================================
