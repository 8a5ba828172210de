-------------------- MODULE Win32ThreadVariables_proofs --------------------
(***************************************************************************)
(* Proofs about Win32ThreadVariables, for any number of threads that       *)
(* TLV_GROW has room for, and any number of variables and of writes.       *)
(***************************************************************************)
EXTENDS Win32ThreadVariables, FiniteSetTheorems, SequenceTheorems, TLAPS

\* Labels at which a thread is in the critical section.
Grows == {"g_default", "g_copy", "g_install", "g_done"}
Inside == Grows \cup {"i_vector", "i_leave", "a_offset", "g_claim", "a_default", "a_leave",
                      "x_cut", "x_leave"}
\* Labels of a writer that is on the counter, and of one that was let through.
Counted == {"w_dec", "w_vector", "w_store", "w_done"}
Through == {"w_vector", "w_store", "w_done"}
Labels == Inside \cup Counted
          \cup {"new", "i_enter", "a_enter", "x_enter", "run", "dead", "r_load", "w_inc", "w_enter"}

\* Only the thread in the section grows the vectors.
SectionInv ==
  /\ section \in ThreadOrNone
  /\ pc \in [Threads -> Labels]
  /\ \A t \in Threads : pc[t] \in Inside => section = t

Writers == {t \in Threads : pc[t] \in Counted}

CounterInv == SectionInv /\ CounterIsWriters

-----------------------------------------------------------------------------
(* The counter.                                                            *)

LEMMA ThreadSets ==
  ASSUME NEW W, W \subseteq Threads, NEW t \in Threads
  PROVE  /\ IsFiniteSet(W) /\ Cardinality(W) \in Nat /\ Cardinality(W) < -TLV_GROW
         /\ W \cup {t} \subseteq Threads
         /\ Cardinality(W \cup {t}) < -TLV_GROW
         /\ t \notin W => Cardinality(W \cup {t}) = Cardinality(W) + 1
         /\ t \in W => Cardinality(W \ {t}) = Cardinality(W) - 1
         /\ Cardinality(W) = 0 => W = {}
<1>1. IsFiniteSet(Threads) /\ Cardinality(Threads) < -TLV_GROW /\ Cardinality(Threads) \in Nat
  BY FS_CardinalityType, Win32VariablesAssumption
<1>2. ASSUME NEW V, V \subseteq Threads
      PROVE  IsFiniteSet(V) /\ Cardinality(V) \in Nat /\ Cardinality(V) < -TLV_GROW
  <2>1. IsFiniteSet(V) /\ Cardinality(V) <= Cardinality(Threads)
    BY <1>1, <1>2, FS_Subset
  <2>2. Cardinality(V) \in Nat
    BY <2>1, FS_CardinalityType
  <2>3. QED
    BY <1>1, <2>1, <2>2 DEF TLV_GROW
<1>3. IsFiniteSet(W)
  BY <1>2
<1>4. t \notin W => Cardinality(W \cup {t}) = Cardinality(W) + 1
  BY <1>3, FS_AddElement
<1>5. t \in W => Cardinality(W \ {t}) = Cardinality(W) - 1
  BY <1>3, FS_RemoveElement
<1>6. Cardinality(W) = 0 => W = {}
  BY <1>3, FS_EmptySet
<1>7. QED
  BY <1>2, <1>4, <1>5, <1>6

\* A step of one thread, and what it does to the labels of the threads.
Step(t) == Call(t) \/ Advance(t)

\* Only the thread in the section is at a label inside it.
LEMMA SectionStep ==
  ASSUME SectionInv, NEW t \in Threads, Step(t)
  PROVE  SectionInv'
<1>. NoThread \notin Threads
  BY Win32NoThreadAssumption
<1>. USE DEF SectionInv, ThreadOrNone, Goto, Labels, Inside, Grows, Counted
<1>1. CASE \E u \in Threads : MakeThread(t, u)
  BY <1>1 DEF MakeThread
<1>2. CASE FunctionReturns(t)
  BY <1>2 DEF FunctionReturns
<1>3. CASE AllocateThreadVariable(t)
  BY <1>3 DEF AllocateThreadVariable
<1>4. CASE \E v \in Slots : ReadThreadVariable(t, v) \/ WriteThreadVariable(t, v)
  BY <1>4 DEF ReadThreadVariable, WriteThreadVariable
<1>5. CASE EnterSection(t)
  BY <1>5 DEF EnterSection, EnterCriticalSection
<1>6. CASE LeaveSection(t)
  BY <1>6 DEF LeaveSection, LeaveCriticalSection
<1>7. CASE InitializeVector(t)
  BY <1>7 DEF InitializeVector
<1>8. CASE RemoveVector(t)
  BY <1>8 DEF RemoveVector
<1>9. CASE AllocateOffset(t)
  BY <1>9 DEF AllocateOffset
<1>10. CASE GrowClaim(t)
  BY <1>10 DEF GrowClaim
<1>11. CASE GrowDefault(t)
  BY <1>11 DEF GrowDefault
<1>12. CASE GrowCopy(t)
  BY <1>12 DEF GrowCopy
<1>13. CASE GrowInstall(t)
  BY <1>13 DEF GrowInstall
<1>14. CASE GrowDone(t)
  BY <1>14 DEF GrowDone
<1>15. CASE AllocateDefault(t)
  BY <1>15 DEF AllocateDefault
<1>16. CASE ReadLoad(t)
  BY <1>16 DEF ReadLoad
<1>17. CASE WriteIncrement(t)
  BY <1>17 DEF WriteIncrement
<1>18. CASE WriteDecrement(t)
  BY <1>18 DEF WriteDecrement
<1>19. CASE WriteEnter(t)
  BY <1>19 DEF WriteEnter
<1>20. CASE WriteVector(t)
  BY <1>20 DEF WriteVector
<1>21. CASE WriteStore(t)
  BY <1>21 DEF WriteStore
<1>22. CASE WriteDone(t)
  BY <1>22 DEF WriteDone
<1>23. QED
  BY <1>1, <1>2, <1>3, <1>4, <1>5, <1>6, <1>7, <1>8, <1>9, <1>10, <1>11, <1>12, <1>13, <1>14, <1>15, <1>16, <1>17, <1>18, <1>19, <1>20, <1>21, <1>22 DEF Step, Call, Advance

\* The steps that leave the counter alone also leave alone who is on it, and
\* whether the vectors are being grown.
LEMMA QuietStep ==
  ASSUME SectionInv, NEW t \in Threads, Step(t)
  PROVE  \/ /\ tlv_writer_counter' = tlv_writer_counter
            /\ Writers' = Writers
            /\ Growing' = Growing
            /\ \A u \in Threads : pc'[u] \in Through <=> pc[u] \in Through
         \/ GrowClaim(t) \/ GrowDone(t)
         \/ WriteIncrement(t) \/ WriteDecrement(t) \/ WriteDone(t)
<1>. USE DEF SectionInv, Goto, Labels, Inside, Grows, Counted, Through, Writers, Growing
<1>1. CASE \E u \in Threads : MakeThread(t, u)
  BY <1>1 DEF MakeThread
<1>2. CASE FunctionReturns(t)
  BY <1>2 DEF FunctionReturns
<1>3. CASE AllocateThreadVariable(t)
  BY <1>3 DEF AllocateThreadVariable
<1>4. CASE \E v \in Slots : ReadThreadVariable(t, v) \/ WriteThreadVariable(t, v)
  BY <1>4 DEF ReadThreadVariable, WriteThreadVariable
<1>5. CASE EnterSection(t)
  BY <1>5 DEF EnterSection
<1>6. CASE LeaveSection(t)
  BY <1>6 DEF LeaveSection
<1>7. CASE InitializeVector(t)
  BY <1>7 DEF InitializeVector
<1>8. CASE RemoveVector(t)
  BY <1>8 DEF RemoveVector
<1>9. CASE AllocateOffset(t)
  BY <1>9 DEF AllocateOffset
<1>10. CASE GrowDefault(t)
  BY <1>10 DEF GrowDefault
<1>11. CASE GrowCopy(t)
  BY <1>11 DEF GrowCopy
<1>12. CASE GrowInstall(t)
  BY <1>12 DEF GrowInstall
<1>13. CASE AllocateDefault(t)
  BY <1>13 DEF AllocateDefault
<1>14. CASE ReadLoad(t)
  BY <1>14 DEF ReadLoad
<1>15. CASE WriteEnter(t)
  BY <1>15 DEF WriteEnter
<1>16. CASE WriteVector(t)
  BY <1>16 DEF WriteVector
<1>17. CASE WriteStore(t)
  BY <1>17 DEF WriteStore
<1>18. QED
  BY <1>1, <1>2, <1>3, <1>4, <1>5, <1>6, <1>7, <1>8, <1>9, <1>10, <1>11, <1>12, <1>13, <1>14, <1>15, <1>16, <1>17 DEF Step, Call, Advance

LEMMA CounterStep ==
  ASSUME CounterInv, NEW t \in Threads, Step(t)
  PROVE  CounterIsWriters'
<1>. SectionInv /\ pc \in [Threads -> Labels]
  BY DEF CounterInv, SectionInv
<1>a. /\ tlv_writer_counter = (IF Growing THEN TLV_GROW ELSE 0) + Cardinality(Writers)
      /\ Growing => \A u \in Threads : pc[u] \notin Through
  BY DEF CounterInv, CounterIsWriters, Writers, Counted, Through
<1>b. SUFFICES /\ tlv_writer_counter' = (IF Growing' THEN TLV_GROW ELSE 0) + Cardinality(Writers')
               /\ Growing' => \A u \in Threads : pc'[u] \notin Through
  BY DEF CounterIsWriters, Writers, Counted, Through
<1>c. Writers \subseteq Threads
  BY DEF Writers
<1>d. /\ Cardinality(Writers) \in Nat /\ Cardinality(Writers) < -TLV_GROW
      /\ Cardinality(Writers \cup {t}) < -TLV_GROW
      /\ t \notin Writers => Cardinality(Writers \cup {t}) = Cardinality(Writers) + 1
      /\ t \in Writers => Cardinality(Writers \ {t}) = Cardinality(Writers) - 1
      /\ Cardinality(Writers) = 0 => Writers = {}
  BY <1>c, ThreadSets
<1>1. CASE GrowClaim(t)
  <2>1. ~Growing /\ Cardinality(Writers) = 0
    BY <1>1, <1>a, <1>d DEF GrowClaim, TLV_GROW
  <2>2. Writers' = Writers /\ Growing'
    BY <1>1 DEF GrowClaim, Goto, Writers, Counted, Growing
  <2>3. ASSUME NEW u \in Threads PROVE pc'[u] \notin Through
    <3>1. pc[u] \notin Counted
      BY <2>1, <1>d DEF Writers
    <3>2. QED
      BY <3>1, <1>1 DEF GrowClaim, Goto, Counted, Through
  <2>4. tlv_writer_counter' = TLV_GROW
    BY <1>1 DEF GrowClaim, InterlockedCompareExchange
  <2>5. QED
    BY <2>1, <2>2, <2>3, <2>4 DEF TLV_GROW
<1>2. CASE GrowDone(t)
  <2>1. Growing /\ section = t
    BY <1>2 DEF GrowDone, Goto, Growing, SectionInv, Inside, Grows
  <2>2. Cardinality(Writers) = 0
    BY <1>2, <2>1, <1>a, <1>d DEF GrowDone, TLV_GROW
  <2>3. Writers' = Writers
    BY <1>2 DEF GrowDone, Goto, Writers, Counted
  <2>4. ~Growing'
    BY <1>2, <2>1 DEF GrowDone, Goto, Growing, SectionInv, Inside, Grows
  <2>5. tlv_writer_counter' = 0
    BY <1>2 DEF GrowDone, InterlockedCompareExchange
  <2>6. QED
    BY <2>2, <2>3, <2>4, <2>5
<1>3. CASE WriteIncrement(t)
  <2>1. /\ tlv_writer_counter' = tlv_writer_counter + 1
        /\ Growing' = Growing /\ Writers' = Writers \cup {t} /\ t \notin Writers
    BY <1>3 DEF WriteIncrement, InterlockedIncrement, Goto, Growing, Writers, Counted
  <2>2. tlv_writer_counter' = (IF Growing' THEN TLV_GROW ELSE 0) + Cardinality(Writers')
    BY <2>1, <1>a, <1>d DEF TLV_GROW
  <2>3. Growing => tlv_writer_counter' < 0
    BY <2>1, <2>2, <1>d DEF TLV_GROW
  <2>4. Growing' => \A u \in Threads : pc'[u] \notin Through
    BY <1>3, <1>a, <2>1, <2>3 DEF WriteIncrement, Goto, Through
  <2>5. QED
    BY <2>2, <2>4
<1>4. CASE WriteDecrement(t)
  <2>1. /\ tlv_writer_counter' = tlv_writer_counter - 1
        /\ Growing' = Growing /\ Writers' = Writers \ {t} /\ t \in Writers
    BY <1>4 DEF WriteDecrement, InterlockedDecrement, Goto, Growing, Writers, Counted
  <2>2. tlv_writer_counter' = (IF Growing' THEN TLV_GROW ELSE 0) + Cardinality(Writers')
    BY <2>1, <1>a, <1>d DEF TLV_GROW
  <2>3. Growing' => \A u \in Threads : pc'[u] \notin Through
    BY <1>4, <1>a, <2>1 DEF WriteDecrement, Goto, Through
  <2>4. QED
    BY <2>2, <2>3
<1>5. CASE WriteDone(t)
  <2>1. /\ tlv_writer_counter' = tlv_writer_counter - 1
        /\ Growing' = Growing /\ Writers' = Writers \ {t} /\ t \in Writers
    BY <1>5 DEF WriteDone, InterlockedDecrement, Goto, Growing, Writers, Counted
  <2>2. tlv_writer_counter' = (IF Growing' THEN TLV_GROW ELSE 0) + Cardinality(Writers')
    BY <2>1, <1>a, <1>d DEF TLV_GROW
  <2>3. Growing' => \A u \in Threads : pc'[u] \notin Through
    BY <1>5, <1>a, <2>1 DEF WriteDone, Goto, Through
  <2>4. QED
    BY <2>2, <2>3
<1>6. QED
  BY <1>1, <1>2, <1>3, <1>4, <1>5, <1>a, QuietStep

LEMMA CounterInvInit == Init => CounterInv
<1>. SUFFICES ASSUME Init PROVE CounterInv
  OBVIOUS
<1>1. SectionInv
  BY Win32VariablesAssumption
     DEF Init, SectionInv, ThreadOrNone, Labels, Inside, Grows, Counted
<1>2. Writers = {}
  BY DEF Init, Writers, Counted
<1>3. ~Growing /\ tlv_writer_counter = 0
  BY DEF Init, Growing
<1>4. CounterIsWriters
  <2>1. Cardinality(Writers) = 0
    BY <1>2, FS_EmptySet
  <2>2. tlv_writer_counter = (IF Growing THEN TLV_GROW ELSE 0) + Cardinality(Writers)
    BY <1>3, <2>1
  <2>3. QED
    BY <1>3, <2>2 DEF CounterIsWriters, Writers, Counted
<1>5. QED
  BY <1>1, <1>4 DEF CounterInv

LEMMA CounterInvariant == Spec => []CounterInv
<1>1. ASSUME CounterInv, [Next]_vars
      PROVE  CounterInv'
  <2>1. CASE UNCHANGED vars
    BY <1>1, <2>1 DEF CounterInv, SectionInv, CounterIsWriters, Growing, vars
  <2>2. CASE Next
    <3>1. PICK t \in Threads : Step(t)
      BY <2>2 DEF Next, Step
    <3>2. SectionInv'
      BY <1>1, <3>1, SectionStep DEF CounterInv
    <3>3. CounterIsWriters'
      BY <1>1, <3>1, CounterStep
    <3>4. QED
      BY <3>2, <3>3 DEF CounterInv
  <2>3. QED
    BY <1>1, <2>1, <2>2
<1>2. QED
  BY <1>1, CounterInvInit, PTL DEF Spec

\* The counter is the number of writers on it, less TLV_GROW while the vectors are
\* being grown, and no writer that was let through is between fetching its vector
\* and storing in it meanwhile, with any number of threads that TLV_GROW has room
\* for: the counter decides right however the writers, those that came too late
\* and the thread in the critical section interleave.
THEOREM CounterCountsWriters == Spec => []CounterIsWriters
<1>1. CounterInv => CounterIsWriters
  BY DEF CounterInv
<1>2. QED
  BY <1>1, CounterInvariant, PTL

-----------------------------------------------------------------------------
(* The data: which vectors the threads have, and what is in them.          *)

Values == Threads \cup {Initial, Junk}
Vectors == Seq(Values)

\* Labels of a thread that has no element in the list, and of one that has not
\* had one yet.
Unlisted == {"new", "i_enter", "i_vector", "x_leave", "dead"}
Fresh == {"new", "i_enter", "i_vector"}

\* Where an allocation is: the last slot is given out, the vectors are too short
\* for it, they are being replaced, one of them is, the slot is initialized.
Allotting == \E t \in Threads : pc[t] \in Grows \cup {"g_claim", "a_default", "a_leave"}
Short == \E t \in Threads : pc[t] \in {"g_claim", "g_default"}
Walking == \E t \in Threads : pc[t] \in {"g_copy", "g_install"}
Installing == \E t \in Threads : pc[t] = "g_install"
Published == \E t \in Threads : pc[t] = "a_leave"

Listed(t) == \E i \in 1 .. Len(tlv_vector_list) : tlv_vector_list[i] = t
ToWalk(t) == \E i \in 1 .. Len(walk) : walk[i] = t
Current(t) == vectors[t][teb[t]]

DataType ==
  /\ offset \in Nat
  /\ default \in Vectors
  /\ vectors \in [Threads -> Seq(Vectors)]
  /\ teb \in [Threads -> Nat]
  /\ listed \in [Threads -> Nat]
  /\ vector \in [Threads -> Nat]
  /\ slot \in [Threads -> Nat]
  /\ tlv_vector_list \in Seq(Threads)
  /\ walk \in Seq(Threads)
  /\ assigned \in [Threads -> [Slots -> Values]]

\* The list has each thread that is initialized and has not ended, once.
ListInv ==
  /\ \A i, j \in 1 .. Len(tlv_vector_list) : tlv_vector_list[i] = tlv_vector_list[j] => i = j
  /\ \A t \in Threads : Listed(t) <=> pc[t] \notin Unlisted

\* The slots given out fit into the default vector, but for the last one until
\* the default vector is grown; it is not a variable yet.
OffsetInv ==
  /\ Len(default) >= 1
  /\ offset >= 1 /\ offset <= Len(default) + 1
  /\ ~Short => offset <= Len(default)
  /\ \A v \in handles : v \in 2 .. offset
  /\ Allotting => offset \notin handles /\ offset >= 2

\* A variable that a thread has not assigned has its initial value there, and
\* this is what the default vector has.
InitialInv ==
  /\ \A v \in Slots : v \in handles => default[v] = Initial
  /\ Published => default[offset] = Initial
  /\ \A t \in Threads, v \in Slots :
       v \notin handles \/ pc[t] \in Fresh => assigned[t][v] = Initial

\* The vector that a thread uses is the one that the list has; it is the thread's
\* last one, unless the thread's turn to be given a larger one has come; it is as
\* long as the default vector, unless its turn is still to come; and it has what
\* the thread assigned.
VectorOf(t) ==
  /\ listed[t] = teb[t]
  /\ teb[t] \in 1 .. Len(vectors[t])
  /\ teb[t] # Len(vectors[t]) => Installing /\ t = Head(walk)
  /\ Len(Current(t)) >= 1 /\ Current(t)[1] = t
  /\ Len(Current(t)) # Len(default) => Walking /\ ToWalk(t)
  /\ \A v \in Slots : v \in handles =>
       v <= Len(Current(t)) /\ Current(t)[v] = assigned[t][v]
  /\ Published => Current(t)[offset] = Initial
VectorInv == \A t \in Threads : Listed(t) => VectorOf(t)

\* The walk goes through threads of the list; the thread whose turn it is has a
\* copy of its vector, as long as the default vector.
WalkInv ==
  /\ Walking => \A i \in 1 .. Len(walk) : Listed(walk[i])
  /\ Installing =>
       /\ walk # <<>>
       /\ Len(vectors[Head(walk)]) = teb[Head(walk)] + 1
       /\ vectors[Head(walk)][teb[Head(walk)] + 1] = Copied(Current(Head(walk)), Len(default))

\* A thread reads and writes variables that have been allocated; what it reads
\* from may be an older vector, what it writes into is the one it uses.
AccessOf(t) ==
  /\ pc[t] \in {"r_load", "w_inc", "w_dec", "w_enter", "w_vector", "w_store"} =>
       slot[t] \in handles /\ slot[t] \in Slots
  /\ pc[t] = "r_load" =>
       /\ vector[t] \in 1 .. Len(vectors[t])
       /\ slot[t] <= Len(vectors[t][vector[t]])
       /\ vectors[t][vector[t]][slot[t]] = assigned[t][slot[t]]
  /\ pc[t] = "w_store" => vector[t] = teb[t]
AccessInv == \A t \in Threads : AccessOf(t)

SharedInv == ListInv /\ OffsetInv /\ InitialInv /\ VectorInv /\ WalkInv
DataInv == DataType /\ SharedInv /\ AccessInv

LEMMA HeadOfSeq ==
  ASSUME NEW S, NEW s \in Seq(S), s # << >>
  PROVE  Head(s) \in S /\ Head(s) = s[1] /\ Len(s) \in Nat \ {0}
  OBVIOUS

\* The vectors of a thread with one slot of one replaced, and a copy of a vector.
Stored(vs, i, j, x) == [vs EXCEPT ![i][j] = x]

OneSlotDiffers(vs, i, j, x, ws) ==
  /\ ws \in Seq(Vectors)
  /\ Len(ws) = Len(vs)
  /\ \A k \in 1 .. Len(vs) : Len(ws[k]) = Len(vs[k])
  /\ \A k \in 1 .. Len(vs), m \in Nat :
       m \in 1 .. Len(vs[k]) => ws[k][m] = IF k = i /\ m = j THEN x ELSE vs[k][m]

LEMMA StoredInto ==
  ASSUME NEW vs \in Seq(Vectors), NEW i \in 1 .. Len(vs), NEW j \in 1 .. Len(vs[i]),
         NEW x \in Values
  PROVE  OneSlotDiffers(vs, i, j, x, Stored(vs, i, j, x))
<1>1. vs[i] \in Vectors
  BY ElementOfSeq
<1>2. /\ [vs[i] EXCEPT ![j] = x] \in Vectors
      /\ Len([vs[i] EXCEPT ![j] = x]) = Len(vs[i])
      /\ \A m \in 1 .. Len(vs[i]) : [vs[i] EXCEPT ![j] = x][m] = IF m = j THEN x ELSE vs[i][m]
  BY <1>1, ExceptSeq DEF Vectors
<1>. DEFINE w == [vs[i] EXCEPT ![j] = x]  ws == Stored(vs, i, j, x)
<1>3. w \in Vectors /\ Len(w) = Len(vs[i])
      /\ \A m \in 1 .. Len(vs[i]) : w[m] = IF m = j THEN x ELSE vs[i][m]
  BY <1>2
<1>4. ws = [vs EXCEPT ![i] = w]
  BY DEF Stored
<1>. HIDE DEF w, ws
<1>5. /\ ws \in Seq(Vectors)
      /\ Len(ws) = Len(vs)
      /\ \A k \in 1 .. Len(vs) : ws[k] = IF k = i THEN w ELSE vs[k]
  <2>. DEFINE S == Vectors
  <2>1. vs \in Seq(S) /\ w \in S
    BY <1>3
  <2>. HIDE DEF S
  <2>2. /\ [vs EXCEPT ![i] = w] \in Seq(S)
        /\ Len([vs EXCEPT ![i] = w]) = Len(vs)
        /\ \A k \in 1 .. Len(vs) : [vs EXCEPT ![i] = w][k] = IF k = i THEN w ELSE vs[k]
    BY <2>1, ExceptSeq
  <2>3. QED
    BY <1>4, <2>2 DEF S
<1>6. /\ \A k \in 1 .. Len(vs) : Len(ws[k]) = Len(vs[k])
      /\ \A k \in 1 .. Len(vs), m \in Nat :
           m \in 1 .. Len(vs[k]) => ws[k][m] = IF k = i /\ m = j THEN x ELSE vs[k][m]
  BY <1>3, <1>5
<1>7. QED
  BY <1>5, <1>6 DEF ws, OneSlotDiffers

LEMMA CopiedVector ==
  ASSUME NEW source \in Vectors, NEW size \in Nat
  PROVE  /\ Copied(source, size) \in Vectors
         /\ Len(Copied(source, size)) = size
         /\ \A m \in 1 .. size :
              Copied(source, size)[m] = IF m <= Len(source) THEN source[m] ELSE Junk
<1>1. DOMAIN source = 1 .. Len(source) /\ Len(source) \in Nat
  BY LenProperties DEF Vectors
<1>2. \A m \in 1 .. size : (IF m \in DOMAIN source THEN source[m] ELSE Junk) \in Values
  BY <1>1, ElementOfSeq DEF Vectors, Values
<1>3. Copied(source, size) \in [1 .. size -> Values]
  BY <1>2 DEF Copied
<1>4. QED
  BY <1>1, <1>3 DEF Copied, Vectors

\* Where the allocation is when the thread in the section moves.
LEMMA Alone ==
  ASSUME SectionInv, NEW t \in Threads, pc[t] \in Inside,
         \A u \in Threads : u # t => pc'[u] = pc[u]
  PROVE  /\ Allotting <=> pc[t] \in Grows \cup {"g_claim", "a_default", "a_leave"}
         /\ Short <=> pc[t] \in {"g_claim", "g_default"}
         /\ Walking <=> pc[t] \in {"g_copy", "g_install"}
         /\ Installing <=> pc[t] = "g_install"
         /\ Published <=> pc[t] = "a_leave"
         /\ Allotting' <=> pc'[t] \in Grows \cup {"g_claim", "a_default", "a_leave"}
         /\ Short' <=> pc'[t] \in {"g_claim", "g_default"}
         /\ Walking' <=> pc'[t] \in {"g_copy", "g_install"}
         /\ Installing' <=> pc'[t] = "g_install"
         /\ Published' <=> pc'[t] = "a_leave"
         /\ Growing <=> pc[t] \in Grows
<1>1. \A u \in Threads : u # t => pc[u] \notin Inside /\ pc'[u] = pc[u]
  BY DEF SectionInv
<1>2. QED
  BY <1>1 DEF Allotting, Short, Walking, Installing, Published, Growing, Inside, Grows

\* A step that leaves alone what the threads share, and where the allocation is.
LEMMA SharedUnmoved ==
  ASSUME SharedInv, UNCHANGED <<offset, memory, walk, handles, assigned>>,
         Allotting' <=> Allotting, Short' <=> Short, Walking' <=> Walking,
         Installing' <=> Installing, Published' <=> Published,
         \A u \in Threads : /\ pc'[u] \in Unlisted <=> pc[u] \in Unlisted
                            /\ pc'[u] \in Fresh => pc[u] \in Fresh
  PROVE  SharedInv'
<1>. /\ offset' = offset /\ default' = default /\ vectors' = vectors /\ teb' = teb
     /\ listed' = listed /\ tlv_vector_list' = tlv_vector_list /\ walk' = walk
     /\ handles' = handles /\ assigned' = assigned
  BY DEF memory
<1>1. \A u : (Listed(u)' <=> Listed(u)) /\ (ToWalk(u)' <=> ToWalk(u)) /\ Current(u)' = Current(u)
  BY DEF Listed, ToWalk, Current
<1>2. ListInv'
  BY <1>1 DEF SharedInv, ListInv
<1>3. OffsetInv' /\ InitialInv'
  BY DEF SharedInv, OffsetInv, InitialInv
<1>4. VectorInv'
  BY <1>1 DEF SharedInv, VectorInv, VectorOf
<1>5. WalkInv'
  BY <1>1 DEF SharedInv, WalkInv
<1>6. QED
  BY <1>2, <1>3, <1>4, <1>5 DEF SharedInv

\* The steps that change none of the shared data.
LEMMA SharedStill ==
  ASSUME SectionInv, SharedInv, NEW t \in Threads,
         \/ \E u \in Threads : MakeThread(t, u)
         \/ FunctionReturns(t) \/ AllocateThreadVariable(t)
         \/ \E v \in Slots : ReadThreadVariable(t, v) \/ WriteThreadVariable(t, v)
         \/ EnterSection(t) \/ (LeaveSection(t) /\ pc[t] # "a_leave")
         \/ GrowClaim(t) \/ GrowDone(t) \/ ReadLoad(t)
         \/ WriteIncrement(t) \/ WriteDecrement(t) \/ WriteEnter(t) \/ WriteVector(t)
         \/ WriteDone(t)
  PROVE  SharedInv'
<1>. USE DEF locals, client
<1>. DEFINE
       Kept == /\ Allotting' <=> Allotting
               /\ Short' <=> Short
               /\ Walking' <=> Walking
               /\ Installing' <=> Installing
               /\ Published' <=> Published
       Same == /\ UNCHANGED <<offset, memory, walk, handles, assigned>>
               /\ \A u \in Threads : /\ pc'[u] \in Unlisted <=> pc[u] \in Unlisted
                                     /\ pc'[u] \in Fresh => pc[u] \in Fresh
<1>. SUFFICES Kept /\ Same
  BY SharedUnmoved
<1>a. pc \in [Threads -> Labels]
  BY DEF SectionInv
<1>b. ASSUME NEW u \in Threads, NEW l, pc' = [pc EXCEPT ![u] = l],
             pc[u] \notin Inside \/ pc[u] \in {"i_leave", "x_leave"},
             l \notin Inside \/ l \in {"i_vector", "a_offset", "x_cut"}
      PROVE  Kept
  BY <1>a, <1>b DEF Allotting, Short, Walking, Installing, Published, Inside, Grows
<1>1. CASE \E u \in Threads : MakeThread(t, u)
  BY <1>1, <1>a, <1>b DEF MakeThread, Goto, Unlisted, Fresh, Inside, Grows
<1>2. CASE FunctionReturns(t)
  <2>1. Listed(t)
    BY <1>2 DEF FunctionReturns, Goto, SharedInv, ListInv, Unlisted
  <2>2. tlv_vector_list # <<>>
    BY <2>1 DEF Listed
  <2>3. QED
    BY <1>2, <2>2, <1>a, <1>b DEF FunctionReturns, Goto, Unlisted, Fresh, Inside, Grows
<1>3. CASE AllocateThreadVariable(t)
  BY <1>3, <1>a, <1>b DEF AllocateThreadVariable, Goto, Unlisted, Fresh, Inside, Grows
<1>4. CASE \E v \in Slots : ReadThreadVariable(t, v) \/ WriteThreadVariable(t, v)
  BY <1>4, <1>a, <1>b
     DEF ReadThreadVariable, WriteThreadVariable, Goto, Unlisted, Fresh, Inside, Grows
<1>5. CASE EnterSection(t)
  BY <1>5, <1>a, <1>b DEF EnterSection, Goto, Unlisted, Fresh, Inside, Grows
<1>6. CASE LeaveSection(t) /\ pc[t] # "a_leave"
  BY <1>6, <1>a, <1>b DEF LeaveSection, Goto, Unlisted, Fresh, Inside, Grows
<1>7. CASE GrowClaim(t)
  <2>a. /\ pc[t] = "g_claim" /\ pc[t] \in Inside /\ pc'[t] = "g_default"
        /\ \A u \in Threads : u # t => pc'[u] = pc[u]
    BY <1>7, <1>a DEF GrowClaim, Goto, Inside, Grows
  <2>1. Kept
    BY <2>a, Alone DEF Grows
  <2>2. QED
    BY <1>7, <2>1, <1>a DEF GrowClaim, Goto, Unlisted, Fresh
<1>8. CASE GrowDone(t)
  <2>a. /\ pc[t] = "g_done" /\ pc[t] \in Inside /\ pc'[t] = "a_default"
        /\ \A u \in Threads : u # t => pc'[u] = pc[u]
    BY <1>8, <1>a DEF GrowDone, Goto, Inside, Grows
  <2>1. Kept
    BY <2>a, Alone DEF Grows
  <2>2. QED
    BY <1>8, <2>1, <1>a DEF GrowDone, Goto, Unlisted, Fresh
<1>9. CASE ReadLoad(t)
  BY <1>9, <1>a, <1>b DEF ReadLoad, Goto, Unlisted, Fresh, Inside, Grows
<1>10. CASE WriteIncrement(t)
  BY <1>10, <1>a, <1>b DEF WriteIncrement, Goto, Unlisted, Fresh, Inside, Grows
<1>11. CASE WriteDecrement(t)
  BY <1>11, <1>a, <1>b DEF WriteDecrement, Goto, Unlisted, Fresh, Inside, Grows
<1>12. CASE WriteEnter(t)
  BY <1>12, <1>a, <1>b DEF WriteEnter, Goto, Unlisted, Fresh, Inside, Grows
<1>13. CASE WriteVector(t)
  BY <1>13, <1>a, <1>b DEF WriteVector, Goto, Unlisted, Fresh, Inside, Grows
<1>14. CASE WriteDone(t)
  BY <1>14, <1>a, <1>b DEF WriteDone, Goto, Unlisted, Fresh, Inside, Grows
<1>15. QED
  BY <1>1, <1>2, <1>3, <1>4, <1>5, <1>6, <1>7, <1>8, <1>9, <1>10, <1>11, <1>12, <1>13, <1>14

\* A thread gets its first vector: a copy of the default one, with its TEB.
LEMMA SharedInitializeVector ==
  ASSUME SectionInv, DataType, SharedInv, NEW t \in Threads, InitializeVector(t)
  PROVE  SharedInv'
<1>. /\ ListInv /\ OffsetInv /\ InitialInv /\ VectorInv /\ WalkInv
     /\ pc \in [Threads -> Labels] /\ NoThread \notin Threads
  BY Win32NoThreadAssumption DEF SharedInv, SectionInv
<1>a. /\ pc[t] = "i_vector" /\ pc[t] \in Inside /\ pc'[t] = "i_leave"
      /\ \A u \in Threads : u # t => pc'[u] = pc[u]
  BY DEF InitializeVector, Goto, Inside, Grows
<1>b. /\ ~Allotting /\ ~Short /\ ~Walking /\ ~Installing /\ ~Published
      /\ ~Allotting' /\ ~Short' /\ ~Walking' /\ ~Installing' /\ ~Published'
  BY <1>a, Alone DEF Grows
<1>c. /\ offset' = offset /\ default' = default /\ handles' = handles /\ assigned' = assigned
      /\ walk' = walk
  BY DEF InitializeVector, locals, client
<1>. DEFINE first == [default EXCEPT ![1] = t]
<1>d. /\ Len(first) = Len(default)
      /\ \A j \in 1 .. Len(default) : first[j] = IF j = 1 THEN t ELSE default[j]
  BY ExceptSeq DEF DataType, Vectors, Values, OffsetInv
<1>. HIDE DEF first
<1>e. /\ vectors' = [vectors EXCEPT ![t] = <<first>>]
      /\ teb' = [teb EXCEPT ![t] = 1] /\ listed' = [listed EXCEPT ![t] = 1]
      /\ tlv_vector_list' = <<t>> \o tlv_vector_list
  BY DEF InitializeVector, first
<1>f. /\ Len(tlv_vector_list') = Len(tlv_vector_list) + 1 /\ Len(tlv_vector_list) \in Nat
      /\ tlv_vector_list'[1] = t
      /\ \A i \in 2 .. Len(tlv_vector_list) + 1 : tlv_vector_list'[i] = tlv_vector_list[i - 1]
  BY <1>e DEF DataType
<1>g. \A u \in Threads : Listed(u)' <=> u = t \/ Listed(u)
  <2>. TAKE u \in Threads
  <2>1. ASSUME Listed(u) PROVE Listed(u)'
    <3>1. PICK i \in 1 .. Len(tlv_vector_list) : tlv_vector_list[i] = u
      BY <2>1 DEF Listed
    <3>2. i + 1 \in 1 .. Len(tlv_vector_list') /\ tlv_vector_list'[i + 1] = u
      BY <3>1, <1>f
    <3>3. QED
      BY <3>2 DEF Listed
  <2>2. Listed(t)'
    BY <1>f DEF Listed
  <2>3. QED
    BY <2>1, <2>2, <1>f DEF Listed
<1>h. ~Listed(t)
  BY <1>a DEF ListInv, Unlisted
<1>1. ListInv'
  <2>1. \A i \in 1 .. Len(tlv_vector_list) : tlv_vector_list[i] # t
    BY <1>h DEF Listed
  <2>2. ASSUME NEW i \in 1 .. Len(tlv_vector_list'), NEW j \in 1 .. Len(tlv_vector_list'),
               tlv_vector_list'[i] = tlv_vector_list'[j]
        PROVE  i = j
    <3>1. i > 1 => tlv_vector_list'[i] = tlv_vector_list[i - 1] /\ i - 1 \in 1 .. Len(tlv_vector_list)
      BY <1>f
    <3>2. j > 1 => tlv_vector_list'[j] = tlv_vector_list[j - 1] /\ j - 1 \in 1 .. Len(tlv_vector_list)
      BY <1>f
    <3>3. CASE i > 1 /\ j > 1
      <4>1. i - 1 = j - 1
        BY <2>2, <3>1, <3>2, <3>3 DEF ListInv
      <4>2. QED
        BY <4>1
    <3>4. QED
      BY <1>f, <2>1, <2>2, <3>1, <3>2, <3>3
  <2>3. \A u \in Threads : Listed(u)' <=> pc'[u] \notin Unlisted
    BY <1>a, <1>g DEF ListInv, Unlisted
  <2>4. QED
    BY <2>2, <2>3 DEF ListInv
<1>2. OffsetInv'
  BY <1>b, <1>c DEF OffsetInv
<1>3. InitialInv'
  BY <1>a, <1>b, <1>c DEF InitialInv, Fresh
<1>4. VectorInv'
  <2>. SUFFICES ASSUME NEW u \in Threads, Listed(u)' PROVE VectorOf(u)'
    BY DEF VectorInv
  <2>1. CASE u = t
    <3>1. vectors'[u] = <<first>> /\ teb'[u] = 1 /\ listed'[u] = 1 /\ Current(u)' = first
      BY <1>e, <2>1 DEF DataType, Current
    <3>2. ASSUME NEW v \in Slots, v \in handles
          PROVE  v <= Len(default) /\ first[v] = assigned[u][v]
      <4>1. v \in 2 .. offset /\ offset <= Len(default) /\ offset \in Nat /\ Len(default) \in Nat
        BY <1>b, <3>2 DEF OffsetInv, DataType, Vectors
      <4>2. first[v] = default[v]
        BY <1>d, <4>1
      <4>3. default[v] = Initial /\ assigned[u][v] = Initial
        BY <1>a, <2>1, <3>2 DEF InitialInv, Fresh
      <4>4. QED
        BY <4>1, <4>2, <4>3
    <3>3. QED
      BY <1>b, <1>c, <1>d, <2>1, <3>1, <3>2 DEF VectorOf, OffsetInv
  <2>2. CASE u # t
    <3>1. VectorOf(u)
      BY <2>2, <1>g DEF VectorInv
    <3>2. vectors'[u] = vectors[u] /\ teb'[u] = teb[u] /\ listed'[u] = listed[u]
      BY <1>e, <2>2 DEF DataType
    <3>3. Current(u)' = Current(u)
      BY <3>2 DEF Current
    <3>4. QED
      BY <1>b, <1>c, <3>1, <3>2, <3>3 DEF VectorOf
  <2>3. QED
    BY <2>1, <2>2
<1>5. WalkInv'
  BY <1>b DEF WalkInv
<1>6. QED
  BY <1>1, <1>2, <1>3, <1>4, <1>5 DEF SharedInv

\* The element of thread t is cut out of a list that has it once.
LEMMA CutOutOfList ==
  ASSUME NEW list \in Seq(Threads), NEW t \in Threads,
         \A i, j \in 1 .. Len(list) : list[i] = list[j] => i = j
  PROVE  /\ CutOut(list, t) \in Seq(Threads)
         /\ \A i, j \in 1 .. Len(CutOut(list, t)) :
              CutOut(list, t)[i] = CutOut(list, t)[j] => i = j
         /\ \A u \in Threads :
              (\E i \in 1 .. Len(CutOut(list, t)) : CutOut(list, t)[i] = u)
                <=> u # t /\ \E i \in 1 .. Len(list) : list[i] = u
<1>. DOMAIN list = 1 .. Len(list) /\ Len(list) \in Nat
  OBVIOUS
<1>1. CASE \E i \in DOMAIN list : list[i] = t
  <2>. DEFINE k == CHOOSE i \in DOMAIN list : list[i] = t
              cut == [j \in 1 .. Len(list) - 1 |-> IF j < k THEN list[j] ELSE list[j + 1]]
  <2>1. k \in 1 .. Len(list) /\ list[k] = t
    BY <1>1
  <2>2. CutOut(list, t) = cut
    BY <1>1 DEF CutOut
  <2>. HIDE DEF k
  <2>3. /\ cut \in Seq(Threads)
        /\ Len(cut) = Len(list) - 1
        /\ \A i \in 1 .. Len(list) - 1 : cut[i] = IF i < k THEN list[i] ELSE list[i + 1]
    <3>1. Len(list) - 1 \in Nat
      BY <2>1
    <3>2. cut \in [1 .. Len(list) - 1 -> Threads]
      BY <2>1
    <3>3. QED
      BY <3>1, <3>2
  <2>. HIDE DEF cut
  <2>4. ASSUME NEW i \in 1 .. Len(cut), NEW j \in 1 .. Len(cut), cut[i] = cut[j]
        PROVE  i = j
    <3>. DEFINE f(m) == IF m < k THEN m ELSE m + 1
    <3>1. f(i) \in 1 .. Len(list) /\ f(j) \in 1 .. Len(list)
      BY <2>1, <2>3
    <3>2. cut[i] = list[f(i)] /\ cut[j] = list[f(j)]
      BY <2>3
    <3>3. f(i) = f(j)
      BY <2>4, <3>1, <3>2
    <3>4. QED
      BY <2>1, <2>3, <3>3
  <2>5. ASSUME NEW u \in Threads
        PROVE  (\E i \in 1 .. Len(cut) : cut[i] = u) <=> u # t /\ \E i \in 1 .. Len(list) : list[i] = u
    <3>1. ASSUME NEW i \in 1 .. Len(cut), cut[i] = u
          PROVE  u # t /\ \E m \in 1 .. Len(list) : list[m] = u
      BY <2>1, <2>3, <3>1
    <3>2. ASSUME u # t, NEW i \in 1 .. Len(list), list[i] = u
          PROVE  \E m \in 1 .. Len(cut) : cut[m] = u
      <4>1. CASE i < k
        BY <2>1, <2>3, <3>2, <4>1
      <4>2. CASE i > k
        <5>1. i - 1 \in 1 .. Len(cut) /\ cut[i - 1] = u
          BY <2>1, <2>3, <3>2, <4>2
        <5>2. QED
          BY <5>1
      <4>3. QED
        BY <2>1, <3>2, <4>1, <4>2
    <3>3. QED
      BY <3>1, <3>2
  <2>6. QED
    BY <2>2, <2>3, <2>4, <2>5
<1>2. CASE ~\E i \in DOMAIN list : list[i] = t
  BY <1>2 DEF CutOut
<1>3. QED
  BY <1>1, <1>2

\* A thread that ends takes its vector out of the list.
LEMMA SharedRemoveVector ==
  ASSUME SectionInv, DataType, SharedInv, NEW t \in Threads, RemoveVector(t)
  PROVE  SharedInv'
<1>. /\ ListInv /\ OffsetInv /\ InitialInv /\ VectorInv /\ WalkInv
     /\ pc \in [Threads -> Labels]
  BY DEF SharedInv, SectionInv
<1>a. /\ pc[t] = "x_cut" /\ pc[t] \in Inside /\ pc'[t] = "x_leave"
      /\ \A u \in Threads : u # t => pc'[u] = pc[u]
  BY DEF RemoveVector, Goto, Inside, Grows
<1>b. /\ ~Allotting /\ ~Short /\ ~Walking /\ ~Installing /\ ~Published
      /\ ~Allotting' /\ ~Short' /\ ~Walking' /\ ~Installing' /\ ~Published'
  BY <1>a, Alone DEF Grows
<1>c. /\ offset' = offset /\ default' = default /\ handles' = handles /\ assigned' = assigned
      /\ walk' = walk /\ vectors' = vectors /\ teb' = teb /\ listed' = listed
  BY DEF RemoveVector, locals, client
<1>d. tlv_vector_list' = CutOut(tlv_vector_list, t)
  BY DEF RemoveVector
<1>e. /\ \A i, j \in 1 .. Len(tlv_vector_list') : tlv_vector_list'[i] = tlv_vector_list'[j] => i = j
      /\ \A u \in Threads : Listed(u)' <=> u # t /\ Listed(u)
  <2>. DEFINE list == tlv_vector_list
  <2>1. list \in Seq(Threads) /\ \A i, j \in 1 .. Len(list) : list[i] = list[j] => i = j
    BY DEF ListInv, DataType
  <2>2. /\ \A i, j \in 1 .. Len(CutOut(list, t)) :
             CutOut(list, t)[i] = CutOut(list, t)[j] => i = j
        /\ \A u \in Threads :
             (\E i \in 1 .. Len(CutOut(list, t)) : CutOut(list, t)[i] = u)
               <=> u # t /\ \E i \in 1 .. Len(list) : list[i] = u
    BY <2>1, CutOutOfList
  <2>3. QED
    BY <1>d, <2>2 DEF Listed
<1>1. ListInv'
  BY <1>a, <1>e DEF ListInv, Unlisted
<1>2. OffsetInv' /\ InitialInv'
  BY <1>a, <1>b, <1>c DEF OffsetInv, InitialInv, Fresh
<1>3. \A u : Current(u)' = Current(u)
  BY <1>c DEF Current
<1>4. VectorInv'
  BY <1>b, <1>c, <1>e, <1>3 DEF VectorInv, VectorOf
<1>5. WalkInv'
  BY <1>b DEF WalkInv
<1>6. QED
  BY <1>1, <1>2, <1>4, <1>5 DEF SharedInv

\* The next slot is taken.
LEMMA SharedAllocateOffset ==
  ASSUME SectionInv, DataType, SharedInv, NEW t \in Threads, AllocateOffset(t)
  PROVE  SharedInv'
<1>. /\ ListInv /\ OffsetInv /\ InitialInv /\ VectorInv /\ WalkInv
     /\ pc \in [Threads -> Labels]
  BY DEF SharedInv, SectionInv
<1>. DEFINE l == IF offset + 1 > Len(default) THEN "g_claim" ELSE "a_default"
<1>a. /\ pc[t] = "a_offset" /\ pc[t] \in Inside /\ pc'[t] = l
      /\ \A u \in Threads : u # t => pc'[u] = pc[u]
  BY DEF AllocateOffset, Goto, Inside, Grows
<1>b. /\ ~Allotting /\ ~Short /\ ~Walking /\ ~Installing /\ ~Published
      /\ ~Walking' /\ ~Installing' /\ ~Published'
      /\ Short' <=> l = "g_claim"
  BY <1>a, Alone DEF Grows
<1>c. /\ offset' = offset + 1 /\ default' = default /\ handles' = handles /\ assigned' = assigned
      /\ walk' = walk /\ vectors' = vectors /\ teb' = teb /\ listed' = listed
      /\ tlv_vector_list' = tlv_vector_list
  BY DEF AllocateOffset, memory, locals, client
<1>d. \A u : (Listed(u)' <=> Listed(u)) /\ Current(u)' = Current(u)
  BY <1>c DEF Listed, Current
<1>1. ListInv'
  BY <1>a, <1>c, <1>d DEF ListInv, Unlisted
<1>2. OffsetInv'
  <2>1. Len(default) \in Nat /\ offset \in Nat
    BY DEF DataType, Vectors
  <2>2. offset <= Len(default)
    BY <1>b DEF OffsetInv
  <2>3. \A v \in handles : v \in 2 .. offset' /\ v # offset'
    BY <1>c, <2>1 DEF OffsetInv
  <2>4. Short' => offset' > Len(default)
    BY <1>b, <1>c, <2>1
  <2>5. ~Short' => offset' <= Len(default)
    BY <1>b, <1>c, <2>1
  <2>6. QED
    BY <1>c, <2>1, <2>2, <2>3, <2>5 DEF OffsetInv
<1>3. InitialInv'
  BY <1>a, <1>b, <1>c DEF InitialInv, Fresh
<1>4. VectorInv'
  BY <1>b, <1>c, <1>d DEF VectorInv, VectorOf
<1>5. WalkInv'
  BY <1>b DEF WalkInv
<1>6. QED
  BY <1>1, <1>2, <1>3, <1>4, <1>5 DEF SharedInv

\* The default vector is replaced by one twice as long.
LEMMA SharedGrowDefault ==
  ASSUME SectionInv, DataType, SharedInv, NEW t \in Threads, GrowDefault(t)
  PROVE  SharedInv'
<1>. /\ ListInv /\ OffsetInv /\ InitialInv /\ VectorInv /\ WalkInv
     /\ pc \in [Threads -> Labels] /\ Len(default) \in Nat /\ offset \in Nat
  BY DEF SharedInv, SectionInv, DataType, Vectors
<1>a. /\ pc[t] = "g_default" /\ pc[t] \in Inside /\ pc'[t] = "g_copy"
      /\ \A u \in Threads : u # t => pc'[u] = pc[u]
  BY DEF GrowDefault, Goto, Inside, Grows
<1>b. /\ Allotting /\ Short /\ ~Walking /\ ~Installing /\ ~Published
      /\ Allotting' /\ ~Short' /\ Walking' /\ ~Installing' /\ ~Published'
  BY <1>a, Alone DEF Grows
<1>c. /\ offset' = offset /\ handles' = handles /\ assigned' = assigned /\ vectors' = vectors
      /\ teb' = teb /\ listed' = listed /\ tlv_vector_list' = tlv_vector_list
      /\ walk' = tlv_vector_list /\ default' = Copied(default, 2 * Len(default))
  BY DEF GrowDefault, client
<1>d. /\ Len(default') = 2 * Len(default)
      /\ \A m \in 1 .. Len(default) : default'[m] = default[m]
  <2>1. default \in Vectors /\ 2 * Len(default) \in Nat
    BY DEF DataType
  <2>2. /\ Len(Copied(default, 2 * Len(default))) = 2 * Len(default)
        /\ \A m \in 1 .. 2 * Len(default) : Copied(default, 2 * Len(default))[m] =
             IF m <= Len(default) THEN default[m] ELSE Junk
    BY <2>1, CopiedVector
  <2>3. QED
    BY <1>c, <2>2
<1>e. \A u : (Listed(u)' <=> Listed(u)) /\ Current(u)' = Current(u) /\ (ToWalk(u)' <=> Listed(u))
  BY <1>c DEF Listed, ToWalk, Current
<1>f. \A v \in handles : v \in 1 .. Len(default)
  BY <1>b DEF OffsetInv
<1>1. ListInv'
  BY <1>a, <1>c, <1>e DEF ListInv, Unlisted
<1>2. OffsetInv'
  BY <1>b, <1>c, <1>d DEF OffsetInv
<1>3. InitialInv'
  BY <1>a, <1>b, <1>c, <1>d, <1>f DEF InitialInv, Fresh
<1>4. VectorInv'
  BY <1>b, <1>c, <1>e DEF VectorInv, VectorOf
<1>5. WalkInv'
  BY <1>b, <1>c, <1>e DEF WalkInv, Listed
<1>6. QED
  BY <1>1, <1>2, <1>3, <1>4, <1>5 DEF SharedInv

\* The thread whose turn it is gets a copy of its vector.
LEMMA SharedGrowCopy ==
  ASSUME SectionInv, DataType, SharedInv, NEW t \in Threads, GrowCopy(t)
  PROVE  SharedInv'
<1>. /\ ListInv /\ OffsetInv /\ InitialInv /\ VectorInv /\ WalkInv
     /\ pc \in [Threads -> Labels] /\ Len(default) \in Nat /\ offset \in Nat
  BY DEF SharedInv, SectionInv, DataType, Vectors
<1>c. /\ offset' = offset /\ default' = default /\ handles' = handles /\ assigned' = assigned
      /\ teb' = teb /\ listed' = listed /\ tlv_vector_list' = tlv_vector_list /\ walk' = walk
  BY DEF GrowCopy, client, locals
<1>d. \A u : (Listed(u)' <=> Listed(u)) /\ (ToWalk(u)' <=> ToWalk(u))
  BY <1>c DEF Listed, ToWalk
<1>1. CASE walk = <<>>
  <2>a. /\ pc[t] = "g_copy" /\ pc[t] \in Inside /\ pc'[t] = "g_done"
        /\ \A u \in Threads : u # t => pc'[u] = pc[u]
    BY <1>1 DEF GrowCopy, Goto, Inside, Grows
  <2>b. /\ Allotting /\ ~Short /\ ~Installing /\ ~Published
        /\ Allotting' /\ ~Short' /\ ~Walking' /\ ~Installing' /\ ~Published'
    BY <2>a, Alone DEF Grows
  <2>c. vectors' = vectors
    BY <1>1 DEF GrowCopy
  <2>d. \A u : Current(u)' = Current(u) /\ ~ToWalk(u)
    BY <1>1, <1>c, <2>c DEF Current, ToWalk
  <2>1. ListInv'
    BY <1>c, <1>d, <2>a DEF ListInv, Unlisted
  <2>2. OffsetInv' /\ InitialInv'
    BY <1>c, <2>a, <2>b DEF OffsetInv, InitialInv, Fresh
  <2>3. VectorInv'
    BY <1>c, <1>d, <2>b, <2>c, <2>d DEF VectorInv, VectorOf
  <2>4. WalkInv'
    BY <2>b DEF WalkInv
  <2>5. QED
    BY <2>1, <2>2, <2>3, <2>4 DEF SharedInv
<1>2. CASE walk # <<>>
  <2>a. /\ pc[t] = "g_copy" /\ pc[t] \in Inside /\ pc'[t] = "g_install"
        /\ \A u \in Threads : u # t => pc'[u] = pc[u]
    BY <1>2 DEF GrowCopy, Goto, Inside, Grows
  <2>b. /\ Allotting /\ ~Short /\ Walking /\ ~Installing /\ ~Published
        /\ Allotting' /\ ~Short' /\ Walking' /\ Installing' /\ ~Published'
    BY <2>a, Alone DEF Grows
  <2>. DEFINE h == Head(walk)
              copy == Copied(Current(h), Len(default))
  <2>c. h \in Threads /\ Listed(h)
    <3>0. walk \in Seq(Threads)
      BY DEF DataType
    <3>1. Len(walk) \in Nat \ {0} /\ h = walk[1] /\ h \in Threads
      BY <1>2, <3>0, HeadOfSeq
    <3>2. QED
      BY <2>b, <3>1 DEF WalkInv
  <2>d. VectorOf(h) /\ vectors[h] \in Seq(Vectors)
    BY <2>c DEF VectorInv, DataType
  <2>e. Current(h) \in Vectors
    BY <2>d, ElementOfSeq DEF VectorOf, Current
  <2>f. copy \in Vectors
    BY <2>e, CopiedVector
  <2>g. vectors' = [vectors EXCEPT ![h] = Append(vectors[h], copy)]
    BY <1>2, <2>d DEF GrowCopy, VectorOf, Current
  <2>. HIDE DEF h, copy
  <2>h. /\ Len(vectors'[h]) = Len(vectors[h]) + 1 /\ Len(vectors[h]) \in Nat
        /\ \A i \in 1 .. Len(vectors[h]) : vectors'[h][i] = vectors[h][i]
        /\ vectors'[h][Len(vectors[h]) + 1] = copy
    <3>. DEFINE S == Vectors  q == vectors[h]
    <3>1. q \in Seq(S) /\ copy \in S
      BY <2>d, <2>f
    <3>2. vectors'[h] = Append(q, copy)
      BY <2>c, <2>g DEF DataType
    <3>. HIDE DEF S, q
    <3>3. /\ Len(Append(q, copy)) = Len(q) + 1 /\ Len(q) \in Nat
          /\ \A i \in 1 .. Len(q) : Append(q, copy)[i] = q[i]
          /\ Append(q, copy)[Len(q) + 1] = copy
      BY <3>1, AppendProperties, LenProperties
    <3>4. QED
      BY <3>2, <3>3 DEF q
  <2>i. \A u \in Threads : u # h => vectors'[u] = vectors[u]
    BY <2>g DEF DataType
  <2>j. \A u \in Threads : Listed(u) => Current(u)' = Current(u)
    BY <1>c, <2>d, <2>h, <2>i DEF Current, VectorOf
  <2>1. ListInv'
    BY <1>c, <1>d, <2>a DEF ListInv, Unlisted
  <2>2. OffsetInv' /\ InitialInv'
    BY <1>c, <2>a, <2>b DEF OffsetInv, InitialInv, Fresh
  <2>3. VectorInv'
    <3>. SUFFICES ASSUME NEW u \in Threads, Listed(u) PROVE VectorOf(u)'
      BY <1>d DEF VectorInv
    <3>1. VectorOf(u) /\ Current(u)' = Current(u)
      BY <2>j DEF VectorInv
    <3>2. teb[u] = Len(vectors[u])
      BY <2>b, <3>1 DEF VectorOf
    <3>3. CASE u = h
      <4>1. teb'[u] \in 1 .. Len(vectors'[u]) /\ u = Head(walk')
        BY <1>c, <2>h, <3>1, <3>3 DEF VectorOf, h
      <4>2. QED
        BY <1>c, <1>d, <2>b, <3>1, <4>1 DEF VectorOf
    <3>4. CASE u # h
      BY <1>c, <1>d, <2>b, <2>i, <3>1, <3>2, <3>4 DEF VectorOf
    <3>5. QED
      BY <3>3, <3>4
  <2>4. WalkInv'
    <3>1. teb[h] = Len(vectors[h])
      BY <2>b, <2>d DEF VectorOf
    <3>a. h' = h /\ Current(h)' = Current(h)
      BY <1>c, <2>c, <2>j DEF h
    <3>2. Len(vectors'[h]) = teb'[h] + 1
          /\ vectors'[h][teb'[h] + 1] = Copied(Current(h)', Len(default'))
      BY <1>c, <2>c, <2>h, <3>a, <3>1 DEF copy
    <3>3. QED
      BY <1>2, <1>c, <1>d, <2>b, <3>2 DEF WalkInv, h
  <2>5. QED
    BY <2>1, <2>2, <2>3, <2>4 DEF SharedInv
<1>3. QED
  BY <1>1, <1>2

\* The copy takes the place of the vector, in the TEB and in the list.
LEMMA SharedGrowInstall ==
  ASSUME SectionInv, DataType, SharedInv, NEW t \in Threads, GrowInstall(t)
  PROVE  SharedInv'
<1>. /\ ListInv /\ OffsetInv /\ InitialInv /\ VectorInv /\ WalkInv
     /\ pc \in [Threads -> Labels] /\ Len(default) \in Nat /\ offset \in Nat
  BY DEF SharedInv, SectionInv, DataType, Vectors
<1>a. /\ pc[t] = "g_install" /\ pc[t] \in Inside /\ pc'[t] = "g_copy"
      /\ \A u \in Threads : u # t => pc'[u] = pc[u]
  BY DEF GrowInstall, Goto, Inside, Grows
<1>b. /\ Allotting /\ ~Short /\ Walking /\ Installing /\ ~Published
      /\ Allotting' /\ ~Short' /\ Walking' /\ ~Installing' /\ ~Published'
  BY <1>a, Alone DEF Grows
<1>c. /\ offset' = offset /\ default' = default /\ handles' = handles /\ assigned' = assigned
      /\ vectors' = vectors /\ tlv_vector_list' = tlv_vector_list /\ walk' = Tail(walk)
  BY DEF GrowInstall, client
<1>d. \A u : Listed(u)' <=> Listed(u)
  BY <1>c DEF Listed
<1>e. PICK h \in Threads : h = Head(walk)
  <2>1. walk \in Seq(Threads) /\ walk # << >>
    BY <1>b DEF WalkInv, DataType
  <2>2. QED
    BY <2>1, HeadOfSeq
<1>f. /\ Len(walk) \in Nat \ {0} /\ h = walk[1] /\ Len(walk') = Len(walk) - 1
      /\ \A i \in 1 .. Len(walk) - 1 : walk'[i] = walk[i + 1]
  BY <1>b, <1>c, <1>e, HeadTailProperties DEF WalkInv, DataType
<1>g. Listed(h) /\ VectorOf(h) /\ vectors[h] \in Seq(Vectors)
  <2>1. Listed(walk[1])
    BY <1>b, <1>f DEF WalkInv
  <2>2. QED
    BY <1>f, <2>1 DEF VectorInv, DataType
<1>h. Current(h) \in Vectors /\ Len(Current(h)) \in Nat
  BY <1>g, ElementOfSeq DEF VectorOf, Current, Vectors
<1>i. /\ Len(vectors[h]) = teb[h] + 1
      /\ vectors[h][teb[h] + 1] = Copied(Current(h), Len(default))
  BY <1>b, <1>e DEF WalkInv
<1>j. vectors[h][listed[h]][1] = h
  BY <1>g DEF VectorOf, Current
<1>k. /\ teb' = [teb EXCEPT ![h] = Len(vectors[h])]
      /\ listed' = [listed EXCEPT ![h] = Len(vectors[h])]
  BY <1>e, <1>j DEF GrowInstall
<1>l. /\ Current(h)' = Copied(Current(h), Len(default)) /\ teb'[h] = teb[h] + 1
      /\ \A u \in Threads : u # h => Current(u)' = Current(u) /\ teb'[u] = teb[u]
  BY <1>c, <1>i, <1>k DEF Current, DataType
<1>m. /\ Len(Current(h)') = Len(default)
      /\ \A m \in 1 .. Len(default) : m <= Len(Current(h)) => Current(h)'[m] = Current(h)[m]
  <2>. DEFINE q == Current(h)
  <2>1. /\ Len(Copied(q, Len(default))) = Len(default)
        /\ \A m \in 1 .. Len(default) :
             Copied(q, Len(default))[m] = IF m <= Len(q) THEN q[m] ELSE Junk
    BY <1>h, CopiedVector
  <2>2. QED
    BY <1>l, <2>1
<1>1. ListInv'
  BY <1>a, <1>c, <1>d DEF ListInv, Unlisted
<1>2. OffsetInv' /\ InitialInv'
  BY <1>a, <1>b, <1>c DEF OffsetInv, InitialInv, Fresh
<1>3. VectorInv'
  <2>. SUFFICES ASSUME NEW u \in Threads, Listed(u) PROVE VectorOf(u)'
    BY <1>d DEF VectorInv
  <2>1. CASE u = h
    <3>a. teb[h] \in Nat /\ listed'[h] = Len(vectors[h]) /\ teb'[h] = Len(vectors[h])
      BY <1>k DEF DataType
    <3>1. listed'[h] = teb'[h] /\ teb'[h] \in 1 .. Len(vectors'[h]) /\ teb'[h] = Len(vectors'[h])
      BY <1>c, <1>i, <3>a
    <3>2. Len(Current(h)') >= 1 /\ Current(h)'[1] = h
      BY <1>g, <1>h, <1>m DEF VectorOf, OffsetInv
    <3>3. ASSUME NEW v \in Slots, v \in handles
          PROVE  v <= Len(Current(h)') /\ Current(h)'[v] = assigned[h][v]
      <4>1. v \in 1 .. Len(default)
        BY <1>b, <3>3 DEF OffsetInv
      <4>2. v <= Len(Current(h)) /\ Current(h)[v] = assigned[h][v]
        BY <1>g, <3>3 DEF VectorOf
      <4>3. QED
        BY <1>m, <4>1, <4>2
    <3>4. QED
      BY <1>b, <1>c, <1>m, <2>1, <3>1, <3>2, <3>3 DEF VectorOf
  <2>2. CASE u # h
    <3>1. VectorOf(u)
      BY DEF VectorInv
    <3>2. ToWalk(u) => ToWalk(u)'
      <4>. SUFFICES ASSUME NEW i \in 1 .. Len(walk), walk[i] = u PROVE ToWalk(u)'
        BY DEF ToWalk
      <4>1. i - 1 \in 1 .. Len(walk) - 1 /\ walk'[i - 1] = u
        BY <1>f, <2>2
      <4>2. QED
        BY <1>f, <4>1 DEF ToWalk
    <3>3. listed'[u] = listed[u] /\ teb'[u] = teb[u] /\ Current(u)' = Current(u)
      BY <1>k, <1>l, <2>2 DEF DataType
    <3>4. teb[u] = Len(vectors[u])
      BY <1>e, <2>2, <3>1 DEF VectorOf
    <3>5. QED
      BY <1>b, <1>c, <3>1, <3>2, <3>3, <3>4 DEF VectorOf
  <2>3. QED
    BY <2>1, <2>2
<1>4. WalkInv'
  <2>1. \A i \in 1 .. Len(walk') : Listed(walk'[i])
    BY <1>b, <1>f DEF WalkInv
  <2>2. \A i \in 1 .. Len(walk') :
          \E j \in 1 .. Len(tlv_vector_list') : tlv_vector_list'[j] = walk'[i]
    BY <1>c, <2>1 DEF Listed
  <2>3. QED
    BY <1>b, <2>2 DEF WalkInv, Listed
<1>5. QED
  BY <1>1, <1>2, <1>3, <1>4 DEF SharedInv

\* The slot gets its initial value in the default vector and in those of the list.
LEMMA AllocateDefaultStores ==
  ASSUME SectionInv, DataType, SharedInv, NEW t \in Threads, AllocateDefault(t),
         NEW u \in Threads
  PROVE  /\ offset \in 1 .. Len(default) /\ offset >= 2 /\ offset \notin handles
         /\ vectors'[u] \in Seq(Vectors) /\ Len(vectors'[u]) = Len(vectors[u])
         /\ \A k \in 1 .. Len(vectors[u]) : Len(vectors'[u][k]) = Len(vectors[u][k])
         /\ \A k \in 1 .. Len(vectors[u]), m \in Nat : m \in 1 .. Len(vectors[u][k]) /\ m # offset =>
              vectors'[u][k][m] = vectors[u][k][m]
         /\ Listed(u) => vectors'[u][teb[u]][offset] = Initial
<1>0. /\ ListInv /\ OffsetInv /\ InitialInv /\ VectorInv /\ WalkInv
      /\ pc \in [Threads -> Labels] /\ Len(default) \in Nat /\ offset \in Nat
  BY DEF SharedInv, SectionInv, DataType, Vectors
<1>a. /\ pc[t] = "a_default" /\ pc[t] \in Inside /\ pc'[t] = "a_leave"
      /\ \A w \in Threads : w # t => pc'[w] = pc[w]
  BY <1>0 DEF AllocateDefault, Goto, Inside, Grows
<1>b. /\ Allotting /\ ~Short /\ ~Walking /\ ~Installing
  BY <1>0, <1>a, Alone DEF Grows
<1>1. offset \in 1 .. Len(default) /\ offset >= 2 /\ offset \notin handles
  BY <1>0, <1>b DEF OffsetInv
<1>2. vectors[u] \in Seq(Vectors) /\ DOMAIN tlv_vector_list = 1 .. Len(tlv_vector_list)
  BY DEF DataType
<1>3. CASE Listed(u)
  <2>1. VectorOf(u) /\ listed[u] = teb[u] /\ teb[u] \in 1 .. Len(vectors[u])
    BY <1>0, <1>3 DEF VectorInv, VectorOf
  <2>2. offset \in 1 .. Len(vectors[u][teb[u]])
    BY <1>0, <1>1, <1>b, <2>1 DEF VectorOf, Current
  <2>. DEFINE vs == vectors[u]  ws == vectors'[u]  i == teb[u]  j == offset  x == Initial
  <2>3. ws = Stored(vs, i, j, x)
    BY <1>2, <1>3, <2>1 DEF AllocateDefault, Listed, Stored
  <2>4. vs \in Seq(Vectors) /\ i \in 1 .. Len(vs) /\ j \in 1 .. Len(vs[i]) /\ x \in Values
    BY <1>2, <2>1, <2>2 DEF Values
  <2>. HIDE DEF vs, ws, i, j, x
  <2>5. /\ ws \in Seq(Vectors)
        /\ Len(ws) = Len(vs)
        /\ \A k \in 1 .. Len(vs) : Len(ws[k]) = Len(vs[k])
        /\ \A k \in 1 .. Len(vs), m \in Nat :
              m \in 1 .. Len(vs[k]) =>
                ws[k][m] = IF k = i /\ m = j THEN x ELSE vs[k][m]
    <3>1. OneSlotDiffers(vs, i, j, x, ws)
      BY <2>3, <2>4, StoredInto
    <3>2. QED
      BY <3>1 DEF OneSlotDiffers
  <2>6. ws[i][j] = x
    BY <2>4, <2>5
  <2>7. \A k \in 1 .. Len(vs), m \in Nat : m \in 1 .. Len(vs[k]) /\ m # j => ws[k][m] = vs[k][m]
    BY <2>5
  <2>8. QED
    BY <1>1, <1>3, <2>5, <2>6, <2>7 DEF vs, ws, i, j, x
<1>4. CASE ~Listed(u)
  <2>1. vectors'[u] = vectors[u]
    BY <1>2, <1>4 DEF AllocateDefault, Listed
  <2>2. QED
    BY <1>1, <1>2, <1>4, <2>1
<1>5. QED
  BY <1>3, <1>4

LEMMA SharedAllocateDefault ==
  ASSUME SectionInv, DataType, SharedInv, NEW t \in Threads, AllocateDefault(t)
  PROVE  SharedInv'
<1>. /\ ListInv /\ OffsetInv /\ InitialInv /\ VectorInv /\ WalkInv
     /\ pc \in [Threads -> Labels] /\ Len(default) \in Nat /\ offset \in Nat
  BY DEF SharedInv, SectionInv, DataType, Vectors
<1>a. /\ pc[t] = "a_default" /\ pc[t] \in Inside /\ pc'[t] = "a_leave"
      /\ \A u \in Threads : u # t => pc'[u] = pc[u]
  BY DEF AllocateDefault, Goto, Inside, Grows
<1>b. /\ Allotting /\ ~Short /\ ~Walking /\ ~Installing /\ ~Published
      /\ Allotting' /\ ~Short' /\ ~Walking' /\ ~Installing' /\ Published'
  BY <1>a, Alone DEF Grows
<1>c. /\ offset' = offset /\ handles' = handles /\ assigned' = assigned /\ walk' = walk
      /\ teb' = teb /\ listed' = listed /\ tlv_vector_list' = tlv_vector_list
      /\ default' = [default EXCEPT ![offset] = Initial]
  BY DEF AllocateDefault, locals, client
<1>d. offset \in 1 .. Len(default) /\ offset >= 2 /\ offset \notin handles
  BY <1>b DEF OffsetInv
<1>e. /\ Len(default') = Len(default)
      /\ \A m \in 1 .. Len(default) : default'[m] = IF m = offset THEN Initial ELSE default[m]
  <2>1. default \in Seq(Values) /\ Initial \in Values
    BY DEF DataType, Vectors, Values
  <2>2. QED
    BY <1>c, <1>d, <2>1, ExceptSeq
<1>f. \A u : Listed(u)' <=> Listed(u)
  BY <1>c DEF Listed
<1>g. \A v \in handles : v \in 1 .. Len(default) /\ v # offset /\ v > 1
  BY <1>b, <1>d DEF OffsetInv
<1>1. ListInv'
  BY <1>a, <1>c, <1>f DEF ListInv, Unlisted
<1>2. OffsetInv'
  BY <1>b, <1>c, <1>e DEF OffsetInv
<1>3. InitialInv'
  BY <1>a, <1>c, <1>d, <1>e, <1>g DEF InitialInv, Fresh
<1>4. VectorInv'
  <2>. SUFFICES ASSUME NEW u \in Threads, Listed(u) PROVE VectorOf(u)'
    BY <1>f DEF VectorInv
  <2>1. VectorOf(u)
    BY DEF VectorInv
  <2>2. /\ Len(vectors'[u]) = Len(vectors[u])
        /\ Len(Current(u)') = Len(Current(u))
        /\ \A m \in 1 .. Len(Current(u)) : m # offset => Current(u)'[m] = Current(u)[m]
        /\ Current(u)'[offset] = Initial
    <3>1. teb[u] \in 1 .. Len(vectors[u]) /\ teb'[u] = teb[u]
      BY <1>c, <2>1 DEF VectorOf
    <3>2. /\ Len(vectors'[u]) = Len(vectors[u])
          /\ \A k \in 1 .. Len(vectors[u]) : Len(vectors'[u][k]) = Len(vectors[u][k])
          /\ \A k \in 1 .. Len(vectors[u]), m \in Nat : m \in 1 .. Len(vectors[u][k]) /\ m # offset =>
               vectors'[u][k][m] = vectors[u][k][m]
          /\ vectors'[u][teb[u]][offset] = Initial
      BY AllocateDefaultStores
    <3>3. Current(u) = vectors[u][teb[u]] /\ Current(u)' = vectors'[u][teb[u]]
      BY <3>1 DEF Current
    <3>4. QED
      BY <3>1, <3>2, <3>3, SMTT(30)
  <2>3. Len(Current(u)) = Len(default)
    BY <1>b, <2>1 DEF VectorOf
  <2>4. Current(u)'[1] = u
    BY <1>d, <2>1, <2>2, <2>3 DEF VectorOf
  <2>5. \A v \in Slots : v \in handles' =>
          v <= Len(Current(u)') /\ Current(u)'[v] = assigned'[u][v]
    BY <1>c, <1>g, <2>1, <2>2, <2>3 DEF VectorOf
  <2>6. QED
    BY <1>b, <1>c, <1>e, <2>1, <2>2, <2>3, <2>4, <2>5 DEF VectorOf
<1>5. WalkInv'
  BY <1>b DEF WalkInv
<1>6. QED
  BY <1>1, <1>2, <1>3, <1>4, <1>5 DEF SharedInv

\* The slot becomes a variable.
LEMMA SharedAllocated ==
  ASSUME SectionInv, DataType, SharedInv, NEW t \in Threads, LeaveSection(t), pc[t] = "a_leave"
  PROVE  SharedInv'
<1>. /\ ListInv /\ OffsetInv /\ InitialInv /\ VectorInv /\ WalkInv
     /\ pc \in [Threads -> Labels] /\ Len(default) \in Nat /\ offset \in Nat
  BY DEF SharedInv, SectionInv, DataType, Vectors
<1>a. /\ pc[t] = "a_leave" /\ pc[t] \in Inside /\ pc'[t] = "run"
      /\ \A u \in Threads : u # t => pc'[u] = pc[u]
  BY DEF LeaveSection, Goto, Inside, Grows
<1>b. /\ Allotting /\ ~Short /\ ~Walking /\ ~Installing /\ Published
      /\ ~Allotting' /\ ~Short' /\ ~Walking' /\ ~Installing' /\ ~Published'
  BY <1>a, Alone DEF Grows
<1>c. /\ offset' = offset /\ default' = default /\ assigned' = assigned /\ walk' = walk
      /\ vectors' = vectors /\ teb' = teb /\ listed' = listed
      /\ tlv_vector_list' = tlv_vector_list /\ handles' = handles \cup {offset}
  BY DEF LeaveSection, Goto, memory, locals
<1>d. offset \in 2 .. Len(default) /\ offset \notin handles /\ default[offset] = Initial
  BY <1>b DEF OffsetInv, InitialInv
<1>e. \A u : (Listed(u)' <=> Listed(u)) /\ Current(u)' = Current(u)
  BY <1>c DEF Listed, Current
<1>1. ListInv'
  BY <1>a, <1>c, <1>e DEF ListInv, Unlisted
<1>2. OffsetInv'
  BY <1>b, <1>c, <1>d DEF OffsetInv
<1>3. InitialInv'
  BY <1>a, <1>b, <1>c, <1>d DEF InitialInv, Fresh
<1>4. VectorInv'
  <2>. SUFFICES ASSUME NEW u \in Threads, Listed(u) PROVE VectorOf(u)'
    BY <1>e DEF VectorInv
  <2>1. VectorOf(u)
    BY DEF VectorInv
  <2>2. offset <= Len(Current(u)) /\ Current(u)[offset] = Initial
    BY <1>b, <1>d, <2>1 DEF VectorOf
  <2>3. offset \in Slots => assigned[u][offset] = Initial
    BY <1>d DEF InitialInv
  <2>4. QED
    BY <1>b, <1>c, <1>e, <2>1, <2>2, <2>3 DEF VectorOf
<1>5. WalkInv'
  BY <1>b DEF WalkInv
<1>6. QED
  BY <1>1, <1>2, <1>3, <1>4, <1>5 DEF SharedInv

\* A writer that was let through stores in the vector that its thread uses.
LEMMA WriteStores ==
  ASSUME DataType, SharedInv, AccessInv, NEW t \in Threads, WriteStore(t)
  PROVE  /\ Listed(t) /\ slot[t] \in handles /\ slot[t] \in Slots /\ vector[t] = teb[t]
         /\ vectors'[t] \in Seq(Vectors) /\ Len(vectors'[t]) = Len(vectors[t])
         /\ \A k \in 1 .. Len(vectors[t]) : Len(vectors'[t][k]) = Len(vectors[t][k])
         /\ \A k \in 1 .. Len(vectors[t]), m \in Nat : m \in 1 .. Len(vectors[t][k]) =>
              vectors'[t][k][m] = IF k = teb[t] /\ m = slot[t] THEN t ELSE vectors[t][k][m]
         /\ slot[t] \in 2 .. Len(Current(t))
         /\ \A u \in Threads : u # t => vectors'[u] = vectors[u] /\ assigned'[u] = assigned[u]
         /\ \A v \in Slots : assigned'[t][v] = IF v = slot[t] THEN t ELSE assigned[t][v]
<1>1. Listed(t) /\ slot[t] \in handles /\ slot[t] \in Slots /\ vector[t] = teb[t]
  <2>1. pc[t] = "w_store"
    BY DEF WriteStore, Goto
  <2>2. QED
    BY <2>1 DEF SharedInv, ListInv, Unlisted, AccessInv, AccessOf
<1>2. VectorOf(t) /\ vectors[t] \in Seq(Vectors) /\ t \in Values
  BY <1>1 DEF SharedInv, VectorInv, DataType, Values
<1>3. teb[t] \in 1 .. Len(vectors[t]) /\ slot[t] \in 1 .. Len(vectors[t][teb[t]])
      /\ slot[t] \in 2 .. Len(Current(t))
  <2>1. slot[t] \in 2 .. offset /\ offset \in Nat
    BY <1>1 DEF SharedInv, OffsetInv, DataType
  <2>2. vectors[t][teb[t]] \in Vectors
    BY <1>2, ElementOfSeq DEF VectorOf
  <2>3. Len(vectors[t][teb[t]]) \in Nat
    BY <2>2 DEF Vectors
  <2>4. QED
    BY <1>1, <1>2, <2>1, <2>3 DEF VectorOf, Current
<1>. DEFINE vs == vectors[t]  ws == vectors'[t]  i == teb[t]  j == slot[t]
<1>4. ws = Stored(vs, i, j, t)
  BY <1>1 DEF WriteStore, Stored, DataType
<1>5. vs \in Seq(Vectors) /\ i \in 1 .. Len(vs) /\ j \in 1 .. Len(vs[i]) /\ t \in Values
  BY <1>2, <1>3
<1>. HIDE DEF vs, ws, i, j
<1>6. /\ ws \in Seq(Vectors)
      /\ Len(ws) = Len(vs)
      /\ \A k \in 1 .. Len(vs) : Len(ws[k]) = Len(vs[k])
      /\ \A k \in 1 .. Len(vs), m \in Nat :
            m \in 1 .. Len(vs[k]) => ws[k][m] = IF k = i /\ m = j THEN t ELSE vs[k][m]
  <2>1. OneSlotDiffers(vs, i, j, t, ws)
    BY <1>4, <1>5, StoredInto
  <2>2. QED
    BY <2>1 DEF OneSlotDiffers
<1>7. \A u \in Threads : u # t => vectors'[u] = vectors[u] /\ assigned'[u] = assigned[u]
  BY DEF WriteStore, DataType
<1>8. \A v \in Slots : assigned'[t][v] = IF v = slot[t] THEN t ELSE assigned[t][v]
  BY <1>1 DEF WriteStore, DataType
<1>9. QED
  BY <1>1, <1>3, <1>6, <1>7, <1>8 DEF vs, ws, i, j

LEMMA SharedWriteStore ==
  ASSUME CounterInv, DataType, SharedInv, AccessInv, NEW t \in Threads, WriteStore(t)
  PROVE  SharedInv'
<1>. /\ ListInv /\ OffsetInv /\ InitialInv /\ VectorInv /\ WalkInv
     /\ pc \in [Threads -> Labels] /\ Len(default) \in Nat /\ offset \in Nat
  BY DEF SharedInv, CounterInv, SectionInv, DataType, Vectors
<1>a. /\ pc[t] = "w_store" /\ pc'[t] = "w_done"
      /\ \A u \in Threads : u # t => pc'[u] = pc[u]
  BY DEF WriteStore, Goto
<1>b. ~Growing
  BY <1>a DEF CounterInv, CounterIsWriters
<1>c. /\ ~Walking /\ ~Installing /\ ~Walking' /\ ~Installing'
      /\ Allotting' <=> Allotting
      /\ Short' <=> Short
      /\ Published' <=> Published
  BY <1>a, <1>b DEF Growing, Walking, Installing, Allotting, Short, Published, Grows
<1>d. /\ offset' = offset /\ default' = default /\ handles' = handles /\ walk' = walk
      /\ teb' = teb /\ listed' = listed /\ tlv_vector_list' = tlv_vector_list
  BY DEF WriteStore, locals
<1>e. \A u : Listed(u)' <=> Listed(u)
  BY <1>d DEF Listed
<1>f. Published => Allotting
  BY DEF Published, Allotting
<1>g. /\ Listed(t) /\ slot[t] \in handles /\ slot[t] \in Slots
      /\ slot[t] \in 2 .. Len(Current(t))
      /\ \A u \in Threads : u # t => vectors'[u] = vectors[u] /\ assigned'[u] = assigned[u]
      /\ \A v \in Slots : assigned'[t][v] = IF v = slot[t] THEN t ELSE assigned[t][v]
  BY WriteStores
<1>1. ListInv'
  BY <1>a, <1>d, <1>e DEF ListInv, Unlisted
<1>2. OffsetInv'
  BY <1>c, <1>d DEF OffsetInv
<1>3. InitialInv'
  BY <1>a, <1>c, <1>d, <1>g DEF InitialInv, Fresh
<1>4. VectorInv'
  <2>. SUFFICES ASSUME NEW u \in Threads, Listed(u) PROVE VectorOf(u)'
    BY <1>e DEF VectorInv
  <2>1. VectorOf(u)
    BY DEF VectorInv
  <2>2. CASE u = t
    <3>1. /\ Len(vectors'[t]) = Len(vectors[t])
          /\ \A k \in 1 .. Len(vectors[t]) : Len(vectors'[t][k]) = Len(vectors[t][k])
          /\ \A k \in 1 .. Len(vectors[t]), m \in Nat : m \in 1 .. Len(vectors[t][k]) =>
               vectors'[t][k][m] = IF k = teb[t] /\ m = slot[t] THEN t ELSE vectors[t][k][m]
      BY WriteStores
    <3>2. teb[t] \in 1 .. Len(vectors[t]) /\ teb'[t] = teb[t]
      BY <1>d, <2>1, <2>2 DEF VectorOf
    <3>3. /\ Len(Current(t)') = Len(Current(t))
          /\ \A m \in 1 .. Len(Current(t)) :
               Current(t)'[m] = IF m = slot[t] THEN t ELSE Current(t)[m]
      BY <3>1, <3>2 DEF Current
    <3>4. Len(Current(t)) = Len(default)
      BY <1>c, <2>1, <2>2 DEF VectorOf
    <3>5. Current(t)'[1] = t
      BY <1>g, <2>1, <2>2, <3>3, <3>4 DEF VectorOf
    <3>6. ASSUME NEW v \in Slots, v \in handles
          PROVE  v <= Len(Current(t)') /\ Current(t)'[v] = assigned'[t][v]
      <4>1. v \in 2 .. offset
        BY <3>6 DEF OffsetInv
      <4>2. v <= Len(Current(t)) /\ Current(t)[v] = assigned[t][v]
        BY <2>1, <2>2, <3>6 DEF VectorOf
      <4>3. v \in 1 .. Len(Current(t))
        BY <3>4, <4>1, <4>2
      <4>4. QED
        BY <1>g, <3>3, <4>2, <4>3
    <3>7. Published => Current(t)'[offset] = Initial
      <4>. SUFFICES ASSUME Published PROVE Current(t)'[offset] = Initial
        OBVIOUS
      <4>1. Allotting /\ ~Short
        BY <1>f DEF CounterInv, SectionInv, Inside, Grows, Published, Short
      <4>2. offset \in 1 .. Len(default) /\ offset # slot[t]
        BY <1>g, <4>1 DEF OffsetInv
      <4>3. QED
        BY <2>1, <2>2, <3>3, <3>4, <4>2 DEF VectorOf
    <3>8. QED
      BY <1>c, <1>d, <2>1, <2>2, <3>1, <3>2, <3>3, <3>4, <3>5, <3>6, <3>7 DEF VectorOf
  <2>3. CASE u # t
    <3>1. vectors'[u] = vectors[u] /\ assigned'[u] = assigned[u] /\ Current(u)' = Current(u)
      BY <1>d, <1>g, <2>3 DEF Current
    <3>2. QED
      BY <1>c, <1>d, <2>1, <3>1 DEF VectorOf
  <2>4. QED
    BY <2>2, <2>3
<1>5. WalkInv'
  BY <1>c DEF WalkInv
<1>6. QED
  BY <1>1, <1>2, <1>3, <1>4, <1>5 DEF SharedInv

LEMMA SharedStep ==
  ASSUME CounterInv, DataInv, NEW t \in Threads, Step(t)
  PROVE  SharedInv'
<1>. SectionInv /\ DataType /\ SharedInv /\ AccessInv
  BY DEF CounterInv, DataInv
<1>1. CASE InitializeVector(t)
  BY <1>1, SharedInitializeVector
<1>2. CASE RemoveVector(t)
  BY <1>2, SharedRemoveVector
<1>3. CASE AllocateOffset(t)
  BY <1>3, SharedAllocateOffset
<1>4. CASE GrowDefault(t)
  BY <1>4, SharedGrowDefault
<1>5. CASE GrowCopy(t)
  BY <1>5, SharedGrowCopy
<1>6. CASE GrowInstall(t)
  BY <1>6, SharedGrowInstall
<1>7. CASE AllocateDefault(t)
  BY <1>7, SharedAllocateDefault
<1>8. CASE LeaveSection(t) /\ pc[t] = "a_leave"
  BY <1>8, SharedAllocated
<1>9. CASE WriteStore(t)
  BY <1>9, SharedWriteStore
<1>10. QED
  BY <1>1, <1>2, <1>3, <1>4, <1>5, <1>6, <1>7, <1>8, <1>9, SharedStill DEF Step, Call, Advance

-----------------------------------------------------------------------------
(* The types of the data.                                                  *)

LEMMA DataTypeStep ==
  ASSUME CounterInv, DataInv, NEW t \in Threads, Step(t)
  PROVE  DataType'
<1>. SectionInv /\ DataType /\ SharedInv /\ AccessInv
  BY DEF CounterInv, DataInv
<1>. USE DEF locals, client, memory
<1>1. CASE InitializeVector(t)
  <2>1. [default EXCEPT ![1] = t] \in Vectors
    BY ExceptSeq DEF DataType, Vectors, Values, SharedInv, OffsetInv
  <2>. DEFINE first == [default EXCEPT ![1] = t]
  <2>. HIDE DEF first
  <2>2. <<first>> \in Seq(Vectors)
    BY <2>1 DEF first
  <2>3. vectors' = [vectors EXCEPT ![t] = <<first>>]
    BY <1>1 DEF InitializeVector, first
  <2>4. vectors' \in [Threads -> Seq(Vectors)]
    BY <2>2, <2>3 DEF DataType
  <2>5. tlv_vector_list' \in Seq(Threads)
    BY <1>1 DEF InitializeVector, DataType
  <2>6. QED
    BY <1>1, <2>4, <2>5 DEF InitializeVector, DataType
<1>2. CASE RemoveVector(t)
  <2>1. tlv_vector_list' \in Seq(Threads)
    BY <1>2, CutOutOfList DEF RemoveVector, DataType, SharedInv, ListInv
  <2>2. QED
    BY <1>2, <2>1 DEF RemoveVector, DataType
<1>3. CASE AllocateOffset(t)
  BY <1>3 DEF AllocateOffset, DataType
<1>4. CASE GrowDefault(t)
  <2>1. Len(default) \in Nat /\ 2 * Len(default) \in Nat
    BY DEF DataType, Vectors
  <2>2. default' \in Vectors
    BY <1>4, <2>1, CopiedVector DEF GrowDefault, DataType
  <2>3. QED
    BY <1>4, <2>2 DEF GrowDefault, DataType
<1>5. CASE GrowCopy(t)
  <2>1. vectors' \in [Threads -> Seq(Vectors)]
    <3>1. CASE walk = <<>>
      BY <1>5, <3>1 DEF GrowCopy, DataType
    <3>2. CASE walk # <<>>
      <4>0. walk \in Seq(Threads)
        BY DEF DataType
      <4>1. PICK h \in Threads : h = Head(walk) /\ h = walk[1] /\ 1 \in 1 .. Len(walk)
        BY <3>2, <4>0, HeadOfSeq
      <4>2. Walking
        BY <1>5 DEF GrowCopy, Goto, Walking
      <4>3. Listed(walk[1])
        BY <4>1, <4>2 DEF SharedInv, WalkInv
      <4>4. VectorOf(h)
        BY <4>1, <4>3 DEF SharedInv, VectorInv
      <4>5. vectors[h][listed[h]] \in Vectors
        BY <4>4, ElementOfSeq DEF VectorOf, DataType
      <4>. DEFINE copy == Copied(vectors[h][listed[h]], Len(default))
      <4>a. Len(default) \in Nat
        BY DEF DataType, Vectors
      <4>6. copy \in Vectors
        BY <4>5, <4>a, CopiedVector
      <4>7. vectors' = [vectors EXCEPT ![h] = Append(vectors[h], copy)]
        BY <1>5, <3>2, <4>1 DEF GrowCopy
      <4>. HIDE DEF copy
      <4>8. Append(vectors[h], copy) \in Seq(Vectors)
        BY <4>6, AppendProperties DEF DataType
      <4>9. QED
        BY <4>7, <4>8 DEF DataType
    <3>3. QED
      BY <3>1, <3>2
  <2>2. QED
    BY <1>5, <2>1 DEF GrowCopy, DataType
<1>6. CASE GrowInstall(t)
  <2>1. Installing
    BY <1>6 DEF GrowInstall, Goto, Installing
  <2>2. walk # <<>>
    BY <2>1 DEF SharedInv, WalkInv
  <2>3. Tail(walk) \in Seq(Threads) /\ Head(walk) \in Threads
    BY <2>2 DEF DataType
  <2>4. Len(vectors[Head(walk)]) \in Nat
    BY <2>3, LenProperties DEF DataType
  <2>5. teb' \in [Threads -> Nat] /\ listed' \in [Threads -> Nat]
    BY <1>6, <2>4 DEF GrowInstall, DataType
  <2>6. QED
    BY <1>6, <2>3, <2>5 DEF GrowInstall, DataType
<1>7. CASE AllocateDefault(t)
  <2>1. ASSUME NEW u \in Threads PROVE vectors'[u] \in Seq(Vectors)
    BY <1>7, AllocateDefaultStores
  <2>2. offset \in 1 .. Len(default)
    BY <1>7, AllocateDefaultStores
  <2>3. default' \in Vectors
    BY <1>7, <2>2, ExceptSeq DEF AllocateDefault, DataType, Vectors, Values
  <2>4. vectors' \in [Threads -> Seq(Vectors)]
    BY <1>7, <2>1 DEF AllocateDefault
  <2>5. QED
    BY <1>7, <2>3, <2>4 DEF AllocateDefault, DataType
<1>8. CASE WriteStore(t)
  <2>1. /\ vectors'[t] \in Seq(Vectors) /\ slot[t] \in Slots
        /\ \A u \in Threads : u # t => vectors'[u] = vectors[u]
    BY <1>8, WriteStores
  <2>2. vectors' \in [Threads -> Seq(Vectors)]
    BY <1>8, <2>1 DEF WriteStore, DataType
  <2>3. assigned' \in [Threads -> [Slots -> Values]]
    BY <1>8, <2>1 DEF WriteStore, DataType, Values
  <2>4. QED
    BY <1>8, <2>2, <2>3 DEF WriteStore, DataType
<1>9. CASE \E v \in Slots : ReadThreadVariable(t, v) \/ WriteThreadVariable(t, v)
  <2>1. PICK v \in Slots : ReadThreadVariable(t, v) \/ WriteThreadVariable(t, v)
    BY <1>9
  <2>2. v \in Nat
    BY Win32VariablesAssumption DEF Slots
  <2>3. /\ offset' = offset /\ default' = default /\ vectors' = vectors /\ teb' = teb
        /\ listed' = listed /\ tlv_vector_list' = tlv_vector_list /\ walk' = walk
        /\ assigned' = assigned
    BY <2>1 DEF ReadThreadVariable, WriteThreadVariable
  <2>4. slot' \in [Threads -> Nat] /\ vector' \in [Threads -> Nat]
    BY <2>1, <2>2 DEF ReadThreadVariable, WriteThreadVariable, DataType
  <2>5. QED
    BY <2>3, <2>4 DEF DataType
<1>10. CASE ReadLoad(t) \/ WriteDone(t)
  <2>1. /\ offset' = offset /\ default' = default /\ vectors' = vectors /\ teb' = teb
        /\ listed' = listed /\ tlv_vector_list' = tlv_vector_list /\ walk' = walk
        /\ assigned' = assigned
    BY <1>10 DEF ReadLoad, WriteDone
  <2>a. slot' = [slot EXCEPT ![t] = 0] /\ vector' = [vector EXCEPT ![t] = 0]
    BY <1>10 DEF ReadLoad, WriteDone
  <2>b. slot \in [Threads -> Nat] /\ vector \in [Threads -> Nat]
    BY DEF DataType
  <2>2. slot' \in [Threads -> Nat] /\ vector' \in [Threads -> Nat]
    BY <2>a, <2>b
  <2>3. QED
    BY <2>1, <2>2 DEF DataType
<1>11. CASE WriteVector(t)
  BY <1>11 DEF WriteVector, DataType
<1>12. CASE \/ \E u \in Threads : MakeThread(t, u)
            \/ FunctionReturns(t) \/ AllocateThreadVariable(t)
            \/ EnterSection(t) \/ LeaveSection(t) \/ GrowClaim(t) \/ GrowDone(t)
            \/ WriteIncrement(t) \/ WriteDecrement(t) \/ WriteEnter(t)
  BY <1>12 DEF MakeThread, FunctionReturns, AllocateThreadVariable, EnterSection, LeaveSection,
               GrowClaim, GrowDone, WriteIncrement, WriteDecrement, WriteEnter, DataType
<1>13. QED
  BY <1>1, <1>2, <1>3, <1>4, <1>5, <1>6, <1>7, <1>8, <1>9, <1>10, <1>11, <1>12
     DEF Step, Call, Advance

-----------------------------------------------------------------------------
(* What the threads read and write.                                        *)

\* A thread that does not move, and the vectors that it may be about to use.
LEMMA AccessKept ==
  ASSUME NEW u \in Threads, AccessOf(u), pc'[u] = pc[u], slot'[u] = slot[u],
         vector'[u] = vector[u], handles \subseteq handles',
         pc[u] = "r_load" =>
           /\ vector[u] \in 1 .. Len(vectors'[u])
           /\ slot[u] <= Len(vectors'[u][vector[u]])
           /\ vectors'[u][vector[u]][slot[u]] = assigned'[u][slot[u]],
         pc[u] = "w_store" => teb'[u] = teb[u]
  PROVE  AccessOf(u)'
BY DEF AccessOf

LEMMA AccessStep ==
  ASSUME CounterInv, DataInv, NEW t \in Threads, Step(t)
  PROVE  AccessInv'
<1>. SUFFICES ASSUME NEW u \in Threads PROVE AccessOf(u)'
  BY DEF AccessInv
<1>. /\ SectionInv /\ DataType /\ SharedInv /\ AccessInv /\ AccessOf(u)
     /\ pc \in [Threads -> Labels] /\ slot \in [Threads -> Nat] /\ vector \in [Threads -> Nat]
  BY DEF CounterInv, DataInv, SectionInv, AccessInv, DataType
<1>. USE DEF locals, client, memory
<1>a. ASSUME UNCHANGED <<vectors, teb, assigned>>, handles \subseteq handles',
             pc'[u] = pc[u], slot'[u] = slot[u], vector'[u] = vector[u]
      PROVE  AccessOf(u)'
  BY <1>a DEF AccessOf
<1>1. CASE \E x \in Threads : MakeThread(t, x)
  <2>1. PICK x \in Threads : MakeThread(t, x)
    BY <1>1
  <2>2. CASE u = x
    BY <2>1, <2>2 DEF MakeThread, Goto, AccessOf
  <2>3. CASE u # x
    BY <2>1, <2>3, <1>a DEF MakeThread, Goto
  <2>4. QED
    BY <2>2, <2>3
<1>2. CASE \/ FunctionReturns(t) \/ AllocateThreadVariable(t) \/ EnterSection(t)
           \/ LeaveSection(t) \/ RemoveVector(t) \/ AllocateOffset(t) \/ GrowClaim(t)
           \/ GrowDefault(t) \/ GrowDone(t)
  <2>. USE DEF FunctionReturns, AllocateThreadVariable, EnterSection, LeaveSection, RemoveVector,
               AllocateOffset, GrowClaim, GrowDefault, GrowDone, Goto
  <2>1. CASE u = t
    BY <1>2, <2>1 DEF AccessOf
  <2>2. CASE u # t
    BY <1>2, <2>2, <1>a
  <2>3. QED
    BY <2>1, <2>2
<1>3. CASE \E v \in Slots : ReadThreadVariable(t, v)
  <2>1. PICK v \in Slots : ReadThreadVariable(t, v)
    BY <1>3
  <2>2. CASE u = t
    <3>1. pc[t] = "run" /\ v \in handles
      BY <2>1 DEF ReadThreadVariable, Goto
    <3>2. Listed(t) /\ VectorOf(t)
      BY <3>1 DEF SharedInv, ListInv, VectorInv, Unlisted
    <3>3. /\ teb[t] \in 1 .. Len(vectors[t])
          /\ v <= Len(vectors[t][teb[t]]) /\ vectors[t][teb[t]][v] = assigned[t][v]
      BY <3>1, <3>2 DEF VectorOf, Current
    <3>4. QED
      BY <2>1, <2>2, <3>1, <3>3 DEF ReadThreadVariable, Goto, AccessOf
  <2>3. CASE u # t
    BY <2>1, <2>3, <1>a DEF ReadThreadVariable, Goto
  <2>4. QED
    BY <2>2, <2>3
<1>4. CASE \/ \E v \in Slots : WriteThreadVariable(t, v)
           \/ WriteIncrement(t) \/ WriteDecrement(t) \/ WriteEnter(t) \/ WriteVector(t)
           \/ ReadLoad(t) \/ WriteDone(t)
  <2>. USE DEF WriteThreadVariable, WriteIncrement, WriteDecrement, WriteEnter, WriteVector,
               ReadLoad, WriteDone, Goto
  <2>1. CASE u = t
    BY <1>4, <2>1 DEF AccessOf
  <2>2. CASE u # t
    BY <1>4, <2>2, <1>a
  <2>3. QED
    BY <2>1, <2>2
<1>5. CASE InitializeVector(t)
  <2>1. CASE u = t
    BY <1>5, <2>1 DEF InitializeVector, Goto, AccessOf
  <2>2. CASE u # t
    <3>1. vectors'[u] = vectors[u] /\ teb'[u] = teb[u]
      BY <1>5, <2>2 DEF InitializeVector, DataType
    <3>2. QED
      BY <1>5, <2>2, <3>1 DEF InitializeVector, Goto, AccessOf
  <2>3. QED
    BY <2>1, <2>2
<1>6. CASE GrowCopy(t)
  <2>1. CASE u = t
    BY <1>6, <2>1 DEF GrowCopy, Goto, AccessOf
  <2>2. CASE u # t
    <3>1. \A k \in 1 .. Len(vectors[u]) : k \in 1 .. Len(vectors'[u]) /\ vectors'[u][k] = vectors[u][k]
      <4>1. CASE vectors'[u] = vectors[u]
        BY <4>1
      <4>2. CASE vectors'[u] # vectors[u]
        <5>1. vectors'[u] = Append(vectors[u], Copied(vectors[u][listed[u]], Len(default)))
          BY <1>6, <4>2 DEF GrowCopy, DataType
        <5>. DEFINE copy == Copied(vectors[u][listed[u]], Len(default))
                    S == Vectors \cup {copy}
                    q == vectors[u]
        <5>2. q \in Seq(Vectors) /\ copy \in S /\ Vectors \subseteq S
          BY DEF DataType
        <5>3. q \in Seq(S)
          BY <5>2, SeqMonotonic
        <5>4. vectors'[u] = Append(q, copy)
          BY <5>1
        <5>. HIDE DEF copy, S, q
        <5>5. /\ Len(Append(q, copy)) = Len(q) + 1 /\ Len(q) \in Nat
              /\ \A i \in 1 .. Len(q) : Append(q, copy)[i] = q[i]
          BY <5>2, <5>3, AppendProperties, LenProperties
        <5>6. QED
          BY <5>4, <5>5 DEF q
      <4>3. QED
        BY <4>1, <4>2
    <3>2. /\ pc'[u] = pc[u] /\ slot'[u] = slot[u] /\ vector'[u] = vector[u]
          /\ handles' = handles /\ assigned' = assigned /\ teb' = teb
      BY <1>6, <2>2 DEF GrowCopy, Goto
    <3>3. QED
      BY <3>1, <3>2 DEF AccessOf
  <2>3. QED
    BY <2>1, <2>2
<1>7. CASE GrowInstall(t)
  <2>1. CASE u = t
    BY <1>7, <2>1 DEF GrowInstall, Goto, AccessOf
  <2>2. CASE u # t
    <3>1. pc[u] # "w_store"
      BY <1>7 DEF GrowInstall, Goto, CounterInv, CounterIsWriters, Growing
    <3>2. /\ pc'[u] = pc[u] /\ slot' = slot /\ vector' = vector
          /\ handles' = handles /\ assigned' = assigned /\ vectors' = vectors
      BY <1>7, <2>2 DEF GrowInstall, Goto
    <3>3. QED
      BY <3>1, <3>2 DEF AccessOf
  <2>3. QED
    BY <2>1, <2>2
<1>8. CASE AllocateDefault(t)
  <2>1. CASE u = t
    BY <1>8, <2>1 DEF AllocateDefault, Goto, AccessOf
  <2>2. CASE u # t
    <3>1. /\ offset \notin handles
          /\ Len(vectors'[u]) = Len(vectors[u])
          /\ \A k \in 1 .. Len(vectors[u]) : Len(vectors'[u][k]) = Len(vectors[u][k])
          /\ \A k \in 1 .. Len(vectors[u]), m \in Nat : m \in 1 .. Len(vectors[u][k]) /\ m # offset =>
               vectors'[u][k][m] = vectors[u][k][m]
      BY <1>8, AllocateDefaultStores
    <3>2. /\ pc'[u] = pc[u] /\ slot' = slot /\ vector' = vector
          /\ handles' = handles /\ assigned' = assigned /\ teb' = teb
      BY <1>8, <2>2 DEF AllocateDefault, Goto
    <3>3. ASSUME pc[u] = "r_load"
          PROVE  /\ vector[u] \in 1 .. Len(vectors'[u])
                 /\ slot[u] <= Len(vectors'[u][vector[u]])
                 /\ vectors'[u][vector[u]][slot[u]] = assigned[u][slot[u]]
      <4>1. /\ slot[u] \in handles /\ vector[u] \in 1 .. Len(vectors[u])
            /\ slot[u] <= Len(vectors[u][vector[u]])
            /\ vectors[u][vector[u]][slot[u]] = assigned[u][slot[u]]
        BY <3>3 DEF AccessOf
      <4>2. slot[u] \in 2 .. offset
        BY <4>1 DEF SharedInv, OffsetInv
      <4>3. vectors[u][vector[u]] \in Vectors
        BY <4>1, ElementOfSeq DEF DataType
      <4>a. Len(vectors[u][vector[u]]) \in Nat /\ offset \in Nat
        BY <4>3 DEF Vectors, DataType
      <4>4. slot[u] \in 1 .. Len(vectors[u][vector[u]]) /\ slot[u] # offset
        BY <3>1, <4>1, <4>2, <4>a
      <4>5. QED
        BY <3>1, <4>1, <4>4
    <3>4. QED
      BY <3>2, <3>3, AccessKept
  <2>3. QED
    BY <2>1, <2>2
<1>9. CASE WriteStore(t)
  <2>1. CASE u = t
    BY <1>9, <2>1 DEF WriteStore, Goto, AccessOf
  <2>2. CASE u # t
    <3>1. vectors'[u] = vectors[u] /\ assigned'[u] = assigned[u]
      BY <1>9, <2>2, WriteStores
    <3>2. QED
      BY <1>9, <2>2, <3>1 DEF WriteStore, Goto, AccessOf
  <2>3. QED
    BY <2>1, <2>2
<1>10. QED
  BY <1>1, <1>2, <1>3, <1>4, <1>5, <1>6, <1>7, <1>8, <1>9 DEF Step, Call, Advance

LEMMA DataInvInit == Init => DataInv
<1>. SUFFICES ASSUME Init PROVE DataInv
  OBVIOUS
<1>. USE Win32VariablesAssumption DEF Init
<1>1. default \in Vectors /\ Len(default) = InitialSize
  <2>1. default \in [1 .. InitialSize -> Values] /\ InitialSize \in Nat
    BY DEF Values
  <2>2. QED
    BY <2>1 DEF Vectors
<1>2. DataType
  BY <1>1 DEF DataType, Values
<1>3. ~Allotting /\ ~Short /\ ~Walking /\ ~Installing /\ ~Published
  BY DEF Allotting, Short, Walking, Installing, Published, Grows
<1>4. Len(tlv_vector_list) = 0 /\ \A u : ~Listed(u)
  BY DEF Listed
<1>5. ListInv
  BY <1>4 DEF ListInv, Unlisted
<1>6. OffsetInv /\ InitialInv
  BY <1>1, <1>3 DEF OffsetInv, InitialInv, Slots
<1>7. VectorInv /\ WalkInv
  BY <1>3, <1>4 DEF VectorInv, WalkInv
<1>8. AccessInv
  BY DEF AccessInv, AccessOf
<1>9. QED
  BY <1>2, <1>5, <1>6, <1>7, <1>8 DEF DataInv, SharedInv

LEMMA DataInvariant == Spec => [](CounterInv /\ DataInv)
<1>1. ASSUME CounterInv, DataInv, [Next]_vars
      PROVE  DataInv'
  <2>1. CASE UNCHANGED vars
    <3>. /\ offset' = offset /\ default' = default /\ vectors' = vectors /\ teb' = teb
         /\ listed' = listed /\ tlv_vector_list' = tlv_vector_list /\ walk' = walk
         /\ handles' = handles /\ assigned' = assigned /\ pc' = pc /\ slot' = slot
         /\ vector' = vector
      BY <2>1 DEF vars, memory, locals, client
    <3>1. DataType'
      BY <1>1 DEF DataInv, DataType
    <3>2. SharedInv'
      BY <1>1, SharedUnmoved
         DEF DataInv, memory, Allotting, Short, Walking, Installing, Published
    <3>3. AccessInv'
      BY <1>1 DEF DataInv, AccessInv, AccessOf
    <3>4. QED
      BY <3>1, <3>2, <3>3 DEF DataInv
  <2>2. CASE Next
    <3>1. PICK t \in Threads : Step(t)
      BY <2>2 DEF Next, Step
    <3>2. QED
      BY <1>1, <3>1, DataTypeStep, SharedStep, AccessStep DEF DataInv
  <2>3. QED
    BY <1>1, <2>1, <2>2
<1>2. QED
  BY <1>1, DataInvInit, CounterInvariant, PTL DEF Spec

\* A thread that has fetched its vector to read a variable finds there what it last
\* assigned, or the initial value, with any number of threads, variables and
\* growths of the vectors: the fetch and the load are not atomic with the growth,
\* but the vector fetched is only ever replaced by a copy, and the thread writes
\* nothing in between.
THEOREM ThreadsSeeTheirValues == Spec => []SeesItsValue
<1>1. ASSUME CounterInv, DataInv PROVE SeesItsValue
  <2>. SUFFICES ASSUME NEW t \in Threads, pc[t] = "r_load"
                PROVE  /\ slot[t] \in DOMAIN vectors[t][vector[t]]
                       /\ vectors[t][vector[t]][slot[t]] = assigned[t][slot[t]]
    BY DEF SeesItsValue
  <2>1. /\ slot[t] \in handles /\ vector[t] \in 1 .. Len(vectors[t])
        /\ slot[t] <= Len(vectors[t][vector[t]])
        /\ vectors[t][vector[t]][slot[t]] = assigned[t][slot[t]]
    BY <1>1 DEF DataInv, AccessInv, AccessOf
  <2>2. slot[t] \in 2 .. offset
    BY <1>1, <2>1 DEF DataInv, SharedInv, OffsetInv
  <2>3. vectors[t][vector[t]] \in Vectors
    BY <1>1, <2>1, ElementOfSeq DEF DataInv, DataType
  <2>4. /\ DOMAIN vectors[t][vector[t]] = 1 .. Len(vectors[t][vector[t]])
        /\ Len(vectors[t][vector[t]]) \in Nat /\ offset \in Nat
    BY <1>1, <2>3, LenProperties DEF Vectors, DataInv, DataType
  <2>5. QED
    BY <2>1, <2>2, <2>4
<1>2. QED
  BY <1>1, DataInvariant, PTL

=============================================================================
