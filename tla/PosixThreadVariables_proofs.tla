--------------------- MODULE PosixThreadVariables_proofs ---------------------
(***************************************************************************)
(* Proofs about PosixThreadVariables, for any finite set of threads, any   *)
(* size of the vectors and any number of variables.                        *)
(***************************************************************************)
EXTENDS PosixThreadVariables, FiniteSetTheorems, FunctionTheorems, SequenceTheorems,
        WellFoundedInduction, TLAPS

Vectors == Seq(Values)

-----------------------------------------------------------------------------
(* What holds whatever overlaps.                                           *)

\* The threads that have a vector, and what a link may point to.
Initialized == {t \in Threads : listed[t] >= 1}
Linked == Initialized \cup {NoThread}

VectorTypes ==
  /\ lock \in ThreadOrNone
  /\ default \in Vectors
  /\ vectors \in [Threads -> Seq(Vectors)]
  /\ key \in [Threads -> Nat] /\ listed \in [Threads -> Nat]
  /\ \A t \in Threads : key[t] <= Len(vectors[t]) /\ listed[t] <= Len(vectors[t])
  /\ pc \in [Threads -> Labels]
  /\ freed \subseteq Threads
  /\ handles \subseteq Variables
  /\ assigned \in [Threads -> [Variables -> Values]]

\* Links, and the local variables that follow them, lead to threads that have
\* a vector, also when a link is stale.
LinksInv ==
  /\ head \in Linked
  /\ next \in [Threads -> Linked]
  /\ cur \in [Threads -> Linked]
  /\ last \in [Threads -> Linked]

\* Who has a vector, and who stands behind the element it looks at.
PlaceInv ==
  \A t \in Threads :
    /\ pc[t] \notin {"new", "i_lock", "i_vector"} => key[t] >= 1 /\ listed[t] >= 1
    /\ pc[t] = "x_walk" => last[t] # NoThread

\* The allocations that have still to take an offset.
Coming == {t \in Threads : pc[t] \in {"a_lock", "a_offset"}}
\* The allocations that have taken theirs.
Allotting == {"g_default", "g_walk", "a_default", "a_walk", "a_unlock"}

RoomInv ==
  /\ offset \in Nat
  /\ Cardinality(Coming) + offset <= MaxVariables
  /\ \A t \in Threads : pc[t] \in Allotting => offset >= 1

TypeInv == VectorTypes /\ LinksInv /\ PlaceInv /\ RoomInv /\ overlapped \in BOOLEAN

-----------------------------------------------------------------------------
(* What holds until a removal overlaps another use of the list.            *)

\* Labels of the steps made with tlv_vector_list_lock.
Inside == {"i_vector", "i_next", "i_head", "i_unlock", "a_offset"} \cup Allotting

MutexInv == \A t \in Threads : pc[t] \in Inside <=> lock = t

\* A thread ends while nobody else ends or has the lock.
OrderInv ==
  \A t, u \in Threads : pc[t] \in Ending /\ u # t => pc[u] \notin Inside \cup Ending

\* The threads whose element is in the list.
Member(t) == pc[t] \in {"i_unlock", "run", "x_head", "x_first", "x_walk"} \cup Allocating

\* The i-th of n elements, and the null pointer after the last.
At(n, s, i) == IF i \in 1 .. n THEN s[i] ELSE NoThread

\* The links spell out the n elements s, the members, each once.
Spelled(n, s) ==
  /\ head = At(n, s, 1)
  /\ \A i \in 1 .. n : next[s[i]] = At(n, s, i + 1)
  /\ \A i, j \in 1 .. n : s[i] = s[j] => i = j
  /\ \A t \in Threads : Member(t) <=> \E i \in 1 .. n : s[i] = t

\* The vector that a thread uses, and the one that the list has for it.
Own(t) == vectors[t][1]
Current(t) == vectors[t][listed[t]]

\* The thread reads the right value of variable v, if it fits its vector.
Right(t, v) == v \in 1 .. Len(Own(t)) => Own(t)[v] = assigned[t][v]

\* Where the walks are: growth has grown what it has passed, an allocation has
\* given the new variable to what it has passed, and a removal has not passed
\* what it looks for.
WalkOf(n, s, t) ==
  /\ pc[t] = "g_walk" =>
       \E i \in 1 .. n + 1 :
         /\ cur[t] = At(n, s, i)
         /\ \A j \in 1 .. n : j < i => Len(Current(s[j])) = Len(default)
  /\ pc[t] = "a_walk" =>
       \E i \in 1 .. n + 1 :
         /\ cur[t] = At(n, s, i)
         /\ \A j \in 1 .. n : j < i => Right(s[j], offset)
  /\ pc[t] = "x_walk" =>
       \E i \in 1 .. n :
         /\ last[t] = s[i] /\ cur[t] = At(n, s, i + 1)
         /\ \A j \in 1 .. i : s[j] # t

ListInv ==
  /\ \E n \in Nat : \E s \in [1 .. n -> Threads] :
       Spelled(n, s) /\ \A t \in Threads : WalkOf(n, s, t)
  /\ \A t \in Threads : pc[t] = "i_head" => next[t] = head
  /\ \A t \in Threads : pc[t] = "x_first" => head = t

\* A thread is growing the vectors; one is taking a variable into use.
Growing == \E t \in Threads : pc[t] \in {"g_default", "g_walk"}
Allotted == \E t \in Threads : pc[t] \in Allotting

\* Which offsets are handed out, which fit, and what is in the default vector.
OffsetInv ==
  /\ Len(default) >= 1
  /\ \A v \in handles : v <= offset /\ v <= Len(default) /\ default[v] = Initial
  /\ ~Allotted => offset <= Len(default)
  /\ \A t \in Threads :
       /\ pc[t] \in Allotting => offset \notin handles
       /\ pc[t] = "g_default" => offset = Len(default) + 1
       /\ pc[t] \in Allotting \ {"g_default"} => offset <= Len(default)
       /\ pc[t] \in {"a_walk", "a_unlock"} => default[offset] = Initial
  /\ \A t \in Threads, v \in Variables : v \notin handles => assigned[t][v] = Initial

\* The vectors of a thread: the list has its first one unless the variables that
\* are handed out now lie outside that; the variables handed out have the
\* right values in the first one and room in the one of the list.
VectorOf(t) ==
  /\ key[t] = 1 /\ listed[t] \in 1 .. Len(vectors[t])
  /\ listed[t] = 1 \/ Len(Own(t)) < offset
  /\ Len(Own(t)) <= Len(default)
  /\ Growing => Len(Own(t)) < offset
  /\ ~Growing => Len(Current(t)) = Len(default)
  /\ \A v \in handles : v <= Len(Current(t)) /\ Right(t, v)

\* The threads that have a vector for the list, and those that have not begun.
Holder(t) == Member(t) \/ pc[t] \in {"i_next", "i_head"}
Fresh(t) == pc[t] \in {"new", "i_lock", "i_vector", "i_next", "i_head"}

DataInv ==
  /\ OffsetInv
  /\ \A t \in Threads : Holder(t) => VectorOf(t)
  /\ \A t, u \in Threads : pc[t] = "a_unlock" /\ Member(u) => Right(u, offset)
  /\ \A t \in Threads : Fresh(t) => \A v \in Variables : assigned[t][v] = Initial

OrderlyInv == MutexInv /\ (~overlapped => OrderInv /\ ListInv /\ DataInv)

-----------------------------------------------------------------------------
(* Vectors.                                                                *)

\* A vector with one slot set, if it has that slot; vectors with one replaced.
Stored(v, j, x) == [v EXCEPT ![j] = x]
Replaced(vs, i, w) == [vs EXCEPT ![i] = w]

LEMMA StoredVector ==
  ASSUME NEW v \in Vectors, NEW j, NEW x \in Values
  PROVE  /\ Stored(v, j, x) \in Vectors
         /\ Len(Stored(v, j, x)) = Len(v)
         /\ \A m \in 1 .. Len(v) : Stored(v, j, x)[m] = IF m = j THEN x ELSE v[m]
<1>1. v \in [1 .. Len(v) -> Values] /\ DOMAIN v = 1 .. Len(v) /\ Len(v) \in Nat
  BY LenProperties DEF Vectors
<1>2. CASE j \in 1 .. Len(v)
  BY <1>2, ExceptSeq DEF Vectors, Stored
<1>3. CASE j \notin 1 .. Len(v)
  <2>1. Stored(v, j, x) = v
    BY <1>1, <1>3 DEF Stored
  <2>. QED BY <1>3, <2>1
<1>. QED BY <1>2, <1>3

LEMMA ReplacedVectors ==
  ASSUME NEW vs \in Seq(Vectors), NEW i \in 1 .. Len(vs), NEW w \in Vectors
  PROVE  /\ Replaced(vs, i, w) \in Seq(Vectors)
         /\ Len(Replaced(vs, i, w)) = Len(vs)
         /\ \A k \in 1 .. Len(vs) : Replaced(vs, i, w)[k] = IF k = i THEN w ELSE vs[k]
<1>. DEFINE S == Vectors
<1>1. vs \in Seq(S) /\ w \in S
  OBVIOUS
<1>. HIDE DEF S
<1>2. /\ [vs EXCEPT ![i] = w] \in Seq(S)
      /\ Len([vs EXCEPT ![i] = w]) = Len(vs)
      /\ \A k \in 1 .. Len(vs) : [vs EXCEPT ![i] = w][k] = IF k = i THEN w ELSE vs[k]
  BY <1>1, ExceptSeq
<1>. QED BY <1>2 DEF S, Replaced

\* What a store into one slot of one vector leaves: ws are the vectors vs but
\* for slot j, if there is one, of the i-th.
OneSlotDiffers(vs, i, j, x, ws) ==
  /\ ws \in Seq(Vectors)
  /\ Len(ws) = Len(vs)
  /\ \A k \in 1 .. Len(vs) : Len(ws[k]) = Len(vs[k])
  /\ \A k \in 1 .. Len(vs) : \A m \in 1 .. Len(vs[k]) :
       ws[k][m] = IF k = i /\ m = j THEN x ELSE vs[k][m]

LEMMA StoredInto ==
  ASSUME NEW vs \in Seq(Vectors), NEW i \in 1 .. Len(vs), NEW j, NEW x \in Values
  PROVE  OneSlotDiffers(vs, i, j, x, Replaced(vs, i, Stored(vs[i], j, x)))
<1>1. vs[i] \in Vectors
  BY ElementOfSeq
<1>. DEFINE w == Stored(vs[i], j, x)
<1>2. /\ w \in Vectors /\ Len(w) = Len(vs[i])
      /\ \A m \in 1 .. Len(vs[i]) : w[m] = IF m = j THEN x ELSE vs[i][m]
  BY <1>1, StoredVector
<1>. HIDE DEF w
<1>. DEFINE ws == Replaced(vs, i, w)
<1>3. /\ ws \in Seq(Vectors) /\ Len(ws) = Len(vs)
      /\ \A k \in 1 .. Len(vs) : ws[k] = IF k = i THEN w ELSE vs[k]
  BY <1>2, ReplacedVectors
<1>. HIDE DEF ws
<1>4. OneSlotDiffers(vs, i, j, x, ws)
  BY <1>2, <1>3 DEF OneSlotDiffers
<1>. QED BY <1>4 DEF ws, w

LEMMA GrownVector ==
  ASSUME NEW vector \in Vectors, NEW size \in Nat
  PROVE  /\ Grown(vector, size) \in Vectors
         /\ Len(Grown(vector, size)) = size
         /\ \A m \in 1 .. size :
              Grown(vector, size)[m] = IF m <= Len(vector) THEN vector[m] ELSE Junk
<1>1. DOMAIN vector = 1 .. Len(vector) /\ Len(vector) \in Nat
  BY LenProperties DEF Vectors
<1>2. \A m \in 1 .. size : (IF m \in DOMAIN vector THEN vector[m] ELSE Junk) \in Values
  BY <1>1, ElementOfSeq DEF Vectors, Values
<1>3. Grown(vector, size) \in [1 .. size -> Values]
  BY <1>2 DEF Grown
<1>. QED BY <1>1, <1>3 DEF Grown, Vectors

-----------------------------------------------------------------------------
(* What the steps do to the vectors.                                       *)

LEMMA InitializeEffect ==
  ASSUME VectorTypes, NEW t \in Threads, InitializeVector(t)
  PROVE  /\ vectors' = [vectors EXCEPT ![t] = <<default>>]
         /\ vectors'[t] \in Seq(Vectors) /\ Len(vectors'[t]) = 1 /\ vectors'[t][1] = default
         /\ \A u \in Threads : u # t => vectors'[u] = vectors[u]
BY DEF VectorTypes, InitializeVector

\* A vector of the thread that the walk has come to is grown.
Passed(u) ==
  /\ vectors' = [vectors EXCEPT ![u] = Append(@, Grown(vectors[u][listed[u]], Len(default)))]
  /\ listed' = [listed EXCEPT ![u] = Len(vectors[u]) + 1]

LEMMA GrowEffect ==
  ASSUME VectorTypes, NEW u \in Threads, listed[u] >= 1, Passed(u)
  PROVE  /\ vectors'[u] \in Seq(Vectors) /\ Len(vectors'[u]) = Len(vectors[u]) + 1
         /\ \A k \in 1 .. Len(vectors[u]) : vectors'[u][k] = vectors[u][k]
         /\ Len(vectors'[u][Len(vectors[u]) + 1]) = Len(default)
         /\ listed'[u] = Len(vectors[u]) + 1
         /\ \A w \in Threads : w # u => vectors'[w] = vectors[w] /\ listed'[w] = listed[w]
<1>. DEFINE vs == vectors[u]
            grown == Grown(vs[listed[u]], Len(default))
<1>1. /\ vs \in Seq(Vectors) /\ listed[u] \in 1 .. Len(vs) /\ Len(vs) \in Nat
      /\ default \in Vectors /\ Len(default) \in Nat
  BY DEF VectorTypes, Vectors
<1>2. vs[listed[u]] \in Vectors
  BY <1>1, ElementOfSeq
<1>3. grown \in Vectors /\ Len(grown) = Len(default)
  BY <1>1, <1>2, GrownVector
<1>4. vectors' = [vectors EXCEPT ![u] = Append(vs, grown)]
  BY DEF Passed
<1>. HIDE DEF grown
<1>5. /\ Append(vs, grown) \in Seq(Vectors) /\ Len(Append(vs, grown)) = Len(vs) + 1
      /\ \A k \in 1 .. Len(vs) : Append(vs, grown)[k] = vs[k]
      /\ Append(vs, grown)[Len(vs) + 1] = grown
  BY <1>1, <1>3, AppendProperties
<1>6. vectors'[u] = Append(vs, grown) /\ \A w \in Threads : w # u => vectors'[w] = vectors[w]
  BY <1>4 DEF VectorTypes
<1>7. listed'[u] = Len(vs) + 1 /\ \A w \in Threads : w # u => listed'[w] = listed[w]
  BY DEF VectorTypes, Passed
<1>. QED BY <1>3, <1>5, <1>6, <1>7

LEMMA UpdateEffect ==
  ASSUME VectorTypes, NEW u \in Threads, listed[u] >= 1,
         vectors' = [vectors EXCEPT ![u][listed[u]][offset] = Initial]
  PROVE  /\ OneSlotDiffers(vectors[u], listed[u], offset, Initial, vectors'[u])
         /\ \A w \in Threads : w # u => vectors'[w] = vectors[w]
<1>. DEFINE vs == vectors[u]
<1>1. vs \in Seq(Vectors) /\ listed[u] \in 1 .. Len(vs)
  BY DEF VectorTypes
<1>2. vectors'[u] = Replaced(vs, listed[u], Stored(vs[listed[u]], offset, Initial))
  BY DEF VectorTypes, Replaced, Stored
<1>3. Initial \in Values
  BY DEF Values
<1>. HIDE DEF vs
<1>4. OneSlotDiffers(vs, listed[u], offset, Initial, vectors'[u])
  BY <1>1, <1>2, <1>3, StoredInto
<1>5. \A w \in Threads : w # u => vectors'[w] = vectors[w]
  BY DEF VectorTypes
<1>. QED BY <1>4, <1>5 DEF vs

LEMMA WriteEffect ==
  ASSUME VectorTypes, NEW t \in Threads, NEW v, key[t] >= 1, WriteThreadVariable(t, v)
  PROVE  /\ OneSlotDiffers(vectors[t], key[t], v, t, vectors'[t])
         /\ \A w \in Threads : w # t => vectors'[w] = vectors[w]
<1>. DEFINE vs == vectors[t]
            w == Stored(vs[key[t]], v, t)
<1>1. vs \in Seq(Vectors) /\ key[t] \in 1 .. Len(vs) /\ t \in Values
  BY DEF VectorTypes, Values
<1>2. vs[key[t]] \in Vectors
  BY <1>1, ElementOfSeq
<1>3. w = IF v \in DOMAIN vs[key[t]] THEN [vs[key[t]] EXCEPT ![v] = t] ELSE vs[key[t]]
  <2>1. vs[key[t]] \in [1 .. Len(vs[key[t]]) -> Values] /\ DOMAIN vs[key[t]] = 1 .. Len(vs[key[t]])
    BY <1>2, LenProperties DEF Vectors
  <2>. QED BY <2>1 DEF Stored
<1>4. vectors'[t] = Replaced(vs, key[t], w)
  BY <1>3 DEF WriteThreadVariable, VectorTypes, Replaced
<1>. HIDE DEF vs
<1>5. OneSlotDiffers(vs, key[t], v, t, vectors'[t])
  BY <1>1, <1>4, StoredInto
<1>6. \A u \in Threads : u # t => vectors'[u] = vectors[u]
  BY DEF VectorTypes, WriteThreadVariable
<1>. QED BY <1>5, <1>6 DEF vs

-----------------------------------------------------------------------------
(* Types.                                                                  *)

\* The actions, one by one: what is shown of a step is shown of each.
Acts(t) ==
  \/ \E p \in Threads : MakeThread(p, t)
  \/ LockList(t) \/ InitializeVector(t) \/ AddNext(t) \/ AddHead(t) \/ InitializeUnlock(t)
  \/ AllocateThreadVariable(t) \/ AllocateOffset(t) \/ GrowDefault(t) \/ GrowWalk(t)
  \/ AllocateDefault(t) \/ UpdateWalk(t) \/ AllocateUnlock(t)
  \/ \E v \in Variables : WriteThreadVariable(t, v)
  \/ FunctionReturns(t) \/ RemoveTest(t) \/ RemoveFirst(t) \/ RemoveWalk(t) \/ RemoveFree(t)

LEMMA VectorTypesStep ==
  ASSUME TypeInv, NEW t \in Threads, Acts(t)
  PROVE  VectorTypes'
<1>. USE NoThreadAssumption DEF ThreadOrNone, Labels, Starting, Allocating, Ending, Goto
<1>0. VectorTypes /\ LinksInv /\ PlaceInv /\ RoomInv /\ Len(default) \in Nat
  BY DEF TypeInv, VectorTypes, Vectors
<1>1. CASE \/ \E p \in Threads : MakeThread(p, t)
           \/ AddNext(t) \/ AddHead(t) \/ AllocateThreadVariable(t) \/ AllocateOffset(t)
  BY <1>0, <1>1
  DEF VectorTypes, MakeThread, AddNext, AddHead, AllocateThreadVariable, AllocateOffset, memory,
      list
<1>2. CASE LockList(t) \/ InitializeUnlock(t)
  BY <1>0, <1>2 DEF VectorTypes, LockList, InitializeUnlock, MutexLock, MutexUnlock, memory, list
<1>3. CASE FunctionReturns(t) \/ RemoveTest(t) \/ RemoveFirst(t) \/ RemoveWalk(t) \/ RemoveFree(t)
  BY <1>0, <1>3
  DEF VectorTypes, FunctionReturns, RemoveTest, RemoveFirst, RemoveWalk, RemoveFree, memory, list
<1>4. CASE InitializeVector(t)
  <2>1. /\ vectors' = [vectors EXCEPT ![t] = <<default>>] /\ <<default>> \in Seq(Vectors)
        /\ Len(vectors'[t]) = 1 /\ \A u \in Threads : u # t => vectors'[u] = vectors[u]
    BY <1>0, <1>4, InitializeEffect DEF VectorTypes
  <2>2. vectors' \in [Threads -> Seq(Vectors)]
    BY <1>0, <2>1 DEF VectorTypes
  <2>. QED BY <1>0, <1>4, <2>1, <2>2 DEF VectorTypes, InitializeVector, list
<1>5. CASE GrowDefault(t)
  <2>1. 2 * Len(default) \in Nat
    BY <1>0
  <2>2. default' \in Vectors
    BY <1>0, <1>5, <2>1, GrownVector DEF GrowDefault, VectorTypes
  <2>. QED BY <1>0, <1>5, <2>2 DEF VectorTypes, GrowDefault, memory, list
<1>6. CASE GrowWalk(t)
  <2>1. CASE cur[t] = NoThread
    BY <1>0, <1>6, <2>1 DEF VectorTypes, GrowWalk, list
  <2>2. CASE cur[t] # NoThread
    <3>. DEFINE u == cur[t]
    <3>1. u \in Threads /\ listed[u] >= 1
      BY <1>0, <2>2 DEF LinksInv, Linked, Initialized
    <3>2. Passed(u)
      BY <1>6, <2>2 DEF GrowWalk, Passed
    <3>. HIDE DEF u
    <3>3. /\ vectors'[u] \in Seq(Vectors) /\ Len(vectors'[u]) = Len(vectors[u]) + 1
          /\ listed'[u] = Len(vectors[u]) + 1
          /\ \A w \in Threads : w # u => vectors'[w] = vectors[w] /\ listed'[w] = listed[w]
      BY <1>0, <3>1, <3>2, GrowEffect
    <3>4. \A w \in Threads : Len(vectors[w]) \in Nat
      BY <1>0 DEF VectorTypes
    <3>5. vectors' \in [Threads -> Seq(Vectors)] /\ listed' \in [Threads -> Nat]
      BY <1>0, <3>1, <3>2, <3>3, <3>4 DEF VectorTypes, Passed
    <3>6. key' = key
      BY <1>6 DEF GrowWalk
    <3>7. \A w \in Threads :
            key[w] \in Nat /\ key[w] <= Len(vectors[w]) /\ listed[w] <= Len(vectors[w])
      BY <1>0 DEF VectorTypes
    <3>8. ASSUME NEW w \in Threads
          PROVE  key'[w] <= Len(vectors'[w]) /\ listed'[w] <= Len(vectors'[w])
      <4>1. CASE w = u
        BY <3>3, <3>4, <3>6, <3>7, <4>1
      <4>2. CASE w # u
        BY <3>3, <3>6, <3>7, <4>2
      <4>. QED BY <4>1, <4>2
    <3>. QED BY <1>0, <1>6, <2>2, <3>5, <3>6, <3>8 DEF VectorTypes, GrowWalk, list
  <2>. QED BY <2>1, <2>2
<1>7. CASE AllocateDefault(t)
  <2>1. Initial \in Values
    BY DEF Values
  <2>2. Stored(default, offset, Initial) \in Vectors
    BY <1>0, <2>1, StoredVector DEF VectorTypes
  <2>3. default' \in Vectors
    BY <1>7, <2>2 DEF AllocateDefault, Stored
  <2>. QED BY <1>0, <1>7, <2>3 DEF VectorTypes, AllocateDefault, memory, list
<1>8. CASE UpdateWalk(t)
  <2>1. CASE cur[t] = NoThread
    BY <1>0, <1>8, <2>1 DEF VectorTypes, UpdateWalk, list
  <2>2. CASE cur[t] # NoThread
    <3>. DEFINE u == cur[t]
    <3>1. u \in Threads /\ listed[u] >= 1
      BY <1>0, <2>2 DEF LinksInv, Linked, Initialized
    <3>2. vectors' = [vectors EXCEPT ![u][listed[u]][offset] = Initial]
      BY <1>8, <2>2 DEF UpdateWalk
    <3>. HIDE DEF u
    <3>3. /\ vectors'[u] \in Seq(Vectors) /\ Len(vectors'[u]) = Len(vectors[u])
          /\ \A w \in Threads : w # u => vectors'[w] = vectors[w]
      BY <1>0, <3>1, <3>2, UpdateEffect DEF OneSlotDiffers
    <3>4. vectors' \in [Threads -> Seq(Vectors)]
      BY <1>0, <3>1, <3>2, <3>3 DEF VectorTypes
    <3>. QED BY <1>0, <1>8, <2>2, <3>3, <3>4 DEF VectorTypes, UpdateWalk, list
  <2>. QED BY <2>1, <2>2
<1>9. CASE AllocateUnlock(t)
  <2>1. offset \in Variables
    <3>1. Coming \in SUBSET Threads
      BY DEF Coming
    <3>2. Cardinality(Coming) \in Nat
      BY <3>1, FS_Subset, FS_CardinalityType, ThreadVariablesAssumption
    <3>. QED BY <1>0, <1>9, <3>2, ThreadVariablesAssumption
             DEF RoomInv, AllocateUnlock, Variables, Allotting
  <2>. QED BY <1>0, <1>9, <2>1 DEF VectorTypes, AllocateUnlock, MutexUnlock, memory, list
<1>10. ASSUME NEW v \in Variables, WriteThreadVariable(t, v) PROVE VectorTypes'
  <2>1. key[t] >= 1
    BY <1>0, <1>10 DEF PlaceInv, WriteThreadVariable
  <2>2. /\ vectors'[t] \in Seq(Vectors) /\ Len(vectors'[t]) = Len(vectors[t])
        /\ \A w \in Threads : w # t => vectors'[w] = vectors[w]
    BY <1>0, <1>10, <2>1, WriteEffect DEF OneSlotDiffers
  <2>3. vectors' \in [Threads -> Seq(Vectors)]
    BY <1>0, <1>10, <2>2 DEF VectorTypes, WriteThreadVariable
  <2>4. assigned' \in [Threads -> [Variables -> Values]]
    BY <1>0, <1>10 DEF VectorTypes, WriteThreadVariable, Values
  <2>. QED BY <1>0, <1>10, <2>2, <2>3, <2>4 DEF VectorTypes, WriteThreadVariable, list
<1>. QED BY <1>1, <1>2, <1>3, <1>4, <1>5, <1>6, <1>7, <1>8, <1>9, <1>10 DEF Acts

\* Growing gives a thread a later vector.
LEMMA GrowWalkListed ==
  ASSUME TypeInv, NEW t \in Threads, GrowWalk(t)
  PROVE  \A u \in Threads : listed[u] >= 1 => listed'[u] >= 1
<1>0. /\ VectorTypes /\ LinksInv /\ listed \in [Threads -> Nat]
      /\ \A w \in Threads : Len(vectors[w]) \in Nat
  BY DEF TypeInv, VectorTypes
<1>1. CASE cur[t] = NoThread
  BY <1>1 DEF GrowWalk
<1>2. CASE cur[t] # NoThread
  <2>1. cur[t] \in Threads /\ listed[cur[t]] >= 1
    BY <1>0, <1>2 DEF LinksInv, Linked, Initialized
  <2>2. Passed(cur[t])
    BY <1>2 DEF GrowWalk, Passed
  <2>3. /\ listed'[cur[t]] = Len(vectors[cur[t]]) + 1
        /\ \A w \in Threads : w # cur[t] => listed'[w] = listed[w]
    BY <1>0, <2>1, <2>2, GrowEffect
  <2>. QED BY <1>0, <2>1, <2>3
<1>. QED BY <1>1, <1>2

\* A thread that has a vector keeps one.
LEMMA LinkedGrows ==
  ASSUME TypeInv, NEW t \in Threads, Acts(t)
  PROVE  Linked \subseteq Linked' /\ (InitializeVector(t) => t \in Linked')
<1>0. /\ VectorTypes /\ LinksInv /\ listed \in [Threads -> Nat]
      /\ \A w \in Threads : Len(vectors[w]) \in Nat /\ Len(vectors[w]) + 1 >= 1
  BY DEF TypeInv, VectorTypes
<1>1. CASE InitializeVector(t)
  BY <1>0, <1>1 DEF InitializeVector, Linked, Initialized
<1>2. CASE GrowWalk(t)
  <2>1. ~InitializeVector(t)
    BY <1>2 DEF GrowWalk, Goto, InitializeVector
  <2>. QED BY <1>2, <2>1, GrowWalkListed DEF Linked, Initialized
<1>3. CASE ~InitializeVector(t) /\ ~GrowWalk(t)
  <2>1. listed' = listed
    BY <1>3
    DEF Acts, MakeThread, LockList, AddNext, AddHead, InitializeUnlock, AllocateThreadVariable,
        AllocateOffset, GrowDefault, AllocateDefault, UpdateWalk, AllocateUnlock,
        WriteThreadVariable, FunctionReturns, RemoveTest, RemoveFirst, RemoveWalk, RemoveFree,
        memory
  <2>. QED BY <1>3, <2>1 DEF Linked, Initialized
<1>. QED BY <1>1, <1>2, <1>3

LEMMA LinksStep ==
  ASSUME TypeInv, NEW t \in Threads, Acts(t)
  PROVE  LinksInv'
<1>0. LinksInv /\ PlaceInv /\ VectorTypes
  BY DEF TypeInv
<1>. DEFINE L == Linked
            M == Linked'
<1>1. /\ L \subseteq M /\ NoThread \in L /\ L \subseteq Threads \cup {NoThread}
      /\ head \in L /\ next \in [Threads -> L] /\ cur \in [Threads -> L] /\ last \in [Threads -> L]
  BY <1>0, LinkedGrows DEF LinksInv, Linked, Initialized
<1>. SUFFICES head' \in M /\ next' \in [Threads -> M] /\ cur' \in [Threads -> M]
              /\ last' \in [Threads -> M]
  BY DEF LinksInv
<1>2. CASE AddHead(t)
  <2>1. t \in L
    BY <1>0, <1>2 DEF AddHead, Goto, PlaceInv, Linked, Initialized
  <2>. HIDE DEF L, M
  <2>. QED BY <1>1, <1>2, <2>1 DEF AddHead
<1>. HIDE DEF L, M
<1>3. CASE AddNext(t)
  BY <1>1, <1>3 DEF AddNext
<1>4. CASE \/ \E p \in Threads : MakeThread(p, t)
           \/ LockList(t) \/ InitializeVector(t) \/ InitializeUnlock(t)
           \/ AllocateThreadVariable(t) \/ AllocateOffset(t) \/ AllocateUnlock(t)
           \/ \E v \in Variables : WriteThreadVariable(t, v)
           \/ FunctionReturns(t) \/ RemoveFree(t)
  <2>1. head' = head /\ next' = next /\ cur' = cur /\ last' = last
    BY <1>4
    DEF MakeThread, LockList, InitializeVector, InitializeUnlock, AllocateThreadVariable,
        AllocateOffset, AllocateUnlock, WriteThreadVariable, FunctionReturns, RemoveFree, list
  <2>. QED BY <1>1, <2>1
<1>5. CASE GrowDefault(t) \/ AllocateDefault(t)
  BY <1>1, <1>5 DEF GrowDefault, AllocateDefault, list
<1>6. CASE GrowWalk(t)
  BY <1>1, <1>6, NoThreadAssumption DEF GrowWalk, list
<1>7. CASE UpdateWalk(t)
  BY <1>1, <1>7, NoThreadAssumption DEF UpdateWalk, list
<1>8. CASE RemoveTest(t)
  BY <1>1, <1>8, NoThreadAssumption DEF RemoveTest, list
<1>9. CASE RemoveFirst(t)
  BY <1>1, <1>9, NoThreadAssumption DEF RemoveFirst
<1>10. CASE RemoveWalk(t)
  BY <1>1, <1>10, NoThreadAssumption DEF RemoveWalk
<1>. QED BY <1>2, <1>3, <1>4, <1>5, <1>6, <1>7, <1>8, <1>9, <1>10 DEF Acts

LEMMA PlaceStep ==
  ASSUME TypeInv, NEW t \in Threads, Acts(t)
  PROVE  PlaceInv'
<1>0. /\ PlaceInv /\ VectorTypes /\ LinksInv
      /\ \A w \in Threads : Len(vectors[w]) \in Nat /\ Len(vectors[w]) + 1 >= 1
      /\ pc \in [Threads -> Labels] /\ key \in [Threads -> Nat] /\ listed \in [Threads -> Nat]
      /\ cur \in [Threads -> Linked] /\ last \in [Threads -> Linked]
  BY DEF TypeInv, VectorTypes, LinksInv
<1>1. CASE InitializeVector(t)
  BY <1>0, <1>1 DEF InitializeVector, Goto, PlaceInv
<1>2. CASE GrowWalk(t)
  <2>1. key' = key /\ last' = last /\ pc' \in [Threads -> Labels]
    BY <1>0, <1>2 DEF GrowWalk, Goto, Labels, Allocating
  <2>2. \A u \in Threads : listed[u] >= 1 => listed'[u] >= 1
    BY <1>2, GrowWalkListed
  <2>3. \A u \in Threads : u # t => pc'[u] = pc[u]
    BY <1>0, <1>2 DEF GrowWalk, Goto
  <2>4. pc[t] = "g_walk" /\ pc'[t] \in {"g_walk", "a_default"}
    BY <1>0, <1>2 DEF GrowWalk, Goto
  <2>. QED BY <1>0, <2>1, <2>2, <2>3, <2>4 DEF PlaceInv
<1>3. CASE RemoveTest(t) \/ RemoveWalk(t)
  BY <1>0, <1>3 DEF RemoveTest, RemoveWalk, Goto, PlaceInv, memory
<1>4. CASE \/ \E p \in Threads : MakeThread(p, t)
           \/ LockList(t) \/ AddNext(t) \/ AddHead(t) \/ InitializeUnlock(t)
           \/ AllocateThreadVariable(t) \/ AllocateOffset(t) \/ GrowDefault(t)
  BY <1>0, <1>4
  DEF PlaceInv, Goto, MakeThread, LockList, AddNext, AddHead, InitializeUnlock,
      AllocateThreadVariable, AllocateOffset, GrowDefault, memory
<1>5. CASE \/ AllocateDefault(t) \/ UpdateWalk(t) \/ AllocateUnlock(t)
           \/ \E v \in Variables : WriteThreadVariable(t, v)
           \/ FunctionReturns(t) \/ RemoveFirst(t) \/ RemoveFree(t)
  BY <1>0, <1>5
  DEF PlaceInv, Goto, AllocateDefault, UpdateWalk, AllocateUnlock, WriteThreadVariable,
      FunctionReturns, RemoveFirst, RemoveFree, memory
<1>. QED BY <1>1, <1>2, <1>3, <1>4, <1>5 DEF Acts

LEMMA RoomStep ==
  ASSUME TypeInv, NEW t \in Threads, Acts(t)
  PROVE  RoomInv'
<1>0. /\ RoomInv /\ pc \in [Threads -> Labels] /\ offset \in Nat /\ MaxVariables \in Nat
      /\ \A u \in Threads : pc[u] \in Allotting => offset >= 1
  BY ThreadVariablesAssumption DEF TypeInv, VectorTypes, RoomInv
<1>1. /\ IsFiniteSet(Coming) /\ Cardinality(Coming) \in Nat
      /\ IsFiniteSet(Coming') /\ Cardinality(Coming') \in Nat
  <2>1. Coming \in SUBSET Threads /\ Coming' \in SUBSET Threads
    BY DEF Coming
  <2>. QED BY <2>1, FS_Subset, FS_CardinalityType, ThreadVariablesAssumption
<1>2. CASE AllocateThreadVariable(t)
  <2>1. Coming' = Coming \cup {t} /\ t \notin Coming
    BY <1>0, <1>2 DEF AllocateThreadVariable, Goto, Coming
  <2>2. Cardinality(Coming') = Cardinality(Coming) + 1
    BY <1>1, <2>1, FS_AddElement
  <2>3. Cardinality(Coming) + offset < MaxVariables
    BY <1>2 DEF AllocateThreadVariable, Coming
  <2>4. offset' = offset /\ \A u \in Threads : pc'[u] \in Allotting => pc[u] \in Allotting
    BY <1>0, <1>2 DEF AllocateThreadVariable, Goto, Allotting
  <2>. QED BY <1>0, <1>1, <2>2, <2>3, <2>4 DEF RoomInv
<1>3. CASE AllocateOffset(t)
  <2>1. Coming' = Coming \ {t} /\ t \in Coming
    BY <1>0, <1>3 DEF AllocateOffset, Goto, Coming
  <2>2. Cardinality(Coming') = Cardinality(Coming) - 1
    BY <1>1, <2>1, FS_RemoveElement
  <2>3. offset' = offset + 1
    BY <1>3 DEF AllocateOffset
  <2>. QED BY <1>0, <1>1, <2>2, <2>3 DEF RoomInv
<1>4. CASE \/ \E p \in Threads : MakeThread(p, t)
           \/ LockList(t) \/ InitializeVector(t) \/ AddNext(t) \/ AddHead(t) \/ InitializeUnlock(t)
           \/ GrowDefault(t) \/ GrowWalk(t)
  <2>1. Coming' = Coming /\ offset' = offset
        /\ \A u \in Threads : pc'[u] \in Allotting => pc[u] \in Allotting
    BY <1>0, <1>4
    DEF MakeThread, LockList, InitializeVector, AddNext, AddHead, InitializeUnlock, GrowDefault,
        GrowWalk, Goto, Coming, Allotting
  <2>. QED BY <1>0, <2>1 DEF RoomInv
<1>5. CASE \/ AllocateDefault(t) \/ UpdateWalk(t) \/ AllocateUnlock(t)
           \/ \E v \in Variables : WriteThreadVariable(t, v)
           \/ FunctionReturns(t)
           \/ RemoveTest(t) \/ RemoveFirst(t) \/ RemoveWalk(t) \/ RemoveFree(t)
  <2>1. Coming' = Coming /\ offset' = offset
        /\ \A u \in Threads : pc'[u] \in Allotting => pc[u] \in Allotting
    BY <1>0, <1>5
    DEF AllocateDefault, UpdateWalk, AllocateUnlock, WriteThreadVariable, FunctionReturns,
        RemoveTest, RemoveFirst, RemoveWalk, RemoveFree, Goto, Coming, Allotting
  <2>. QED BY <1>0, <2>1 DEF RoomInv
<1>. QED BY <1>2, <1>3, <1>4, <1>5 DEF Acts

\* An overlap is not forgotten.
LEMMA OverlapStays ==
  ASSUME NEW t \in Threads, Acts(t), overlapped \in BOOLEAN
  PROVE  overlapped' \in BOOLEAN /\ (overlapped => overlapped')
<1>1. CASE LockList(t)
  BY <1>1 DEF LockList
<1>2. CASE FunctionReturns(t)
  BY <1>2 DEF FunctionReturns
<1>3. CASE \/ \E p \in Threads : MakeThread(p, t)
           \/ InitializeVector(t) \/ AddNext(t) \/ AddHead(t) \/ InitializeUnlock(t)
           \/ AllocateThreadVariable(t) \/ AllocateOffset(t) \/ GrowDefault(t)
  BY <1>3
  DEF MakeThread, InitializeVector, AddNext, AddHead, InitializeUnlock, AllocateThreadVariable,
      AllocateOffset, GrowDefault
<1>4. CASE \/ GrowWalk(t) \/ AllocateDefault(t) \/ UpdateWalk(t) \/ AllocateUnlock(t)
           \/ \E v \in Variables : WriteThreadVariable(t, v)
           \/ RemoveTest(t) \/ RemoveFirst(t) \/ RemoveWalk(t) \/ RemoveFree(t)
  BY <1>4
  DEF GrowWalk, AllocateDefault, UpdateWalk, AllocateUnlock, WriteThreadVariable, RemoveTest,
      RemoveFirst, RemoveWalk, RemoveFree
<1>. QED BY <1>1, <1>2, <1>3, <1>4 DEF Acts

LEMMA TypeInit == Init => TypeInv
<1>. SUFFICES ASSUME Init PROVE TypeInv
  OBVIOUS
<1>1. VectorTypes
  <2>1. [i \in 1 .. InitialSize |-> Junk] \in Vectors
    BY ThreadVariablesAssumption DEF Vectors, Values
  <2>2. vectors \in [Threads -> Seq(Vectors)] /\ \A t \in Threads : Len(vectors[t]) = 0
    BY DEF Init
  <2>3. pc \in [Threads -> Labels]
    BY DEF Init, Labels, Starting
  <2>. QED BY <2>1, <2>2, <2>3 DEF Init, VectorTypes, ThreadOrNone, Values
<1>2. LinksInv /\ PlaceInv
  BY DEF Init, LinksInv, Linked, Initialized, PlaceInv
<1>3. RoomInv
  <2>1. Coming = {} /\ \A t \in Threads : pc[t] \notin Allotting
    BY DEF Init, Coming, Allotting
  <2>. QED BY <2>1, FS_EmptySet, ThreadVariablesAssumption DEF Init, RoomInv
<1>. QED BY <1>1, <1>2, <1>3 DEF Init, TypeInv

LEMMA TypeStep ==
  ASSUME TypeInv, [Next]_vars
  PROVE  TypeInv'
<1>1. CASE UNCHANGED vars
  BY <1>1
  DEF vars, TypeInv, VectorTypes, LinksInv, Linked, Initialized, PlaceInv, RoomInv, Coming
<1>2. ASSUME NEW t \in Threads, Acts(t) PROVE TypeInv'
  BY <1>2, VectorTypesStep, LinksStep, PlaceStep, RoomStep, OverlapStays DEF TypeInv
<1>. QED BY <1>1, <1>2 DEF Next, Acts

LEMMA OffsetBound ==
  ASSUME TypeInv
  PROVE  offset \in 0 .. MaxVariables
<1>1. Coming \in SUBSET Threads
  BY DEF Coming
<1>2. Cardinality(Coming) \in Nat
  BY <1>1, FS_Subset, FS_CardinalityType, ThreadVariablesAssumption
<1>. QED BY <1>2, ThreadVariablesAssumption DEF TypeInv, RoomInv

\* The data of the thread variables keeps its types for any number of threads and
\* variables, also when threads end while others start or allocate: a stale link
\* leads to a thread that has a vector, and no offset is handed out twice
\* over the bound.
THEOREM TypeCorrect == Spec => []TypeOK
<1>1. TypeInv => TypeOK
  <2>. SUFFICES ASSUME TypeInv PROVE TypeOK
    OBVIOUS
  <2>0. VectorTypes /\ LinksInv /\ RoomInv /\ overlapped \in BOOLEAN
    BY DEF TypeInv
  <2>2. offset \in 0 .. MaxVariables
    BY OffsetBound
  <2>3. DOMAIN default \subseteq Nat /\ \A i \in DOMAIN default : default[i] \in Values
    BY <2>0 DEF VectorTypes, Vectors
  <2>4. ASSUME NEW t \in Threads
        PROVE  /\ \A i \in DOMAIN vectors[t] :
                    \A v \in DOMAIN vectors[t][i] : vectors[t][i][v] \in Values
               /\ key[t] \in 0 .. Len(vectors[t]) /\ listed[t] \in 0 .. Len(vectors[t])
    <3>1. vectors[t] \in Seq(Vectors)
      BY <2>0 DEF VectorTypes
    <3>2. \A i \in DOMAIN vectors[t] : vectors[t][i] \in Seq(Values)
      BY <3>1, ElementOfSeq, LenProperties DEF Vectors
    <3>3. \A i \in DOMAIN vectors[t] : \A v \in DOMAIN vectors[t][i] : vectors[t][i][v] \in Values
      BY <3>2, ElementOfSeq, LenProperties
    <3>. QED BY <2>0, <3>1, <3>3 DEF VectorTypes
  <2>5. head \in ThreadOrNone /\ next \in [Threads -> ThreadOrNone]
        /\ cur \in [Threads -> ThreadOrNone] /\ last \in [Threads -> ThreadOrNone]
    BY <2>0 DEF LinksInv, Linked, Initialized, ThreadOrNone
  <2>. QED BY <2>0, <2>2, <2>3, <2>4, <2>5 DEF TypeOK, VectorTypes
<1>2. TypeInv /\ [Next]_vars => TypeInv'
  BY TypeStep
<1>. QED BY <1>1, <1>2, TypeInit, PTL DEF Spec

-----------------------------------------------------------------------------
(* Who is alone.                                                           *)

LEMMA MutexStep ==
  ASSUME TypeInv, MutexInv, NEW t \in Threads, Acts(t)
  PROVE  MutexInv'
<1>0. pc \in [Threads -> Labels]
  BY DEF TypeInv, VectorTypes
<1>. USE NoThreadAssumption DEF MutexInv, Inside, Allotting, Goto
<1>1. CASE LockList(t)
  BY <1>0, <1>1 DEF LockList, MutexLock
<1>2. CASE InitializeUnlock(t) \/ AllocateUnlock(t)
  BY <1>0, <1>2 DEF InitializeUnlock, AllocateUnlock, MutexUnlock
<1>3. CASE \/ \E p \in Threads : MakeThread(p, t)
           \/ InitializeVector(t) \/ AddNext(t) \/ AddHead(t) \/ AllocateThreadVariable(t)
           \/ AllocateOffset(t) \/ GrowDefault(t) \/ GrowWalk(t)
  BY <1>0, <1>3
  DEF MakeThread, InitializeVector, AddNext, AddHead, AllocateThreadVariable, AllocateOffset,
      GrowDefault, GrowWalk
<1>4. CASE \/ AllocateDefault(t) \/ UpdateWalk(t)
           \/ \E v \in Variables : WriteThreadVariable(t, v)
           \/ FunctionReturns(t)
           \/ RemoveTest(t) \/ RemoveFirst(t) \/ RemoveWalk(t) \/ RemoveFree(t)
  BY <1>0, <1>4
  DEF AllocateDefault, UpdateWalk, WriteThreadVariable, FunctionReturns, RemoveTest, RemoveFirst,
      RemoveWalk, RemoveFree
<1>. QED BY <1>1, <1>2, <1>3, <1>4 DEF Acts

LEMMA OrderStep ==
  ASSUME TypeInv, MutexInv, OrderInv, NEW t \in Threads, Acts(t), ~overlapped'
  PROVE  OrderInv'
<1>0. pc \in [Threads -> Labels]
  BY DEF TypeInv, VectorTypes
<1>. USE DEF OrderInv, NoneAt, Inside, Allotting, Ending, Goto
<1>1. CASE (\E p \in Threads : MakeThread(p, t)) \/ AllocateThreadVariable(t)
  BY <1>0, <1>1 DEF MakeThread, AllocateThreadVariable
<1>2. CASE FunctionReturns(t)
  <2>1. lock = NoThread /\ NoneAt(Threads, Ending)
    BY <1>2 DEF FunctionReturns
  <2>2. \A u \in Threads : pc[u] \notin Inside \cup Ending
    BY <2>1, NoThreadAssumption DEF MutexInv
  <2>. QED BY <1>0, <1>2, <2>2 DEF FunctionReturns
<1>3. CASE LockList(t)
  <2>1. NoneAt(Threads, Ending)
    BY <1>3 DEF LockList
  <2>. QED BY <1>0, <1>3, <2>1 DEF LockList
<1>4. CASE \/ InitializeVector(t) \/ AddNext(t) \/ AddHead(t) \/ InitializeUnlock(t)
           \/ AllocateOffset(t) \/ GrowDefault(t) \/ GrowWalk(t)
           \/ AllocateDefault(t) \/ UpdateWalk(t) \/ AllocateUnlock(t)
  <2>1. pc[t] \in Inside /\ pc'[t] \notin Ending /\ \A u \in Threads : u # t => pc'[u] = pc[u]
    BY <1>0, <1>4
    DEF InitializeVector, AddNext, AddHead, InitializeUnlock, AllocateOffset, GrowDefault,
        GrowWalk, AllocateDefault, UpdateWalk, AllocateUnlock
  <2>. QED BY <2>1
<1>5. CASE \/ \E v \in Variables : WriteThreadVariable(t, v)
           \/ RemoveTest(t) \/ RemoveFirst(t) \/ RemoveWalk(t) \/ RemoveFree(t)
  <2>1. /\ \A u \in Threads : u # t => pc'[u] = pc[u]
        /\ pc[t] \in Ending \cup {"run"} /\ pc'[t] \in Ending \cup {"run", "dead"}
        /\ pc'[t] \in Ending => pc[t] \in Ending
    BY <1>0, <1>5 DEF WriteThreadVariable, RemoveTest, RemoveFirst, RemoveWalk, RemoveFree
  <2>. QED BY <2>1
<1>. QED BY <1>1, <1>2, <1>3, <1>4, <1>5 DEF Acts

\* While a thread has the lock nobody else does, and nobody ends; while a thread
\* ends nobody else ends or has the lock.
LEMMA Alone ==
  ASSUME MutexInv, OrderInv, NEW t \in Threads, NEW u \in Threads, u # t
  PROVE  /\ pc[t] \in Inside => pc[u] \notin Inside /\ pc[u] \notin Ending
         /\ pc[t] \in Ending => pc[u] \notin Inside \cup Ending
BY DEF MutexInv, OrderInv, Inside, Allotting, Ending

-----------------------------------------------------------------------------
(* The list.                                                               *)

\* A step that does not touch the list nor what a walk says of it.
LEMMA ListKept ==
  ASSUME ListInv, head' = head, next' = next, cur' = cur, last' = last,
         \A u \in Threads : Member(u)' <=> Member(u),
         \A u \in Threads : pc'[u] \in {"i_head", "x_first", "x_walk"} => pc'[u] = pc[u],
         \A u \in Threads : pc'[u] \in {"g_walk", "a_walk"} =>
           pc'[u] = pc[u] /\ UNCHANGED <<vectors, listed, default, offset, assigned>>
  PROVE  ListInv'
<1>0. PICK n \in Nat : \E s \in [1 .. n -> Threads] :
        Spelled(n, s) /\ \A u \in Threads : WalkOf(n, s, u)
  BY DEF ListInv
<1>1. PICK s \in [1 .. n -> Threads] : Spelled(n, s) /\ \A u \in Threads : WalkOf(n, s, u)
  BY <1>0
<1>2. Spelled(n, s)'
  BY <1>1 DEF Spelled, At
<1>3. ASSUME NEW u \in Threads PROVE WalkOf(n, s, u)'
  <2>0. WalkOf(n, s, u)
    BY <1>1
  <2>1. CASE pc'[u] = "g_walk"
    BY <2>0, <2>1 DEF WalkOf, At, Current
  <2>2. CASE pc'[u] = "a_walk"
    BY <2>0, <2>2 DEF WalkOf, At, Right, Own
  <2>3. CASE pc'[u] = "x_walk"
    BY <2>0, <2>3 DEF WalkOf, At
  <2>4. CASE pc'[u] \notin {"g_walk", "a_walk", "x_walk"}
    BY <2>4 DEF WalkOf
  <2>. QED BY <2>1, <2>2, <2>3, <2>4
<1>4. \A u \in Threads : pc'[u] \in {"i_head", "x_first"} => pc'[u] = pc[u]
  OBVIOUS
<1>. QED BY <1>2, <1>3, <1>4 DEF ListInv

\* The elements of the list, and what is known of them.
Listing(n, s) ==
  /\ n \in Nat /\ s \in [1 .. n -> Threads]
  /\ Spelled(n, s)
  /\ \A t \in Threads : WalkOf(n, s, t)

\* Labels at which the invariant of the list says more of a thread.
Walking == {"i_head", "g_walk", "a_walk", "x_first", "x_walk"}

LEMMA OthersElsewhere ==
  ASSUME TypeInv, MutexInv, OrderInv, NEW t \in Threads, pc[t] \in Inside \cup Ending,
         NEW u \in Threads, u # t
  PROVE  pc[u] \notin Walking
BY Alone DEF Walking, Inside, Allotting, Starting, Allocating, Ending

\* The invariant of the list after a step of the only thread that may walk it.
LEMMA ListAgain ==
  ASSUME NEW n, NEW s, NEW t \in Threads,
         n \in Nat, s \in [1 .. n -> Threads], Spelled(n, s)', WalkOf(n, s, t)',
         \A u \in Threads : u # t => pc'[u] \notin Walking,
         pc'[t] = "i_head" => next'[t] = head', pc'[t] = "x_first" => head' = t
  PROVE  ListInv'
<1>1. ASSUME NEW u \in Threads PROVE WalkOf(n, s, u)'
  <2>1. CASE u = t
    BY <2>1
  <2>2. CASE u # t
    BY <2>2 DEF WalkOf, Walking
  <2>. QED BY <2>1, <2>2
<1>. QED BY <1>1 DEF ListInv, Walking

LEMMA ListSteady ==
  ASSUME TypeInv, MutexInv, OrderInv, ListInv, NEW t \in Threads,
         \/ \E p \in Threads : MakeThread(p, t)
         \/ LockList(t) \/ InitializeVector(t) \/ InitializeUnlock(t)
         \/ AllocateThreadVariable(t) \/ AllocateOffset(t) \/ AllocateUnlock(t)
         \/ \E v \in Variables : WriteThreadVariable(t, v)
         \/ FunctionReturns(t) \/ RemoveFree(t)
  PROVE  ListInv'
<1>0. pc \in [Threads -> Labels]
  BY DEF TypeInv, VectorTypes
<1>. USE DEF Goto
<1>1. head' = head /\ next' = next /\ cur' = cur /\ last' = last
  BY DEF MakeThread, LockList, InitializeVector, InitializeUnlock, AllocateThreadVariable,
         AllocateOffset, AllocateUnlock, WriteThreadVariable, FunctionReturns, RemoveFree, list
<1>2. /\ \A u \in Threads : u # t => pc'[u] = pc[u]
      /\ Member(t)' <=> Member(t)
      /\ pc'[t] \in Walking => pc'[t] = pc[t]
  BY <1>0
  DEF MakeThread, LockList, InitializeVector, InitializeUnlock, AllocateThreadVariable,
      AllocateOffset, AllocateUnlock, WriteThreadVariable, FunctionReturns, RemoveFree, Member,
      Allocating, Walking
<1>3. \A u \in Threads : Member(u)' <=> Member(u)
  BY <1>2 DEF Member
<1>4. \A u \in Threads : pc'[u] \in Walking => pc'[u] = pc[u]
  BY <1>2
<1>5. ASSUME NEW u \in Threads, pc'[u] \in {"g_walk", "a_walk"}
      PROVE  UNCHANGED <<vectors, listed, default, offset, assigned>>
  <2>1. pc[u] \in {"g_walk", "a_walk"}
    BY <1>4, <1>5 DEF Walking
  <2>2. pc[u] \in Walking /\ pc[u] \in Inside
    BY <2>1 DEF Walking, Inside, Allotting
  <2>3. CASE InitializeVector(t) \/ AllocateOffset(t)
    <3>1. pc[t] \in {"i_vector", "a_offset"}
      BY <2>3 DEF InitializeVector, AllocateOffset
    <3>2. t # u /\ pc[t] \in Inside \cup Ending
      BY <2>1, <3>1 DEF Inside
    <3>. QED BY <2>2, <3>2, OthersElsewhere
  <2>4. CASE \E v \in Variables : WriteThreadVariable(t, v)
    BY <2>2, <2>4, NoThreadAssumption DEF MutexInv, WriteThreadVariable
  <2>5. CASE /\ ~InitializeVector(t) /\ ~AllocateOffset(t)
             /\ ~\E v \in Variables : WriteThreadVariable(t, v)
    BY <2>5
    DEF MakeThread, LockList, InitializeUnlock, AllocateThreadVariable, AllocateUnlock,
        FunctionReturns, RemoveFree, memory, list
  <2>. QED BY <2>3, <2>4, <2>5
<1>. QED BY <1>1, <1>3, <1>4, <1>5, ListKept DEF Walking

-----------------------------------------------------------------------------
(* A thread is put into the list.                                          *)

LEMMA ListAddNext ==
  ASSUME TypeInv, MutexInv, OrderInv, ListInv, NEW t \in Threads, AddNext(t)
  PROVE  ListInv'
<1>1. PICK n, s : Listing(n, s)
  BY DEF ListInv, Listing
<1>2. /\ pc \in [Threads -> Labels] /\ next \in [Threads -> Linked]
      /\ pc[t] = "i_next" /\ pc' = [pc EXCEPT ![t] = "i_head"]
      /\ next' = [next EXCEPT ![t] = head] /\ head' = head
  BY DEF TypeInv, VectorTypes, LinksInv, AddNext, Goto
<1>3. \A u \in Threads : Member(u)' <=> Member(u)
  BY <1>2 DEF Member, Allocating
<1>4. ~Member(t)
  BY <1>2 DEF Member, Allocating
<1>5. Spelled(n, s)'
  <2>1. \A i \in 1 .. n : s[i] \in Threads /\ s[i] # t
    BY <1>1, <1>4 DEF Listing, Spelled
  <2>. QED BY <1>1, <1>2, <1>3, <2>1 DEF Listing, Spelled, At
<1>6. WalkOf(n, s, t)'
  BY <1>2 DEF WalkOf
<1>7. \A u \in Threads : u # t => pc'[u] \notin Walking
  BY <1>2, OthersElsewhere DEF Inside
<1>. QED BY <1>1, <1>2, <1>5, <1>6, <1>7, ListAgain DEF Listing

\* The list with one more element in front.
Pushed(n, s, t) == [i \in 1 .. n + 1 |-> IF i = 1 THEN t ELSE s[i - 1]]

LEMMA ListAddHead ==
  ASSUME TypeInv, MutexInv, OrderInv, ListInv, NEW t \in Threads, AddHead(t)
  PROVE  ListInv'
<1>1. PICK n, s : Listing(n, s)
  BY DEF ListInv, Listing
<1>2. /\ pc \in [Threads -> Labels] /\ pc[t] = "i_head" /\ pc' = [pc EXCEPT ![t] = "i_unlock"]
      /\ head' = t /\ next' = next /\ next[t] = head
  BY DEF TypeInv, VectorTypes, ListInv, AddHead, Goto
<1>. DEFINE z == Pushed(n, s, t)
<1>3. /\ n \in Nat /\ n + 1 \in Nat /\ s \in [1 .. n -> Threads] /\ z \in [1 .. n + 1 -> Threads]
      /\ z[1] = t /\ \A i \in 1 .. n : z[i + 1] = s[i]
  BY <1>1 DEF Listing, Pushed
<1>. HIDE DEF z
<1>4. \A i \in 1 .. n + 1 : i = 1 \/ \E j \in 1 .. n : i = j + 1
  <2>. SUFFICES ASSUME NEW i \in 1 .. n + 1, i # 1 PROVE \E j \in 1 .. n : i = j + 1
    OBVIOUS
  <2>1. i - 1 \in 1 .. n /\ i = (i - 1) + 1
    BY <1>3
  <2>. QED BY <2>1
<1>5. Spelled(n, s)
  BY <1>1 DEF Listing
<1>6. ~Member(t) /\ \A u \in Threads : Member(u)' <=> Member(u) \/ u = t
  BY <1>2 DEF Member, Allocating
<1>7. \A i \in 1 .. n : s[i] # t
  BY <1>3, <1>5, <1>6 DEF Spelled
<1>8. \A i \in 0 .. n : At(n + 1, z, i + 2) = At(n, s, i + 1)
  BY <1>3 DEF At
<1>9. Spelled(n + 1, z)'
  <2>1. head' = At(n + 1, z, 1)
    BY <1>2, <1>3 DEF At
  <2>2. ASSUME NEW i \in 1 .. n + 1 PROVE next'[z[i]] = At(n + 1, z, i + 1)
    <3>1. CASE i = 1
      <4>1. next'[z[1]] = head /\ head = At(n, s, 1)
        BY <1>2, <1>3, <1>5 DEF Spelled
      <4>2. At(n + 1, z, 2) = At(n, s, 1)
        BY <1>3 DEF At
      <4>. QED BY <3>1, <4>1, <4>2
    <3>2. CASE i # 1
      <4>1. PICK j \in 1 .. n : i = j + 1
        BY <1>4, <3>2
      <4>2. z[i] = s[j] /\ next[s[j]] = At(n, s, j + 1)
        BY <1>3, <1>5, <4>1 DEF Spelled
      <4>3. At(n + 1, z, j + 2) = At(n, s, j + 1) /\ i + 1 = j + 2
        BY <1>3, <1>8, <4>1
      <4>. QED BY <1>2, <4>2, <4>3
    <3>. QED BY <3>1, <3>2
  <2>3. \A i, j \in 1 .. n + 1 : z[i] = z[j] => i = j
    <3>1. \A i, j \in 1 .. n : s[i] = s[j] => i = j
      BY <1>5 DEF Spelled
    <3>. SUFFICES ASSUME NEW i \in 1 .. n + 1, NEW j \in 1 .. n + 1, z[i] = z[j] PROVE i = j
      OBVIOUS
    <3>2. CASE i = 1 \/ j = 1
      BY <1>3, <1>4, <1>7, <3>2
    <3>3. CASE i # 1 /\ j # 1
      <4>1. PICK k \in 1 .. n : i = k + 1
        BY <1>4, <3>3
      <4>2. PICK m \in 1 .. n : j = m + 1
        BY <1>4, <3>3
      <4>. QED BY <1>3, <3>1, <4>1, <4>2
    <3>. QED BY <3>2, <3>3
  <2>4. ASSUME NEW u \in Threads PROVE Member(u)' <=> \E i \in 1 .. n + 1 : z[i] = u
    <3>1. Member(u) <=> \E i \in 1 .. n : s[i] = u
      BY <1>5 DEF Spelled
    <3>2. (\E i \in 1 .. n + 1 : z[i] = u) <=> u = t \/ \E i \in 1 .. n : s[i] = u
      <4>1. 1 \in 1 .. n + 1 /\ \A i \in 1 .. n : i + 1 \in 1 .. n + 1
        BY <1>3
      <4>2. ASSUME NEW i \in 1 .. n + 1, z[i] = u PROVE u = t \/ \E j \in 1 .. n : s[j] = u
        BY <1>3, <1>4, <4>2
      <4>3. ASSUME NEW i \in 1 .. n, s[i] = u PROVE \E j \in 1 .. n + 1 : z[j] = u
        <5>1. i + 1 \in 1 .. n + 1 /\ z[i + 1] = u
          BY <1>3, <4>1, <4>3
        <5>. QED BY <5>1
      <4>. QED BY <1>3, <4>1, <4>2, <4>3
    <3>. QED BY <1>6, <3>1, <3>2
  <2>. QED BY <2>1, <2>2, <2>3, <2>4 DEF Spelled, At
<1>10. WalkOf(n + 1, z, t)'
  BY <1>2 DEF WalkOf
<1>11. \A u \in Threads : u # t => pc'[u] \notin Walking
  BY <1>2, OthersElsewhere DEF Inside
<1>12. pc'[t] \notin {"i_head", "x_first"}
  BY <1>2
<1>. QED BY <1>3, <1>9, <1>10, <1>11, <1>12, ListAgain

-----------------------------------------------------------------------------
(* The walks of an allocation.                                             *)

\* The elements are as before if the links are and the members are.
LEMMA SpelledKept ==
  ASSUME NEW n, NEW s, Spelled(n, s), head' = head, next' = next,
         \A u \in Threads : Member(u)' <=> Member(u)
  PROVE  Spelled(n, s)'
BY DEF Spelled, At

\* A walk starts at the first element.
LEMMA ListWalkStarts ==
  ASSUME TypeInv, MutexInv, OrderInv, ListInv, NEW t \in Threads,
         GrowDefault(t) \/ AllocateDefault(t)
  PROVE  ListInv'
<1>1. PICK n, s : Listing(n, s)
  BY DEF ListInv, Listing
<1>2. /\ pc \in [Threads -> Labels] /\ cur \in [Threads -> Linked]
      /\ pc[t] \in {"g_default", "a_default"}
      /\ pc' = [pc EXCEPT ![t] = IF pc[t] = "g_default" THEN "g_walk" ELSE "a_walk"]
      /\ cur'[t] = head /\ head' = head /\ next' = next
  BY DEF TypeInv, VectorTypes, LinksInv, GrowDefault, AllocateDefault, Goto, list
<1>3. \A u \in Threads : Member(u)' <=> Member(u)
  BY <1>2 DEF Member, Allocating
<1>4. Spelled(n, s)'
  BY <1>1, <1>2, <1>3, SpelledKept DEF Listing
<1>5. WalkOf(n, s, t)'
  <2>1. n \in Nat /\ 1 \in 1 .. n + 1 /\ cur'[t] = At(n, s, 1) /\ \A j \in 1 .. n : ~(j < 1)
    BY <1>1, <1>2 DEF Listing, Spelled
  <2>2. pc'[t] \in {"g_walk", "a_walk"}
    BY <1>2
  <2>. QED BY <2>1, <2>2 DEF WalkOf, At
<1>6. \A u \in Threads : u # t => pc'[u] \notin Walking
  BY <1>2, OthersElsewhere DEF Inside, Allotting
<1>7. pc'[t] \notin {"i_head", "x_first"}
  BY <1>2
<1>. QED BY <1>1, <1>4, <1>5, <1>6, <1>7, ListAgain DEF Listing

LEMMA ListGrowWalk ==
  ASSUME TypeInv, MutexInv, OrderInv, ListInv, NEW t \in Threads, GrowWalk(t)
  PROVE  ListInv'
<1>1. PICK n, s : Listing(n, s)
  BY DEF ListInv, Listing
<1>2. /\ pc \in [Threads -> Labels] /\ cur \in [Threads -> Linked] /\ pc[t] = "g_walk"
      /\ pc' = [pc EXCEPT ![t] = IF cur[t] = NoThread THEN "a_default" ELSE "g_walk"]
      /\ head' = head /\ next' = next /\ default' = default
  BY DEF TypeInv, VectorTypes, LinksInv, GrowWalk, Goto, list
<1>3. \A u \in Threads : Member(u)' <=> Member(u)
  BY <1>2 DEF Member, Allocating
<1>4. Spelled(n, s) /\ Spelled(n, s)' /\ n \in Nat /\ s \in [1 .. n -> Threads]
  BY <1>1, <1>2, <1>3, SpelledKept DEF Listing
<1>5. WalkOf(n, s, t)'
  <2>1. CASE cur[t] = NoThread
    BY <1>2, <2>1 DEF WalkOf
  <2>2. CASE cur[t] # NoThread
    <3>1. PICK i \in 1 .. n + 1 :
            /\ cur[t] = At(n, s, i)
            /\ \A j \in 1 .. n : j < i => Len(Current(s[j])) = Len(default)
      BY <1>1, <1>2 DEF Listing, WalkOf
    <3>2. i \in 1 .. n /\ cur[t] = s[i] /\ s[i] \in Threads /\ next[s[i]] = At(n, s, i + 1)
      BY <1>4, <2>2, <3>1 DEF At, Spelled
    <3>3. Passed(s[i]) /\ cur'[t] = next[s[i]]
      BY <1>2, <2>2, <3>2 DEF GrowWalk, Passed
    <3>4. VectorTypes /\ listed[s[i]] >= 1
      BY <1>2, <2>2, <3>2 DEF TypeInv, Linked, Initialized
    <3>5. /\ Len(vectors'[s[i]][listed'[s[i]]]) = Len(default)
          /\ \A w \in Threads : w # s[i] => vectors'[w] = vectors[w] /\ listed'[w] = listed[w]
      <4>1. /\ Len(vectors'[s[i]][Len(vectors[s[i]]) + 1]) = Len(default)
            /\ listed'[s[i]] = Len(vectors[s[i]]) + 1
            /\ \A w \in Threads : w # s[i] => vectors'[w] = vectors[w] /\ listed'[w] = listed[w]
        BY <3>2, <3>3, <3>4, GrowEffect
      <4>. QED BY <4>1
    <3>6. ASSUME NEW j \in 1 .. n, j < i + 1 PROVE Len(Current(s[j]))' = Len(default')
      <4>1. CASE j = i
        BY <1>2, <3>5, <4>1 DEF Current
      <4>2. CASE j # i
        <5>1. j < i /\ s[j] # s[i] /\ s[j] \in Threads
          BY <1>4, <3>2, <3>6, <4>2 DEF Spelled
        <5>2. Len(Current(s[j])) = Len(default)
          BY <3>1, <5>1
        <5>. QED BY <1>2, <3>5, <5>1, <5>2 DEF Current
      <4>. QED BY <4>1, <4>2
    <3>7. i + 1 \in 1 .. n + 1 /\ cur'[t] = At(n, s, i + 1) /\ pc'[t] = "g_walk"
      BY <1>2, <1>4, <2>2, <3>2, <3>3
    <3>. QED BY <3>6, <3>7 DEF WalkOf, At
  <2>. QED BY <2>1, <2>2
<1>6. \A u \in Threads : u # t => pc'[u] \notin Walking
  BY <1>2, OthersElsewhere DEF Inside, Allotting
<1>7. pc'[t] \notin {"i_head", "x_first"}
  BY <1>2
<1>. QED BY <1>4, <1>5, <1>6, <1>7, ListAgain

\* The thread that the walk has come to gets the new variable, and keeps its
\* values of the others.
LEMMA GivenVariable ==
  ASSUME TypeInv, DataInv, NEW t \in Threads, pc[t] \in Allotting,
         NEW u \in Threads, VectorOf(u),
         vectors' = [vectors EXCEPT ![u][listed[u]][offset] = Initial],
         UNCHANGED <<offset, listed, assigned>>
  PROVE  /\ Right(u, offset)'
         /\ \A v \in handles : Right(u, v) => Right(u, v)'
         /\ Len(vectors'[u]) = Len(vectors[u])
         /\ Len(Own(u))' = Len(Own(u)) /\ Len(Current(u))' = Len(Current(u))
<1>1. VectorTypes /\ RoomInv /\ OffsetInv /\ offset \in Nat /\ vectors \in [Threads -> Seq(Vectors)]
  BY DEF TypeInv, DataInv, RoomInv, VectorTypes
<1>2. listed[u] \in 1 .. Len(vectors[u]) /\ listed[u] >= 1 /\ Len(vectors[u]) \in Nat
  BY <1>1 DEF VectorOf
<1>3. OneSlotDiffers(vectors[u], listed[u], offset, Initial, vectors'[u])
  BY <1>1, <1>2, UpdateEffect
<1>4. /\ 1 \in 1 .. Len(vectors[u]) /\ Len(Own(u))' = Len(Own(u))
      /\ Len(Current(u))' = Len(Current(u)) /\ Len(vectors'[u]) = Len(vectors[u])
      /\ \A m \in 1 .. Len(Own(u)) :
           Own(u)'[m] = IF listed[u] = 1 /\ m = offset THEN Initial ELSE Own(u)[m]
  BY <1>2, <1>3 DEF OneSlotDiffers, Own, Current
<1>5. offset \notin handles /\ assigned[u][offset] = Initial
  <2>1. offset \in Variables /\ offset \notin handles
    BY <1>1, OffsetBound DEF Variables, RoomInv, OffsetInv
  <2>. QED BY <1>1, <2>1 DEF OffsetInv
<1>6. Own(u) \in Vectors /\ Len(Own(u)) \in Nat
  BY <1>1, <1>4, ElementOfSeq DEF Own, Vectors
<1>7. Right(u, offset)'
  <2>1. listed[u] = 1 \/ Len(Own(u)) < offset
    BY DEF VectorOf
  <2>. QED BY <1>1, <1>4, <1>5, <1>6, <2>1 DEF Right
<1>8. ASSUME NEW v \in handles, Right(u, v) PROVE Right(u, v)'
  BY <1>4, <1>5, <1>8 DEF Right
<1>. QED BY <1>4, <1>7, <1>8

LEMMA ListUpdateWalk ==
  ASSUME TypeInv, MutexInv, OrderInv, ListInv, DataInv, NEW t \in Threads, UpdateWalk(t)
  PROVE  ListInv'
<1>1. PICK n, s : Listing(n, s)
  BY DEF ListInv, Listing
<1>2. /\ pc \in [Threads -> Labels] /\ cur \in [Threads -> Linked] /\ pc[t] = "a_walk"
      /\ pc' = [pc EXCEPT ![t] = IF cur[t] = NoThread THEN "a_unlock" ELSE "a_walk"]
      /\ head' = head /\ next' = next /\ UNCHANGED <<offset, listed, assigned>>
  BY DEF TypeInv, VectorTypes, LinksInv, UpdateWalk, Goto, list
<1>3. \A u \in Threads : Member(u)' <=> Member(u)
  BY <1>2 DEF Member, Allocating
<1>4. Spelled(n, s) /\ Spelled(n, s)' /\ n \in Nat /\ s \in [1 .. n -> Threads]
  BY <1>1, <1>2, <1>3, SpelledKept DEF Listing
<1>5. WalkOf(n, s, t)'
  <2>1. CASE cur[t] = NoThread
    BY <1>2, <2>1 DEF WalkOf
  <2>2. CASE cur[t] # NoThread
    <3>1. PICK i \in 1 .. n + 1 :
            cur[t] = At(n, s, i) /\ \A j \in 1 .. n : j < i => Right(s[j], offset)
      BY <1>1, <1>2 DEF Listing, WalkOf
    <3>2. i \in 1 .. n /\ cur[t] = s[i] /\ s[i] \in Threads /\ next[s[i]] = At(n, s, i + 1)
      BY <1>4, <2>2, <3>1 DEF At, Spelled
    <3>3. /\ vectors' = [vectors EXCEPT ![s[i]][listed[s[i]]][offset] = Initial]
          /\ cur'[t] = next[s[i]]
      BY <1>2, <2>2, <3>2 DEF UpdateWalk
    <3>4. VectorOf(s[i])
      BY <1>4, <3>2 DEF Spelled, DataInv, Holder
    <3>5. Right(s[i], offset)'
      BY <1>2, <3>2, <3>3, <3>4, GivenVariable DEF Allotting
    <3>6. \A w \in Threads : w # s[i] => vectors'[w] = vectors[w]
      BY <3>3 DEF TypeInv, VectorTypes
    <3>7. ASSUME NEW j \in 1 .. n, j < i + 1 PROVE Right(s[j], offset)'
      <4>1. CASE j = i
        BY <3>5, <4>1
      <4>2. CASE j # i
        <5>1. j < i /\ s[j] # s[i] /\ s[j] \in Threads
          BY <1>4, <3>2, <3>7, <4>2 DEF Spelled
        <5>2. Right(s[j], offset)
          BY <3>1, <5>1
        <5>. QED BY <1>2, <3>6, <5>1, <5>2 DEF Right, Own
      <4>. QED BY <4>1, <4>2
    <3>8. i + 1 \in 1 .. n + 1 /\ cur'[t] = At(n, s, i + 1) /\ pc'[t] = "a_walk"
      BY <1>2, <1>4, <2>2, <3>2, <3>3
    <3>. QED BY <3>7, <3>8 DEF WalkOf, At
  <2>. QED BY <2>1, <2>2
<1>6. \A u \in Threads : u # t => pc'[u] \notin Walking
  BY <1>2, OthersElsewhere DEF Inside, Allotting
<1>7. pc'[t] \notin {"i_head", "x_first"}
  BY <1>2
<1>. QED BY <1>4, <1>5, <1>6, <1>7, ListAgain

-----------------------------------------------------------------------------
(* A thread is taken out of the list.                                      *)

LEMMA ListRemoveTest ==
  ASSUME TypeInv, MutexInv, OrderInv, ListInv, NEW t \in Threads, RemoveTest(t)
  PROVE  ListInv'
<1>1. PICK n, s : Listing(n, s)
  BY DEF ListInv, Listing
<1>2. /\ pc \in [Threads -> Labels] /\ cur \in [Threads -> Linked] /\ last \in [Threads -> Linked]
      /\ pc[t] = "x_head" /\ head' = head /\ next' = next
  BY DEF TypeInv, VectorTypes, LinksInv, RemoveTest, Goto, list
<1>3. Spelled(n, s) /\ n \in Nat /\ s \in [1 .. n -> Threads] /\ Member(t)
  BY <1>1, <1>2 DEF Listing, Member
<1>4. 1 \in 1 .. n /\ head = s[1] /\ head # NoThread /\ next[head] = At(n, s, 2)
  <2>1. PICK i \in 1 .. n : s[i] = t
    BY <1>3 DEF Spelled
  <2>2. 1 \in 1 .. n
    BY <1>3, <2>1
  <2>. QED BY <1>3, <2>2, NoThreadAssumption DEF Spelled, At
<1>5. \A u \in Threads : u # t => pc[u] \notin Walking
  BY <1>2, OthersElsewhere DEF Ending
<1>6. CASE head = t
  <2>1. pc' = [pc EXCEPT ![t] = "x_first"]
    BY <1>4, <1>6 DEF RemoveTest, Goto
  <2>2. \A u \in Threads : Member(u)' <=> Member(u)
    BY <1>2, <2>1 DEF Member, Allocating
  <2>3. Spelled(n, s)'
    BY <1>2, <1>3, <2>2, SpelledKept
  <2>4. WalkOf(n, s, t)' /\ pc'[t] = "x_first" /\ \A u \in Threads : u # t => pc'[u] = pc[u]
    BY <1>2, <2>1 DEF WalkOf
  <2>. QED BY <1>2, <1>3, <1>5, <1>6, <2>3, <2>4, ListAgain
<1>7. CASE head # t
  <2>1. pc' = [pc EXCEPT ![t] = "x_walk"] /\ last'[t] = head /\ cur'[t] = next[head]
    BY <1>2, <1>4, <1>7 DEF RemoveTest, Goto
  <2>2. \A u \in Threads : Member(u)' <=> Member(u)
    BY <1>2, <2>1 DEF Member, Allocating
  <2>3. Spelled(n, s)'
    BY <1>2, <1>3, <2>2, SpelledKept
  <2>4. pc'[t] = "x_walk" /\ \A u \in Threads : u # t => pc'[u] = pc[u]
    BY <1>2, <2>1
  <2>5. last'[t] = s[1] /\ cur'[t] = At(n, s, 1 + 1) /\ \A j \in 1 .. 1 : s[j] # t
    BY <1>4, <1>7, <2>1
  <2>6. WalkOf(n, s, t)'
    BY <1>4, <2>4, <2>5 DEF WalkOf, At
  <2>. QED BY <1>3, <1>5, <2>3, <2>4, <2>6, ListAgain
<1>. QED BY <1>6, <1>7

\* The list without its k-th element.
Cut(n, s, k) == [i \in 1 .. n - 1 |-> IF i < k THEN s[i] ELSE s[i + 1]]

\* Once the links lead past the element of t, the list is the rest of it.
LEMMA ListCut ==
  ASSUME NEW n \in Nat, NEW s \in [1 .. n -> Threads], Spelled(n, s), NEW t \in Threads,
         NEW k \in 1 .. n, s[k] = t,
         head' = IF k = 1 THEN next[t] ELSE head,
         \A i \in 1 .. n : i # k => next'[s[i]] = IF i + 1 = k THEN next[t] ELSE next[s[i]],
         \A u \in Threads : Member(u)' <=> Member(u) /\ u # t
  PROVE  /\ n - 1 \in Nat /\ Cut(n, s, k) \in [1 .. n - 1 -> Threads]
         /\ Spelled(n - 1, Cut(n, s, k))'
<1>. DEFINE z == Cut(n, s, k)
<1>1. /\ n - 1 \in Nat /\ z \in [1 .. n - 1 -> Threads]
      /\ \A i \in 1 .. n - 1 : z[i] = IF i < k THEN s[i] ELSE s[i + 1]
  BY DEF Cut
<1>. HIDE DEF z
<1>2. \A i, j \in 1 .. n : s[i] = s[j] => i = j
  BY DEF Spelled
<1>3. At(n, s, k) = t /\ next[t] = At(n, s, k + 1)
  BY DEF Spelled, At
<1>4. \A i \in 1 .. n : At(n - 1, z, i) = IF i < k THEN At(n, s, i) ELSE At(n, s, i + 1)
  BY <1>1 DEF At
<1>5. head' = At(n - 1, z, 1)
  <2>1. head = At(n, s, 1)
    BY DEF Spelled
  <2>2. 1 \in 1 .. n
    OBVIOUS
  <2>3. At(n - 1, z, 1) = IF 1 < k THEN At(n, s, 1) ELSE At(n, s, 1 + 1)
    BY <1>4, <2>2
  <2>4. CASE k = 1
    BY <1>3, <2>3, <2>4
  <2>5. CASE k # 1
    BY <2>1, <2>3, <2>5
  <2>. QED BY <2>4, <2>5
<1>6. ASSUME NEW i \in 1 .. n - 1 PROVE next'[z[i]] = At(n - 1, z, i + 1)
  <2>1. i \in 1 .. n /\ i + 1 \in 1 .. n
    OBVIOUS
  <2>2. \A j \in 1 .. n : next[s[j]] = At(n, s, j + 1)
    BY DEF Spelled
  <2>3. At(n - 1, z, i + 1) = IF i + 1 < k THEN At(n, s, i + 1) ELSE At(n, s, (i + 1) + 1)
    BY <1>4, <2>1
  <2>4. CASE i < k
    <3>1. z[i] = s[i] /\ next'[s[i]] = IF i + 1 = k THEN next[t] ELSE next[s[i]]
      BY <1>1, <2>1, <2>4
    <3>2. CASE i + 1 = k
      BY <1>3, <2>3, <3>1, <3>2
    <3>3. CASE i + 1 # k
      BY <2>1, <2>2, <2>3, <2>4, <3>1, <3>3
    <3>. QED BY <3>2, <3>3
  <2>5. CASE ~(i < k)
    <3>1. z[i] = s[i + 1] /\ i + 1 # k /\ (i + 1) + 1 # k
      BY <1>1, <2>5
    <3>2. next'[s[i + 1]] = next[s[i + 1]]
      BY <2>1, <3>1
    <3>. QED BY <2>1, <2>2, <2>3, <2>5, <3>1, <3>2
  <2>. QED BY <2>4, <2>5
<1>7. ASSUME NEW i \in 1 .. n - 1, NEW j \in 1 .. n - 1, z[i] = z[j] PROVE i = j
  BY <1>1, <1>2, <1>7
<1>8. ASSUME NEW u \in Threads PROVE Member(u)' <=> \E i \in 1 .. n - 1 : z[i] = u
  <2>1. Member(u) <=> \E i \in 1 .. n : s[i] = u
    BY DEF Spelled
  <2>2. ASSUME NEW i \in 1 .. n - 1, z[i] = u PROVE u # t /\ \E j \in 1 .. n : s[j] = u
    <3>1. i \in 1 .. n /\ i + 1 \in 1 .. n
      OBVIOUS
    <3>. QED BY <1>1, <1>2, <2>2, <3>1
  <2>3. ASSUME NEW j \in 1 .. n, s[j] = u, u # t PROVE \E i \in 1 .. n - 1 : z[i] = u
    <3>1. CASE j < k
      <4>1. j \in 1 .. n - 1 /\ z[j] = u
        BY <1>1, <2>3, <3>1
      <4>. QED BY <4>1
    <3>2. CASE ~(j < k)
      <4>1. j - 1 \in 1 .. n - 1 /\ z[j - 1] = u
        <5>1. j # k
          BY <2>3
        <5>2. j - 1 \in 1 .. n - 1 /\ ~(j - 1 < k) /\ (j - 1) + 1 = j
          BY <3>2, <5>1
        <5>. QED BY <1>1, <2>3, <5>2
      <4>. QED BY <4>1
    <3>. QED BY <3>1, <3>2
  <2>. QED BY <2>1, <2>2, <2>3
<1>9. Spelled(n - 1, z)'
  BY <1>5, <1>6, <1>7, <1>8 DEF Spelled, At
<1>. QED BY <1>1, <1>9 DEF z

LEMMA ListRemoveFirst ==
  ASSUME TypeInv, MutexInv, OrderInv, ListInv, NEW t \in Threads, RemoveFirst(t)
  PROVE  ListInv'
<1>1. PICK n, s : Listing(n, s)
  BY DEF ListInv, Listing
<1>2. /\ pc \in [Threads -> Labels] /\ pc[t] = "x_first" /\ pc' = [pc EXCEPT ![t] = "x_free"]
      /\ head = t /\ head' = next[t] /\ next' = next
  BY DEF TypeInv, VectorTypes, ListInv, RemoveFirst, Goto
<1>3. Spelled(n, s) /\ n \in Nat /\ s \in [1 .. n -> Threads]
  BY <1>1 DEF Listing
<1>4. 1 \in 1 .. n /\ s[1] = t
  BY <1>2, <1>3, NoThreadAssumption DEF Spelled, At
<1>5. \A u \in Threads : Member(u)' <=> Member(u) /\ u # t
  BY <1>2 DEF Member, Allocating
<1>6. \A i \in 1 .. n : i # 1 => next'[s[i]] = IF i + 1 = 1 THEN next[t] ELSE next[s[i]]
  BY <1>2, <1>3
<1>. DEFINE z == Cut(n, s, 1)
<1>7. n - 1 \in Nat /\ z \in [1 .. n - 1 -> Threads] /\ Spelled(n - 1, z)'
  BY <1>2, <1>3, <1>4, <1>5, <1>6, ListCut
<1>8. /\ WalkOf(n - 1, z, t)' /\ pc'[t] \notin {"i_head", "x_first"}
      /\ \A u \in Threads : u # t => pc'[u] \notin Walking
  <2>1. pc'[t] = "x_free"
    BY <1>2
  <2>. QED BY <1>2, <2>1, OthersElsewhere DEF WalkOf, Ending
<1>. HIDE DEF z
<1>. QED BY <1>7, <1>8, ListAgain

LEMMA ListRemoveWalk ==
  ASSUME TypeInv, MutexInv, OrderInv, ListInv, NEW t \in Threads, RemoveWalk(t)
  PROVE  ListInv'
<1>1. PICK n, s : Listing(n, s)
  BY DEF ListInv, Listing
<1>2. /\ pc \in [Threads -> Labels] /\ cur \in [Threads -> Linked] /\ last \in [Threads -> Linked]
      /\ next \in [Threads -> Linked] /\ pc[t] = "x_walk" /\ head' = head
  BY DEF TypeInv, VectorTypes, LinksInv, RemoveWalk, Goto
<1>3. Spelled(n, s) /\ n \in Nat /\ s \in [1 .. n -> Threads] /\ Member(t)
  BY <1>1, <1>2 DEF Listing, Member
<1>4. PICK i \in 1 .. n :
        last[t] = s[i] /\ cur[t] = At(n, s, i + 1) /\ \A j \in 1 .. i : s[j] # t
  BY <1>1, <1>2 DEF Listing, WalkOf
<1>5. i + 1 \in 1 .. n /\ cur[t] = s[i + 1] /\ cur[t] # NoThread
  <2>1. PICK m \in 1 .. n : s[m] = t
    BY <1>3 DEF Spelled
  <2>2. ~(m <= i)
    BY <1>4, <2>1
  <2>3. i + 1 \in 1 .. n
    BY <1>3, <2>2
  <2>. QED BY <1>3, <1>4, <2>3, NoThreadAssumption DEF At
<1>6. \A u \in Threads : u # t => pc[u] \notin Walking
  BY <1>2, OthersElsewhere DEF Ending
<1>7. CASE cur[t] = t
  <2>1. pc' = [pc EXCEPT ![t] = "x_free"] /\ next' = [next EXCEPT ![s[i]] = next[t]]
    BY <1>4, <1>5, <1>7 DEF RemoveWalk, Goto
  <2>2. \A u \in Threads : Member(u)' <=> Member(u) /\ u # t
    BY <1>2, <2>1 DEF Member, Allocating
  <2>3. ASSUME NEW j \in 1 .. n, j # i + 1
        PROVE  next'[s[j]] = IF j + 1 = i + 1 THEN next[t] ELSE next[s[j]]
    <3>1. s[j] \in Threads /\ s[i] \in Threads /\ (s[j] = s[i] => j = i)
      BY <1>3 DEF Spelled
    <3>. QED BY <1>2, <2>1, <3>1
  <2>4. head' = IF i + 1 = 1 THEN next[t] ELSE head
    BY <1>2
  <2>. DEFINE z == Cut(n, s, i + 1)
  <2>5. n - 1 \in Nat /\ z \in [1 .. n - 1 -> Threads] /\ Spelled(n - 1, z)'
    <3>. DEFINE k == i + 1
    <3>1. /\ k \in 1 .. n /\ s[k] = t /\ head' = IF k = 1 THEN next[t] ELSE head
          /\ \A j \in 1 .. n : j # k => next'[s[j]] = IF j + 1 = k THEN next[t] ELSE next[s[j]]
      BY <1>5, <1>7, <2>3, <2>4
    <3>. HIDE DEF k
    <3>2. n - 1 \in Nat /\ Cut(n, s, k) \in [1 .. n - 1 -> Threads] /\ Spelled(n - 1, Cut(n, s, k))'
      BY <1>3, <2>2, <3>1, ListCut
    <3>. QED BY <3>2 DEF k
  <2>6. pc'[t] = "x_free" /\ \A u \in Threads : u # t => pc'[u] = pc[u]
    BY <1>2, <2>1
  <2>7. WalkOf(n - 1, z, t)'
    BY <2>6 DEF WalkOf
  <2>. HIDE DEF z
  <2>. QED BY <1>6, <2>5, <2>6, <2>7, ListAgain
<1>8. CASE cur[t] # t
  <2>1. /\ pc' = [pc EXCEPT ![t] = "x_walk"] /\ next' = next
        /\ last'[t] = s[i + 1] /\ cur'[t] = next[s[i + 1]]
    BY <1>2, <1>5, <1>8 DEF RemoveWalk, Goto
  <2>2. \A u \in Threads : Member(u)' <=> Member(u)
    BY <1>2, <2>1 DEF Member, Allocating
  <2>3. Spelled(n, s)'
    BY <1>2, <1>3, <2>1, <2>2, SpelledKept
  <2>4. pc'[t] = "x_walk" /\ \A u \in Threads : u # t => pc'[u] = pc[u]
    BY <1>2, <2>1
  <2>5. cur'[t] = At(n, s, (i + 1) + 1) /\ \A j \in 1 .. i + 1 : s[j] # t
    BY <1>3, <1>4, <1>5, <1>8, <2>1 DEF Spelled
  <2>6. WalkOf(n, s, t)'
    <3>. DEFINE k == i + 1
    <3>1. /\ k \in 1 .. n /\ last'[t] = s[k] /\ cur'[t] = At(n, s, k + 1)
          /\ \A j \in 1 .. k : s[j] # t
      BY <1>5, <2>1, <2>5
    <3>. HIDE DEF k
    <3>. QED BY <2>4, <3>1 DEF WalkOf, At
  <2>. QED BY <1>3, <1>6, <2>3, <2>4, <2>6, ListAgain
<1>. QED BY <1>7, <1>8

LEMMA ListStep ==
  ASSUME TypeInv, MutexInv, OrderInv, ListInv, DataInv, NEW t \in Threads, Acts(t)
  PROVE  ListInv'
BY ListSteady, ListAddNext, ListAddHead, ListWalkStarts, ListGrowWalk, ListUpdateWalk,
   ListRemoveTest, ListRemoveFirst, ListRemoveWalk DEF Acts

-----------------------------------------------------------------------------
(* What is in the vectors.                                                 *)

\* A step that does not touch the vectors, nor what an allocation says of them.
LEMMA DataKept ==
  ASSUME DataInv, UNCHANGED <<offset, default, vectors, key, listed, handles, assigned>>,
         \A u \in Threads : pc[u] \in Allotting \/ pc'[u] \in Allotting => pc'[u] = pc[u],
         \A u \in Threads : Holder(u)' => Holder(u),
         \A u \in Threads : Fresh(u)' => Fresh(u),
         \A u, w \in Threads : pc'[w] = "a_unlock" /\ Member(u)' => Member(u)
  PROVE  DataInv'
<1>1. (Growing' <=> Growing) /\ (Allotted' <=> Allotted)
  BY DEF Growing, Allotted, Allotting
<1>2. OffsetInv'
  <2>1. \A u \in Threads : pc'[u] \in Allotting => pc'[u] = pc[u]
    OBVIOUS
  <2>2. OffsetInv
    BY DEF DataInv
  <2>. QED BY <1>1, <2>1, <2>2 DEF OffsetInv, Allotting
<1>3. ASSUME NEW u \in Threads, Holder(u)' PROVE VectorOf(u)'
  <2>1. VectorOf(u)
    BY <1>3 DEF DataInv, Holder
  <2>. QED BY <1>1, <2>1 DEF VectorOf, Own, Current, Right
<1>4. ASSUME NEW w \in Threads, NEW u \in Threads, pc'[w] = "a_unlock", Member(u)'
      PROVE  Right(u, offset)'
  <2>1. Member(u) /\ pc[w] = "a_unlock"
    BY <1>4 DEF Allotting
  <2>2. Right(u, offset)
    BY <2>1 DEF DataInv
  <2>. QED BY <2>2 DEF Right, Own
<1>5. ASSUME NEW u \in Threads, Fresh(u)' PROVE \A v \in Variables : assigned'[u][v] = Initial
  BY <1>5 DEF DataInv, Fresh
<1>. QED BY <1>2, <1>3, <1>4, <1>5 DEF DataInv, Holder, Fresh

LEMMA DataSteady ==
  ASSUME TypeInv, MutexInv, OrderInv, DataInv, NEW t \in Threads,
         \/ \E p \in Threads : MakeThread(p, t)
         \/ LockList(t) \/ AddNext(t) \/ AddHead(t) \/ InitializeUnlock(t)
         \/ AllocateThreadVariable(t) \/ FunctionReturns(t)
         \/ RemoveTest(t) \/ RemoveFirst(t) \/ RemoveWalk(t) \/ RemoveFree(t)
  PROVE  DataInv'
<1>0. pc \in [Threads -> Labels]
  BY DEF TypeInv, VectorTypes
<1>. USE DEF Goto
<1>1. UNCHANGED <<offset, default, vectors, key, listed, handles, assigned>>
  BY DEF MakeThread, LockList, AddNext, AddHead, InitializeUnlock, AllocateThreadVariable,
         FunctionReturns, RemoveTest, RemoveFirst, RemoveWalk, RemoveFree, memory
<1>2. CASE \/ \E p \in Threads : MakeThread(p, t)
           \/ LockList(t) \/ AddNext(t) \/ AddHead(t) \/ InitializeUnlock(t)
           \/ AllocateThreadVariable(t) \/ FunctionReturns(t)
  <2>1. /\ \A u \in Threads : u # t => pc'[u] = pc[u]
        /\ pc[t] \notin Allotting /\ pc'[t] \notin Allotting
        /\ Holder(t)' => Holder(t)
        /\ Fresh(t)' => Fresh(t)
        /\ Member(t)' /\ ~Member(t) => pc[t] = "i_head"
    BY <1>0, <1>2
    DEF MakeThread, LockList, AddNext, AddHead, InitializeUnlock, AllocateThreadVariable,
        FunctionReturns, Holder, Fresh, Member, Allocating, Allotting
  <2>2. \A u \in Threads : (Holder(u)' => Holder(u)) /\ (Fresh(u)' => Fresh(u))
    BY <2>1 DEF Holder, Fresh, Member
  <2>3. ASSUME NEW u \in Threads, NEW w \in Threads, pc'[w] = "a_unlock", Member(u)'
        PROVE  Member(u)
    <3>1. w # t /\ pc[w] = "a_unlock"
      BY <2>1, <2>3 DEF Allotting
    <3>2. pc[t] # "i_head"
      BY <3>1, Alone DEF Inside, Allotting
    <3>. QED BY <2>1, <2>3, <3>2 DEF Member
  <2>4. \A u \in Threads : pc[u] \in Allotting \/ pc'[u] \in Allotting => pc'[u] = pc[u]
    BY <2>1
  <2>. QED BY <1>1, <2>2, <2>3, <2>4, DataKept
<1>3. CASE RemoveTest(t) \/ RemoveFirst(t) \/ RemoveWalk(t) \/ RemoveFree(t)
  <2>1. /\ \A u \in Threads : u # t => pc'[u] = pc[u]
        /\ pc[t] \in Ending /\ pc'[t] \in Ending \cup {"dead"}
        /\ Member(t)' => Member(t)
    BY <1>0, <1>3
    DEF RemoveTest, RemoveFirst, RemoveWalk, RemoveFree, Ending, Member, Allocating
  <2>2. \A u \in Threads : (Holder(u)' => Holder(u)) /\ (Fresh(u)' => Fresh(u))
                           /\ (Member(u)' => Member(u))
    BY <2>1 DEF Holder, Fresh, Member, Ending
  <2>3. \A u \in Threads : pc[u] \in Allotting \/ pc'[u] \in Allotting => pc'[u] = pc[u]
    BY <2>1 DEF Ending, Allotting
  <2>. QED BY <1>1, <2>2, <2>3, DataKept
<1>. QED BY <1>2, <1>3

\* A vector that a step does not touch.
LEMMA VectorKept ==
  ASSUME TypeInv, NEW u \in Threads, VectorOf(u),
         vectors'[u] = vectors[u], key'[u] = key[u], listed'[u] = listed[u],
         assigned'[u] = assigned[u], handles' = handles,
         offset' \in Nat, offset <= offset',
         Len(default') \in Nat, Len(default) <= Len(default'),
         Growing' => Growing \/ Len(Own(u)) < offset',
         ~Growing' => Len(Current(u)) = Len(default')
  PROVE  VectorOf(u)'
<1>1. /\ offset \in Nat /\ Len(default) \in Nat /\ vectors[u] \in Seq(Vectors)
      /\ Len(vectors[u]) \in Nat
  BY DEF TypeInv, VectorTypes, RoomInv, Vectors
<1>2. 1 \in 1 .. Len(vectors[u])
  BY <1>1 DEF VectorOf
<1>3. Own(u) \in Vectors /\ Len(Own(u)) \in Nat
  BY <1>1, <1>2, ElementOfSeq DEF Own, Vectors
<1>4. Own(u)' = Own(u) /\ Current(u)' = Current(u) /\ \A v : Right(u, v)' <=> Right(u, v)
  BY DEF Own, Current, Right
<1>. QED BY <1>1, <1>3, <1>4 DEF VectorOf

LEMMA DataInitialize ==
  ASSUME TypeInv, MutexInv, OrderInv, DataInv, NEW t \in Threads, InitializeVector(t)
  PROVE  DataInv'
<1>0. /\ VectorTypes /\ OffsetInv /\ offset \in Nat /\ Len(default) \in Nat
      /\ pc \in [Threads -> Labels] /\ key \in [Threads -> Nat] /\ listed \in [Threads -> Nat]
  BY DEF TypeInv, VectorTypes, Vectors, RoomInv, DataInv
<1>1. /\ pc[t] = "i_vector" /\ pc' = [pc EXCEPT ![t] = "i_next"]
      /\ key' = [key EXCEPT ![t] = 1] /\ listed' = [listed EXCEPT ![t] = 1]
      /\ UNCHANGED <<offset, default, handles, assigned>>
  BY DEF InitializeVector, Goto
<1>2. /\ Len(vectors'[t]) = 1 /\ vectors'[t][1] = default
      /\ \A u \in Threads : u # t => vectors'[u] = vectors[u]
  BY <1>0, InitializeEffect
<1>3. \A u \in Threads : pc[u] \notin Allotting /\ pc'[u] \notin Allotting
  BY <1>0, <1>1, Alone DEF Inside, Allotting
<1>4. ~Growing /\ ~Growing' /\ ~Allotted /\ ~Allotted'
  BY <1>3 DEF Growing, Allotted, Allotting
<1>5. OffsetInv'
  BY <1>0, <1>1, <1>3, <1>4 DEF OffsetInv, Allotting
<1>6. \A v \in Variables : assigned[t][v] = Initial
  BY <1>1 DEF DataInv, Fresh
<1>7. VectorOf(t)'
  <2>1. key'[t] = 1 /\ listed'[t] = 1 /\ Own(t)' = default /\ Current(t)' = default
    BY <1>0, <1>1, <1>2 DEF Own, Current
  <2>2. \A v \in handles : v <= Len(default) /\ default[v] = Initial /\ assigned[t][v] = Initial
    BY <1>0, <1>6 DEF OffsetInv, VectorTypes
  <2>. QED BY <1>0, <1>1, <1>2, <1>4, <2>1, <2>2 DEF VectorOf, Right
<1>8. ASSUME NEW u \in Threads, Holder(u)', u # t PROVE VectorOf(u)'
  <2>1. Holder(u)
    BY <1>0, <1>1, <1>8 DEF Holder, Member
  <2>2. VectorOf(u)
    BY <2>1 DEF DataInv, Holder
  <2>3. key'[u] = key[u] /\ listed'[u] = listed[u] /\ Len(Current(u)) = Len(default)
    BY <1>0, <1>1, <1>4, <1>8, <2>2 DEF VectorOf
  <2>. QED BY <1>0, <1>1, <1>2, <1>4, <1>8, <2>2, <2>3, VectorKept
<1>9. \A u \in Threads : Fresh(u)' => Fresh(u)
  BY <1>0, <1>1 DEF Fresh
<1>10. \A u \in Threads : pc'[u] # "a_unlock"
  BY <1>3 DEF Allotting
<1>. QED BY <1>1, <1>5, <1>7, <1>8, <1>9, <1>10 DEF DataInv, Holder, Fresh

\* The only thread that allocates a variable says whether the vectors grow, and
\* nobody is halfway into the list.
LEMMA OnlyAllocator ==
  ASSUME TypeInv, MutexInv, OrderInv, NEW t \in Threads, pc[t] \in Inside \ Starting,
         NEW l \in Labels, pc' = [pc EXCEPT ![t] = l]
  PROVE  /\ \A u \in Threads : u # t => pc'[u] \notin Inside /\ pc'[u] = pc[u]
         /\ Growing <=> pc[t] \in {"g_default", "g_walk"}
         /\ Growing' <=> l \in {"g_default", "g_walk"}
         /\ Allotted <=> pc[t] \in Allotting
         /\ Allotted' <=> l \in Allotting
         /\ pc'[t] = l
         /\ \A u \in Threads : Holder(u) => Member(u)
<1>1. pc \in [Threads -> Labels]
  BY DEF TypeInv, VectorTypes
<1>2. \A u \in Threads : u # t => pc[u] \notin Inside /\ pc'[u] = pc[u]
  BY <1>1, Alone
<1>3. pc'[t] = l
  BY <1>1
<1>4. \A u \in Threads : Holder(u) => Member(u)
  BY <1>2 DEF Holder, Inside, Starting
<1>. QED BY <1>2, <1>3, <1>4 DEF Growing, Allotted, Inside, Allotting

LEMMA DataOffset ==
  ASSUME TypeInv, MutexInv, OrderInv, DataInv, NEW t \in Threads, AllocateOffset(t)
  PROVE  DataInv'
<1>0. OffsetInv /\ offset \in Nat /\ Len(default) \in Nat /\ handles \subseteq Variables
  BY DEF TypeInv, VectorTypes, Vectors, RoomInv, DataInv
<1>. DEFINE l == IF offset + 1 > Len(default) THEN "g_default" ELSE "a_default"
<1>1. /\ pc[t] = "a_offset" /\ pc' = [pc EXCEPT ![t] = l] /\ offset' = offset + 1
      /\ UNCHANGED <<default, vectors, key, listed, handles, assigned>>
  BY DEF AllocateOffset, Goto, memory
<1>2. l \in Labels /\ l \in Allotting /\ l \notin {"g_walk", "a_walk", "a_unlock"}
      /\ (l = "g_default" <=> offset + 1 > Len(default))
  BY DEF Labels, Allocating, Allotting
<1>. HIDE DEF l
<1>3. /\ \A u \in Threads : u # t => pc'[u] \notin Inside /\ pc'[u] = pc[u]
      /\ ~Growing /\ ~Allotted /\ Allotted' /\ (Growing' <=> l = "g_default") /\ pc'[t] = l
  BY <1>1, <1>2, OnlyAllocator DEF Inside, Starting, Allotting
<1>4. offset <= Len(default) /\ \A v \in handles : v <= offset /\ v \in Nat
  BY <1>0, <1>3 DEF OffsetInv, Variables
<1>5. OffsetInv'
  <2>1. \A v \in handles : v <= offset + 1 /\ v # offset + 1
    BY <1>0, <1>4
  <2>2. \A u \in Threads : pc'[u] \in Allotting => u = t
    BY <1>3 DEF Inside
  <2>3. offset + 1 \notin handles
    BY <2>1
  <2>4. pc'[t] = "g_default" => offset + 1 = Len(default) + 1
    BY <1>0, <1>2, <1>3, <1>4
  <2>5. pc'[t] # "g_default" => offset + 1 <= Len(default)
    BY <1>0, <1>2, <1>3
  <2>. QED BY <1>0, <1>1, <1>2, <1>3, <2>1, <2>2, <2>3, <2>4, <2>5 DEF OffsetInv, Allotting
<1>6. ASSUME NEW u \in Threads, Holder(u)' PROVE VectorOf(u)'
  <2>1. Holder(u)
    BY <1>1, <1>2, <1>3, <1>6 DEF Holder, Member, Allocating, Allotting
  <2>2. VectorOf(u)
    BY <2>1 DEF DataInv, Holder
  <2>3. Len(Own(u)) <= Len(default) /\ Len(Current(u)) = Len(default)
    BY <1>3, <2>2 DEF VectorOf
  <2>4. Growing' => Len(Own(u)) < offset + 1
    <3>1. Len(Own(u)) \in Nat
      <4>1. vectors[u] \in Seq(Vectors) /\ 1 \in 1 .. Len(vectors[u])
        BY <2>2 DEF VectorOf, TypeInv, VectorTypes
      <4>. QED BY <4>1, ElementOfSeq DEF Own, Vectors
    <3>. QED BY <1>0, <1>2, <1>3, <2>3, <3>1
  <2>. QED BY <1>0, <1>1, <1>3, <2>2, <2>3, <2>4, VectorKept
<1>7. \A u \in Threads : pc'[u] # "a_unlock"
  BY <1>2, <1>3 DEF Inside, Allotting
<1>8. \A u \in Threads : Fresh(u)' => Fresh(u)
  BY <1>2, <1>3 DEF Fresh, Allotting
<1>. QED BY <1>1, <1>5, <1>6, <1>7, <1>8 DEF DataInv, Holder, Fresh

\* The variables that have been handed out are in the default vector.
LEMMA HandedOut ==
  ASSUME TypeInv, DataInv
  PROVE  \A v \in handles : v \in 1 .. Len(default) /\ v <= offset /\ default[v] = Initial
<1>1. OffsetInv /\ Len(default) \in Nat
  BY DEF TypeInv, VectorTypes, Vectors, DataInv
<1>2. \A v \in handles : v \in Nat /\ v >= 1
  BY DEF TypeInv, VectorTypes, Variables
<1>3. \A v \in handles : v <= Len(default) /\ v <= offset /\ default[v] = Initial
  BY <1>1 DEF OffsetInv
<1>4. \A v \in handles : v \in 1 .. Len(default)
  BY <1>1, <1>2, <1>3
<1>. QED BY <1>3, <1>4

LEMMA DataGrowDefault ==
  ASSUME TypeInv, MutexInv, OrderInv, DataInv, NEW t \in Threads, GrowDefault(t)
  PROVE  DataInv'
<1>0. /\ OffsetInv /\ offset \in Nat /\ default \in Vectors /\ Len(default) \in Nat
      /\ handles \subseteq Variables
  BY DEF TypeInv, VectorTypes, Vectors, RoomInv, DataInv
<1>1. /\ pc[t] = "g_default" /\ pc' = [pc EXCEPT ![t] = "g_walk"]
      /\ default' = Grown(default, 2 * Len(default))
      /\ UNCHANGED <<offset, vectors, key, listed, handles, assigned>>
  BY DEF GrowDefault, Goto, memory
<1>2. "g_walk" \in Labels
  BY DEF Labels, Allocating
<1>3. /\ \A u \in Threads : u # t => pc'[u] \notin Inside /\ pc'[u] = pc[u]
      /\ Growing /\ Growing' /\ Allotted' /\ pc'[t] = "g_walk"
  BY <1>1, <1>2, OnlyAllocator DEF Inside, Starting, Allotting
<1>4. /\ Len(default') = 2 * Len(default) /\ Len(default) >= 1
      /\ \A m \in 1 .. Len(default) : default'[m] = default[m]
  <2>1. 2 * Len(default) \in Nat
    BY <1>0
  <2>2. /\ Len(default') = 2 * Len(default)
        /\ \A m \in 1 .. 2 * Len(default) :
             default'[m] = IF m <= Len(default) THEN default[m] ELSE Junk
    BY <1>0, <1>1, <2>1, GrownVector
  <2>3. \A m \in 1 .. Len(default) : m \in 1 .. 2 * Len(default) /\ m <= Len(default)
    BY <1>0
  <2>. QED BY <1>0, <2>2, <2>3 DEF OffsetInv
<1>5. OffsetInv'
  <2>1. \A u \in Threads : pc'[u] \in Allotting => u = t
    BY <1>3 DEF Inside
  <2>2. \A v \in handles : v \in 1 .. Len(default) /\ v <= offset /\ default[v] = Initial
    BY HandedOut
  <2>3. offset = Len(default) + 1 /\ offset \notin handles
    BY <1>0, <1>1 DEF OffsetInv, Allotting
  <2>4. Len(default') >= 1 /\ offset <= Len(default')
    BY <1>0, <1>4, <2>3
  <2>5. \A v \in handles : v <= Len(default') /\ default'[v] = Initial
    <3>1. Len(default) <= Len(default') /\ Len(default') \in Nat
      BY <1>0, <1>4
    <3>2. \A v \in 1 .. Len(default) : v <= Len(default')
      BY <1>0, <3>1
    <3>3. \A v \in handles : default'[v] = default[v]
      BY <1>4, <2>2
    <3>. QED BY <2>2, <3>2, <3>3
  <2>. QED BY <1>0, <1>1, <1>3, <2>1, <2>2, <2>3, <2>4, <2>5 DEF OffsetInv, Allotting
<1>6. ASSUME NEW u \in Threads, Holder(u)' PROVE VectorOf(u)'
  <2>1. Holder(u)
    BY <1>1, <1>3, <1>6 DEF Holder, Member, Allocating
  <2>2. VectorOf(u)
    BY <2>1 DEF DataInv, Holder
  <2>3. Len(default') \in Nat /\ Len(default) <= Len(default')
    BY <1>0, <1>4
  <2>. QED BY <1>0, <1>1, <1>3, <2>2, <2>3, VectorKept
<1>7. \A u \in Threads : pc'[u] # "a_unlock"
  BY <1>3 DEF Inside, Allotting
<1>8. \A u \in Threads : Fresh(u)' => Fresh(u)
  BY <1>3 DEF Fresh
<1>. QED BY <1>1, <1>5, <1>6, <1>7, <1>8 DEF DataInv, Holder, Fresh

LEMMA DataAllocateDefault ==
  ASSUME TypeInv, MutexInv, OrderInv, DataInv, NEW t \in Threads, AllocateDefault(t)
  PROVE  DataInv'
<1>0. /\ OffsetInv /\ RoomInv /\ offset \in Nat /\ default \in Vectors /\ Len(default) \in Nat
      /\ handles \subseteq Variables
  BY DEF TypeInv, VectorTypes, Vectors, RoomInv, DataInv
<1>1. /\ pc[t] = "a_default" /\ pc' = [pc EXCEPT ![t] = "a_walk"]
      /\ default' = Stored(default, offset, Initial)
      /\ UNCHANGED <<offset, vectors, key, listed, handles, assigned>>
  BY DEF AllocateDefault, Goto, memory, Stored
<1>2. "a_walk" \in Labels /\ Initial \in Values
  BY DEF Labels, Allocating, Values
<1>3. /\ \A u \in Threads : u # t => pc'[u] \notin Inside /\ pc'[u] = pc[u]
      /\ ~Growing /\ ~Growing' /\ Allotted' /\ pc'[t] = "a_walk"
  BY <1>1, <1>2, OnlyAllocator DEF Inside, Starting, Allotting
<1>4. /\ Len(default') = Len(default)
      /\ \A m \in 1 .. Len(default) : default'[m] = IF m = offset THEN Initial ELSE default[m]
  BY <1>0, <1>1, <1>2, StoredVector
<1>5. OffsetInv'
  <2>1. \A u \in Threads : pc'[u] \in Allotting => u = t
    BY <1>3 DEF Inside
  <2>2. \A v \in handles : v \in 1 .. Len(default) /\ v <= offset /\ default[v] = Initial
    BY HandedOut
  <2>3. offset \in 1 .. Len(default) /\ offset \notin handles
    BY <1>0, <1>1 DEF OffsetInv, RoomInv, Allotting
  <2>4. \A v \in handles : default'[v] = Initial
    BY <1>4, <2>2
  <2>5. default'[offset] = Initial
    BY <1>4, <2>3
  <2>. QED BY <1>0, <1>1, <1>3, <1>4, <2>1, <2>2, <2>3, <2>4, <2>5 DEF OffsetInv, Allotting
<1>6. ASSUME NEW u \in Threads, Holder(u)' PROVE VectorOf(u)'
  <2>1. Holder(u)
    BY <1>1, <1>3, <1>6 DEF Holder, Member, Allocating
  <2>2. VectorOf(u)
    BY <2>1 DEF DataInv, Holder
  <2>3. Len(Current(u)) = Len(default')
    BY <1>3, <1>4, <2>2 DEF VectorOf
  <2>4. offset <= offset' /\ Len(default) <= Len(default') /\ Len(default') \in Nat
    BY <1>0, <1>1, <1>4
  <2>. QED BY <1>0, <1>1, <1>3, <2>2, <2>3, <2>4, VectorKept
<1>7. \A u \in Threads : pc'[u] # "a_unlock"
  BY <1>3 DEF Inside, Allotting
<1>8. \A u \in Threads : Fresh(u)' => Fresh(u)
  BY <1>3 DEF Fresh
<1>. QED BY <1>1, <1>5, <1>6, <1>7, <1>8 DEF DataInv, Holder, Fresh

\* A walk that has come to the end of the list has passed every member; one that
\* has not stands on a member.
LEMMA WalkEnds ==
  ASSUME TypeInv, ListInv, NEW t \in Threads, pc[t] \in {"g_walk", "a_walk"}
  PROVE  /\ cur[t] = NoThread /\ pc[t] = "g_walk" =>
              \A u \in Threads : Member(u) => Len(Current(u)) = Len(default)
         /\ cur[t] = NoThread /\ pc[t] = "a_walk" =>
              \A u \in Threads : Member(u) => Right(u, offset)
         /\ cur[t] # NoThread => cur[t] \in Threads /\ Member(cur[t])
<1>1. PICK n, s : Listing(n, s)
  BY DEF ListInv, Listing
<1>2. n \in Nat /\ s \in [1 .. n -> Threads] /\ Spelled(n, s) /\ WalkOf(n, s, t)
  BY <1>1 DEF Listing
<1>3. PICK i \in 1 .. n + 1 :
        /\ cur[t] = At(n, s, i)
        /\ pc[t] = "g_walk" => \A j \in 1 .. n : j < i => Len(Current(s[j])) = Len(default)
        /\ pc[t] = "a_walk" => \A j \in 1 .. n : j < i => Right(s[j], offset)
  BY <1>2 DEF WalkOf
<1>4. ASSUME cur[t] # NoThread PROVE cur[t] \in Threads /\ Member(cur[t])
  <2>1. i \in 1 .. n /\ cur[t] = s[i] /\ s[i] \in Threads
    BY <1>2, <1>3, <1>4 DEF At
  <2>. QED BY <1>2, <2>1 DEF Spelled
<1>5. ASSUME cur[t] = NoThread PROVE \A j \in 1 .. n : j < i
  <2>1. i \notin 1 .. n
    BY <1>2, <1>3, <1>5, NoThreadAssumption DEF At
  <2>. QED BY <1>2, <2>1
<1>6. \A u \in Threads : Member(u) => \E j \in 1 .. n : s[j] = u
  BY <1>2 DEF Spelled
<1>. QED BY <1>3, <1>4, <1>5, <1>6

LEMMA DataGrowWalk ==
  ASSUME TypeInv, MutexInv, OrderInv, ListInv, DataInv, NEW t \in Threads, GrowWalk(t)
  PROVE  DataInv'
<1>0. /\ VectorTypes /\ OffsetInv /\ offset \in Nat /\ Len(default) \in Nat
      /\ cur \in [Threads -> Linked]
  BY DEF TypeInv, VectorTypes, Vectors, RoomInv, LinksInv, DataInv
<1>. DEFINE l == IF cur[t] = NoThread THEN "a_default" ELSE "g_walk"
<1>1. /\ pc[t] = "g_walk" /\ pc' = [pc EXCEPT ![t] = l]
      /\ UNCHANGED <<offset, default, key, handles, assigned>>
  BY DEF GrowWalk, Goto
<1>2. l \in Labels /\ l \in {"a_default", "g_walk"} /\ (l = "g_walk" <=> cur[t] # NoThread)
  BY DEF Labels, Allocating
<1>. HIDE DEF l
<1>3. /\ \A u \in Threads : u # t => pc'[u] \notin Inside /\ pc'[u] = pc[u]
      /\ Growing /\ (Growing' <=> l = "g_walk") /\ Allotted /\ Allotted' /\ pc'[t] = l
      /\ \A u \in Threads : Holder(u) => Member(u)
  BY <1>1, <1>2, OnlyAllocator DEF Inside, Starting, Allotting
<1>4. OffsetInv'
  <2>1. \A u \in Threads : pc'[u] \in Allotting => u = t
    BY <1>3 DEF Inside
  <2>2. pc'[t] \notin {"g_default", "a_walk", "a_unlock"}
    BY <1>2, <1>3
  <2>3. offset <= Len(default) /\ offset \notin handles
    BY <1>0, <1>1 DEF OffsetInv, Allotting
  <2>. QED BY <1>0, <1>1, <1>3, <2>1, <2>2, <2>3 DEF OffsetInv
<1>5. ASSUME NEW u \in Threads, Holder(u)' PROVE Member(u) /\ VectorOf(u)
  <2>1. Holder(u)
    BY <1>1, <1>2, <1>3, <1>5 DEF Holder, Member, Allocating
  <2>. QED BY <1>3, <2>1 DEF DataInv, Holder
<1>6. ASSUME NEW u \in Threads, Holder(u)' PROVE VectorOf(u)'
  <2>1. CASE cur[t] = NoThread
    <3>1. UNCHANGED <<vectors, listed>> /\ ~Growing'
      BY <1>2, <1>3, <2>1 DEF GrowWalk
    <3>2. Len(Current(u)) = Len(default)
      BY <1>1, <1>5, <1>6, <2>1, WalkEnds
    <3>3. offset <= offset' /\ Len(default) <= Len(default')
      BY <1>0, <1>1
    <3>. QED BY <1>0, <1>1, <1>3, <1>5, <1>6, <3>1, <3>2, <3>3, VectorKept
  <2>2. CASE cur[t] # NoThread
    <3>1. PICK w \in Threads : w = cur[t] /\ Member(w) /\ listed[w] >= 1
      BY <1>0, <1>1, <2>2, WalkEnds DEF Linked, Initialized
    <3>2. Passed(w)
      BY <2>2, <3>1 DEF GrowWalk, Passed
    <3>3. /\ Len(vectors'[w]) = Len(vectors[w]) + 1
          /\ \A k \in 1 .. Len(vectors[w]) : vectors'[w][k] = vectors[w][k]
          /\ Len(vectors'[w][Len(vectors[w]) + 1]) = Len(default)
          /\ listed'[w] = Len(vectors[w]) + 1
          /\ \A x \in Threads : x # w => vectors'[x] = vectors[x] /\ listed'[x] = listed[x]
      BY <1>0, <3>1, <3>2, GrowEffect
    <3>4. Growing'
      BY <1>2, <1>3, <2>2
    <3>5. CASE u # w
      <4>1. offset <= offset' /\ Len(default) <= Len(default')
        BY <1>0, <1>1
      <4>. QED BY <1>0, <1>1, <1>3, <1>5, <1>6, <3>3, <3>4, <3>5, <4>1, VectorKept
    <3>6. CASE u = w
      <4>1. VectorOf(w) /\ Len(vectors[w]) \in Nat /\ 1 \in 1 .. Len(vectors[w])
        <5>1. VectorOf(w)
          BY <1>5, <1>6, <3>6
        <5>2. vectors[w] \in Seq(Vectors)
          BY <1>0, <3>1 DEF VectorTypes
        <5>. QED BY <5>1, <5>2 DEF VectorOf
      <4>2. Own(w)' = Own(w) /\ Len(Current(w))' = Len(default)
        BY <3>3, <4>1 DEF Own, Current
      <4>3. listed'[w] \in 1 .. Len(vectors'[w])
        BY <3>3, <4>1
      <4>4. Len(Own(w)) < offset
        BY <1>3, <4>1 DEF VectorOf
      <4>5. \A v \in handles : v <= Len(default) /\ Right(w, v)'
        <5>1. \A v \in handles : v <= Len(default)
          BY <1>0 DEF OffsetInv
        <5>2. \A v \in handles : Right(w, v)
          BY <4>1 DEF VectorOf
        <5>. QED BY <1>1, <4>2, <5>1, <5>2 DEF Right
      <4>6. key'[w] = 1 /\ Len(Own(w)) <= Len(default)
        BY <1>1, <4>1 DEF VectorOf
      <4>7. VectorOf(w)'
        BY <1>1, <3>4, <4>2, <4>3, <4>4, <4>5, <4>6 DEF VectorOf
      <4>. QED BY <3>6, <4>7
    <3>. QED BY <3>5, <3>6
  <2>. QED BY <2>1, <2>2
<1>7. \A u \in Threads : pc'[u] # "a_unlock"
  BY <1>2, <1>3 DEF Inside, Allotting
<1>8. \A u \in Threads : Fresh(u)' => Fresh(u)
  BY <1>2, <1>3 DEF Fresh
<1>. QED BY <1>1, <1>4, <1>6, <1>7, <1>8 DEF DataInv, Holder, Fresh

LEMMA DataUpdateWalk ==
  ASSUME TypeInv, MutexInv, OrderInv, ListInv, DataInv, NEW t \in Threads, UpdateWalk(t)
  PROVE  DataInv'
<1>0. /\ VectorTypes /\ OffsetInv /\ offset \in Nat /\ Len(default) \in Nat
  BY DEF TypeInv, VectorTypes, Vectors, RoomInv, DataInv
<1>. DEFINE l == IF cur[t] = NoThread THEN "a_unlock" ELSE "a_walk"
<1>1. /\ pc[t] = "a_walk" /\ pc' = [pc EXCEPT ![t] = l]
      /\ UNCHANGED <<offset, default, key, listed, handles, assigned>>
  BY DEF UpdateWalk, Goto
<1>2. l \in Labels /\ l \in {"a_unlock", "a_walk"} /\ (l = "a_unlock" <=> cur[t] = NoThread)
  BY DEF Labels, Allocating
<1>. HIDE DEF l
<1>3. /\ \A u \in Threads : u # t => pc'[u] \notin Inside /\ pc'[u] = pc[u]
      /\ ~Growing /\ ~Growing' /\ Allotted /\ Allotted' /\ pc'[t] = l
      /\ \A u \in Threads : Holder(u) => Member(u)
  BY <1>1, <1>2, OnlyAllocator DEF Inside, Starting, Allotting
<1>4. OffsetInv'
  <2>1. \A u \in Threads : pc'[u] \in Allotting => u = t
    BY <1>3 DEF Inside
  <2>2. pc'[t] \notin {"g_default", "g_walk"}
    BY <1>2, <1>3
  <2>3. offset <= Len(default) /\ offset \notin handles /\ default[offset] = Initial
    BY <1>0, <1>1 DEF OffsetInv, Allotting
  <2>. QED BY <1>0, <1>1, <1>3, <2>1, <2>2, <2>3 DEF OffsetInv
<1>5. ASSUME NEW u \in Threads, Holder(u)' PROVE Member(u) /\ VectorOf(u)
  <2>1. Holder(u)
    BY <1>1, <1>2, <1>3, <1>5 DEF Holder, Member, Allocating
  <2>. QED BY <1>3, <2>1 DEF DataInv, Holder
<1>6. ASSUME NEW u \in Threads, Holder(u)' PROVE VectorOf(u)'
  <2>1. Len(Current(u)) = Len(default) /\ offset <= offset' /\ Len(default) <= Len(default')
    BY <1>0, <1>1, <1>3, <1>5, <1>6 DEF VectorOf
  <2>2. CASE vectors'[u] = vectors[u]
    BY <1>0, <1>1, <1>3, <1>5, <1>6, <2>1, <2>2, VectorKept
  <2>3. CASE vectors'[u] # vectors[u]
    <3>1. cur[t] # NoThread
      BY <2>3 DEF UpdateWalk
    <3>2. /\ cur[t] \in Threads
          /\ vectors' = [vectors EXCEPT ![cur[t]][listed[cur[t]]][offset] = Initial]
      BY <1>1, <3>1, WalkEnds DEF UpdateWalk
    <3>3. u = cur[t]
      BY <1>0, <2>3, <3>2 DEF VectorTypes
    <3>4. VectorOf(u)
      BY <1>5, <1>6
    <3>5. /\ \A v \in handles : Right(u, v) => Right(u, v)'
          /\ Len(vectors'[u]) = Len(vectors[u])
          /\ Len(Own(u))' = Len(Own(u)) /\ Len(Current(u))' = Len(Current(u))
      BY <1>1, <3>2, <3>3, <3>4, GivenVariable DEF Allotting
    <3>. QED BY <1>1, <1>3, <3>4, <3>5 DEF VectorOf
  <2>. QED BY <2>2, <2>3
<1>7. ASSUME NEW w \in Threads, NEW u \in Threads, pc'[w] = "a_unlock", Member(u)'
      PROVE  Right(u, offset)'
  <2>1. w = t
    BY <1>3, <1>7 DEF Inside, Allotting
  <2>2. cur[t] = NoThread /\ UNCHANGED vectors
    BY <1>2, <1>3, <1>7, <2>1 DEF UpdateWalk
  <2>3. Member(u)
    BY <1>5, <1>7 DEF Holder
  <2>4. Right(u, offset)
    BY <1>1, <2>2, <2>3, WalkEnds
  <2>. QED BY <1>1, <2>2, <2>4 DEF Right, Own
<1>8. \A u \in Threads : Fresh(u)' => Fresh(u)
  BY <1>2, <1>3 DEF Fresh
<1>. QED BY <1>1, <1>4, <1>6, <1>7, <1>8 DEF DataInv, Holder, Fresh

LEMMA DataAllocateUnlock ==
  ASSUME TypeInv, MutexInv, OrderInv, DataInv, NEW t \in Threads, AllocateUnlock(t)
  PROVE  DataInv'
<1>0. OffsetInv /\ offset \in Nat /\ Len(default) \in Nat
  BY DEF TypeInv, VectorTypes, Vectors, RoomInv, DataInv
<1>1. /\ pc[t] = "a_unlock" /\ pc' = [pc EXCEPT ![t] = "run"] /\ handles' = handles \cup {offset}
      /\ UNCHANGED <<offset, default, vectors, key, listed, assigned>>
  BY DEF AllocateUnlock, Goto, memory
<1>2. "run" \in Labels
  BY DEF Labels
<1>3. /\ \A u \in Threads : u # t => pc'[u] \notin Inside /\ pc'[u] = pc[u]
      /\ ~Growing /\ ~Growing' /\ ~Allotted' /\ pc'[t] = "run"
      /\ \A u \in Threads : Holder(u) => Member(u)
  BY <1>1, <1>2, OnlyAllocator DEF Inside, Starting, Allotting
<1>4. offset <= Len(default) /\ default[offset] = Initial
  BY <1>0, <1>1 DEF OffsetInv, Allotting
<1>5. \A u \in Threads : pc'[u] \notin Allotting
  BY <1>3 DEF Inside, Allotting
<1>6. OffsetInv'
  <2>1. \A v \in handles' : v <= offset /\ v <= Len(default) /\ default[v] = Initial
    BY <1>0, <1>1, <1>4 DEF OffsetInv
  <2>2. \A u \in Threads, v \in Variables : v \notin handles' => assigned[u][v] = Initial
    BY <1>0, <1>1 DEF OffsetInv
  <2>. QED BY <1>0, <1>1, <1>4, <1>5, <2>1, <2>2 DEF OffsetInv, Allotting
<1>7. ASSUME NEW u \in Threads, Holder(u)' PROVE VectorOf(u)'
  <2>1. Holder(u) /\ Member(u)
    BY <1>1, <1>3, <1>7 DEF Holder, Member, Allocating
  <2>2. VectorOf(u) /\ Right(u, offset)
    BY <1>1, <2>1 DEF DataInv, Holder
  <2>3. \A v : Right(u, v)' <=> Right(u, v)
    BY <1>1 DEF Right, Own
  <2>4. Own(u)' = Own(u) /\ Current(u)' = Current(u) /\ Len(Current(u)) = Len(default)
    BY <1>1, <1>3, <2>2 DEF VectorOf, Own, Current
  <2>5. \A v \in handles' : v <= Len(Current(u)) /\ Right(u, v)'
    BY <1>1, <1>4, <2>2, <2>3, <2>4 DEF VectorOf
  <2>. QED BY <1>1, <1>3, <2>2, <2>4, <2>5 DEF VectorOf
<1>8. \A u \in Threads : pc'[u] # "a_unlock"
  BY <1>5 DEF Allotting
<1>9. \A u \in Threads : Fresh(u)' => Fresh(u)
  BY <1>3 DEF Fresh
<1>. QED BY <1>1, <1>6, <1>7, <1>8, <1>9 DEF DataInv, Holder, Fresh

LEMMA DataWrite ==
  ASSUME TypeInv, MutexInv, DataInv, NEW t \in Threads,
         NEW v \in Variables, WriteThreadVariable(t, v)
  PROVE  DataInv'
<1>0. /\ VectorTypes /\ OffsetInv /\ offset \in Nat /\ Len(default) \in Nat
      /\ assigned \in [Threads -> [Variables -> Values]]
  BY DEF TypeInv, VectorTypes, Vectors, RoomInv, DataInv
<1>1. /\ pc[t] = "run" /\ v \in handles /\ lock = NoThread
      /\ assigned' = [assigned EXCEPT ![t][v] = t]
      /\ UNCHANGED <<offset, default, key, listed, handles, pc>>
  BY DEF WriteThreadVariable
<1>2. /\ \A w \in Variables : assigned'[t][w] = IF w = v THEN t ELSE assigned[t][w]
      /\ \A u \in Threads : u # t => assigned'[u] = assigned[u]
  BY <1>0, <1>1
<1>3. \A u \in Threads : pc[u] \notin Allotting
  BY <1>1, NoThreadAssumption DEF MutexInv, Inside
<1>4. ~Growing /\ ~Growing' /\ ~Allotted /\ ~Allotted'
  BY <1>1, <1>3 DEF Growing, Allotted, Allotting
<1>5. OffsetInv'
  <2>1. \A u \in Threads, w \in Variables : w \notin handles => assigned'[u][w] = Initial
    <3>1. \A u \in Threads, w \in Variables : w \notin handles => assigned[u][w] = Initial
      BY <1>0 DEF OffsetInv
    <3>. QED BY <1>1, <1>2, <3>1
  <2>. QED BY <1>0, <1>1, <1>3, <1>4, <2>1 DEF OffsetInv, Allotting
<1>6. VectorOf(t)
  BY <1>1 DEF DataInv, Holder, Member
<1>7. VectorOf(t)'
  <2>1. key[t] = 1 /\ listed[t] \in 1 .. Len(vectors[t]) /\ Len(vectors[t]) \in Nat
    BY <1>0, <1>6 DEF VectorOf, VectorTypes
  <2>2. OneSlotDiffers(vectors[t], key[t], v, t, vectors'[t])
    BY <1>0, <2>1, WriteEffect
  <2>3. /\ 1 \in 1 .. Len(vectors[t]) /\ Len(vectors'[t]) = Len(vectors[t])
        /\ Len(Own(t))' = Len(Own(t)) /\ Len(Current(t))' = Len(Current(t))
        /\ \A m \in 1 .. Len(Own(t)) : Own(t)'[m] = IF m = v THEN t ELSE Own(t)[m]
    BY <1>1, <2>1, <2>2 DEF OneSlotDiffers, Own, Current
  <2>4. \A w \in handles : w \in Variables
    BY <1>0 DEF VectorTypes
  <2>5. ASSUME NEW w \in handles, Right(t, w) PROVE Right(t, w)'
    BY <1>2, <2>3, <2>4, <2>5 DEF Right
  <2>. QED BY <1>1, <1>4, <1>6, <2>3, <2>5 DEF VectorOf
<1>8. ASSUME NEW u \in Threads, u # t, Holder(u)' PROVE VectorOf(u)'
  <2>1. VectorOf(u)
    BY <1>1, <1>8 DEF DataInv, Holder, Member
  <2>2. vectors'[u] = vectors[u]
    BY <1>0, <1>8 DEF WriteThreadVariable, VectorTypes
  <2>3. Len(Current(u)) = Len(default') /\ offset <= offset' /\ Len(default) <= Len(default')
    BY <1>0, <1>1, <1>4, <2>1 DEF VectorOf
  <2>. QED BY <1>0, <1>1, <1>2, <1>4, <1>8, <2>1, <2>2, <2>3, VectorKept
<1>9. \A u \in Threads : pc'[u] # "a_unlock"
  BY <1>1, <1>3 DEF Allotting
<1>10. ASSUME NEW u \in Threads, Fresh(u)' PROVE \A w \in Variables : assigned'[u][w] = Initial
  <2>1. u # t /\ Fresh(u)
    BY <1>1, <1>10 DEF Fresh
  <2>. QED BY <1>2, <2>1 DEF DataInv, Fresh
<1>. QED BY <1>5, <1>7, <1>8, <1>9, <1>10 DEF DataInv, Holder, Fresh

LEMMA DataStep ==
  ASSUME TypeInv, MutexInv, OrderInv, ListInv, DataInv, NEW t \in Threads, Acts(t)
  PROVE  DataInv'
BY DataSteady, DataInitialize, DataOffset, DataGrowDefault, DataGrowWalk, DataAllocateDefault,
   DataUpdateWalk, DataAllocateUnlock, DataWrite DEF Acts

LEMMA OrderlyInit ==
  ASSUME Init
  PROVE  OrderlyInv
<1>1. \A t \in Threads : pc[t] \in {"i_lock", "new"}
  BY DEF Init
<1>2. MutexInv /\ OrderInv
  BY <1>1, NoThreadAssumption DEF Init, MutexInv, OrderInv, Inside, Allotting, Ending
<1>3. \A t \in Threads : ~Member(t) /\ pc[t] \notin {"i_next", "i_head"} /\ pc[t] \notin Allotting
  BY <1>1 DEF Member, Allocating, Allotting
<1>4. ListInv
  <2>. DEFINE s == [i \in 1 .. 0 |-> Main]
  <2>1. s \in [1 .. 0 -> Threads] /\ \A i \in 1 .. 0 : FALSE
    BY ThreadVariablesAssumption
  <2>. HIDE DEF s
  <2>2. Spelled(0, s)
    BY <1>3, <2>1 DEF Init, Spelled, At
  <2>3. \A t \in Threads : WalkOf(0, s, t)
    BY <1>1 DEF WalkOf
  <2>4. \A t \in Threads : pc[t] \notin {"i_head", "x_first"}
    BY <1>1
  <2>. QED BY <2>1, <2>2, <2>3, <2>4 DEF ListInv
<1>5. DataInv
  <2>1. ~Allotted
    BY <1>3 DEF Allotted
  <2>2. Len(default) = InitialSize /\ InitialSize >= 1 /\ InitialSize \in Nat
    BY ThreadVariablesAssumption DEF Init
  <2>3. \A t \in Threads, v \in Variables : assigned[t][v] = Initial
    BY DEF Init
  <2>4. handles = {} /\ offset = 0
    BY DEF Init
  <2>5. OffsetInv
    BY <1>3, <2>1, <2>2, <2>3, <2>4 DEF OffsetInv, Allotting
  <2>. QED BY <1>3, <2>3, <2>5 DEF DataInv, Holder, Fresh
<1>. QED BY <1>2, <1>4, <1>5 DEF OrderlyInv

LEMMA OrderlyStep ==
  ASSUME TypeInv, OrderlyInv, [Next]_vars
  PROVE  OrderlyInv'
<1>1. CASE UNCHANGED vars
  <2>1. /\ UNCHANGED <<lock, pc, head, next, cur, last, overlapped>>
        /\ UNCHANGED <<offset, default, vectors, key, listed, handles, assigned>>
    BY <1>1 DEF vars
  <2>2. MutexInv'
    BY <2>1 DEF OrderlyInv, MutexInv
  <2>3. \A u \in Threads : Member(u)' <=> Member(u)
    BY <2>1 DEF Member
  <2>4. ASSUME ~overlapped' PROVE OrderInv' /\ ListInv' /\ DataInv'
    <3>1. OrderInv /\ ListInv /\ DataInv
      BY <2>1, <2>4 DEF OrderlyInv
    <3>2. OrderInv'
      BY <2>1, <3>1 DEF OrderInv
    <3>3. ListInv'
      BY <2>1, <2>3, <3>1, ListKept
    <3>4. DataInv'
      BY <2>1, <2>3, <3>1, DataKept DEF Holder, Fresh
    <3>. QED BY <3>2, <3>3, <3>4
  <2>. QED BY <2>2, <2>4 DEF OrderlyInv
<1>2. ASSUME NEW t \in Threads, Acts(t) PROVE OrderlyInv'
  <2>1. MutexInv /\ MutexInv'
    BY <1>2, MutexStep DEF OrderlyInv
  <2>2. ASSUME ~overlapped' PROVE OrderInv' /\ ListInv' /\ DataInv'
    <3>1. ~overlapped
      BY <1>2, <2>2, OverlapStays DEF TypeInv
    <3>2. OrderInv /\ ListInv /\ DataInv
      BY <3>1 DEF OrderlyInv
    <3>. QED BY <1>2, <2>1, <2>2, <3>2, OrderStep, ListStep, DataStep
  <2>. QED BY <2>1, <2>2 DEF OrderlyInv
<1>. QED BY <1>1, <1>2 DEF Next, Acts

-----------------------------------------------------------------------------
(* What a thread reads.                                                    *)

\* Until a removal overlaps another use of the list, a running thread reads what
\* it last assigned to a variable or else the variable's initial value, for any
\* number of threads and variables and any size of the vectors, whichever of the
\* thread and the variable came first, as long as the variable fits into the
\* vector the thread started with.
THEOREM ThreadsSeeTheirValues == Spec => []SeesItsValue
<1>1. TypeInv /\ OrderlyInv => SeesItsValue
  <2>. SUFFICES ASSUME TypeInv, OrderlyInv, ~overlapped, NEW t \in Threads, NEW v \in handles,
                       pc[t] = "run", v \in DOMAIN vectors[t][key[t]]
                PROVE  ReadThreadVariable(t, v) = assigned[t][v]
    BY DEF SeesItsValue
  <2>1. VectorOf(t)
    BY DEF OrderlyInv, DataInv, Holder, Member
  <2>2. key[t] = 1 /\ Right(t, v)
    BY <2>1 DEF VectorOf
  <2>3. vectors[t] \in Seq(Vectors) /\ 1 \in 1 .. Len(vectors[t])
    BY <2>1 DEF TypeInv, VectorTypes, VectorOf
  <2>4. Own(t) \in Vectors
    BY <2>3, ElementOfSeq DEF Own
  <2>5. v \in 1 .. Len(Own(t))
    BY <2>2, <2>4, LenProperties DEF Own, Vectors
  <2>. QED BY <2>2, <2>5 DEF Right, Own, ReadThreadVariable
<1>2. TypeInv /\ OrderlyInv /\ [Next]_vars => TypeInv' /\ OrderlyInv'
  BY TypeStep, OrderlyStep
<1>3. Init => TypeInv /\ OrderlyInv
  BY TypeInit, OrderlyInit
<1>. QED BY <1>1, <1>2, <1>3, PTL DEF Spec

-----------------------------------------------------------------------------
(* The list between allocations.                                           *)

LEMMA LeastNatural ==
  ASSUME NEW S \in SUBSET Nat, S # {}
  PROVE  \E i \in S : \A j \in S : i <= j
<1>1. IsWellFoundedOn({p \in Nat \X Nat : p[1] < p[2]}, Nat)
  BY NatLessThanWellFounded DEF OpToRel
<1>2. PICK i \in S : \A j \in S : <<j, i>> \notin {p \in Nat \X Nat : p[1] < p[2]}
  BY <1>1, WFMin
<1>3. \A j \in S : ~(j < i)
  BY <1>2
<1>. QED BY <1>3

\* The links that Link follows are those that the list is made of.
LEMMA LinkIsListing ==
  ASSUME NEW n \in Nat, NEW s \in [1 .. n -> Threads], Spelled(n, s)
  PROVE  /\ DOMAIN Link = 0 .. Cardinality(Threads)
         /\ \A k \in 0 .. Cardinality(Threads) : Link[k] = At(n, s, k + 1)
<1>. DEFINE N == Cardinality(Threads)
            P(g) == g = [k \in 0 .. N |->
                           IF k = 0 THEN head
                           ELSE IF g[k - 1] = NoThread THEN NoThread ELSE next[g[k - 1]]]
            f == [k \in 0 .. N |-> At(n, s, k + 1)]
<1>1. N \in Nat
  BY FS_CardinalityType, ThreadVariablesAssumption
<1>2. Link = CHOOSE g : P(g)
  BY DEF Link
<1>3. P(f)
  <2>. HIDE DEF N
  <2>1. ASSUME NEW k \in 0 .. N
        PROVE  At(n, s, k + 1) = IF k = 0 THEN head
                                 ELSE IF f[k - 1] = NoThread THEN NoThread ELSE next[f[k - 1]]
    <3>1. CASE k = 0
      BY <3>1 DEF Spelled
    <3>2. CASE k # 0
      <4>1. k - 1 \in 0 .. N /\ (k - 1) + 1 = k
        BY <1>1, <3>2
      <4>2. f[k - 1] = At(n, s, k)
        BY <4>1
      <4>3. CASE k \in 1 .. n
        <5>1. At(n, s, k) = s[k] /\ s[k] \in Threads
          BY <4>3 DEF At
        <5>2. next[s[k]] = At(n, s, k + 1)
          BY <4>3 DEF Spelled
        <5>3. f[k - 1] = s[k] /\ s[k] # NoThread
          BY <4>2, <5>1, NoThreadAssumption
        <5>. QED BY <3>2, <5>2, <5>3
      <4>4. CASE k \notin 1 .. n
        <5>1. k + 1 \notin 1 .. n
          BY <1>1, <3>2, <4>4
        <5>2. f[k - 1] = NoThread /\ At(n, s, k + 1) = NoThread
          BY <4>2, <4>4, <5>1 DEF At
        <5>. QED BY <3>2, <5>2
      <4>. QED BY <4>3, <4>4
    <3>. QED BY <3>1, <3>2
  <2>. QED BY <2>1
<1>. HIDE DEF P, N, f
<1>4. P(Link)
  <2>1. P(CHOOSE g : P(g))
    BY <1>3
  <2>. QED BY <1>2, <2>1
<1>5. ASSUME NEW g, P(g), NEW k \in 0 .. N
      PROVE  g[k] = IF k = 0 THEN head
                    ELSE IF g[k - 1] = NoThread THEN NoThread ELSE next[g[k - 1]]
  BY <1>5 DEF P
<1>6. ASSUME NEW k \in 0 .. N PROVE Link[k] = f[k]
  <2>. DEFINE wrong == {i \in 0 .. N : Link[i] # f[i]}
  <2>1. ASSUME wrong # {} PROVE FALSE
    <3>1. wrong \in SUBSET Nat
      BY <1>1
    <3>2. PICK i \in wrong : \A j \in wrong : i <= j
      BY <2>1, <3>1, LeastNatural
    <3>3. i \in 0 .. N /\ Link[i] # f[i]
      BY <3>2
    <3>4. i # 0
      BY <1>3, <1>4, <1>5, <3>3
    <3>5. i - 1 \in 0 .. N /\ ~(i <= i - 1)
      BY <1>1, <3>3, <3>4
    <3>6. Link[i - 1] = f[i - 1]
      BY <3>2, <3>5
    <3>. QED BY <1>3, <1>4, <1>5, <3>3, <3>4, <3>6
  <2>. QED BY <2>1
<1>7. DOMAIN Link = 0 .. N
  BY <1>4 DEF P
<1>. QED BY <1>6, <1>7 DEF f, N

LEMMA ListIsShort ==
  ASSUME NEW n \in Nat, NEW s \in [1 .. n -> Threads], Spelled(n, s)
  PROVE  n <= Cardinality(Threads)
<1>1. s \in Injection(1 .. n, Threads)
  BY Fun_IsInj DEF Spelled
<1>2. Cardinality(1 .. n) <= Cardinality(Threads)
  BY <1>1, FS_Injection, ThreadVariablesAssumption
<1>3. Cardinality(1 .. n) = n
  <2>1. Cardinality(1 .. n) = IF 1 > n THEN 0 ELSE n - 1 + 1
    BY FS_Interval
  <2>. QED BY <2>1
<1>. QED BY <1>2, <1>3

\* Until a removal overlaps another use of the list, it holds between allocations
\* the threads that have been initialized and have not begun to end, each once,
\* it ends, and every vector in it has room for all the variables allocated so
\* far.
THEOREM ListHoldsEveryThread == Spec => []ListIsComplete
<1>1. TypeInv /\ OrderlyInv => ListIsComplete
  <2>. SUFFICES ASSUME TypeInv, OrderlyInv, ~overlapped, lock = NoThread,
                       NoneAt(Threads, Ending)
                PROVE  /\ InList = {t \in Threads : pc[t] \in {"run", "a_lock"}}
                       /\ Link[Cardinality(Threads)] = NoThread
                       /\ \A t \in InList : handles \subseteq DOMAIN vectors[t][listed[t]]
                       /\ handles \subseteq DOMAIN default
    BY DEF ListIsComplete
  <2>1. PICK n, s : Listing(n, s)
    BY DEF OrderlyInv, ListInv, Listing
  <2>2. n \in Nat /\ s \in [1 .. n -> Threads] /\ Spelled(n, s)
    BY <2>1 DEF Listing
  <2>. DEFINE N == Cardinality(Threads)
  <2>3. N \in Nat /\ n <= N
    BY <2>2, ListIsShort, FS_CardinalityType, ThreadVariablesAssumption
  <2>4. DOMAIN Link = 0 .. N /\ \A k \in 0 .. N : Link[k] = At(n, s, k + 1)
    BY <2>2, LinkIsListing
  <2>. HIDE DEF N
  <2>5. \A t \in Threads : Member(t) <=> pc[t] \in {"run", "a_lock"}
    <3>1. \A t \in Threads : pc[t] \notin Inside /\ pc[t] \notin Ending
      BY NoThreadAssumption DEF OrderlyInv, MutexInv, NoneAt
    <3>. QED BY <3>1 DEF Member, Inside, Allotting, Allocating, Ending
  <2>6. InList = {t \in Threads : Member(t)}
    <3>1. ASSUME NEW t \in InList PROVE t \in Threads /\ Member(t)
      <4>1. PICK k \in 0 .. N : t = At(n, s, k + 1) /\ t # NoThread
        BY <2>4 DEF InList
      <4>2. k + 1 \in 1 .. n /\ t = s[k + 1]
        BY <4>1 DEF At
      <4>. QED BY <2>2, <4>2 DEF Spelled
    <3>2. ASSUME NEW t \in Threads, Member(t) PROVE t \in InList
      <4>1. PICK i \in 1 .. n : s[i] = t
        BY <2>2, <3>2 DEF Spelled
      <4>2. i - 1 \in 0 .. N /\ (i - 1) + 1 = i
        BY <2>2, <2>3
      <4>3. Link[i - 1] = t
        BY <2>4, <4>1, <4>2 DEF At
      <4>. QED BY <2>4, <4>2, <4>3, NoThreadAssumption DEF InList
    <3>. QED BY <3>1, <3>2
  <2>7. Link[N] = NoThread
    <3>1. N \in 0 .. N /\ N + 1 \notin 1 .. n
      BY <2>2, <2>3
    <3>. QED BY <2>4, <3>1 DEF At
  <2>8. ASSUME NEW t \in InList, NEW v \in handles PROVE v \in DOMAIN vectors[t][listed[t]]
    <3>1. t \in Threads /\ VectorOf(t)
      BY <2>6 DEF OrderlyInv, DataInv, Holder
    <3>2. vectors[t] \in Seq(Vectors) /\ listed[t] \in 1 .. Len(vectors[t])
      BY <3>1 DEF VectorOf, TypeInv, VectorTypes
    <3>3. Current(t) \in Seq(Values)
      BY <3>2, ElementOfSeq DEF Current, Vectors
    <3>4. v <= Len(Current(t)) /\ v \in Nat /\ v >= 1
      BY <3>1 DEF VectorOf, TypeInv, VectorTypes, Variables
    <3>5. v \in 1 .. Len(Current(t))
      BY <3>3, <3>4
    <3>. QED BY <3>3, <3>5, LenProperties DEF Current
  <2>9. handles \subseteq DOMAIN default
    <3>1. default \in Seq(Values)
      BY DEF TypeInv, VectorTypes, Vectors
    <3>2. \A v \in handles : v \in 1 .. Len(default)
      BY HandedOut DEF OrderlyInv
    <3>. QED BY <3>1, <3>2, LenProperties
  <2>. QED BY <2>5, <2>6, <2>7, <2>8, <2>9 DEF N
<1>2. TypeInv /\ OrderlyInv /\ [Next]_vars => TypeInv' /\ OrderlyInv'
  BY TypeStep, OrderlyStep
<1>3. Init => TypeInv /\ OrderlyInv
  BY TypeInit, OrderlyInit
<1>. QED BY <1>1, <1>2, <1>3, PTL DEF Spec
=============================================================================
