------------------------- MODULE ThreadLocalProofs -------------------------
(***************************************************************************)
(* Proofs about ThreadLocal, for any threads, objects and addresses and    *)
(* any bound on the ids, of an application that destroys no object while   *)
(* the use of one makes a thread's array grow (GrowsAlone).                *)
(***************************************************************************)
EXTENDS ThreadLocal, FiniteSetTheorems, SequenceTheorems, TLAPS

\* The program counters: of get, of resize, of destroy and of the exit of a thread.
GetPCs == {"register", "get", "new", "set", "got", "grow_delete", "grow_set"}
PCs == {"idle", "x_unlock", "x_destroy", "d_next", "d_read", "d_clear"} \cup GetPCs

Types ==
    /\ nextId \in 0..MaxId
    /\ idOf \in [Object -> 0..nextId]
    /\ freeList \in Seq(1..nextId)
    /\ registered \subseteq Thread
    /\ lock \in Thread \cup {Null}
    /\ elements \in [Thread -> Array \cup {Null}]
    /\ size \in [Thread -> 0..Grown(MaxId)]
    /\ array \in [Array -> {Free} \cup [Index -> Value \cup {Null}]]
    /\ home \in [Value -> {Free} \cup (Thread \X Object)]
    /\ pc \in [Thread -> PCs]
    /\ obj \in [Thread -> Object \cup {Null}]
    /\ ptr \in [Thread -> Value \cup {Null}]
    /\ entry \in [Thread -> Array \cup {Null}]
    /\ left \in [Thread -> SUBSET Thread]

\* The objects that exist.
Made == {o \in Object : idOf[o] # 0}

Ids ==
    /\ \A o, p \in Object : o # p /\ idOf[o] # 0 => idOf[o] # idOf[p]
    /\ \A o \in Object, i \in 1..Len(freeList) : idOf[o] # freeList[i]
    /\ \A i, j \in 1..Len(freeList) : i # j => freeList[i] # freeList[j]
    /\ IsFiniteSet(Made)
    /\ Cardinality(Made) + Len(freeList) = nextId

\* Where a thread is in its call decides what it has, and whether it has the lock.
CallOf(t) ==
    /\ size[t] = 0 <=> elements[t] = Null
    /\ t \in registered <=> (elements[t] # Null /\ pc[t] \notin {"register", "x_unlock", "x_destroy"})
    /\ lock = t <=> (Destroying(t) \/ pc[t] = "x_unlock")
    /\ obj[t] # Null <=> (Destroying(t) \/ pc[t] \in GetPCs)
    /\ obj[t] # Null => idOf[obj[t]] # 0
    /\ pc[t] \in GetPCs \cup {"x_unlock", "x_destroy"} => elements[t] # Null
    /\ pc[t] \in {"new", "set", "got"} => idOf[obj[t]] <= size[t]
    /\ pc[t] \in {"grow_delete", "grow_set"} => idOf[obj[t]] > size[t]
    /\ entry[t] # Null <=> pc[t] \in {"d_read", "d_clear", "grow_delete", "grow_set"}
    /\ pc[t] \in {"set", "got"} => ptr[t] # Null
    /\ Destroying(t) => left[t] \subseteq registered

Calls == \A t \in Thread : CallOf(t)

\* While an object is destroyed nobody uses it, and no array grows.
Alone ==
    \A t, u \in Thread : Destroying(t) =>
        /\ ~Growing(u)
        /\ u # t => obj[u] # obj[t]

\* The arrays that are a thread's own: the one it grows into too.
Mine(t) ==
    (IF pc[t] = "grow_set" THEN {} ELSE {elements[t]} \ {Null})
      \cup (IF pc[t] \in {"grow_delete", "grow_set"} THEN {entry[t]} ELSE {})

\* They are allocated, and nobody else's.
Owned ==
    /\ \A t \in Thread : \A a \in Mine(t) : a \in Array /\ array[a] # Free
    /\ \A t, u \in Thread : t # u => Mine(t) \cap Mine(u) = {}

\* resize has copied the array.
Copied ==
    \A t \in Thread : pc[t] = "grow_delete" => entry[t] # elements[t] /\ array[entry[t]] = array[elements[t]]

\* destroy works on the array of a thread that is still registered.
PointsAt(t, u) == u \in registered /\ u \notin left[t] /\ entry[t] = elements[u] /\ idOf[obj[t]] <= size[u]

Pointed ==
    \A t \in Thread : pc[t] \in {"d_read", "d_clear"} => \E u \in Thread : PointsAt(t, u)

Arrays == Owned /\ Copied /\ Pointed

\* Nothing is beyond n_elements_, or in an array that no destructor can find yet.
Inside ==
    \A t \in Thread, i \in Index : i > size[t] \/ pc[t] = "register" => Elements(t)[i] = Null

\* The values in a thread's array are its own, under the ids of their objects.
Own(t, i) ==
    LET v == Elements(t)[i]
    IN  home[v] # Free /\ home[v][1] = t /\ (Exiting(t) \/ idOf[home[v][2]] = i)

Filed ==
    \A t \in Thread, i \in Index : Elements(t)[i] # Null /\ ~Clearing(t, i) => Own(t, i)

\* destroyAll deletes each value once.
Distinct ==
    \A t \in Thread, i, j \in Index :
        Exiting(t) /\ i # j /\ Elements(t)[i] # Null => Elements(t)[i] # Elements(t)[j]

Slots == Inside /\ Filed /\ Distinct

\* What a call has found in its thread's array, or made for it.
FindsOf(t) ==
    /\ pc[t] \in {"new", "set"} => Elements(t)[idOf[obj[t]]] = Null
    /\ pc[t] = "got" => Elements(t)[idOf[obj[t]]] = ptr[t]
    /\ pc[t] \in {"set", "got"} => home[ptr[t]] = <<t, obj[t]>>

Finds == \A t \in Thread : FindsOf(t)

\* destroy leaves nothing behind in the arrays it has been to.
Visited ==
    \A t, u \in Thread : Destroying(t) =>
        \/ u \in left[t]
        \/ Exiting(u)
        \/ entry[t] # Null /\ entry[t] = elements[u]
        \/ Elements(u)[idOf[obj[t]]] = Null

\* The value in the element that destroy clears is gone.
Gone ==
    \A t, u \in Thread : pc[t] = "d_clear" /\ entry[t] = elements[u] =>
        \A v \in Value : home[v] # <<u, obj[t]>>

\* A value that is alive is in its thread's array.
KeptOf(v) ==
    LET t == home[v][1]
        o == home[v][2]
    IN  \/ pc[t] = "set" /\ ptr[t] = v
        \/ idOf[o] # 0 /\ Elements(t)[idOf[o]] = v
        \/ Exiting(t) /\ \E i \in Index : Elements(t)[i] = v

Kept == \A v \in Value : home[v] # Free => KeptOf(v)

Inv == Types /\ Ids /\ Calls /\ Alone /\ Arrays /\ Slots /\ Finds /\ Visited /\ Gone /\ Kept

-----------------------------------------------------------------------------
(* The operators *)

\* A resize takes the id in, and no array is larger than the largest one.
LEMMA GrownFacts ==
    ASSUME NEW n \in 1..MaxId
    PROVE  /\ Grown(n) \in Nat /\ Grown(MaxId) \in Nat
           /\ n < Grown(n) /\ Grown(n) <= Grown(MaxId) /\ MaxId < Grown(MaxId)
           /\ n \in Index
  BY IdAssumption DEF Grown, Index

\* The mark of free memory is neither an array nor a value's home.
LEMMA FreeFacts ==
    /\ \A f : f \in [Index -> Value \cup {Null}] => f # Free
    /\ \A t, o : <<t, o>> # Free
    /\ Blank \in [Index -> Value \cup {Null}]
    /\ \A i \in Index : Blank[i] = Null
  <1>1. \A f : f \in [Index -> Value \cup {Null}] => f # Free
    <2> SUFFICES ASSUME NEW f \in [Index -> Value \cup {Null}], f = Free
                 PROVE  FALSE
      OBVIOUS
    <2>1. 1 \in DOMAIN f
      BY IdAssumption DEF Index, Grown
    <2> QED  BY <2>1 DEF Free
  <1> QED  BY <1>1 DEF Free, Blank

\* What the bounds say of an object that exists.
LEMMA IdFacts ==
    ASSUME Types, NEW o \in Object
    PROVE  /\ idOf[o] \in 0..MaxId /\ nextId \in Nat
           /\ idOf[o] # 0 => idOf[o] \in 1..MaxId /\ idOf[o] \in Index
  BY IdAssumption, GrownFacts DEF Types

\* free_list_.pop_back().
LEMMA PopFacts ==
    ASSUME NEW S, NEW s \in Seq(S), s # << >>
    PROVE  /\ SubSeq(s, 1, Len(s) - 1) \in Seq(S)
           /\ Len(s) \in Nat \ {0} /\ Len(SubSeq(s, 1, Len(s) - 1)) = Len(s) - 1
           /\ \A i \in 1..Len(s) - 1 : SubSeq(s, 1, Len(s) - 1)[i] = s[i]
           /\ s[Len(s)] \in S
  <1>1. Len(s) \in Nat \ {0} /\ \A i \in 1..Len(s) : s[i] \in S
    OBVIOUS
  <1>2. 1 \in Int /\ Len(s) - 1 \in Int /\ \A i \in 1..Len(s) - 1 : s[i] \in S
    BY <1>1
  <1>3. /\ SubSeq(s, 1, Len(s) - 1) \in Seq(S)
        /\ Len(SubSeq(s, 1, Len(s) - 1)) = IF 1 <= Len(s) - 1 THEN Len(s) - 1 - 1 + 1 ELSE 0
        /\ \A i \in 1..Len(s) - 1 - 1 + 1 : SubSeq(s, 1, Len(s) - 1)[i] = s[1 + i - 1]
    BY <1>2, SubSeqProperties
  <1>4. Len(SubSeq(s, 1, Len(s) - 1)) = Len(s) - 1
    <2>1. \A n \in Nat \ {0} : (IF 1 <= n - 1 THEN n - 1 - 1 + 1 ELSE 0) = n - 1
      OBVIOUS
    <2> QED  BY <1>1, <1>3, <2>1
  <1>5. \A i \in 1..Len(s) - 1 : SubSeq(s, 1, Len(s) - 1)[i] = s[i]
    BY <1>1, <1>3
  <1> QED  BY <1>1, <1>3, <1>4, <1>5

-----------------------------------------------------------------------------
(* Types *)

\* The array of a registered thread is allocated, unless the thread is growing it.
LEMMA RegisteredArray ==
    ASSUME GrowsAlone, Inv, NEW t \in Thread, Destroying(t), NEW u \in registered
    PROVE  /\ pc[u] \notin {"grow_delete", "grow_set"} /\ ~Exiting(u)
           /\ elements[u] \in Array /\ array[elements[u]] \in [Index -> Value \cup {Null}]
           /\ Elements(u) = array[elements[u]]
  <1>1. u \in Thread /\ ~Growing(u) /\ elements[u] # Null /\ ~Exiting(u) /\ size[u] # 0
    BY DEF Inv, Types, Alone, Calls, CallOf, Exiting
  <1>2. pc[u] \notin {"grow_delete", "grow_set"}
    BY <1>1 DEF Inv, Calls, CallOf, Growing, Outgrows
  <1>3. elements[u] \in Array /\ array[elements[u]] # Free
    BY <1>1, <1>2 DEF Inv, Arrays, Owned, Mine
  <1> QED  BY <1>1, <1>2, <1>3 DEF Inv, Types, Elements

\* Every step keeps the types.
LEMMA TypesStep ==
    ASSUME GrowsAlone, Inv, [Next]_vars
    PROVE  Types'
  <1> USE DEF Inv, Types, ids, sync, storage, locals
  <1>1. ASSUME NEW t \in Thread, NEW o \in Object, Create(t, o)
        PROVE  Types'
    <2> USE <1>1 DEF Create
    <2>1. freeList # << >> => /\ freeList[Len(freeList)] \in 1..nextId
                              /\ SubSeq(freeList, 1, Len(freeList) - 1) \in Seq(1..nextId)
      BY PopFacts
    <2>2. nextId' \in 0..MaxId /\ nextId <= nextId' /\ nextId \in Nat /\ nextId' \in Nat
      BY IdAssumption
    <2>3. idOf' \in [Object -> 0..nextId']
      <3>1. PICK i \in 0..nextId' : idOf' = [idOf EXCEPT ![o] = i]
        BY <2>1, <2>2
      <3>2. idOf \in [Object -> 0..nextId']
        BY <2>2
      <3> QED  BY <3>1, <3>2
    <2>4. freeList' \in Seq(1..nextId)
      BY <2>1
    <2>5. freeList' \in Seq(1..nextId')
      BY <2>4, <2>2
    <2> QED  BY <2>2, <2>3, <2>5
  <1>2. ASSUME NEW t \in Thread, NEW o \in Object, GetBegin(t, o)
        PROVE  Types'
    <2> USE <1>2 DEF GetBegin
    <2>1. Grown(1) \in 0..Grown(MaxId)
      BY GrownFacts, IdAssumption
    <2>2. pc' \in [Thread -> PCs] /\ obj' \in [Thread -> Object \cup {Null}]
      BY DEF Goto, PCs, GetPCs
    <2>3. elements' \in [Thread -> Array \cup {Null}] /\ size' \in [Thread -> 0..Grown(MaxId)]
      BY ZenonT(60), <2>1
    <2>4. array' \in [Array -> {Free} \cup [Index -> Value \cup {Null}]]
      <3>1. CASE array' = array
        BY <3>1
      <3>2. ASSUME NEW a \in Array, array' = [array EXCEPT ![a] = Blank]
            PROVE  array' \in [Array -> {Free} \cup [Index -> Value \cup {Null}]]
        BY <3>2, FreeFacts
      <3> QED  BY <3>1, <3>2
    <2> QED  BY <2>2, <2>3, <2>4
  <1>3. ASSUME NEW t \in Thread, Register(t)
        PROVE  Types'
    BY <1>3 DEF Register, Goto, PCs, GetPCs
  <1>4. ASSUME NEW t \in Thread, Get(t)
        PROVE  Types'
    <2>1. elements[t] \in Array /\ array[elements[t]] \in [Index -> Value \cup {Null}]
      BY <1>4 DEF Get, Calls, CallOf, GetPCs, Arrays, Owned, Mine
    <2>2. idOf[obj[t]] \in Index
      BY <1>4, IdFacts DEF Get, Calls, CallOf, GetPCs
    <2> QED  BY <1>4, <2>1, <2>2 DEF Get, Goto, PCs, GetPCs
  <1>5. ASSUME NEW t \in Thread, GrowCopy(t)
        PROVE  Types'
    <2>1. elements[t] \in Array
      BY <1>5 DEF GrowCopy, Calls, CallOf, GetPCs, Arrays, Owned, Mine
    <2> QED  BY <1>5, <2>1 DEF GrowCopy, Goto, PCs, GetPCs
  <1>6. ASSUME NEW t \in Thread, GrowDelete(t)
        PROVE  Types'
    BY <1>6 DEF GrowDelete, Goto, PCs, GetPCs
  <1>7. ASSUME NEW t \in Thread, GrowSet(t)
        PROVE  Types'
    <2>1. idOf[obj[t]] \in 1..MaxId
      BY <1>7, IdFacts DEF GrowSet, Calls, CallOf, GetPCs
    <2>2. Grown(idOf[obj[t]]) \in 0..Grown(MaxId)
      BY <2>1, GrownFacts
    <2> QED  BY <1>7, <2>2 DEF GrowSet, Goto, PCs, GetPCs
  <1>8. ASSUME NEW t \in Thread, New(t)
        PROVE  Types'
    <2>1. obj[t] \in Object
      BY <1>8 DEF New, Calls, CallOf, GetPCs
    <2> QED  BY <1>8, <2>1 DEF New, Goto, PCs, GetPCs
  <1>9. ASSUME NEW t \in Thread, Set(t)
        PROVE  Types'
    <2>1. elements[t] \in Array /\ array[elements[t]] \in [Index -> Value \cup {Null}]
      BY <1>9 DEF Set, Calls, CallOf, GetPCs, Arrays, Owned, Mine
    <2> QED  BY <1>9, <2>1 DEF Set, Goto, PCs, GetPCs
  <1>10. ASSUME NEW t \in Thread, Got(t)
         PROVE  Types'
    BY <1>10 DEF Got, Return, Goto, PCs, GetPCs
  <1>11. ASSUME NEW t \in Thread, NEW o \in Object, DestroyBegin(t, o)
         PROVE  Types'
    BY <1>11 DEF DestroyBegin, Goto, PCs, GetPCs
  <1>12. ASSUME NEW t \in Thread, DestroyNext(t)
         PROVE  Types'
    <2>1. PICK u \in left[t] : /\ left' = [left EXCEPT ![t] = @ \ {u}]
                               /\ entry' = [entry EXCEPT ![t] = elements[u]] \/ entry' = entry
                               /\ pc' = [pc EXCEPT ![t] = "d_read"] \/ pc' = pc
      BY <1>12 DEF DestroyNext, Goto
    <2>2. u \in Thread /\ left[t] \ {u} \in SUBSET Thread
      OBVIOUS
    <2>3. left' \in [Thread -> SUBSET Thread]
      BY <2>1, <2>2
    <2>4. entry' \in [Thread -> Array \cup {Null}] /\ pc' \in [Thread -> PCs]
      BY <2>1, <2>2 DEF PCs
    <2> QED  BY <1>12, <2>3, <2>4 DEF DestroyNext
  <1>13. ASSUME NEW t \in Thread, DestroyRead(t)
         PROVE  Types'
    BY <1>13 DEF DestroyRead, Delete, Goto, PCs, GetPCs
  <1>14. ASSUME NEW t \in Thread, DestroyClear(t)
         PROVE  Types'
    <2>0. PICK u \in Thread : entry[t] = elements[u] /\ u \in registered
      BY <1>14 DEF DestroyClear, Arrays, Pointed, PointsAt
    <2>1. entry[t] \in Array /\ array[entry[t]] \in [Index -> Value \cup {Null}]
      BY <1>14, <2>0, RegisteredArray DEF DestroyClear, Destroying
    <2> QED  BY <1>14, <2>1 DEF DestroyClear, Goto, PCs, GetPCs
  <1>15. ASSUME NEW t \in Thread, DestroyEnd(t)
         PROVE  Types'
    <2>1. obj[t] \in Object /\ idOf[obj[t]] \in 1..nextId
      BY <1>15, IdFacts DEF DestroyEnd, Calls, CallOf, Destroying
    <2> QED  BY <1>15, <2>1 DEF DestroyEnd, Return, Goto, PCs, GetPCs
  <1>16. ASSUME NEW t \in Thread, Forget(t) \/ Unlock(t)
         PROVE  Types'
    BY ZenonT(60), <1>16 DEF Forget, Unlock, Goto, PCs, GetPCs
  <1>17. ASSUME NEW t \in Thread, DestroyAllNext(t)
         PROVE  Types'
    <2>1. elements[t] \in Array /\ array[elements[t]] \in [Index -> Value \cup {Null}]
      BY <1>17 DEF DestroyAllNext, Calls, CallOf, Arrays, Owned, Mine
    <2>2. PICK i : array' = [array EXCEPT ![elements[t]][i] = Null]
      BY <1>17 DEF DestroyAllNext
    <2>3. array' \in [Array -> {Free} \cup [Index -> Value \cup {Null}]]
      BY <2>1, <2>2
    <2>4. home' \in [Value -> {Free} \cup (Thread \X Object)]
      BY <1>17 DEF DestroyAllNext, Delete
    <2> QED  BY <1>17, <2>3, <2>4 DEF DestroyAllNext
  <1>18. ASSUME NEW t \in Thread, DestroyAllEnd(t)
         PROVE  Types'
    <2>1. 0 \in 0..Grown(MaxId)
      BY IdAssumption DEF Grown
    <2> QED  BY <1>18, <2>1 DEF DestroyAllEnd, Goto, PCs, GetPCs
  <1>19. ASSUME StaticallyDestructed \/ UNCHANGED vars
         PROVE  Types'
    BY <1>19 DEF StaticallyDestructed, vars
  <1> QED
    BY <1>1, <1>2, <1>3, <1>4, <1>5, <1>6, <1>7, <1>8, <1>9, <1>10, <1>11, <1>12, <1>13, <1>14, <1>15, <1>16, <1>17,
       <1>18, <1>19 DEF Next, Step, GetStep, DestroyStep, ExitStep, Finished

-----------------------------------------------------------------------------
(* Ids *)

\* Only the constructor and the end of the destructor change the ids.
LEMMA IdsUnchanged ==
    ASSUME [Next]_vars,
           \A t \in Thread, o \in Object : ~Create(t, o),
           \A t \in Thread : ~DestroyEnd(t)
    PROVE  UNCHANGED ids
  <1>1. ASSUME NEW t \in Thread, NEW o \in Object, GetBegin(t, o) \/ DestroyBegin(t, o)
        PROVE  UNCHANGED ids
    BY <1>1 DEF GetBegin, DestroyBegin
  <1>2. ASSUME NEW t \in Thread, GetStep(t)
        PROVE  UNCHANGED ids
    BY <1>2 DEF GetStep, Register, Get, GrowCopy, GrowDelete, GrowSet, New, Set, Got
  <1>3. ASSUME NEW t \in Thread, DestroyNext(t) \/ DestroyRead(t) \/ DestroyClear(t)
        PROVE  UNCHANGED ids
    BY <1>3 DEF DestroyNext, DestroyRead, DestroyClear
  <1>4. ASSUME NEW t \in Thread, ExitStep(t) \/ Forget(t)
        PROVE  UNCHANGED ids
    BY <1>4 DEF ExitStep, Unlock, DestroyAllNext, DestroyAllEnd, Forget
  <1>5. ASSUME StaticallyDestructed \/ UNCHANGED vars
        PROVE  UNCHANGED ids
    BY <1>5 DEF StaticallyDestructed, vars
  <1> QED  BY <1>1, <1>2, <1>3, <1>4, <1>5 DEF Next, Step, DestroyStep, Finished

\* The ids in use and the free ones stay apart and are together all of them.
LEMMA IdsStep ==
    ASSUME GrowsAlone, Inv, [Next]_vars
    PROVE  Ids'
  <1>t. Types /\ Ids
    BY DEF Inv
  <1>1. ASSUME NEW t \in Thread, NEW o \in Object, Create(t, o)
        PROVE  Ids'
    <2> DEFINE i == idOf'[o]
    <2>1. /\ idOf' = [idOf EXCEPT ![o] = i] /\ idOf[o] = 0 /\ i # 0 /\ nextId \in Nat
          /\ \A p \in Object : idOf[p] # i
          /\ \A j \in 1..Len(freeList') : freeList'[j] # i /\ freeList'[j] = freeList[j] /\ j \in 1..Len(freeList)
          /\ nextId' - Len(freeList') = nextId - Len(freeList) + 1
      <3>1. CASE freeList = << >>
        BY <1>1, <1>t, <3>1, IdFacts DEF Create, Types
      <3>2. CASE freeList # << >>
        <4> DEFINE q == SubSeq(freeList, 1, Len(freeList) - 1)
        <4>1. idOf' = [idOf EXCEPT ![o] = freeList[Len(freeList)]] /\ freeList' = q /\ nextId' = nextId /\ idOf[o] = 0
          BY <1>1, <3>2 DEF Create
        <4>2. /\ Len(freeList) \in Nat \ {0} /\ Len(q) = Len(freeList) - 1
              /\ \A j \in 1..Len(freeList) - 1 : q[j] = freeList[j]
              /\ freeList[Len(freeList)] \in 1..nextId
          BY <1>t, <3>2, PopFacts DEF Types
        <4>3. i = freeList[Len(freeList)]
          BY <4>1, <1>t DEF Types
        <4>4. \A p \in Object : idOf[p] # i
          BY <4>2, <4>3, <1>t DEF Ids
        <4>5. \A j \in 1..Len(freeList) - 1 : freeList[j] # i
          BY <4>2, <4>3, <1>t DEF Ids
        <4> HIDE DEF q, i
        <4>6. nextId \in Nat
          BY <1>t, IdAssumption DEF Types
        <4> QED  BY <4>1, <4>2, <4>3, <4>4, <4>5, <4>6
      <3> QED  BY <3>1, <3>2
    <2> HIDE DEF i
    <2>2. Made' = Made \cup {o} /\ o \notin Made
      BY <2>1, <1>t DEF Made, Types
    <2>3. IsFiniteSet(Made') /\ Cardinality(Made') = Cardinality(Made) + 1
      BY <2>2, <1>t, FS_AddElement DEF Ids
    <2>4. Cardinality(Made) \in Nat /\ Len(freeList) \in Nat /\ Len(freeList') \in Nat /\ nextId' \in Nat
      BY SMTT(40), <1>t, FS_CardinalityType, TypesStep, IdAssumption DEF Ids, Types
    <2>5. Cardinality(Made') + Len(freeList') = nextId'
      <3>1. Cardinality(Made) + Len(freeList) = nextId
        BY <1>t DEF Ids
      <3>2. nextId \in Nat /\ nextId' - Len(freeList') = nextId - Len(freeList) + 1
        BY <2>1
      <3> QED  BY SMTT(40), <2>3, <2>4, <3>1, <3>2
    <2>6. \A p \in Object : idOf'[p] = IF p = o THEN i ELSE idOf[p]
      BY <2>1, <1>t DEF Types
    <2>7. \A p, r \in Object : p # r /\ idOf'[p] # 0 => idOf'[p] # idOf'[r]
      BY <2>1, <2>6, <1>t DEF Ids
    <2>8. \A p \in Object, j \in 1..Len(freeList') : idOf'[p] # freeList'[j]
      BY <2>1, <2>6, <1>t DEF Ids
    <2>9. \A j, k \in 1..Len(freeList') : j # k => freeList'[j] # freeList'[k]
      BY <2>1, <1>t DEF Ids
    <2> QED  BY <2>3, <2>5, <2>7, <2>8, <2>9 DEF Ids
  <1>2. ASSUME NEW t \in Thread, DestroyEnd(t)
        PROVE  Ids'
    <2> DEFINE o == obj[t]
               i == idOf[o]
    <2>1. o \in Object /\ i # 0
      BY <1>2, <1>t DEF DestroyEnd, Inv, Calls, CallOf, Destroying, Types
    <2>2. freeList' = Append(freeList, i) /\ idOf' = [idOf EXCEPT ![o] = 0] /\ nextId' = nextId
      BY <1>2 DEF DestroyEnd
    <2>3. i \in 1..nextId /\ nextId \in Nat
      BY <2>1, <1>t, IdFacts DEF Types
    <2> HIDE DEF o, i
    <2>4. /\ Len(freeList') = Len(freeList) + 1 /\ Len(freeList) \in Nat
          /\ \A j \in 1..Len(freeList') : freeList'[j] = IF j = Len(freeList) + 1 THEN i ELSE freeList[j]
      BY <2>2, <2>3, <1>t DEF Types
    <2>5. Made' = Made \ {o} /\ o \in Made
      BY <2>1, <2>2, <1>t DEF Made, Types, i
    <2>6. IsFiniteSet(Made') /\ Cardinality(Made') = Cardinality(Made) - 1
      BY <2>5, <1>t, FS_RemoveElement DEF Ids
    <2>7. Cardinality(Made) \in Nat
      BY <1>t, FS_CardinalityType DEF Ids
    <2>8. Cardinality(Made') + Len(freeList') = nextId'
      BY <2>2, <2>3, <2>4, <2>6, <2>7, <1>t DEF Ids
    <2>9. \A p \in Object : idOf'[p] = IF p = o THEN 0 ELSE idOf[p]
      BY <2>2, <1>t DEF Types
    <2>10. \A p \in Object : p # o => idOf[p] # i
      BY <2>1, <1>t DEF Ids, i
    <2>11. \A j \in 1..Len(freeList) : freeList[j] # i /\ freeList[j] # 0
      BY <2>1, <1>t DEF Ids, i, Types
    <2>12. \A p, r \in Object : p # r /\ idOf'[p] # 0 => idOf'[p] # idOf'[r]
      BY <2>9, <1>t DEF Ids
    <2>13. \A p \in Object, j \in 1..Len(freeList') : idOf'[p] # freeList'[j]
      BY <2>1, <2>4, <2>9, <2>10, <2>11, <1>t DEF Ids
    <2>14. \A j, k \in 1..Len(freeList') : j # k => freeList'[j] # freeList'[k]
      BY <2>4, <2>11, <1>t DEF Ids
    <2> QED  BY <2>6, <2>8, <2>12, <2>13, <2>14 DEF Ids
  <1>3. CASE UNCHANGED ids
    BY <1>3, <1>t DEF ids, Ids, Made
  <1> QED  BY <1>1, <1>2, <1>3, IdsUnchanged

-----------------------------------------------------------------------------
(* What each action does to its thread; it leaves the other threads the same *)

\* What belongs to thread u and stays the same.
Same(u) ==
    /\ size'[u] = size[u] /\ elements'[u] = elements[u] /\ pc'[u] = pc[u] /\ obj'[u] = obj[u]
    /\ ptr'[u] = ptr[u] /\ entry'[u] = entry[u] /\ left'[u] = left[u]

Others(t) == \A u \in Thread \ {t} : Same(u)

\* Making an object moves no thread.
LEMMA CreateDoes ==
    ASSUME Types, NEW t \in Thread, NEW o \in Object, Create(t, o)
    PROVE  /\ pc[t] = "idle" /\ lock' = lock /\ registered' = registered
           /\ pc'[t] = pc[t] /\ obj'[t] = obj[t] /\ ptr'[t] = ptr[t]
           /\ entry'[t] = entry[t] /\ left'[t] = left[t] /\ size'[t] = size[t] /\ elements'[t] = elements[t]
           /\ Others(t)
  <1>1. Others(t)
    BY DEF Create, Return, Goto, Others, Same, Types, ids, sync, storage, locals
  <1> QED  BY <1>1 DEF Create, Return, Goto, Types, ids, sync, storage, locals

\* The beginning of get gives a thread its first array.
LEMMA GetBeginDoes ==
    ASSUME Types, NEW t \in Thread, NEW o \in Object, GetBegin(t, o)
    PROVE  /\ pc[t] = "idle" /\ lock' = lock /\ registered' = registered /\ idOf' = idOf /\ idOf[o] # 0
           /\ \/ size'[t] = size[t] /\ elements'[t] = elements[t] /\ size[t] # 0
              \/ size[t] = 0 /\ size'[t] = Grown(1) /\ elements'[t] \in Array
           /\ pc'[t] = (IF t \in registered THEN "get" ELSE "register") /\ obj'[t] = o /\ ptr'[t] = ptr[t]
           /\ entry'[t] = entry[t] /\ left'[t] = left[t]
           /\ Others(t)
  <1>1. Others(t)
    BY DEF GetBegin, Return, Goto, Others, Same, Types, ids, sync, storage, locals
  <1> QED  BY <1>1 DEF GetBegin, Return, Goto, Types, ids, sync, storage, locals

\* addThread.
LEMMA RegisterDoes ==
    ASSUME Types, NEW t \in Thread, Register(t)
    PROVE  /\ pc[t] = "register" /\ lock' = lock /\ registered' = registered \cup {t} /\ idOf' = idOf
           /\ pc'[t] = "get" /\ obj'[t] = obj[t] /\ ptr'[t] = ptr[t]
           /\ entry'[t] = entry[t] /\ left'[t] = left[t] /\ size'[t] = size[t] /\ elements'[t] = elements[t]
           /\ Others(t)
  <1>1. Others(t)
    BY DEF Register, Return, Goto, Others, Same, Types, ids, sync, storage, locals
  <1> QED  BY <1>1 DEF Register, Return, Goto, Types, ids, sync, storage, locals

\* get finds a value or goes on to make one.
LEMMA GetDoes ==
    ASSUME Types, NEW t \in Thread, Get(t)
    PROVE  /\ pc[t] = "get" /\ lock' = lock /\ registered' = registered /\ idOf' = idOf /\ idOf[obj[t]] <= size[t]
           /\ pc'[t] = "new" \/ (pc'[t] = "got" /\ ptr'[t] # Null)
           /\ obj'[t] = obj[t]
           /\ entry'[t] = entry[t] /\ left'[t] = left[t] /\ size'[t] = size[t] /\ elements'[t] = elements[t]
           /\ Others(t)
  <1>1. Others(t)
    BY DEF Get, Return, Goto, Others, Same, Types, ids, sync, storage, locals
  <1> QED  BY <1>1 DEF Get, Return, Goto, Types, ids, sync, storage, locals

\* resize takes another array ...
LEMMA GrowCopyDoes ==
    ASSUME Types, NEW t \in Thread, GrowCopy(t)
    PROVE  /\ pc[t] = "get" /\ lock' = lock /\ registered' = registered /\ idOf' = idOf /\ idOf[obj[t]] > size[t]
           /\ entry'[t] \in Array
           /\ pc'[t] = "grow_delete" /\ obj'[t] = obj[t] /\ ptr'[t] = ptr[t]
           /\ left'[t] = left[t] /\ size'[t] = size[t] /\ elements'[t] = elements[t]
           /\ Others(t)
  <1>1. Others(t)
    BY DEF GrowCopy, Return, Goto, Others, Same, Types, ids, sync, storage, locals
  <1> QED  BY <1>1 DEF GrowCopy, Return, Goto, Types, ids, sync, storage, locals

\* ... deletes the first ...
LEMMA GrowDeleteDoes ==
    ASSUME Types, NEW t \in Thread, GrowDelete(t)
    PROVE  /\ pc[t] = "grow_delete" /\ lock' = lock /\ registered' = registered /\ idOf' = idOf
           /\ pc'[t] = "grow_set" /\ obj'[t] = obj[t] /\ ptr'[t] = ptr[t]
           /\ entry'[t] = entry[t] /\ left'[t] = left[t] /\ size'[t] = size[t] /\ elements'[t] = elements[t]
           /\ Others(t)
  <1>1. Others(t)
    BY DEF GrowDelete, Return, Goto, Others, Same, Types, ids, sync, storage, locals
  <1> QED  BY <1>1 DEF GrowDelete, Return, Goto, Types, ids, sync, storage, locals

\* ... and replaces it.
LEMMA GrowSetDoes ==
    ASSUME Types, NEW t \in Thread, GrowSet(t)
    PROVE  /\ pc[t] = "grow_set" /\ lock' = lock /\ registered' = registered /\ idOf' = idOf
           /\ pc'[t] = "get" /\ obj'[t] = obj[t] /\ ptr'[t] = ptr[t]
           /\ entry'[t] = Null /\ left'[t] = left[t] /\ size'[t] = Grown(idOf[obj[t]]) /\ elements'[t] = entry[t]
           /\ Others(t)
  <1>1. Others(t)
    BY DEF GrowSet, Return, Goto, Others, Same, Types, ids, sync, storage, locals
  <1> QED  BY <1>1 DEF GrowSet, Return, Goto, Types, ids, sync, storage, locals

\* A value is made.
LEMMA NewDoes ==
    ASSUME Types, NEW t \in Thread, New(t)
    PROVE  /\ pc[t] = "new" /\ lock' = lock /\ registered' = registered /\ idOf' = idOf
           /\ ptr'[t] \in Value
           /\ pc'[t] = "set" /\ obj'[t] = obj[t]
           /\ entry'[t] = entry[t] /\ left'[t] = left[t] /\ size'[t] = size[t] /\ elements'[t] = elements[t]
           /\ Others(t)
  <1>1. Others(t)
    BY DEF New, Return, Goto, Others, Same, Types, ids, sync, storage, locals
  <1> QED  BY <1>1 DEF New, Return, Goto, Types, ids, sync, storage, locals

\* A value is kept.
LEMMA SetDoes ==
    ASSUME Types, NEW t \in Thread, Set(t)
    PROVE  /\ pc[t] = "set" /\ lock' = lock /\ registered' = registered /\ idOf' = idOf
           /\ pc'[t] = "got" /\ obj'[t] = obj[t] /\ ptr'[t] = ptr[t]
           /\ entry'[t] = entry[t] /\ left'[t] = left[t] /\ size'[t] = size[t] /\ elements'[t] = elements[t]
           /\ Others(t)
  <1>1. Others(t)
    BY DEF Set, Return, Goto, Others, Same, Types, ids, sync, storage, locals
  <1> QED  BY <1>1 DEF Set, Return, Goto, Types, ids, sync, storage, locals

\* get returns.
LEMMA GotDoes ==
    ASSUME Types, NEW t \in Thread, Got(t)
    PROVE  /\ pc[t] = "got" /\ lock' = lock /\ registered' = registered /\ idOf' = idOf
           /\ pc'[t] = "idle" /\ obj'[t] = Null /\ ptr'[t] = Null
           /\ entry'[t] = entry[t] /\ left'[t] = left[t] /\ size'[t] = size[t] /\ elements'[t] = elements[t]
           /\ Others(t)
  <1>1. Others(t)
    BY DEF Got, Return, Goto, Others, Same, Types, ids, sync, storage, locals
  <1> QED  BY <1>1 DEF Got, Return, Goto, Types, ids, sync, storage, locals

\* The beginning of destroy takes the lock.
LEMMA DestroyBeginDoes ==
    ASSUME Types, NEW t \in Thread, NEW o \in Object, DestroyBegin(t, o)
    PROVE  /\ pc[t] = "idle" /\ lock' = t /\ registered' = registered /\ idOf' = idOf /\ idOf[o] # 0 /\ lock = Null
           /\ pc'[t] = "d_next" /\ obj'[t] = o /\ ptr'[t] = ptr[t]
           /\ entry'[t] = entry[t] /\ left'[t] = registered /\ size'[t] = size[t] /\ elements'[t] = elements[t]
           /\ Others(t)
  <1>1. Others(t)
    BY DEF DestroyBegin, Return, Goto, Others, Same, Types, ids, sync, storage, locals
  <1> QED  BY <1>1 DEF DestroyBegin, Return, Goto, Types, ids, sync, storage, locals

\* destroy visits the next thread.
LEMMA DestroyNextDoes ==
    ASSUME Types, NEW t \in Thread, DestroyNext(t)
    PROVE  /\ pc[t] = "d_next" /\ lock' = lock /\ registered' = registered /\ idOf' = idOf
           /\ left'[t] \subseteq left[t]
           /\ \/ pc'[t] = "d_next" /\ entry'[t] = entry[t]
              \/ pc'[t] = "d_read" /\ \E u \in left[t] : entry'[t] = elements[u]
           /\ obj'[t] = obj[t] /\ ptr'[t] = ptr[t] /\ size'[t] = size[t] /\ elements'[t] = elements[t]
           /\ Others(t)
  <1>1. Others(t)
    BY DEF DestroyNext, Return, Goto, Others, Same, Types, ids, sync, storage, locals
  <1> QED  BY <1>1 DEF DestroyNext, Return, Goto, Types, ids, sync, storage, locals

\* destroy finds a value there, or none.
LEMMA DestroyReadDoes ==
    ASSUME Types, NEW t \in Thread, DestroyRead(t)
    PROVE  /\ pc[t] = "d_read" /\ lock' = lock /\ registered' = registered /\ idOf' = idOf
           /\ \/ pc'[t] = "d_next" /\ entry'[t] = Null
              \/ pc'[t] = "d_clear" /\ entry'[t] = entry[t]
           /\ obj'[t] = obj[t] /\ ptr'[t] = ptr[t]
           /\ left'[t] = left[t] /\ size'[t] = size[t] /\ elements'[t] = elements[t]
           /\ Others(t)
  <1>1. Others(t)
    BY DEF DestroyRead, Return, Goto, Others, Same, Types, ids, sync, storage, locals
  <1> QED  BY <1>1 DEF DestroyRead, Return, Goto, Types, ids, sync, storage, locals

\* destroy clears the element.
LEMMA DestroyClearDoes ==
    ASSUME Types, NEW t \in Thread, DestroyClear(t)
    PROVE  /\ pc[t] = "d_clear" /\ lock' = lock /\ registered' = registered /\ idOf' = idOf
           /\ pc'[t] = "d_next" /\ obj'[t] = obj[t] /\ ptr'[t] = ptr[t]
           /\ entry'[t] = Null /\ left'[t] = left[t] /\ size'[t] = size[t] /\ elements'[t] = elements[t]
           /\ Others(t)
  <1>1. Others(t)
    BY DEF DestroyClear, Return, Goto, Others, Same, Types, ids, sync, storage, locals
  <1> QED  BY <1>1 DEF DestroyClear, Return, Goto, Types, ids, sync, storage, locals

\* The end of destroy gives the lock and the id back.
LEMMA DestroyEndDoes ==
    ASSUME Types, NEW t \in Thread, DestroyEnd(t)
    PROVE  /\ pc[t] = "d_next" /\ lock' = Null /\ registered' = registered
           /\ pc'[t] = "idle" /\ obj'[t] = Null /\ ptr'[t] = ptr[t]
           /\ entry'[t] = entry[t] /\ left'[t] = left[t] /\ size'[t] = size[t] /\ elements'[t] = elements[t]
           /\ Others(t)
  <1>1. Others(t)
    BY DEF DestroyEnd, Return, Goto, Others, Same, Types, ids, sync, storage, locals
  <1> QED  BY <1>1 DEF DestroyEnd, Return, Goto, Types, ids, sync, storage, locals

\* forget takes the lock and the thread off the list.
LEMMA ForgetDoes ==
    ASSUME Types, NEW t \in Thread, Forget(t)
    PROVE  /\ pc[t] = "idle" /\ lock' = t /\ registered' = registered \ {t} /\ idOf' = idOf /\ t \in registered /\ lock = Null
           /\ pc'[t] = "x_unlock" /\ obj'[t] = obj[t] /\ ptr'[t] = ptr[t]
           /\ entry'[t] = entry[t] /\ left'[t] = left[t] /\ size'[t] = size[t] /\ elements'[t] = elements[t]
           /\ Others(t)
  <1>1. Others(t)
    BY DEF Forget, Return, Goto, Others, Same, Types, ids, sync, storage, locals
  <1> QED  BY <1>1 DEF Forget, Return, Goto, Types, ids, sync, storage, locals

\* forget is over.
LEMMA UnlockDoes ==
    ASSUME Types, NEW t \in Thread, Unlock(t)
    PROVE  /\ pc[t] = "x_unlock" /\ lock' = Null /\ registered' = registered /\ idOf' = idOf
           /\ pc'[t] = "x_destroy" /\ obj'[t] = obj[t] /\ ptr'[t] = ptr[t]
           /\ entry'[t] = entry[t] /\ left'[t] = left[t] /\ size'[t] = size[t] /\ elements'[t] = elements[t]
           /\ Others(t)
  <1>1. Others(t)
    BY DEF Unlock, Return, Goto, Others, Same, Types, ids, sync, storage, locals
  <1> QED  BY <1>1 DEF Unlock, Return, Goto, Types, ids, sync, storage, locals

\* destroyAll moves no thread.
LEMMA DestroyAllNextDoes ==
    ASSUME Types, NEW t \in Thread, DestroyAllNext(t)
    PROVE  /\ pc[t] = "x_destroy" /\ lock' = lock /\ registered' = registered /\ idOf' = idOf
           /\ pc'[t] = pc[t] /\ obj'[t] = obj[t] /\ ptr'[t] = ptr[t]
           /\ entry'[t] = entry[t] /\ left'[t] = left[t] /\ size'[t] = size[t] /\ elements'[t] = elements[t]
           /\ Others(t)
  <1>1. Others(t)
    BY DEF DestroyAllNext, Return, Goto, Others, Same, Types, ids, sync, storage, locals
  <1> QED  BY <1>1 DEF DestroyAllNext, Return, Goto, Types, ids, sync, storage, locals

\* destroyAll gives the array up.
LEMMA DestroyAllEndDoes ==
    ASSUME Types, NEW t \in Thread, DestroyAllEnd(t)
    PROVE  /\ pc[t] = "x_destroy" /\ lock' = lock /\ registered' = registered /\ idOf' = idOf
           /\ pc'[t] = "idle" /\ obj'[t] = obj[t] /\ ptr'[t] = ptr[t]
           /\ entry'[t] = entry[t] /\ left'[t] = left[t] /\ size'[t] = 0 /\ elements'[t] = Null
           /\ Others(t)
  <1>1. Others(t)
    BY DEF DestroyAllEnd, Return, Goto, Others, Same, Types, ids, sync, storage, locals
  <1> QED  BY <1>1 DEF DestroyAllEnd, Return, Goto, Types, ids, sync, storage, locals

-----------------------------------------------------------------------------
(* Calls *)

\* A thread stays where it is in its call while others leave it, its object and
\* its lock alone.
LEMMA CallKept ==
    ASSUME NEW u \in Thread, CallOf(u), Same(u),
           u \in registered' <=> u \in registered,
           lock' = u <=> lock = u,
           obj[u] # Null => idOf'[obj[u]] = idOf[obj[u]],
           Destroying(u) => left[u] \subseteq registered'
    PROVE  CallOf(u)'
  BY DEF CallOf, Same, Destroying, GetPCs

\* Every step leaves each thread with what its place in the code says.
LEMMA CallsStep ==
    ASSUME GrowsAlone, Inv, [Next]_vars
    PROVE  Calls'
  <1>0. Types /\ \A u \in Thread : CallOf(u)
    BY DEF Inv, Calls
  <1>l. \A u \in Thread : Destroying(u) => left[u] \subseteq registered
    BY <1>0 DEF CallOf
  <1>1. ASSUME NEW t \in Thread, NEW o \in Object, Create(t, o)
        PROVE  Calls'
    <2>b. \A u \in Thread \ {t} : obj[u] # Null => idOf'[obj[u]] = idOf[obj[u]]
      BY <1>0, <1>1 DEF Create, CallOf, Types
    <2>1. CallOf(t)'
      BY <1>0, <1>1, CreateDoes DEF CallOf, Destroying, GetPCs
    <2>2. \A u \in Thread \ {t} : CallOf(u)'
      BY <1>0, <1>1, CreateDoes, <2>b, CallKept, NullAssumption DEF Others, CallOf, Destroying
    <2> QED  BY <2>1, <2>2 DEF Calls
  <1>2. ASSUME NEW t \in Thread, NEW o \in Object, GetBegin(t, o)
        PROVE  Calls'
    <2>g. Grown(1) # 0 /\ Null \notin Array /\ o # Null
      BY GrownFacts, IdAssumption, NullAssumption
    <2>1. CallOf(t)'
      BY <1>0, <1>2, GetBeginDoes, <2>g, NullAssumption DEF CallOf, Destroying, GetPCs
    <2>2. \A u \in Thread \ {t} : CallOf(u)'
      BY <1>0, <1>2, GetBeginDoes, <1>l, CallKept, NullAssumption DEF Others
    <2> QED  BY <2>1, <2>2 DEF Calls
  <1>3. ASSUME NEW t \in Thread, Register(t)
        PROVE  Calls'
    <2>1. CallOf(t)'
      BY <1>0, <1>3, RegisterDoes DEF CallOf, Destroying, GetPCs
    <2>2. \A u \in Thread \ {t} : CallOf(u)'
      BY <1>0, <1>3, RegisterDoes, CallKept, NullAssumption DEF Others, CallOf, Destroying
    <2> QED  BY <2>1, <2>2 DEF Calls
  <1>4. ASSUME NEW t \in Thread, Get(t)
        PROVE  Calls'
    <2>1. CallOf(t)'
      BY <1>0, <1>4, GetDoes DEF CallOf, Destroying, GetPCs
    <2>2. \A u \in Thread \ {t} : CallOf(u)'
      BY <1>0, <1>4, GetDoes, <1>l, CallKept, NullAssumption DEF Others
    <2> QED  BY <2>1, <2>2 DEF Calls
  <1>5. ASSUME NEW t \in Thread, GrowCopy(t)
        PROVE  Calls'
    <2>1. CallOf(t)'
      BY <1>0, <1>5, GrowCopyDoes, NullAssumption DEF CallOf, Destroying, GetPCs
    <2>2. \A u \in Thread \ {t} : CallOf(u)'
      BY <1>0, <1>5, GrowCopyDoes, <1>l, CallKept, NullAssumption DEF Others
    <2> QED  BY <2>1, <2>2 DEF Calls
  <1>6. ASSUME NEW t \in Thread, GrowDelete(t)
        PROVE  Calls'
    <2>1. CallOf(t)'
      BY <1>0, <1>6, GrowDeleteDoes DEF CallOf, Destroying, GetPCs
    <2>2. \A u \in Thread \ {t} : CallOf(u)'
      BY <1>0, <1>6, GrowDeleteDoes, <1>l, CallKept, NullAssumption DEF Others
    <2> QED  BY <2>1, <2>2 DEF Calls
  <1>7. ASSUME NEW t \in Thread, GrowSet(t)
        PROVE  Calls'
    <2>g. Grown(idOf[obj[t]]) # 0
      BY <1>0, <1>7, GrowSetDoes, IdFacts, GrownFacts DEF CallOf, GetPCs, Types
    <2>1. CallOf(t)'
      BY <1>0, <1>7, GrowSetDoes, <2>g DEF CallOf, Destroying, GetPCs
    <2>2. \A u \in Thread \ {t} : CallOf(u)'
      BY <1>0, <1>7, GrowSetDoes, <1>l, CallKept, NullAssumption DEF Others
    <2> QED  BY <2>1, <2>2 DEF Calls
  <1>8. ASSUME NEW t \in Thread, New(t)
        PROVE  Calls'
    <2>1. CallOf(t)'
      BY <1>0, <1>8, NewDoes, NullAssumption DEF CallOf, Destroying, GetPCs
    <2>2. \A u \in Thread \ {t} : CallOf(u)'
      BY <1>0, <1>8, NewDoes, <1>l, CallKept, NullAssumption DEF Others
    <2> QED  BY <2>1, <2>2 DEF Calls
  <1>9. ASSUME NEW t \in Thread, Set(t)
        PROVE  Calls'
    <2>1. CallOf(t)'
      BY <1>0, <1>9, SetDoes DEF CallOf, Destroying, GetPCs
    <2>2. \A u \in Thread \ {t} : CallOf(u)'
      BY <1>0, <1>9, SetDoes, <1>l, CallKept, NullAssumption DEF Others
    <2> QED  BY <2>1, <2>2 DEF Calls
  <1>10. ASSUME NEW t \in Thread, Got(t)
         PROVE  Calls'
    <2>1. CallOf(t)'
      BY <1>0, <1>10, GotDoes DEF CallOf, Destroying, GetPCs
    <2>2. \A u \in Thread \ {t} : CallOf(u)'
      BY <1>0, <1>10, GotDoes, <1>l, CallKept, NullAssumption DEF Others
    <2> QED  BY <2>1, <2>2 DEF Calls
  <1>11. ASSUME NEW t \in Thread, NEW o \in Object, DestroyBegin(t, o)
         PROVE  Calls'
    <2>1. CallOf(t)'
      BY <1>0, <1>11, DestroyBeginDoes, NullAssumption DEF CallOf, Destroying, GetPCs
    <2>2. \A u \in Thread \ {t} : CallOf(u)'
      BY <1>0, <1>11, DestroyBeginDoes, CallKept, NullAssumption DEF Others, CallOf, Destroying
    <2> QED  BY <2>1, <2>2 DEF Calls
  <1>12. ASSUME NEW t \in Thread, DestroyNext(t)
         PROVE  Calls'
    <2>g. \A u \in left[t] : elements[u] # Null
      BY <1>0, <1>12, DestroyNextDoes DEF CallOf, Destroying, Types
    <2>1. CallOf(t)'
      BY <1>0, <1>12, DestroyNextDoes, <2>g DEF CallOf, Destroying, GetPCs
    <2>2. \A u \in Thread \ {t} : CallOf(u)'
      BY <1>0, <1>12, DestroyNextDoes, <1>l, CallKept, NullAssumption DEF Others
    <2> QED  BY <2>1, <2>2 DEF Calls
  <1>13. ASSUME NEW t \in Thread, DestroyRead(t)
         PROVE  Calls'
    <2>1. CallOf(t)'
      BY <1>0, <1>13, DestroyReadDoes DEF CallOf, Destroying, GetPCs
    <2>2. \A u \in Thread \ {t} : CallOf(u)'
      BY <1>0, <1>13, DestroyReadDoes, <1>l, CallKept, NullAssumption DEF Others
    <2> QED  BY <2>1, <2>2 DEF Calls
  <1>14. ASSUME NEW t \in Thread, DestroyClear(t)
         PROVE  Calls'
    <2>1. CallOf(t)'
      BY <1>0, <1>14, DestroyClearDoes DEF CallOf, Destroying, GetPCs
    <2>2. \A u \in Thread \ {t} : CallOf(u)'
      BY <1>0, <1>14, DestroyClearDoes, <1>l, CallKept, NullAssumption DEF Others
    <2> QED  BY <2>1, <2>2 DEF Calls
  <1>15. ASSUME NEW t \in Thread, DestroyEnd(t)
         PROVE  Calls'
    <2>a. \A u \in Thread \ {t} : obj[u] # obj[t]
      BY <1>0, <1>15, DestroyEndDoes DEF Inv, Alone, Destroying
    <2>b. \A u \in Thread \ {t} : obj[u] # Null => idOf'[obj[u]] = idOf[obj[u]]
      BY <1>0, <1>15, <2>a DEF DestroyEnd, CallOf, Types
    <2>1. CallOf(t)'
      BY <1>0, <1>15, DestroyEndDoes, NullAssumption DEF CallOf, Destroying, GetPCs
    <2>2. \A u \in Thread \ {t} : CallOf(u)'
      BY <1>0, <1>15, DestroyEndDoes, <2>a, <2>b, CallKept, NullAssumption DEF Others, CallOf, Destroying
    <2> QED  BY <2>1, <2>2 DEF Calls
  <1>16. ASSUME NEW t \in Thread, Forget(t)
         PROVE  Calls'
    <2>1. CallOf(t)'
      BY <1>0, <1>16, ForgetDoes, NullAssumption DEF CallOf, Destroying, GetPCs
    <2>2. \A u \in Thread \ {t} : CallOf(u)'
      BY <1>0, <1>16, ForgetDoes, CallKept, NullAssumption DEF Others, CallOf, Destroying
    <2> QED  BY <2>1, <2>2 DEF Calls
  <1>17. ASSUME NEW t \in Thread, Unlock(t)
         PROVE  Calls'
    <2>1. CallOf(t)'
      BY <1>0, <1>17, UnlockDoes, NullAssumption DEF CallOf, Destroying, GetPCs
    <2>2. \A u \in Thread \ {t} : CallOf(u)'
      BY <1>0, <1>17, UnlockDoes, CallKept, NullAssumption DEF Others, CallOf, Destroying
    <2> QED  BY <2>1, <2>2 DEF Calls
  <1>18. ASSUME NEW t \in Thread, DestroyAllNext(t)
         PROVE  Calls'
    <2>1. CallOf(t)'
      BY <1>0, <1>18, DestroyAllNextDoes DEF CallOf, Destroying, GetPCs
    <2>2. \A u \in Thread \ {t} : CallOf(u)'
      BY <1>0, <1>18, DestroyAllNextDoes, <1>l, CallKept, NullAssumption DEF Others
    <2> QED  BY <2>1, <2>2 DEF Calls
  <1>19. ASSUME NEW t \in Thread, DestroyAllEnd(t)
         PROVE  Calls'
    <2>1. CallOf(t)'
      BY <1>0, <1>19, DestroyAllEndDoes DEF CallOf, Destroying, GetPCs
    <2>2. \A u \in Thread \ {t} : CallOf(u)'
      BY <1>0, <1>19, DestroyAllEndDoes, <1>l, CallKept, NullAssumption DEF Others
    <2> QED  BY <2>1, <2>2 DEF Calls
  <1>20. ASSUME StaticallyDestructed \/ UNCHANGED vars
         PROVE  Calls'
    <2>1. \A u \in Thread : CallOf(u)'
      BY <1>0, <1>20, CallKept DEF StaticallyDestructed, vars, CallOf, Same, ids, sync, storage, locals
    <2> QED  BY <2>1 DEF Calls
  <1> QED
    BY <1>1, <1>2, <1>3, <1>4, <1>5, <1>6, <1>7, <1>8, <1>9, <1>10, <1>11, <1>12, <1>13, <1>14,
       <1>15, <1>16, <1>17, <1>18, <1>19, <1>20
       DEF Next, Step, GetStep, DestroyStep, ExitStep, Finished

-----------------------------------------------------------------------------
(* Destructors are alone *)

\* No step begins a use of an object that is destroyed, or makes an array grow then.
LEMMA AloneStep ==
    ASSUME GrowsAlone, Inv, [Next]_vars
    PROVE  Alone'
  <1>0. Types /\ Alone /\ (\A u \in Thread : CallOf(u)) /\ GrowsAlone
    BY DEF Inv, Calls
  <1>1. ASSUME NEW t \in Thread, NEW o \in Object, Create(t, o)
        PROVE  Alone'
    <2>2. \A u \in Thread : obj[u] # Null => idOf'[obj[u]] = idOf[obj[u]]
      BY <1>0, <1>1 DEF Create, CallOf, Types
    <2> QED  BY <1>0, <1>1, CreateDoes, <2>2, NullAssumption
                DEF Alone, Destroying, Growing, Outgrows, Same, Others, CallOf, GetPCs
  <1>2. ASSUME NEW t \in Thread, NEW o \in Object, GetBegin(t, o)
        PROVE  Alone'
    <2>2. \A u \in Thread : Destroying(u) => obj[u] # o /\ ~Outgrows(t, o)
      BY <1>0, <1>2 DEF GetBegin
    <2> QED  BY <1>0, <1>2, GetBeginDoes, <2>2, NullAssumption
                DEF Alone, Destroying, Growing, Outgrows, Same, Others, CallOf, GetPCs
  <1>3. ASSUME NEW t \in Thread, Register(t)
        PROVE  Alone'
    BY <1>0, <1>3, RegisterDoes, NullAssumption
       DEF Alone, Destroying, Growing, Outgrows, Same, Others, CallOf, GetPCs
  <1>4. ASSUME NEW t \in Thread, Get(t)
        PROVE  Alone'
    BY <1>0, <1>4, GetDoes, NullAssumption
       DEF Alone, Destroying, Growing, Outgrows, Same, Others, CallOf, GetPCs
  <1>5. ASSUME NEW t \in Thread, GrowCopy(t)
        PROVE  Alone'
    <2>2. \A u \in Thread : ~Destroying(u)
      BY <1>0, <1>5, GrowCopyDoes DEF CallOf, Alone, Growing, Outgrows, GetPCs
    <2> QED  BY <1>0, <1>5, GrowCopyDoes, <2>2, NullAssumption
                DEF Alone, Destroying, Growing, Outgrows, Same, Others, CallOf, GetPCs
  <1>6. ASSUME NEW t \in Thread, GrowDelete(t)
        PROVE  Alone'
    <2>2. \A u \in Thread : ~Destroying(u)
      BY <1>0, <1>6, GrowDeleteDoes DEF CallOf, Alone, Growing, Outgrows, GetPCs
    <2> QED  BY <1>0, <1>6, GrowDeleteDoes, <2>2, NullAssumption
                DEF Alone, Destroying, Growing, Outgrows, Same, Others, CallOf, GetPCs
  <1>7. ASSUME NEW t \in Thread, GrowSet(t)
        PROVE  Alone'
    <2>2. \A u \in Thread : ~Destroying(u)
      BY <1>0, <1>7, GrowSetDoes DEF CallOf, Alone, Growing, Outgrows, GetPCs
    <2> QED  BY <1>0, <1>7, GrowSetDoes, <2>2, NullAssumption
                DEF Alone, Destroying, Growing, Outgrows, Same, Others, CallOf, GetPCs
  <1>8. ASSUME NEW t \in Thread, New(t)
        PROVE  Alone'
    BY <1>0, <1>8, NewDoes, NullAssumption
       DEF Alone, Destroying, Growing, Outgrows, Same, Others, CallOf, GetPCs
  <1>9. ASSUME NEW t \in Thread, Set(t)
        PROVE  Alone'
    BY <1>0, <1>9, SetDoes, NullAssumption
       DEF Alone, Destroying, Growing, Outgrows, Same, Others, CallOf, GetPCs
  <1>10. ASSUME NEW t \in Thread, Got(t)
         PROVE  Alone'
    BY <1>0, <1>10, GotDoes, NullAssumption
       DEF Alone, Destroying, Growing, Outgrows, Same, Others, CallOf, GetPCs
  <1>11. ASSUME NEW t \in Thread, NEW o \in Object, DestroyBegin(t, o)
         PROVE  Alone'
    <2>2. \A u \in Thread : ~Growing(u) /\ obj[u] # o
      BY <1>0, <1>11 DEF DestroyBegin, Unused
    <2>3. \A u \in Thread : ~Destroying(u)
      BY <1>0, <1>11, NullAssumption DEF DestroyBegin, CallOf
    <2> QED  BY <1>0, <1>11, DestroyBeginDoes, <2>2, <2>3, NullAssumption
                DEF Alone, Destroying, Growing, Outgrows, Same, Others, CallOf, GetPCs
  <1>12. ASSUME NEW t \in Thread, DestroyNext(t)
         PROVE  Alone'
    BY <1>0, <1>12, DestroyNextDoes, NullAssumption
       DEF Alone, Destroying, Growing, Outgrows, Same, Others, CallOf, GetPCs
  <1>13. ASSUME NEW t \in Thread, DestroyRead(t)
         PROVE  Alone'
    BY <1>0, <1>13, DestroyReadDoes, NullAssumption
       DEF Alone, Destroying, Growing, Outgrows, Same, Others, CallOf, GetPCs
  <1>14. ASSUME NEW t \in Thread, DestroyClear(t)
         PROVE  Alone'
    BY <1>0, <1>14, DestroyClearDoes, NullAssumption
       DEF Alone, Destroying, Growing, Outgrows, Same, Others, CallOf, GetPCs
  <1>15. ASSUME NEW t \in Thread, DestroyEnd(t)
         PROVE  Alone'
    <2>2. \A u \in Thread : Destroying(u) => u = t
      BY <1>0, <1>15, DestroyEndDoes DEF CallOf, Destroying
    <2> QED  BY <1>0, <1>15, DestroyEndDoes, <2>2, NullAssumption
                DEF Alone, Destroying, Growing, Outgrows, Same, Others, CallOf, GetPCs
  <1>16. ASSUME NEW t \in Thread, Forget(t)
         PROVE  Alone'
    BY <1>0, <1>16, ForgetDoes, NullAssumption
       DEF Alone, Destroying, Growing, Outgrows, Same, Others, CallOf, GetPCs
  <1>17. ASSUME NEW t \in Thread, Unlock(t)
         PROVE  Alone'
    BY <1>0, <1>17, UnlockDoes, NullAssumption
       DEF Alone, Destroying, Growing, Outgrows, Same, Others, CallOf, GetPCs
  <1>18. ASSUME NEW t \in Thread, DestroyAllNext(t)
         PROVE  Alone'
    BY <1>0, <1>18, DestroyAllNextDoes, NullAssumption
       DEF Alone, Destroying, Growing, Outgrows, Same, Others, CallOf, GetPCs
  <1>19. ASSUME NEW t \in Thread, DestroyAllEnd(t)
         PROVE  Alone'
    BY <1>0, <1>19, DestroyAllEndDoes, NullAssumption
       DEF Alone, Destroying, Growing, Outgrows, Same, Others, CallOf, GetPCs
  <1>20. ASSUME StaticallyDestructed \/ UNCHANGED vars
         PROVE  Alone'
    <2>1. \A u \in Thread : Same(u) /\ idOf' = idOf
      BY <1>0, <1>20 DEF StaticallyDestructed, vars, Same, ids, sync, storage, locals
    <2> QED  BY <1>0, <2>1 DEF Alone, Destroying, Growing, Outgrows, Same
  <1> QED
    BY <1>1, <1>2, <1>3, <1>4, <1>5, <1>6, <1>7, <1>8, <1>9, <1>10, <1>11, <1>12, <1>13, <1>14,
       <1>15, <1>16, <1>17, <1>18, <1>19, <1>20
       DEF Next, Step, GetStep, DestroyStep, ExitStep, Finished

-----------------------------------------------------------------------------
(* Arrays *)

\* Arrays stay allocated and apart when a thread takes only free ones, and gives
\* up only its own.
LEMMA OwnedKept ==
    ASSUME Owned, NEW t \in Thread, Others(t),
           \A u \in Thread \ {t} : \A a \in Mine(u) : array'[a] # Free,
           \A a \in Mine(t)' : a \in Array /\ array'[a] # Free /\ (a \in Mine(t) \/ array[a] = Free)
    PROVE  Owned'
  <1>1. \A u \in Thread \ {t} : Mine(u)' = Mine(u)
    BY DEF Others, Same, Mine
  <1>2. \A u \in Thread : \A a \in Mine(u)' : a \in Array /\ array'[a] # Free
    BY <1>1 DEF Owned
  <1>3. \A u \in Thread \ {t} : Mine(t)' \cap Mine(u) = {}
    BY DEF Owned
  <1>4. \A u, w \in Thread : u # w => Mine(u)' \cap Mine(w)' = {}
    BY <1>1, <1>3 DEF Owned
  <1> QED  BY <1>2, <1>4 DEF Owned

\* No step takes an array from its thread.
LEMMA OwnedStep ==
    ASSUME GrowsAlone, Inv, [Next]_vars
    PROVE  Owned'
  <1>0. Types /\ Alone /\ Owned /\ Copied /\ Pointed /\ \A u \in Thread : CallOf(u)
    BY DEF Inv, Calls, Arrays
  <1>1. ASSUME NEW t \in Thread, NEW o \in Object, Create(t, o)
        PROVE  Owned'
    <2>0. array' = array
      BY <1>1 DEF Create, storage
    <2>1. Mine(t)' \subseteq Mine(t)
      BY <1>0, <1>1, CreateDoes, NullAssumption DEF CallOf, GetPCs, Mine
    <2> QED  BY <1>0, <1>1, <2>0, <2>1, CreateDoes, OwnedKept DEF Owned
  <1>2. ASSUME NEW t \in Thread, NEW o \in Object, GetBegin(t, o)
        PROVE  Owned'
    <2>0. CASE size[t] # 0
      <3>1. array' = array /\ Mine(t)' = Mine(t)
        BY <1>0, <1>2, <2>0, GetBeginDoes DEF GetBegin, storage, Mine
      <3> QED  BY <1>0, <1>2, <3>1, GetBeginDoes, OwnedKept DEF Owned
    <2>1. CASE size[t] = 0
      <3>1. PICK a \in Array : array[a] = Free /\ array' = [array EXCEPT ![a] = Blank] /\ elements' = [elements EXCEPT ![t] = a]
        BY <1>2, <2>1 DEF GetBegin
      <3>2. Mine(t)' = {a}
        <4>1. elements'[t] = a /\ a # Null /\ pc'[t] \notin {"grow_delete", "grow_set"}
          BY ZenonT(60), <1>0, <1>2, <3>1, GetBeginDoes, NullAssumption DEF Types
        <4> QED  BY <4>1 DEF Mine
      <3>3. array'[a] # Free /\ \A b \in Array \ {a} : array'[b] = array[b]
        BY <1>0, <3>1, FreeFacts DEF Types
      <3> QED  BY <1>0, <1>2, <3>1, <3>2, <3>3, GetBeginDoes, OwnedKept DEF Owned
    <2> QED  BY <2>0, <2>1
  <1>3. ASSUME NEW t \in Thread, Register(t)
        PROVE  Owned'
    <2>0. array' = array
      BY <1>3 DEF Register, storage
    <2>1. Mine(t)' \subseteq Mine(t)
      BY <1>0, <1>3, RegisterDoes, NullAssumption DEF CallOf, GetPCs, Mine
    <2> QED  BY <1>0, <1>3, <2>0, <2>1, RegisterDoes, OwnedKept DEF Owned
  <1>4. ASSUME NEW t \in Thread, Get(t)
        PROVE  Owned'
    <2>0. array' = array
      BY <1>4 DEF Get, storage
    <2>1. Mine(t)' \subseteq Mine(t)
      BY <1>0, <1>4, GetDoes, NullAssumption DEF CallOf, GetPCs, Mine
    <2> QED  BY <1>0, <1>4, <2>0, <2>1, GetDoes, OwnedKept DEF Owned
  <1>5. ASSUME NEW t \in Thread, GrowCopy(t)
        PROVE  Owned'
    <2>1. PICK a \in Array : /\ array[a] = Free /\ array' = [array EXCEPT ![a] = array[elements[t]]]
                            /\ entry' = [entry EXCEPT ![t] = a]
      BY <1>5 DEF GrowCopy
    <2>2. elements[t] \in Mine(t) /\ elements[t] # Null
      BY <1>0, <1>5, GrowCopyDoes DEF Mine, CallOf, GetPCs
    <2>3. Mine(t)' = Mine(t) \cup {a}
      BY <1>0, <1>5, <2>1, GrowCopyDoes DEF Mine, Types
    <2>4. array'[a] # Free /\ \A b \in Array \ {a} : array'[b] = array[b]
      BY <1>0, <2>1, <2>2 DEF Types, Owned
    <2> QED  BY <1>0, <1>5, <2>1, <2>3, <2>4, GrowCopyDoes, OwnedKept DEF Owned
  <1>6. ASSUME NEW t \in Thread, GrowDelete(t)
        PROVE  Owned'
    <2>1. array' = [array EXCEPT ![elements[t]] = Free]
      BY <1>6 DEF GrowDelete
    <2>2. elements[t] \in Mine(t) /\ elements[t] # entry[t] /\ entry[t] \in Mine(t) /\ Mine(t)' = {entry[t]}
      BY <1>0, <1>6, GrowDeleteDoes DEF Mine, CallOf, GetPCs, Copied
    <2>3. \A b \in Array \ {elements[t]} : array'[b] = array[b]
      BY <1>0, <2>1 DEF Types
    <2> QED  BY <1>0, <1>6, <2>2, <2>3, GrowDeleteDoes, OwnedKept DEF Owned
  <1>7. ASSUME NEW t \in Thread, GrowSet(t)
        PROVE  Owned'
    <2>0. array' = array
      BY <1>7 DEF GrowSet, storage
    <2>1. Mine(t)' \subseteq Mine(t)
      BY <1>0, <1>7, GrowSetDoes, NullAssumption DEF CallOf, GetPCs, Mine
    <2> QED  BY <1>0, <1>7, <2>0, <2>1, GrowSetDoes, OwnedKept DEF Owned
  <1>8. ASSUME NEW t \in Thread, New(t)
        PROVE  Owned'
    <2>0. array' = array
      BY <1>8 DEF New, storage
    <2>1. Mine(t)' \subseteq Mine(t)
      BY <1>0, <1>8, NewDoes, NullAssumption DEF CallOf, GetPCs, Mine
    <2> QED  BY <1>0, <1>8, <2>0, <2>1, NewDoes, OwnedKept DEF Owned
  <1>9. ASSUME NEW t \in Thread, Set(t)
        PROVE  Owned'
    <2>1. PICK a, i : array' = [array EXCEPT ![a][i] = ptr[t]]
      BY <1>9 DEF Set
    <2>2. \A b \in Array : array[b] # Free => array'[b] # Free
      <3>1. \A b \in Array : array[b] # Free => array[b] \in [Index -> Value \cup {Null}]
        BY <1>0 DEF Types
      <3>2. \A b \in Array : array[b] \in [Index -> Value \cup {Null}] => 1 \in DOMAIN array'[b]
        BY <1>0, <2>1, IdAssumption DEF Types, Index, Grown
      <3> QED  BY <3>1, <3>2 DEF Free
    <2>3. Mine(t)' \subseteq Mine(t)
      BY <1>0, <1>9, SetDoes DEF Mine
    <2> QED  BY <1>0, <1>9, <2>2, <2>3, SetDoes, OwnedKept DEF Owned
  <1>10. ASSUME NEW t \in Thread, Got(t)
         PROVE  Owned'
    <2>0. array' = array
      BY <1>10 DEF Got, storage
    <2>1. Mine(t)' \subseteq Mine(t)
      BY <1>0, <1>10, GotDoes, NullAssumption DEF CallOf, GetPCs, Mine
    <2> QED  BY <1>0, <1>10, <2>0, <2>1, GotDoes, OwnedKept DEF Owned
  <1>11. ASSUME NEW t \in Thread, NEW o \in Object, DestroyBegin(t, o)
         PROVE  Owned'
    <2>0. array' = array
      BY <1>11 DEF DestroyBegin, storage
    <2>1. Mine(t)' \subseteq Mine(t)
      BY <1>0, <1>11, DestroyBeginDoes, NullAssumption DEF CallOf, GetPCs, Mine
    <2> QED  BY <1>0, <1>11, <2>0, <2>1, DestroyBeginDoes, OwnedKept DEF Owned
  <1>12. ASSUME NEW t \in Thread, DestroyNext(t)
         PROVE  Owned'
    <2>0. array' = array
      BY <1>12 DEF DestroyNext, storage
    <2>1. Mine(t)' \subseteq Mine(t)
      BY <1>0, <1>12, DestroyNextDoes, NullAssumption DEF CallOf, GetPCs, Mine
    <2> QED  BY <1>0, <1>12, <2>0, <2>1, DestroyNextDoes, OwnedKept DEF Owned
  <1>13. ASSUME NEW t \in Thread, DestroyRead(t)
         PROVE  Owned'
    <2>0. array' = array
      BY <1>13 DEF DestroyRead, storage
    <2>1. Mine(t)' \subseteq Mine(t)
      BY <1>0, <1>13, DestroyReadDoes, NullAssumption DEF CallOf, GetPCs, Mine
    <2> QED  BY <1>0, <1>13, <2>0, <2>1, DestroyReadDoes, OwnedKept DEF Owned
  <1>14. ASSUME NEW t \in Thread, DestroyClear(t)
         PROVE  Owned'
    <2>1. PICK a, i : array' = [array EXCEPT ![a][i] = Null]
      BY <1>14 DEF DestroyClear
    <2>2. \A b \in Array : array[b] # Free => array'[b] # Free
      <3>1. \A b \in Array : array[b] # Free => array[b] \in [Index -> Value \cup {Null}]
        BY <1>0 DEF Types
      <3>2. \A b \in Array : array[b] \in [Index -> Value \cup {Null}] => 1 \in DOMAIN array'[b]
        BY <1>0, <2>1, IdAssumption DEF Types, Index, Grown
      <3> QED  BY <3>1, <3>2 DEF Free
    <2>3. Mine(t)' \subseteq Mine(t)
      BY <1>0, <1>14, DestroyClearDoes DEF Mine
    <2> QED  BY <1>0, <1>14, <2>2, <2>3, DestroyClearDoes, OwnedKept DEF Owned
  <1>15. ASSUME NEW t \in Thread, DestroyEnd(t)
         PROVE  Owned'
    <2>0. array' = array
      BY <1>15 DEF DestroyEnd, storage
    <2>1. Mine(t)' \subseteq Mine(t)
      BY <1>0, <1>15, DestroyEndDoes, NullAssumption DEF CallOf, GetPCs, Mine
    <2> QED  BY <1>0, <1>15, <2>0, <2>1, DestroyEndDoes, OwnedKept DEF Owned
  <1>16. ASSUME NEW t \in Thread, Forget(t)
         PROVE  Owned'
    <2>0. array' = array
      BY <1>16 DEF Forget, storage
    <2>1. Mine(t)' \subseteq Mine(t)
      BY <1>0, <1>16, ForgetDoes, NullAssumption DEF CallOf, GetPCs, Mine
    <2> QED  BY <1>0, <1>16, <2>0, <2>1, ForgetDoes, OwnedKept DEF Owned
  <1>17. ASSUME NEW t \in Thread, Unlock(t)
         PROVE  Owned'
    <2>0. array' = array
      BY <1>17 DEF Unlock, storage
    <2>1. Mine(t)' \subseteq Mine(t)
      BY <1>0, <1>17, UnlockDoes, NullAssumption DEF CallOf, GetPCs, Mine
    <2> QED  BY <1>0, <1>17, <2>0, <2>1, UnlockDoes, OwnedKept DEF Owned
  <1>18. ASSUME NEW t \in Thread, DestroyAllNext(t)
         PROVE  Owned'
    <2>1. PICK a, i : array' = [array EXCEPT ![a][i] = Null]
      BY <1>18 DEF DestroyAllNext
    <2>2. \A b \in Array : array[b] # Free => array'[b] # Free
      <3>1. \A b \in Array : array[b] # Free => array[b] \in [Index -> Value \cup {Null}]
        BY <1>0 DEF Types
      <3>2. \A b \in Array : array[b] \in [Index -> Value \cup {Null}] => 1 \in DOMAIN array'[b]
        BY <1>0, <2>1, IdAssumption DEF Types, Index, Grown
      <3> QED  BY <3>1, <3>2 DEF Free
    <2>3. Mine(t)' \subseteq Mine(t)
      BY <1>0, <1>18, DestroyAllNextDoes DEF Mine
    <2> QED  BY <1>0, <1>18, <2>2, <2>3, DestroyAllNextDoes, OwnedKept DEF Owned
  <1>19. ASSUME NEW t \in Thread, DestroyAllEnd(t)
         PROVE  Owned'
    <2>1. array' = [array EXCEPT ![elements[t]] = Free]
      BY <1>19 DEF DestroyAllEnd
    <2>2. elements[t] \in Mine(t) /\ Mine(t)' = {}
      BY <1>0, <1>19, DestroyAllEndDoes DEF Mine, CallOf, GetPCs
    <2>3. \A b \in Array \ {elements[t]} : array'[b] = array[b]
      BY <1>0, <2>1 DEF Types
    <2> QED  BY <1>0, <1>19, <2>2, <2>3, DestroyAllEndDoes, OwnedKept DEF Owned
  <1>20. ASSUME StaticallyDestructed \/ UNCHANGED vars
         PROVE  Owned'
    BY <1>0, <1>20 DEF StaticallyDestructed, vars, Owned, Mine, ids, sync, storage, locals
  <1> QED
    BY <1>1, <1>2, <1>3, <1>4, <1>5, <1>6, <1>7, <1>8, <1>9, <1>10, <1>11, <1>12, <1>13, <1>14,
       <1>15, <1>16, <1>17, <1>18, <1>19, <1>20
       DEF Next, Step, GetStep, DestroyStep, ExitStep, Finished

\* Nobody touches an array that is being copied.
LEMMA CopiedStep ==
    ASSUME GrowsAlone, Inv, [Next]_vars
    PROVE  Copied'
  <1>0. Types /\ Alone /\ Owned /\ Copied /\ Pointed /\ \A u \in Thread : CallOf(u)
    BY DEF Inv, Calls, Arrays
  <1>1. ASSUME NEW t \in Thread, NEW o \in Object, Create(t, o)
        PROVE  Copied'
    <2>1. array' = array
      BY <1>1 DEF Create, storage
    <2> QED  BY <1>0, <1>1, <2>1, CreateDoes DEF Copied, Others, Same
  <1>2. ASSUME NEW t \in Thread, NEW o \in Object, GetBegin(t, o)
        PROVE  Copied'
    <2>1. \A u \in Thread \ {t} : pc[u] = "grow_delete" => {elements[u], entry[u]} \subseteq Mine(u)
      BY <1>0 DEF Mine, CallOf, GetPCs
    <2>2. \A u \in Thread \ {t} : \A b \in Mine(u) : array'[b] = array[b]
      BY <1>0, <1>2 DEF GetBegin, storage, Owned, Types
    <2> QED  BY <1>0, <1>2, <2>1, <2>2, GetBeginDoes DEF Copied, Others, Same
  <1>3. ASSUME NEW t \in Thread, Register(t)
        PROVE  Copied'
    <2>1. array' = array
      BY <1>3 DEF Register, storage
    <2> QED  BY <1>0, <1>3, <2>1, RegisterDoes DEF Copied, Others, Same
  <1>4. ASSUME NEW t \in Thread, Get(t)
        PROVE  Copied'
    <2>1. array' = array
      BY <1>4 DEF Get, storage
    <2> QED  BY <1>0, <1>4, <2>1, GetDoes DEF Copied, Others, Same
  <1>5. ASSUME NEW t \in Thread, GrowCopy(t)
        PROVE  Copied'
    <2>1. \A u \in Thread \ {t} : pc[u] = "grow_delete" => {elements[u], entry[u]} \subseteq Mine(u)
      BY <1>0 DEF Mine, CallOf, GetPCs
    <2>2. \A u \in Thread \ {t} : \A b \in Mine(u) : array'[b] = array[b]
      BY <1>0, <1>5 DEF GrowCopy, Owned, Types
    <2>3. elements[t] \in Mine(t)
      BY <1>0, <1>5, GrowCopyDoes DEF Mine, CallOf, GetPCs
    <2>4. entry'[t] # elements[t] /\ array'[entry'[t]] = array'[elements[t]]
      BY <1>0, <1>5, <2>3 DEF GrowCopy, Owned, Types
    <2> QED  BY <1>0, <1>5, <2>1, <2>2, <2>4, GrowCopyDoes DEF Copied, Others, Same
  <1>6. ASSUME NEW t \in Thread, GrowDelete(t)
        PROVE  Copied'
    <2>1. \A u \in Thread \ {t} : pc[u] = "grow_delete" => {elements[u], entry[u]} \subseteq Mine(u)
      BY <1>0 DEF Mine, CallOf, GetPCs
    <2>2. elements[t] \in Mine(t)
      BY <1>0, <1>6, GrowDeleteDoes DEF Mine, CallOf, GetPCs
    <2>3. \A u \in Thread \ {t} : \A b \in Mine(u) : array'[b] = array[b]
      BY <1>0, <1>6, <2>2 DEF GrowDelete, Owned, Types
    <2> QED  BY <1>0, <1>6, <2>1, <2>3, GrowDeleteDoes DEF Copied, Others, Same
  <1>7. ASSUME NEW t \in Thread, GrowSet(t)
        PROVE  Copied'
    <2>1. array' = array
      BY <1>7 DEF GrowSet, storage
    <2> QED  BY <1>0, <1>7, <2>1, GrowSetDoes DEF Copied, Others, Same
  <1>8. ASSUME NEW t \in Thread, New(t)
        PROVE  Copied'
    <2>1. array' = array
      BY <1>8 DEF New, storage
    <2> QED  BY <1>0, <1>8, <2>1, NewDoes DEF Copied, Others, Same
  <1>9. ASSUME NEW t \in Thread, Set(t)
        PROVE  Copied'
    <2>1. \A u \in Thread \ {t} : pc[u] = "grow_delete" => {elements[u], entry[u]} \subseteq Mine(u)
      BY <1>0 DEF Mine, CallOf, GetPCs
    <2>2. elements[t] \in Mine(t)
      BY <1>0, <1>9, SetDoes DEF Mine, CallOf, GetPCs
    <2>3. \A u \in Thread \ {t} : \A b \in Mine(u) : array'[b] = array[b]
      BY <1>0, <1>9, <2>2 DEF Set, Owned, Types
    <2> QED  BY <1>0, <1>9, <2>1, <2>3, SetDoes DEF Copied, Others, Same
  <1>10. ASSUME NEW t \in Thread, Got(t)
         PROVE  Copied'
    <2>1. array' = array
      BY <1>10 DEF Got, storage
    <2> QED  BY <1>0, <1>10, <2>1, GotDoes DEF Copied, Others, Same
  <1>11. ASSUME NEW t \in Thread, NEW o \in Object, DestroyBegin(t, o)
         PROVE  Copied'
    <2>1. array' = array
      BY <1>11 DEF DestroyBegin, storage
    <2> QED  BY <1>0, <1>11, <2>1, DestroyBeginDoes DEF Copied, Others, Same
  <1>12. ASSUME NEW t \in Thread, DestroyNext(t)
         PROVE  Copied'
    <2>1. array' = array
      BY <1>12 DEF DestroyNext, storage
    <2> QED  BY <1>0, <1>12, <2>1, DestroyNextDoes DEF Copied, Others, Same
  <1>13. ASSUME NEW t \in Thread, DestroyRead(t)
         PROVE  Copied'
    <2>1. array' = array
      BY <1>13 DEF DestroyRead, storage
    <2> QED  BY <1>0, <1>13, <2>1, DestroyReadDoes DEF Copied, Others, Same
  <1>14. ASSUME NEW t \in Thread, DestroyClear(t)
         PROVE  Copied'
    <2>1. \A u \in Thread : pc[u] # "grow_delete"
      BY <1>0, <1>14, DestroyClearDoes DEF Alone, Destroying, Growing, Outgrows, CallOf, GetPCs
    <2> QED  BY <1>0, <1>14, <2>1, DestroyClearDoes DEF Copied, Others, Same
  <1>15. ASSUME NEW t \in Thread, DestroyEnd(t)
         PROVE  Copied'
    <2>1. array' = array
      BY <1>15 DEF DestroyEnd, storage
    <2> QED  BY <1>0, <1>15, <2>1, DestroyEndDoes DEF Copied, Others, Same
  <1>16. ASSUME NEW t \in Thread, Forget(t)
         PROVE  Copied'
    <2>1. array' = array
      BY <1>16 DEF Forget, storage
    <2> QED  BY <1>0, <1>16, <2>1, ForgetDoes DEF Copied, Others, Same
  <1>17. ASSUME NEW t \in Thread, Unlock(t)
         PROVE  Copied'
    <2>1. array' = array
      BY <1>17 DEF Unlock, storage
    <2> QED  BY <1>0, <1>17, <2>1, UnlockDoes DEF Copied, Others, Same
  <1>18. ASSUME NEW t \in Thread, DestroyAllNext(t)
         PROVE  Copied'
    <2>1. \A u \in Thread \ {t} : pc[u] = "grow_delete" => {elements[u], entry[u]} \subseteq Mine(u)
      BY <1>0 DEF Mine, CallOf, GetPCs
    <2>2. elements[t] \in Mine(t)
      BY <1>0, <1>18, DestroyAllNextDoes DEF Mine, CallOf, GetPCs
    <2>3. \A u \in Thread \ {t} : \A b \in Mine(u) : array'[b] = array[b]
      BY <1>0, <1>18, <2>2 DEF DestroyAllNext, Owned, Types
    <2> QED  BY <1>0, <1>18, <2>1, <2>3, DestroyAllNextDoes DEF Copied, Others, Same
  <1>19. ASSUME NEW t \in Thread, DestroyAllEnd(t)
         PROVE  Copied'
    <2>1. \A u \in Thread \ {t} : pc[u] = "grow_delete" => {elements[u], entry[u]} \subseteq Mine(u)
      BY <1>0 DEF Mine, CallOf, GetPCs
    <2>2. elements[t] \in Mine(t)
      BY <1>0, <1>19, DestroyAllEndDoes DEF Mine, CallOf, GetPCs
    <2>3. \A u \in Thread \ {t} : \A b \in Mine(u) : array'[b] = array[b]
      BY <1>0, <1>19, <2>2 DEF DestroyAllEnd, Owned, Types
    <2> QED  BY <1>0, <1>19, <2>1, <2>3, DestroyAllEndDoes DEF Copied, Others, Same
  <1>20. ASSUME StaticallyDestructed \/ UNCHANGED vars
         PROVE  Copied'
    BY <1>0, <1>20 DEF StaticallyDestructed, vars, Copied, ids, sync, storage, locals
  <1> QED
    BY <1>1, <1>2, <1>3, <1>4, <1>5, <1>6, <1>7, <1>8, <1>9, <1>10, <1>11, <1>12, <1>13, <1>14,
       <1>15, <1>16, <1>17, <1>18, <1>19, <1>20
       DEF Next, Step, GetStep, DestroyStep, ExitStep, Finished

\* The array that destroy works on stays that of a registered thread.
LEMMA PointedStep ==
    ASSUME GrowsAlone, Inv, [Next]_vars
    PROVE  Pointed'
  <1>0. Types /\ Alone /\ Owned /\ Copied /\ Pointed /\ \A u \in Thread : CallOf(u)
    BY DEF Inv, Calls, Arrays
  <1>1. ASSUME NEW t \in Thread, NEW o \in Object, Create(t, o)
        PROVE  Pointed'
    <2>1. \A u \in Thread : pc[u] \in {"d_read", "d_clear"} => idOf'[obj[u]] = idOf[obj[u]]
      BY <1>0, <1>1 DEF Create, CallOf, Destroying, Types
    <2>2. \A u, w \in Thread : pc[u] \in {"d_read", "d_clear"} /\ PointsAt(u, w) => PointsAt(u, w)'
      BY <1>0, <1>1, <2>1, CreateDoes DEF PointsAt, Others, Same
    <2> QED  BY <1>0, <1>1, <2>2, CreateDoes DEF Pointed, Others, Same
  <1>2. ASSUME NEW t \in Thread, NEW o \in Object, GetBegin(t, o)
        PROVE  Pointed'
    <2>1. t \in registered => elements'[t] = elements[t] /\ size'[t] = size[t]
      BY <1>0, <1>2, GetBeginDoes DEF CallOf
    <2>2. \A u \in Thread : pc'[u] \in {"d_read", "d_clear"} => u # t
      BY <1>0, <1>2, GetBeginDoes
    <2>3. \A u, w \in Thread : u # t /\ PointsAt(u, w) => PointsAt(u, w)'
      BY <1>0, <1>2, <2>1, GetBeginDoes DEF PointsAt, Others, Same
    <2> QED  BY <1>0, <1>2, <2>2, <2>3, GetBeginDoes DEF Pointed, Others, Same
  <1>3. ASSUME NEW t \in Thread, Register(t)
        PROVE  Pointed'
    <2>1. \A u, w \in Thread : pc'[u] \in {"d_read", "d_clear"} /\ PointsAt(u, w) => PointsAt(u, w)'
      BY <1>0, <1>3, RegisterDoes DEF PointsAt, Others, Same
    <2>2. \A u \in Thread : pc'[u] \in {"d_read", "d_clear"} => pc[u] \in {"d_read", "d_clear"}
      BY <1>0, <1>3, RegisterDoes DEF Others, Same
    <2> QED  BY <1>0, <2>1, <2>2 DEF Pointed
  <1>4. ASSUME NEW t \in Thread, Get(t)
        PROVE  Pointed'
    <2>1. \A u, w \in Thread : pc'[u] \in {"d_read", "d_clear"} /\ PointsAt(u, w) => PointsAt(u, w)'
      BY <1>0, <1>4, GetDoes DEF PointsAt, Others, Same
    <2>2. \A u \in Thread : pc'[u] \in {"d_read", "d_clear"} => pc[u] \in {"d_read", "d_clear"}
      BY <1>0, <1>4, GetDoes DEF Others, Same
    <2> QED  BY <1>0, <2>1, <2>2 DEF Pointed
  <1>5. ASSUME NEW t \in Thread, GrowCopy(t)
        PROVE  Pointed'
    <2>1. \A u \in Thread : ~Destroying(u)
      BY <1>0, <1>5, GrowCopyDoes DEF CallOf, Alone, Growing, Outgrows, GetPCs
    <2> QED  BY <1>0, <1>5, <2>1, GrowCopyDoes DEF Pointed, Others, Same, Destroying
  <1>6. ASSUME NEW t \in Thread, GrowDelete(t)
        PROVE  Pointed'
    <2>1. \A u \in Thread : ~Destroying(u)
      BY <1>0, <1>6, GrowDeleteDoes DEF CallOf, Alone, Growing, Outgrows, GetPCs
    <2> QED  BY <1>0, <1>6, <2>1, GrowDeleteDoes DEF Pointed, Others, Same, Destroying
  <1>7. ASSUME NEW t \in Thread, GrowSet(t)
        PROVE  Pointed'
    <2>1. \A u \in Thread : ~Destroying(u)
      BY <1>0, <1>7, GrowSetDoes DEF CallOf, Alone, Growing, Outgrows, GetPCs
    <2> QED  BY <1>0, <1>7, <2>1, GrowSetDoes DEF Pointed, Others, Same, Destroying
  <1>8. ASSUME NEW t \in Thread, New(t)
        PROVE  Pointed'
    <2>1. \A u, w \in Thread : pc'[u] \in {"d_read", "d_clear"} /\ PointsAt(u, w) => PointsAt(u, w)'
      BY <1>0, <1>8, NewDoes DEF PointsAt, Others, Same
    <2>2. \A u \in Thread : pc'[u] \in {"d_read", "d_clear"} => pc[u] \in {"d_read", "d_clear"}
      BY <1>0, <1>8, NewDoes DEF Others, Same
    <2> QED  BY <1>0, <2>1, <2>2 DEF Pointed
  <1>9. ASSUME NEW t \in Thread, Set(t)
        PROVE  Pointed'
    <2>1. \A u, w \in Thread : pc'[u] \in {"d_read", "d_clear"} /\ PointsAt(u, w) => PointsAt(u, w)'
      BY <1>0, <1>9, SetDoes DEF PointsAt, Others, Same
    <2>2. \A u \in Thread : pc'[u] \in {"d_read", "d_clear"} => pc[u] \in {"d_read", "d_clear"}
      BY <1>0, <1>9, SetDoes DEF Others, Same
    <2> QED  BY <1>0, <2>1, <2>2 DEF Pointed
  <1>10. ASSUME NEW t \in Thread, Got(t)
         PROVE  Pointed'
    <2>1. \A u, w \in Thread : pc'[u] \in {"d_read", "d_clear"} /\ PointsAt(u, w) => PointsAt(u, w)'
      BY <1>0, <1>10, GotDoes DEF PointsAt, Others, Same
    <2>2. \A u \in Thread : pc'[u] \in {"d_read", "d_clear"} => pc[u] \in {"d_read", "d_clear"}
      BY <1>0, <1>10, GotDoes DEF Others, Same
    <2> QED  BY <1>0, <2>1, <2>2 DEF Pointed
  <1>11. ASSUME NEW t \in Thread, NEW o \in Object, DestroyBegin(t, o)
         PROVE  Pointed'
    <2>1. \A u \in Thread : ~Destroying(u)
      BY <1>0, <1>11, DestroyBeginDoes, NullAssumption DEF CallOf
    <2> QED  BY <1>0, <1>11, <2>1, DestroyBeginDoes DEF Pointed, Others, Same, Destroying
  <1>12. ASSUME NEW t \in Thread, DestroyNext(t)
         PROVE  Pointed'
    <2>1. \A w \in Thread \ {t} : ~Destroying(w)
      BY <1>0, <1>12, DestroyNextDoes DEF CallOf, Destroying
    <2>2. PICK u \in left[t] : /\ left' = [left EXCEPT ![t] = @ \ {u}]
                               /\ idOf[obj[t]] <= size[u] => entry' = [entry EXCEPT ![t] = elements[u]]
                               /\ ~(idOf[obj[t]] <= size[u]) => pc' = pc
      BY <1>0, <1>12 DEF DestroyNext, Types
    <2>3. u \in registered /\ u \in Thread
      BY <1>0, <1>12, DestroyNextDoes DEF CallOf, Types, Destroying
    <2>4. pc'[t] \in {"d_read", "d_clear"} => idOf[obj[t]] <= size[u]
      BY <1>0, <1>12, <2>2, <2>3, DestroyNextDoes, IdFacts DEF Types, CallOf, Destroying
    <2>5. pc'[t] \in {"d_read", "d_clear"} => PointsAt(t, u)'
      <3>1. u \in registered' /\ u \notin left'[t]
        BY <1>0, <1>12, <2>2, <2>3, DestroyNextDoes DEF Types
      <3>2. idOf[obj[t]] <= size[u] => entry'[t] = elements[u]
        BY <1>0, <2>2 DEF Types
      <3>3. elements' = elements /\ size' = size /\ idOf' = idOf /\ obj'[t] = obj[t]
        BY <1>0, <1>12, DestroyNextDoes DEF DestroyNext, storage
      <3> QED  BY <2>4, <3>1, <3>2, <3>3 DEF PointsAt
    <2> QED  BY <1>0, <1>12, <2>1, <2>3, <2>5, DestroyNextDoes DEF Pointed, Others, Same, Destroying
  <1>13. ASSUME NEW t \in Thread, DestroyRead(t)
         PROVE  Pointed'
    <2>1. \A u, w \in Thread : pc'[u] \in {"d_read", "d_clear"} /\ PointsAt(u, w) => PointsAt(u, w)'
      BY <1>0, <1>13, DestroyReadDoes DEF PointsAt, Others, Same
    <2>2. \A u \in Thread : pc'[u] \in {"d_read", "d_clear"} => pc[u] \in {"d_read", "d_clear"}
      BY <1>0, <1>13, DestroyReadDoes DEF Others, Same
    <2> QED  BY <1>0, <2>1, <2>2 DEF Pointed
  <1>14. ASSUME NEW t \in Thread, DestroyClear(t)
         PROVE  Pointed'
    <2>1. \A u, w \in Thread : pc'[u] \in {"d_read", "d_clear"} /\ PointsAt(u, w) => PointsAt(u, w)'
      BY <1>0, <1>14, DestroyClearDoes DEF PointsAt, Others, Same
    <2>2. \A u \in Thread : pc'[u] \in {"d_read", "d_clear"} => pc[u] \in {"d_read", "d_clear"}
      BY <1>0, <1>14, DestroyClearDoes DEF Others, Same
    <2> QED  BY <1>0, <2>1, <2>2 DEF Pointed
  <1>15. ASSUME NEW t \in Thread, DestroyEnd(t)
         PROVE  Pointed'
    <2>1. \A u \in Thread \ {t} : ~Destroying(u)
      BY <1>0, <1>15, DestroyEndDoes DEF CallOf, Destroying
    <2> QED  BY <1>0, <1>15, <2>1, DestroyEndDoes DEF Pointed, Others, Same, Destroying
  <1>16. ASSUME NEW t \in Thread, Forget(t)
         PROVE  Pointed'
    <2>1. \A u \in Thread : ~Destroying(u)
      BY <1>0, <1>16, ForgetDoes, NullAssumption DEF CallOf
    <2> QED  BY <1>0, <1>16, <2>1, ForgetDoes DEF Pointed, Others, Same, Destroying
  <1>17. ASSUME NEW t \in Thread, Unlock(t)
         PROVE  Pointed'
    <2>1. \A u, w \in Thread : pc'[u] \in {"d_read", "d_clear"} /\ PointsAt(u, w) => PointsAt(u, w)'
      BY <1>0, <1>17, UnlockDoes DEF PointsAt, Others, Same
    <2>2. \A u \in Thread : pc'[u] \in {"d_read", "d_clear"} => pc[u] \in {"d_read", "d_clear"}
      BY <1>0, <1>17, UnlockDoes DEF Others, Same
    <2> QED  BY <1>0, <2>1, <2>2 DEF Pointed
  <1>18. ASSUME NEW t \in Thread, DestroyAllNext(t)
         PROVE  Pointed'
    <2>1. \A u, w \in Thread : pc'[u] \in {"d_read", "d_clear"} /\ PointsAt(u, w) => PointsAt(u, w)'
      BY <1>0, <1>18, DestroyAllNextDoes DEF PointsAt, Others, Same
    <2>2. \A u \in Thread : pc'[u] \in {"d_read", "d_clear"} => pc[u] \in {"d_read", "d_clear"}
      BY <1>0, <1>18, DestroyAllNextDoes DEF Others, Same
    <2> QED  BY <1>0, <2>1, <2>2 DEF Pointed
  <1>19. ASSUME NEW t \in Thread, DestroyAllEnd(t)
         PROVE  Pointed'
    <2>1. t \in registered => elements'[t] = elements[t] /\ size'[t] = size[t]
      BY <1>0, <1>19, DestroyAllEndDoes DEF CallOf
    <2>2. \A u \in Thread : pc'[u] \in {"d_read", "d_clear"} => u # t
      BY <1>0, <1>19, DestroyAllEndDoes
    <2>3. \A u, w \in Thread : u # t /\ PointsAt(u, w) => PointsAt(u, w)'
      BY <1>0, <1>19, <2>1, DestroyAllEndDoes DEF PointsAt, Others, Same
    <2> QED  BY <1>0, <1>19, <2>2, <2>3, DestroyAllEndDoes DEF Pointed, Others, Same
  <1>20. ASSUME StaticallyDestructed \/ UNCHANGED vars
         PROVE  Pointed'
    BY <1>0, <1>20 DEF StaticallyDestructed, vars, Pointed, PointsAt, ids, sync, storage, locals
  <1> QED
    BY <1>1, <1>2, <1>3, <1>4, <1>5, <1>6, <1>7, <1>8, <1>9, <1>10, <1>11, <1>12, <1>13, <1>14,
       <1>15, <1>16, <1>17, <1>18, <1>19, <1>20
       DEF Next, Step, GetStep, DestroyStep, ExitStep, Finished

-----------------------------------------------------------------------------
(* The elements of the threads *)

\* Every thread has an array, or stands for a blank one.
LEMMA ElementsType ==
    ASSUME Inv, NEW u \in Thread
    PROVE  Elements(u) \in [Index -> Value \cup {Null}]
  <1>1. CASE pc[u] = "grow_set"
    BY <1>1 DEF Inv, Types, Arrays, Owned, Mine, Elements
  <1>2. CASE pc[u] # "grow_set" /\ elements[u] # Null
    BY <1>2 DEF Inv, Types, Arrays, Owned, Mine, Elements
  <1>3. CASE pc[u] # "grow_set" /\ elements[u] = Null
    BY <1>3, FreeFacts DEF Elements
  <1> QED  BY <1>1, <1>2, <1>3

\* A thread's elements change only with its own arrays.
LEMMA ViewFrame ==
    ASSUME NEW u \in Thread, CallOf(u), Same(u), \A a \in Mine(u) : array'[a] = array[a]
    PROVE  Elements(u)' = Elements(u)
  BY DEF Elements, Same, Mine, CallOf

\* No step changes an element.
ViewsSame == \A u \in Thread : Elements(u)' = Elements(u)

\* The steps that write none.
Silent(t) ==
    \/ \E o \in Object : Create(t, o) \/ GetBegin(t, o) \/ DestroyBegin(t, o)
    \/ Register(t) \/ Get(t) \/ GrowCopy(t) \/ GrowDelete(t) \/ GrowSet(t) \/ New(t) \/ Got(t)
    \/ DestroyNext(t) \/ DestroyRead(t) \/ DestroyEnd(t)
    \/ Forget(t) \/ Unlock(t) \/ DestroyAllEnd(t)

\* Nothing but reset, the clearing of destroy and that of destroyAll changes an element:
\* a resize does not, and neither do the making and the deletion of arrays.
LEMMA ViewStep ==
    ASSUME GrowsAlone, Inv, NEW t \in Thread, Silent(t)
    PROVE  ViewsSame
  <1>0. Inv /\ Types /\ Alone /\ Owned /\ Copied /\ Pointed /\ Slots /\ \A u \in Thread : CallOf(u)
    BY DEF Inv, Calls, Arrays

  <1>1. ASSUME NEW o \in Object, Create(t, o)
        PROVE  ViewsSame
    <2>0. array' = array
      BY <1>1 DEF Create, storage
    <2>1. Elements(t)' = Elements(t)
      BY <1>0, <1>1, <2>0, CreateDoes DEF Elements, CallOf, GetPCs
    <2>2. \A u \in Thread \ {t} : Elements(u)' = Elements(u)
      BY <1>0, <1>1, <2>0, CreateDoes, ViewFrame DEF Others
    <2> QED  BY <2>1, <2>2 DEF ViewsSame
  <1>2. ASSUME NEW o \in Object, GetBegin(t, o)
        PROVE  ViewsSame
    <2>0. \A u \in Thread \ {t} : \A a \in Mine(u) : array'[a] = array[a]
      BY <1>0, <1>2 DEF GetBegin, storage, Owned, Types
    <2>1. Elements(t)' = Elements(t)
      <3>1. CASE size[t] # 0
        BY <1>0, <1>2, <3>1, GetBeginDoes DEF GetBegin, storage, Elements, CallOf
      <3>2. CASE size[t] = 0
        <4>1. elements'[t] \in Array /\ array'[elements'[t]] = Blank
          BY <1>0, <1>2, <3>2 DEF GetBegin, Types
        <4>2. elements[t] = Null /\ pc[t] = "idle" /\ pc'[t] # "grow_set"
          BY <1>0, <1>2, <3>2, GetBeginDoes DEF CallOf
        <4> QED  BY <4>1, <4>2, NullAssumption DEF Elements
      <3> QED  BY <3>1, <3>2
    <2>2. \A u \in Thread \ {t} : Elements(u)' = Elements(u)
      BY <1>0, <1>2, <2>0, GetBeginDoes, ViewFrame DEF Others
    <2> QED  BY <2>1, <2>2 DEF ViewsSame
  <1>3. CASE Register(t)
    <2>0. array' = array
      BY <1>3 DEF Register, storage
    <2>1. Elements(t)' = Elements(t)
      BY <1>0, <1>3, <2>0, RegisterDoes DEF Elements, CallOf, GetPCs
    <2>2. \A u \in Thread \ {t} : Elements(u)' = Elements(u)
      BY <1>0, <1>3, <2>0, RegisterDoes, ViewFrame DEF Others
    <2> QED  BY <2>1, <2>2 DEF ViewsSame
  <1>4. CASE Get(t)
    <2>0. array' = array
      BY <1>4 DEF Get, storage
    <2>1. Elements(t)' = Elements(t)
      BY <1>0, <1>4, <2>0, GetDoes DEF Elements, CallOf, GetPCs
    <2>2. \A u \in Thread \ {t} : Elements(u)' = Elements(u)
      BY <1>0, <1>4, <2>0, GetDoes, ViewFrame DEF Others
    <2> QED  BY <2>1, <2>2 DEF ViewsSame
  <1>5. CASE GrowCopy(t)
    <2>0. \A u \in Thread : \A a \in Mine(u) : array'[a] = array[a]
      BY <1>0, <1>5 DEF GrowCopy, Owned, Types
    <2>1. Elements(t)' = Elements(t)
      BY <1>0, <1>5, <2>0, GrowCopyDoes DEF Elements, Mine, CallOf, GetPCs
    <2>2. \A u \in Thread \ {t} : Elements(u)' = Elements(u)
      BY <1>0, <1>5, <2>0, GrowCopyDoes, ViewFrame DEF Others
    <2> QED  BY <2>1, <2>2 DEF ViewsSame
  <1>6. CASE GrowDelete(t)
    <2>a. elements[t] \in Mine(t) /\ entry[t] \in Array /\ entry[t] # elements[t] /\ array[entry[t]] = array[elements[t]]
      BY <1>0, <1>6, GrowDeleteDoes DEF Mine, CallOf, GetPCs, Copied, Types
    <2>0. \A u \in Thread \ {t} : \A a \in Mine(u) : array'[a] = array[a]
      BY <1>0, <1>6, <2>a DEF GrowDelete, Owned, Types
    <2>b. array'[entry[t]] = array[entry[t]]
      BY <1>0, <1>6, <2>a DEF GrowDelete, Types
    <2>1. Elements(t)' = Elements(t)
      BY <1>0, <1>6, <2>a, <2>b, GrowDeleteDoes, NullAssumption DEF Elements, CallOf, GetPCs
    <2>2. \A u \in Thread \ {t} : Elements(u)' = Elements(u)
      BY <1>0, <1>6, <2>0, GrowDeleteDoes, ViewFrame DEF Others
    <2> QED  BY <2>1, <2>2 DEF ViewsSame
  <1>7. CASE GrowSet(t)
    <2>0. array' = array
      BY <1>7 DEF GrowSet, storage
    <2>1. Elements(t)' = Elements(t)
      BY <1>0, <1>7, <2>0, GrowSetDoes DEF Elements, CallOf, GetPCs
    <2>2. \A u \in Thread \ {t} : Elements(u)' = Elements(u)
      BY <1>0, <1>7, <2>0, GrowSetDoes, ViewFrame DEF Others
    <2> QED  BY <2>1, <2>2 DEF ViewsSame
  <1>8. CASE New(t)
    <2>0. array' = array
      BY <1>8 DEF New, storage
    <2>1. Elements(t)' = Elements(t)
      BY <1>0, <1>8, <2>0, NewDoes DEF Elements, CallOf, GetPCs
    <2>2. \A u \in Thread \ {t} : Elements(u)' = Elements(u)
      BY <1>0, <1>8, <2>0, NewDoes, ViewFrame DEF Others
    <2> QED  BY <2>1, <2>2 DEF ViewsSame
  <1>10. CASE Got(t)
    <2>0. array' = array
      BY <1>10 DEF Got, storage
    <2>1. Elements(t)' = Elements(t)
      BY <1>0, <1>10, <2>0, GotDoes DEF Elements, CallOf, GetPCs
    <2>2. \A u \in Thread \ {t} : Elements(u)' = Elements(u)
      BY <1>0, <1>10, <2>0, GotDoes, ViewFrame DEF Others
    <2> QED  BY <2>1, <2>2 DEF ViewsSame
  <1>11. ASSUME NEW o \in Object, DestroyBegin(t, o)
        PROVE  ViewsSame
    <2>0. array' = array
      BY <1>11 DEF DestroyBegin, storage
    <2>1. Elements(t)' = Elements(t)
      BY <1>0, <1>11, <2>0, DestroyBeginDoes DEF Elements, CallOf, GetPCs
    <2>2. \A u \in Thread \ {t} : Elements(u)' = Elements(u)
      BY <1>0, <1>11, <2>0, DestroyBeginDoes, ViewFrame DEF Others
    <2> QED  BY <2>1, <2>2 DEF ViewsSame
  <1>12. CASE DestroyNext(t)
    <2>0. array' = array
      BY <1>12 DEF DestroyNext, storage
    <2>1. Elements(t)' = Elements(t)
      BY <1>0, <1>12, <2>0, DestroyNextDoes DEF Elements, CallOf, GetPCs
    <2>2. \A u \in Thread \ {t} : Elements(u)' = Elements(u)
      BY <1>0, <1>12, <2>0, DestroyNextDoes, ViewFrame DEF Others
    <2> QED  BY <2>1, <2>2 DEF ViewsSame
  <1>13. CASE DestroyRead(t)
    <2>0. array' = array
      BY <1>13 DEF DestroyRead, storage
    <2>1. Elements(t)' = Elements(t)
      BY <1>0, <1>13, <2>0, DestroyReadDoes DEF Elements, CallOf, GetPCs
    <2>2. \A u \in Thread \ {t} : Elements(u)' = Elements(u)
      BY <1>0, <1>13, <2>0, DestroyReadDoes, ViewFrame DEF Others
    <2> QED  BY <2>1, <2>2 DEF ViewsSame
  <1>15. CASE DestroyEnd(t)
    <2>0. array' = array
      BY <1>15 DEF DestroyEnd, storage
    <2>1. Elements(t)' = Elements(t)
      BY <1>0, <1>15, <2>0, DestroyEndDoes DEF Elements, CallOf, GetPCs
    <2>2. \A u \in Thread \ {t} : Elements(u)' = Elements(u)
      BY <1>0, <1>15, <2>0, DestroyEndDoes, ViewFrame DEF Others
    <2> QED  BY <2>1, <2>2 DEF ViewsSame
  <1>16. CASE Forget(t)
    <2>0. array' = array
      BY <1>16 DEF Forget, storage
    <2>1. Elements(t)' = Elements(t)
      BY <1>0, <1>16, <2>0, ForgetDoes DEF Elements, CallOf, GetPCs
    <2>2. \A u \in Thread \ {t} : Elements(u)' = Elements(u)
      BY <1>0, <1>16, <2>0, ForgetDoes, ViewFrame DEF Others
    <2> QED  BY <2>1, <2>2 DEF ViewsSame
  <1>17. CASE Unlock(t)
    <2>0. array' = array
      BY <1>17 DEF Unlock, storage
    <2>1. Elements(t)' = Elements(t)
      BY <1>0, <1>17, <2>0, UnlockDoes DEF Elements, CallOf, GetPCs
    <2>2. \A u \in Thread \ {t} : Elements(u)' = Elements(u)
      BY <1>0, <1>17, <2>0, UnlockDoes, ViewFrame DEF Others
    <2> QED  BY <2>1, <2>2 DEF ViewsSame
  <1>19. CASE DestroyAllEnd(t)
    <2>a. elements[t] \in Mine(t)
      BY <1>0, <1>19, DestroyAllEndDoes DEF Mine, CallOf, GetPCs
    <2>0. \A u \in Thread \ {t} : \A a \in Mine(u) : array'[a] = array[a]
      BY <1>0, <1>19, <2>a DEF DestroyAllEnd, Owned, Types
    <2>b. Elements(t) = array[elements[t]] /\ Elements(t) \in [Index -> Value \cup {Null}]
      BY <1>0, <1>19, DestroyAllEndDoes, ElementsType DEF Elements, CallOf
    <2>c. \A i \in Index : Elements(t)[i] = Null
      <3>1. \A i \in Index : i \in 1..size[t] \/ i > size[t]
        BY <1>0 DEF Types, Index
      <3> QED  BY <1>0, <1>19, <2>b, <3>1 DEF DestroyAllEnd, Slots, Inside
    <2>d. Elements(t) = Blank
      BY <2>b, <2>c DEF Blank
    <2>1. Elements(t)' = Elements(t)
      BY <1>0, <1>19, <2>d, DestroyAllEndDoes DEF Elements
    <2>2. \A u \in Thread \ {t} : Elements(u)' = Elements(u)
      BY <1>0, <1>19, <2>0, DestroyAllEndDoes, ViewFrame DEF Others
    <2> QED  BY <2>1, <2>2 DEF ViewsSame
  <1> QED  BY <1>1, <1>2, <1>3, <1>4, <1>5, <1>6, <1>7, <1>8, <1>10, <1>11, <1>12, <1>13, <1>15, <1>16, <1>17, <1>19
              DEF Silent

\* reset keeps the new value in the thread's element.
LEMMA SetView ==
    ASSUME GrowsAlone, Inv, NEW t \in Thread, Set(t)
    PROVE  /\ \A u \in Thread \ {t} : Elements(u)' = Elements(u)
           /\ Elements(t)' = [Elements(t) EXCEPT ![idOf[obj[t]]] = ptr[t]]
  <1>0. Types /\ Owned /\ \A u \in Thread : CallOf(u)
    BY DEF Inv, Calls, Arrays
  <1>1. elements[t] \in Mine(t) /\ elements[t] # Null
    BY <1>0, SetDoes DEF Mine, CallOf, GetPCs
  <1>2. \A u \in Thread \ {t} : \A a \in Mine(u) : array'[a] = array[a]
    BY <1>0, <1>1 DEF Set, Owned, Types
  <1>3. array'[elements[t]] = [array[elements[t]] EXCEPT ![idOf[obj[t]]] = ptr[t]]
    BY <1>0, <1>1 DEF Set, Owned, Types
  <1>4. \A u \in Thread \ {t} : Elements(u)' = Elements(u)
    BY <1>0, <1>2, SetDoes, ViewFrame DEF Others
  <1> QED  BY <1>0, <1>1, <1>3, <1>4, SetDoes DEF Elements

\* destroyAll clears one element of its thread.
LEMMA DropView ==
    ASSUME GrowsAlone, Inv, NEW t \in Thread, DestroyAllNext(t)
    PROVE  /\ \A u \in Thread \ {t} : Elements(u)' = Elements(u)
           /\ \E i \in Index : /\ Elements(t)[i] # Null
                               /\ Delete(Elements(t)[i])
                               /\ Elements(t)' = [Elements(t) EXCEPT ![i] = Null]
  <1>0. Types /\ Owned /\ \A u \in Thread : CallOf(u)
    BY DEF Inv, Calls, Arrays
  <1>1. elements[t] \in Mine(t) /\ elements[t] # Null
    BY <1>0, DestroyAllNextDoes DEF Mine, CallOf, GetPCs
  <1>2. PICK i \in 1..size[t] : /\ array[elements[t]][i] # Null /\ Delete(array[elements[t]][i])
                                /\ array' = [array EXCEPT ![elements[t]][i] = Null]
    BY DEF DestroyAllNext
  <1>3. i \in Index
    <2>1. size[t] \in 0..Grown(MaxId) /\ Grown(MaxId) \in Nat
      BY <1>0, GrownFacts, IdAssumption DEF Types
    <2> QED  BY <2>1 DEF Index
  <1>4. \A u \in Thread \ {t} : \A a \in Mine(u) : array'[a] = array[a]
    BY <1>0, <1>1, <1>2 DEF Owned, Types
  <1>5. array'[elements[t]] = [array[elements[t]] EXCEPT ![i] = Null]
    BY <1>0, <1>1, <1>2 DEF Owned, Types
  <1>6. \A u \in Thread \ {t} : Elements(u)' = Elements(u)
    BY <1>0, <1>4, DestroyAllNextDoes, ViewFrame DEF Others
  <1>7. Elements(t) = array[elements[t]] /\ Elements(t)' = array'[elements[t]]
    BY <1>0, <1>1, DestroyAllNextDoes DEF Elements
  <1> QED  BY <1>2, <1>3, <1>5, <1>6, <1>7

\* The array that destroy points at is one thread's, and it has that thread's elements.
LEMMA PointedView ==
    ASSUME GrowsAlone, Inv, NEW t \in Thread, pc[t] \in {"d_read", "d_clear"}
    PROVE  /\ entry[t] # Null
           /\ \E u \in Thread : /\ u \in registered /\ ~Exiting(u) /\ entry[t] = elements[u]
                                /\ Elements(u) = array[entry[t]]
                                /\ \A w \in Thread : elements[w] = entry[t] => w = u
  <1>0. Types /\ Owned /\ Pointed /\ Alone /\ Destroying(t) /\ \A u \in Thread : CallOf(u)
    BY DEF Inv, Calls, Arrays, Destroying
  <1>1. PICK u \in Thread : PointsAt(t, u)
    BY <1>0 DEF Pointed
  <1>2. u \in registered /\ entry[t] = elements[u] /\ entry[t] # Null
    BY <1>0, <1>1 DEF PointsAt, CallOf
  <1>3. ~Exiting(u) /\ Elements(u) = array[entry[t]]
    BY <1>0, <1>2, RegisteredArray
  <1>4. \A w \in Thread : pc[w] # "grow_set"
    BY <1>0 DEF Alone, Growing, Outgrows, CallOf, GetPCs
  <1>5. \A w \in Thread : elements[w] # Null => elements[w] \in Mine(w)
    BY <1>4 DEF Mine
  <1>6. \A w \in Thread : elements[w] = entry[t] => w = u
    BY <1>0, <1>2, <1>5 DEF Owned
  <1> QED  BY <1>2, <1>3, <1>6

\* destroy clears the element of the thread it points at.
LEMMA ClearView ==
    ASSUME GrowsAlone, Inv, NEW t \in Thread, DestroyClear(t), NEW u \in Thread
    PROVE  Elements(u)' = IF elements[u] = entry[t] THEN [Elements(u) EXCEPT ![idOf[obj[t]]] = Null] ELSE Elements(u)
  <1>0. Types /\ Owned /\ Alone /\ Destroying(t) /\ pc[t] = "d_clear" /\ \A w \in Thread : CallOf(w)
    BY DEF Inv, Calls, Arrays, Destroying, DestroyClear
  <1>1. \A w \in Thread : pc[w] # "grow_set"
    BY <1>0 DEF Alone, Growing, Outgrows, CallOf, GetPCs
  <1>2. \A w \in Thread : pc'[w] # "grow_set"
    BY <1>0, <1>1, DestroyClearDoes DEF Others, Same
  <1>3. entry[t] \in Array /\ array' = [array EXCEPT ![entry[t]][idOf[obj[t]]] = Null] /\ elements' = elements
    BY <1>0 DEF DestroyClear, Types, CallOf
  <1>4. CASE elements[u] = entry[t]
    <2>1. array'[entry[t]] = [array[entry[t]] EXCEPT ![idOf[obj[t]]] = Null]
      BY <1>0, <1>3 DEF Types
    <2> QED  BY <1>1, <1>2, <1>3, <1>4, <2>1, NullAssumption DEF Elements
  <1>5. CASE elements[u] # entry[t]
    <2>1. elements[u] # Null => array'[elements[u]] = array[elements[u]]
      BY <1>0, <1>3, <1>5 DEF Types
    <2> QED  BY <1>1, <1>2, <1>3, <1>5, <2>1 DEF Elements
  <1> QED  BY <1>4, <1>5

-----------------------------------------------------------------------------
(* Slots *)

\* What destroy is about to clear stays so until it is null.
ClearingLasts ==
    \A u \in Thread, i \in Index : Clearing(u, i) => Clearing(u, i)' \/ Elements(u)'[i] = Null

\* No step takes the array or the id from the destructor that clears an element.
LEMMA ClearingStep ==
    ASSUME GrowsAlone, Inv, [Next]_vars
    PROVE  ClearingLasts
  <1>0. Inv /\ GrowsAlone /\ Types /\ Alone /\ Slots /\ Inside /\ \A u \in Thread : CallOf(u)
    BY DEF Inv, Calls, Slots
  <1>1. ASSUME NEW t \in Thread, NEW o \in Object, Create(t, o)
        PROVE  ClearingLasts
    <2>b. \A w \in Thread : pc[w] = "d_clear" => idOf'[obj[w]] = idOf[obj[w]]
      BY <1>0, <1>1, CreateDoes DEF Create, CallOf, Destroying, Types
    <2>1. \A w \in Thread : pc[w] = "d_clear" => w # t /\ Same(w) /\ entry[w] # Null
      BY <1>0, <1>1, CreateDoes DEF Others, CallOf
    <2>2. \A u \in Thread : elements'[u] = elements[u]
      BY <1>0, <1>1, CreateDoes DEF Others, Same
    <2> QED  BY <1>0, <1>1, <2>1, <2>2, <2>b, CreateDoes DEF ClearingLasts, Clearing, Same
  <1>2. ASSUME NEW t \in Thread, NEW o \in Object, GetBegin(t, o)
        PROVE  ClearingLasts
    <2>1. \A w \in Thread : pc[w] = "d_clear" => w # t /\ Same(w) /\ entry[w] # Null
      BY <1>0, <1>2, GetBeginDoes DEF Others, CallOf
    <2>2. \A u \in Thread : elements[u] # Null => elements'[u] = elements[u]
      BY <1>0, <1>2, GetBeginDoes DEF Others, Same, CallOf
    <2> QED  BY <1>0, <1>2, <2>1, <2>2, GetBeginDoes DEF ClearingLasts, Clearing, Same
  <1>3. ASSUME NEW t \in Thread, Register(t)
        PROVE  ClearingLasts
    <2>1. \A w \in Thread : pc[w] = "d_clear" => w # t /\ Same(w) /\ entry[w] # Null
      BY <1>0, <1>3, RegisterDoes DEF Others, CallOf
    <2>2. \A u \in Thread : elements'[u] = elements[u]
      BY <1>0, <1>3, RegisterDoes DEF Others, Same
    <2> QED  BY <1>0, <1>3, <2>1, <2>2, RegisterDoes DEF ClearingLasts, Clearing, Same
  <1>4. ASSUME NEW t \in Thread, Get(t)
        PROVE  ClearingLasts
    <2>1. \A w \in Thread : pc[w] = "d_clear" => w # t /\ Same(w) /\ entry[w] # Null
      BY <1>0, <1>4, GetDoes DEF Others, CallOf
    <2>2. \A u \in Thread : elements'[u] = elements[u]
      BY <1>0, <1>4, GetDoes DEF Others, Same
    <2> QED  BY <1>0, <1>4, <2>1, <2>2, GetDoes DEF ClearingLasts, Clearing, Same
  <1>5. ASSUME NEW t \in Thread, GrowCopy(t)
        PROVE  ClearingLasts
    <2>1. \A u \in Thread : ~Destroying(u)
      BY <1>0, <1>5, GrowCopyDoes DEF CallOf, Alone, Growing, Outgrows, GetPCs
    <2> QED  BY <2>1 DEF ClearingLasts, Clearing, Destroying
  <1>6. ASSUME NEW t \in Thread, GrowDelete(t)
        PROVE  ClearingLasts
    <2>1. \A u \in Thread : ~Destroying(u)
      BY <1>0, <1>6, GrowDeleteDoes DEF CallOf, Alone, Growing, Outgrows, GetPCs
    <2> QED  BY <2>1 DEF ClearingLasts, Clearing, Destroying
  <1>7. ASSUME NEW t \in Thread, GrowSet(t)
        PROVE  ClearingLasts
    <2>1. \A u \in Thread : ~Destroying(u)
      BY <1>0, <1>7, GrowSetDoes DEF CallOf, Alone, Growing, Outgrows, GetPCs
    <2> QED  BY <2>1 DEF ClearingLasts, Clearing, Destroying
  <1>8. ASSUME NEW t \in Thread, New(t)
        PROVE  ClearingLasts
    <2>1. \A w \in Thread : pc[w] = "d_clear" => w # t /\ Same(w) /\ entry[w] # Null
      BY <1>0, <1>8, NewDoes DEF Others, CallOf
    <2>2. \A u \in Thread : elements'[u] = elements[u]
      BY <1>0, <1>8, NewDoes DEF Others, Same
    <2> QED  BY <1>0, <1>8, <2>1, <2>2, NewDoes DEF ClearingLasts, Clearing, Same
  <1>9. ASSUME NEW t \in Thread, Set(t)
        PROVE  ClearingLasts
    <2>1. \A w \in Thread : pc[w] = "d_clear" => w # t /\ Same(w) /\ entry[w] # Null
      BY <1>0, <1>9, SetDoes DEF Others, CallOf
    <2>2. \A u \in Thread : elements'[u] = elements[u]
      BY <1>0, <1>9, SetDoes DEF Others, Same
    <2> QED  BY <1>0, <1>9, <2>1, <2>2, SetDoes DEF ClearingLasts, Clearing, Same
  <1>10. ASSUME NEW t \in Thread, Got(t)
         PROVE  ClearingLasts
    <2>1. \A w \in Thread : pc[w] = "d_clear" => w # t /\ Same(w) /\ entry[w] # Null
      BY <1>0, <1>10, GotDoes DEF Others, CallOf
    <2>2. \A u \in Thread : elements'[u] = elements[u]
      BY <1>0, <1>10, GotDoes DEF Others, Same
    <2> QED  BY <1>0, <1>10, <2>1, <2>2, GotDoes DEF ClearingLasts, Clearing, Same
  <1>11. ASSUME NEW t \in Thread, NEW o \in Object, DestroyBegin(t, o)
         PROVE  ClearingLasts
    <2>1. \A w \in Thread : pc[w] = "d_clear" => w # t /\ Same(w) /\ entry[w] # Null
      BY <1>0, <1>11, DestroyBeginDoes DEF Others, CallOf
    <2>2. \A u \in Thread : elements'[u] = elements[u]
      BY <1>0, <1>11, DestroyBeginDoes DEF Others, Same
    <2> QED  BY <1>0, <1>11, <2>1, <2>2, DestroyBeginDoes DEF ClearingLasts, Clearing, Same
  <1>12. ASSUME NEW t \in Thread, DestroyNext(t)
         PROVE  ClearingLasts
    <2>1. \A w \in Thread : pc[w] = "d_clear" => w # t /\ Same(w) /\ entry[w] # Null
      BY <1>0, <1>12, DestroyNextDoes DEF Others, CallOf
    <2>2. \A u \in Thread : elements'[u] = elements[u]
      BY <1>0, <1>12, DestroyNextDoes DEF Others, Same
    <2> QED  BY <1>0, <1>12, <2>1, <2>2, DestroyNextDoes DEF ClearingLasts, Clearing, Same
  <1>13. ASSUME NEW t \in Thread, DestroyRead(t)
         PROVE  ClearingLasts
    <2>1. \A w \in Thread : pc[w] = "d_clear" => w # t /\ Same(w) /\ entry[w] # Null
      BY <1>0, <1>13, DestroyReadDoes DEF Others, CallOf
    <2>2. \A u \in Thread : elements'[u] = elements[u]
      BY <1>0, <1>13, DestroyReadDoes DEF Others, Same
    <2> QED  BY <1>0, <1>13, <2>1, <2>2, DestroyReadDoes DEF ClearingLasts, Clearing, Same
  <1>14. ASSUME NEW t \in Thread, DestroyClear(t)
         PROVE  ClearingLasts
    <2>1. \A w \in Thread : pc[w] = "d_clear" => w = t
      BY <1>0, <1>14, DestroyClearDoes DEF CallOf, Destroying
    <2>2. \A u \in Thread, i \in Index : Clearing(u, i) => elements[u] = entry[t] /\ i = idOf[obj[t]]
      BY <2>1 DEF Clearing
    <2>3. \A u \in Thread, i \in Index : Clearing(u, i) => Elements(u)'[i] = Null
      BY <1>0, <1>14, <2>2, ClearView, ElementsType
    <2> QED  BY <2>3 DEF ClearingLasts
  <1>15. ASSUME NEW t \in Thread, DestroyEnd(t)
         PROVE  ClearingLasts
    <2>a. \A w \in Thread \ {t} : obj[w] # obj[t]
      BY <1>0, <1>15, DestroyEndDoes DEF Alone, Destroying
    <2>b. \A w \in Thread : pc[w] = "d_clear" => idOf'[obj[w]] = idOf[obj[w]]
      BY <1>0, <1>15, <2>a, DestroyEndDoes DEF DestroyEnd, CallOf, Destroying, Types
    <2>1. \A w \in Thread : pc[w] = "d_clear" => w # t /\ Same(w) /\ entry[w] # Null
      BY <1>0, <1>15, DestroyEndDoes DEF Others, CallOf
    <2>2. \A u \in Thread : elements'[u] = elements[u]
      BY <1>0, <1>15, DestroyEndDoes DEF Others, Same
    <2> QED  BY <1>0, <1>15, <2>1, <2>2, <2>b, DestroyEndDoes DEF ClearingLasts, Clearing, Same
  <1>16. ASSUME NEW t \in Thread, Forget(t)
         PROVE  ClearingLasts
    <2>1. \A w \in Thread : pc[w] = "d_clear" => w # t /\ Same(w) /\ entry[w] # Null
      BY <1>0, <1>16, ForgetDoes DEF Others, CallOf
    <2>2. \A u \in Thread : elements'[u] = elements[u]
      BY <1>0, <1>16, ForgetDoes DEF Others, Same
    <2> QED  BY <1>0, <1>16, <2>1, <2>2, ForgetDoes DEF ClearingLasts, Clearing, Same
  <1>17. ASSUME NEW t \in Thread, Unlock(t)
         PROVE  ClearingLasts
    <2>1. \A w \in Thread : pc[w] = "d_clear" => w # t /\ Same(w) /\ entry[w] # Null
      BY <1>0, <1>17, UnlockDoes DEF Others, CallOf
    <2>2. \A u \in Thread : elements'[u] = elements[u]
      BY <1>0, <1>17, UnlockDoes DEF Others, Same
    <2> QED  BY <1>0, <1>17, <2>1, <2>2, UnlockDoes DEF ClearingLasts, Clearing, Same
  <1>18. ASSUME NEW t \in Thread, DestroyAllNext(t)
         PROVE  ClearingLasts
    <2>1. \A w \in Thread : pc[w] = "d_clear" => w # t /\ Same(w) /\ entry[w] # Null
      BY <1>0, <1>18, DestroyAllNextDoes DEF Others, CallOf
    <2>2. \A u \in Thread : elements'[u] = elements[u]
      BY <1>0, <1>18, DestroyAllNextDoes DEF Others, Same
    <2> QED  BY <1>0, <1>18, <2>1, <2>2, DestroyAllNextDoes DEF ClearingLasts, Clearing, Same
  <1>19. ASSUME NEW t \in Thread, DestroyAllEnd(t)
         PROVE  ClearingLasts
    <2>1. \A w \in Thread : pc[w] = "d_clear" => w # t /\ Same(w) /\ entry[w] # Null
      BY <1>0, <1>19, DestroyAllEndDoes DEF Others, CallOf
    <2>2. \A i \in Index : Elements(t)'[i] = Null
      BY <1>0, <1>19, DestroyAllEndDoes, FreeFacts DEF Elements
    <2> QED  BY <1>0, <1>19, <2>1, <2>2, DestroyAllEndDoes DEF ClearingLasts, Clearing, Others, Same
  <1>20. ASSUME StaticallyDestructed \/ UNCHANGED vars
         PROVE  ClearingLasts
    BY <1>0, <1>20 DEF StaticallyDestructed, vars, ClearingLasts, Clearing, Elements, ids, sync, storage, locals
  <1> QED
    BY <1>1, <1>2, <1>3, <1>4, <1>5, <1>6, <1>7, <1>8, <1>9, <1>10, <1>11, <1>12, <1>13, <1>14,
       <1>15, <1>16, <1>17, <1>18, <1>19, <1>20
       DEF Next, Step, GetStep, DestroyStep, ExitStep, Finished

\* Nothing gets beyond the end of an array.
LEMMA InsideStep ==
    ASSUME GrowsAlone, Inv, [Next]_vars
    PROVE  Inside'
  <1>0. Inv /\ GrowsAlone /\ Types /\ Alone /\ Slots /\ Inside /\ \A u \in Thread : CallOf(u)
    BY DEF Inv, Calls, Slots
  <1>1. ASSUME NEW t \in Thread, NEW o \in Object, Create(t, o)
        PROVE  Inside'
    <2>v. ViewsSame
      BY <1>1, ViewStep DEF Silent
    <2> QED  BY <1>0, <1>1, <2>v, CreateDoes DEF Inside, ViewsSame, Others, Same
  <1>2. ASSUME NEW t \in Thread, NEW o \in Object, GetBegin(t, o)
        PROVE  Inside'
    <2>v. ViewsSame
      BY <1>2, ViewStep DEF Silent
    <2>1. elements[t] = Null => \A i \in Index : Elements(t)[i] = Null
      BY <1>0, <1>2, GetBeginDoes, FreeFacts DEF Elements
    <2>2. elements[t] # Null => t \in registered /\ size'[t] = size[t]
      BY <1>0, <1>2, GetBeginDoes DEF CallOf
    <2> QED  BY <1>0, <1>2, <2>v, <2>1, <2>2, GetBeginDoes DEF Inside, ViewsSame, Others, Same
  <1>3. ASSUME NEW t \in Thread, Register(t)
        PROVE  Inside'
    <2>v. ViewsSame
      BY <1>3, ViewStep DEF Silent
    <2> QED  BY <1>0, <1>3, <2>v, RegisterDoes DEF Inside, ViewsSame, Others, Same
  <1>4. ASSUME NEW t \in Thread, Get(t)
        PROVE  Inside'
    <2>v. ViewsSame
      BY <1>4, ViewStep DEF Silent
    <2> QED  BY <1>0, <1>4, <2>v, GetDoes DEF Inside, ViewsSame, Others, Same
  <1>5. ASSUME NEW t \in Thread, GrowCopy(t)
        PROVE  Inside'
    <2>v. ViewsSame
      BY <1>5, ViewStep DEF Silent
    <2> QED  BY <1>0, <1>5, <2>v, GrowCopyDoes DEF Inside, ViewsSame, Others, Same
  <1>6. ASSUME NEW t \in Thread, GrowDelete(t)
        PROVE  Inside'
    <2>v. ViewsSame
      BY <1>6, ViewStep DEF Silent
    <2> QED  BY <1>0, <1>6, <2>v, GrowDeleteDoes DEF Inside, ViewsSame, Others, Same
  <1>7. ASSUME NEW t \in Thread, GrowSet(t)
        PROVE  Inside'
    <2>v. ViewsSame
      BY <1>7, ViewStep DEF Silent
    <2>1. \A i \in Index : i > size'[t] => i > size[t]
      <3>1. idOf[obj[t]] \in 1..MaxId /\ idOf[obj[t]] > size[t] /\ size[t] \in Nat
        BY <1>0, <1>7, GrowSetDoes, IdFacts DEF CallOf, GetPCs, Types
      <3>2. Grown(idOf[obj[t]]) \in Nat /\ idOf[obj[t]] < Grown(idOf[obj[t]])
        BY <3>1, GrownFacts
      <3> QED  BY <1>0, <1>7, GrowSetDoes, <3>1, <3>2 DEF Index
    <2> QED  BY <1>0, <1>7, <2>v, <2>1, GrowSetDoes DEF Inside, ViewsSame, Others, Same
  <1>8. ASSUME NEW t \in Thread, New(t)
        PROVE  Inside'
    <2>v. ViewsSame
      BY <1>8, ViewStep DEF Silent
    <2> QED  BY <1>0, <1>8, <2>v, NewDoes DEF Inside, ViewsSame, Others, Same
  <1>9. ASSUME NEW t \in Thread, Set(t)
        PROVE  Inside'
    <2>1. \A u \in Thread, i \in Index : u # t \/ i # idOf[obj[t]] => Elements(u)'[i] = Elements(u)[i]
      BY <1>0, <1>9, SetView, ElementsType
    <2>2. ~(idOf[obj[t]] > size[t])
      BY SMTT(40), <1>0, <1>9, SetDoes, IdFacts DEF CallOf, GetPCs, Types
    <2> QED  BY <1>0, <1>9, <2>1, <2>2, SetDoes DEF Inside, Others, Same
  <1>10. ASSUME NEW t \in Thread, Got(t)
         PROVE  Inside'
    <2>v. ViewsSame
      BY <1>10, ViewStep DEF Silent
    <2> QED  BY <1>0, <1>10, <2>v, GotDoes DEF Inside, ViewsSame, Others, Same
  <1>11. ASSUME NEW t \in Thread, NEW o \in Object, DestroyBegin(t, o)
         PROVE  Inside'
    <2>v. ViewsSame
      BY <1>11, ViewStep DEF Silent
    <2> QED  BY <1>0, <1>11, <2>v, DestroyBeginDoes DEF Inside, ViewsSame, Others, Same
  <1>12. ASSUME NEW t \in Thread, DestroyNext(t)
         PROVE  Inside'
    <2>v. ViewsSame
      BY <1>12, ViewStep DEF Silent
    <2> QED  BY <1>0, <1>12, <2>v, DestroyNextDoes DEF Inside, ViewsSame, Others, Same
  <1>13. ASSUME NEW t \in Thread, DestroyRead(t)
         PROVE  Inside'
    <2>v. ViewsSame
      BY <1>13, ViewStep DEF Silent
    <2> QED  BY <1>0, <1>13, <2>v, DestroyReadDoes DEF Inside, ViewsSame, Others, Same
  <1>14. ASSUME NEW t \in Thread, DestroyClear(t)
         PROVE  Inside'
    <2>1. \A u \in Thread, i \in Index : Elements(u)[i] = Null => Elements(u)'[i] = Null
      BY <1>0, <1>14, ClearView, ElementsType
    <2> QED  BY <1>0, <1>14, <2>1, DestroyClearDoes DEF Inside, Others, Same
  <1>15. ASSUME NEW t \in Thread, DestroyEnd(t)
         PROVE  Inside'
    <2>v. ViewsSame
      BY <1>15, ViewStep DEF Silent
    <2> QED  BY <1>0, <1>15, <2>v, DestroyEndDoes DEF Inside, ViewsSame, Others, Same
  <1>16. ASSUME NEW t \in Thread, Forget(t)
         PROVE  Inside'
    <2>v. ViewsSame
      BY <1>16, ViewStep DEF Silent
    <2> QED  BY <1>0, <1>16, <2>v, ForgetDoes DEF Inside, ViewsSame, Others, Same
  <1>17. ASSUME NEW t \in Thread, Unlock(t)
         PROVE  Inside'
    <2>v. ViewsSame
      BY <1>17, ViewStep DEF Silent
    <2> QED  BY <1>0, <1>17, <2>v, UnlockDoes DEF Inside, ViewsSame, Others, Same
  <1>18. ASSUME NEW t \in Thread, DestroyAllNext(t)
         PROVE  Inside'
    <2>1. \A u \in Thread, i \in Index : Elements(u)[i] = Null => Elements(u)'[i] = Null
      BY <1>0, <1>18, DropView, ElementsType
    <2> QED  BY <1>0, <1>18, <2>1, DestroyAllNextDoes DEF Inside, Others, Same
  <1>19. ASSUME NEW t \in Thread, DestroyAllEnd(t)
         PROVE  Inside'
    <2>v. ViewsSame
      BY <1>19, ViewStep DEF Silent
    <2>1. \A i \in Index : Elements(t)'[i] = Null
      BY <1>0, <1>19, DestroyAllEndDoes, FreeFacts DEF Elements
    <2> QED  BY <1>0, <1>19, <2>v, <2>1, DestroyAllEndDoes DEF Inside, ViewsSame, Others, Same
  <1>20. ASSUME StaticallyDestructed \/ UNCHANGED vars
         PROVE  Inside'
    BY <1>0, <1>20 DEF StaticallyDestructed, vars, Inside, Elements, ids, sync, storage, locals
  <1> QED
    BY <1>1, <1>2, <1>3, <1>4, <1>5, <1>6, <1>7, <1>8, <1>9, <1>10, <1>11, <1>12, <1>13, <1>14,
       <1>15, <1>16, <1>17, <1>18, <1>19, <1>20
       DEF Next, Step, GetStep, DestroyStep, ExitStep, Finished

\* A thread that is exiting is off the list: no destructor clears its elements.
LEMMA NotClearing ==
    ASSUME GrowsAlone, Inv, NEW t \in Thread, Exiting(t), NEW i
    PROVE  ~Clearing(t, i)
  <1> SUFFICES ASSUME NEW u \in Thread, pc[u] = "d_clear", entry[u] = elements[t]
               PROVE  FALSE
    BY DEF Clearing
  <1> QED  BY PointedView

\* No destructor clears the element of an object that a thread uses.
LEMMA NotClearingUsed ==
    ASSUME GrowsAlone, Inv, NEW t \in Thread, pc[t] \in GetPCs
    PROVE  ~Clearing(t, idOf[obj[t]])
  <1> SUFFICES ASSUME NEW u \in Thread, pc[u] = "d_clear", idOf[obj[u]] = idOf[obj[t]]
               PROVE  FALSE
    BY DEF Clearing
  <1>1. Destroying(u) /\ u # t /\ obj[u] \in Object /\ obj[t] \in Object /\ idOf[obj[t]] # 0
    BY SMTT(40) DEF Inv, Types, Calls, CallOf, Destroying, GetPCs
  <1> QED  BY <1>1 DEF Inv, Ids, Alone

\* What destroy finds in an element is what that thread made for this object.
LEMMA ReadOwn ==
    ASSUME GrowsAlone, Inv, NEW t \in Thread, pc[t] = "d_read", array[entry[t]][idOf[obj[t]]] # Null
    PROVE  \E x \in Thread : /\ x \in registered /\ ~Exiting(x) /\ entry[t] = elements[x]
                             /\ Elements(x) = array[entry[t]]
                             /\ array[entry[t]][idOf[obj[t]]] \in Value
                             /\ home[array[entry[t]][idOf[obj[t]]]] = <<x, obj[t]>>
                             /\ \A w \in Thread : elements[w] = entry[t] => w = x
  <1> DEFINE i == idOf[obj[t]]
             v == array[entry[t]][i]
  <1>1. PICK x \in Thread : /\ x \in registered /\ ~Exiting(x) /\ entry[t] = elements[x]
                            /\ Elements(x) = array[entry[t]]
                            /\ \A w \in Thread : elements[w] = entry[t] => w = x
    BY PointedView
  <1>2. obj[t] \in Object /\ i # 0 /\ i \in Index
    BY SMTT(40), IdFacts DEF Inv, Types, Calls, CallOf, Destroying
  <1>3. v \in Value /\ v = Elements(x)[i]
    BY <1>1, <1>2, ElementsType
  <1>4. \A u \in Thread : pc[u] # "d_clear"
    BY DEF Inv, Calls, CallOf, Destroying
  <1>5. Own(x, i)
    BY <1>2, <1>3, <1>4 DEF Inv, Slots, Filed, Clearing
  <1>6. home[v] \in Thread \X Object /\ home[v][1] = x /\ idOf[home[v][2]] = i
    BY <1>1, <1>3, <1>5 DEF Own, Inv, Types
  <1>7. home[v][2] = obj[t]
    BY <1>2, <1>6 DEF Inv, Ids
  <1>8. home[v] = <<x, obj[t]>>
    BY <1>6, <1>7
  <1> QED  BY <1>1, <1>3, <1>8

\* Every value stays in the element of its thread and its object.
LEMMA FiledStep ==
    ASSUME GrowsAlone, Inv, [Next]_vars
    PROVE  Filed'
  <1>0. /\ Inv /\ GrowsAlone /\ Types /\ Alone /\ Filed /\ Distinct /\ Finds /\ Visited /\ Gone /\ Kept
        /\ \A u \in Thread : CallOf(u)
    BY DEF Inv, Calls, Slots
  <1>c. ClearingLasts
    BY ClearingStep
  <1>1. ASSUME NEW t \in Thread, NEW o \in Object, Create(t, o)
        PROVE  Filed'
    <2>v. ViewsSame
      BY <1>1, ViewStep DEF Silent
    <2>h. home' = home
      BY <1>1 DEF Create
    <2>1. \A p \in Object : idOf[p] # 0 => idOf'[p] = idOf[p]
      BY <1>0, <1>1 DEF Create, Types
    <2>2. \A v \in Value : home[v] # Free => home[v][2] \in Object
      BY <1>0 DEF Types
    <2>3. \A u \in Thread, i \in Index : i # 0 /\ (Elements(u)[i] # Null => Elements(u)[i] \in Value)
      <3>1. \A i \in Index : i # 0
        BY DEF Index
      <3> QED  BY <1>0, <3>1, ElementsType
    <2> QED  BY <1>0, <1>1, <1>c, <2>v, <2>h, <2>1, <2>2, <2>3, CreateDoes
                DEF ClearingLasts, Filed, Own, Exiting, ViewsSame, Others, Same
  <1>2. ASSUME NEW t \in Thread, NEW o \in Object, GetBegin(t, o)
        PROVE  Filed'
    <2>v. ViewsSame
      BY <1>2, ViewStep DEF Silent
    <2>h. home' = home
      BY <1>2 DEF GetBegin
    <2> QED  BY <1>0, <1>2, <1>c, <2>v, <2>h, GetBeginDoes
                DEF ClearingLasts, Filed, Own, Exiting, ViewsSame, Others, Same
  <1>3. ASSUME NEW t \in Thread, Register(t)
        PROVE  Filed'
    <2>v. ViewsSame
      BY <1>3, ViewStep DEF Silent
    <2>h. home' = home
      BY <1>3 DEF Register
    <2> QED  BY <1>0, <1>3, <1>c, <2>v, <2>h, RegisterDoes
                DEF ClearingLasts, Filed, Own, Exiting, ViewsSame, Others, Same
  <1>4. ASSUME NEW t \in Thread, Get(t)
        PROVE  Filed'
    <2>v. ViewsSame
      BY <1>4, ViewStep DEF Silent
    <2>h. home' = home
      BY <1>4 DEF Get
    <2> QED  BY <1>0, <1>4, <1>c, <2>v, <2>h, GetDoes
                DEF ClearingLasts, Filed, Own, Exiting, ViewsSame, Others, Same
  <1>5. ASSUME NEW t \in Thread, GrowCopy(t)
        PROVE  Filed'
    <2>v. ViewsSame
      BY <1>5, ViewStep DEF Silent
    <2>h. home' = home
      BY <1>5 DEF GrowCopy
    <2> QED  BY <1>0, <1>5, <1>c, <2>v, <2>h, GrowCopyDoes
                DEF ClearingLasts, Filed, Own, Exiting, ViewsSame, Others, Same
  <1>6. ASSUME NEW t \in Thread, GrowDelete(t)
        PROVE  Filed'
    <2>v. ViewsSame
      BY <1>6, ViewStep DEF Silent
    <2>h. home' = home
      BY <1>6 DEF GrowDelete
    <2> QED  BY <1>0, <1>6, <1>c, <2>v, <2>h, GrowDeleteDoes
                DEF ClearingLasts, Filed, Own, Exiting, ViewsSame, Others, Same
  <1>7. ASSUME NEW t \in Thread, GrowSet(t)
        PROVE  Filed'
    <2>v. ViewsSame
      BY <1>7, ViewStep DEF Silent
    <2>h. home' = home
      BY <1>7 DEF GrowSet
    <2> QED  BY <1>0, <1>7, <1>c, <2>v, <2>h, GrowSetDoes
                DEF ClearingLasts, Filed, Own, Exiting, ViewsSame, Others, Same
  <1>8. ASSUME NEW t \in Thread, New(t)
        PROVE  Filed'
    <2>v. ViewsSame
      BY <1>8, ViewStep DEF Silent
    <2>1. \A v \in Value : home[v] # Free => home'[v] = home[v]
      BY <1>0, <1>8 DEF New, Types
    <2>2. \A u \in Thread, i \in Index : Elements(u)[i] # Null => Elements(u)[i] \in Value
      BY <1>0, ElementsType
    <2> QED  BY <1>0, <1>8, <1>c, <2>v, <2>1, <2>2, NewDoes
                DEF ClearingLasts, Filed, Own, Exiting, ViewsSame, Others, Same
  <1>9. ASSUME NEW t \in Thread, Set(t)
        PROVE  Filed'
    <2>h. home' = home
      BY <1>9 DEF Set
    <2>0. PICK k \in Index : k = idOf[obj[t]]
      BY SMTT(40), <1>0, <1>9, SetDoes, IdFacts DEF CallOf, GetPCs, Types
    <2>1. \A u \in Thread, i \in Index : u # t \/ i # k => Elements(u)'[i] = Elements(u)[i]
      BY <1>0, <1>9, <2>0, SetView, ElementsType
    <2>2. Elements(t)'[k] = ptr[t]
      BY <1>0, <1>9, <2>0, SetView, ElementsType
    <2>3. home'[ptr[t]] = <<t, obj[t]>>
      BY <1>0, <1>9, <2>h, SetDoes DEF Finds, FindsOf
    <2>4. Own(t, k)'
      BY <1>0, <1>9, <2>0, <2>2, <2>3, SetDoes, FreeFacts DEF Own
    <2>5. \A u \in Thread, i \in Index : u # t \/ i # k => (Own(u, i) => Own(u, i)')
      BY <1>0, <1>9, <2>h, <2>1, SetDoes DEF Own, Exiting, Others, Same
    <2> QED  BY <1>0, <1>c, <2>1, <2>4, <2>5 DEF ClearingLasts, Filed
  <1>10. ASSUME NEW t \in Thread, Got(t)
         PROVE  Filed'
    <2>v. ViewsSame
      BY <1>10, ViewStep DEF Silent
    <2>h. home' = home
      BY <1>10 DEF Got
    <2> QED  BY <1>0, <1>10, <1>c, <2>v, <2>h, GotDoes
                DEF ClearingLasts, Filed, Own, Exiting, ViewsSame, Others, Same
  <1>11. ASSUME NEW t \in Thread, NEW o \in Object, DestroyBegin(t, o)
         PROVE  Filed'
    <2>v. ViewsSame
      BY <1>11, ViewStep DEF Silent
    <2>h. home' = home
      BY <1>11 DEF DestroyBegin
    <2> QED  BY <1>0, <1>11, <1>c, <2>v, <2>h, DestroyBeginDoes
                DEF ClearingLasts, Filed, Own, Exiting, ViewsSame, Others, Same
  <1>12. ASSUME NEW t \in Thread, DestroyNext(t)
         PROVE  Filed'
    <2>v. ViewsSame
      BY <1>12, ViewStep DEF Silent
    <2>h. home' = home
      BY <1>12 DEF DestroyNext
    <2> QED  BY <1>0, <1>12, <1>c, <2>v, <2>h, DestroyNextDoes
                DEF ClearingLasts, Filed, Own, Exiting, ViewsSame, Others, Same
  <1>13. ASSUME NEW t \in Thread, DestroyRead(t)
         PROVE  Filed'
    <2>v. ViewsSame
      BY <1>13, ViewStep DEF Silent
    <2>i. PICK i \in Index : i = idOf[obj[t]]
      BY <1>0, <1>13, DestroyReadDoes, IdFacts DEF CallOf, Destroying, Types
    <2> DEFINE v == array[entry[t]][i]
    <2>1. CASE v = Null
      <3>1. home' = home
        BY <1>0, <1>13, <2>1, <2>i, NullAssumption DEF DestroyRead, Delete, Types
      <3> QED  BY <1>0, <1>13, <1>c, <2>v, <3>1, DestroyReadDoes
                  DEF ClearingLasts, Filed, Own, Exiting, ViewsSame, Others, Same
    <2>2. CASE v # Null
      <3>1. PICK x \in Thread : /\ ~Exiting(x) /\ entry[t] = elements[x] /\ home[v] = <<x, obj[t]>> /\ v \in Value
        BY <1>0, <1>13, <2>2, <2>i, DestroyReadDoes, ReadOwn
      <3>2. pc'[t] = "d_clear" /\ \A y \in Value \ {v} : home'[y] = home[y]
        BY <1>0, <1>13, <2>2, <2>i DEF DestroyRead, Delete, Goto, Types
      <3>3. Clearing(x, i)'
        BY ZenonT(60), <1>0, <1>13, <2>i, <3>1, <3>2, DestroyReadDoes DEF Clearing, Others, Same, DestroyRead, storage
      <3> HIDE DEF v
      <3>4. \A u \in Thread, j \in Index : Own(u, j) /\ Elements(u)[j] = v => u = x /\ j = i
        BY <2>i, <3>1 DEF Own
      <3>5. \A u \in Thread, j \in Index : Elements(u)[j] # Null => Elements(u)[j] \in Value
        BY <1>0, ElementsType
      <3>6. \A u \in Thread, j \in Index : Elements(u)[j] # Null /\ Elements(u)[j] # v /\ Own(u, j) => Own(u, j)'
        BY <1>0, <1>13, <2>v, <3>2, <3>5, DestroyReadDoes DEF Own, Exiting, ViewsSame, Others, Same
      <3> QED  BY <1>0, <1>c, <2>v, <3>3, <3>4, <3>6 DEF ClearingLasts, Filed, ViewsSame
    <2> QED  BY <2>1, <2>2
  <1>14. ASSUME NEW t \in Thread, DestroyClear(t)
         PROVE  Filed'
    <2>h. home' = home
      BY <1>14 DEF DestroyClear
    <2>1. \A u \in Thread, i \in Index : Elements(u)'[i] # Null => Elements(u)'[i] = Elements(u)[i]
      BY <1>0, <1>14, ClearView, ElementsType
    <2> QED  BY <1>0, <1>14, <1>c, <2>h, <2>1, DestroyClearDoes
                DEF ClearingLasts, Filed, Own, Exiting, Others, Same
  <1>15. ASSUME NEW t \in Thread, DestroyEnd(t)
         PROVE  Filed'
    <2>v. ViewsSame
      BY <1>15, ViewStep DEF Silent
    <2>h. home' = home
      BY <1>15 DEF DestroyEnd
    <2>1. \A p \in Object \ {obj[t]} : idOf'[p] = idOf[p]
      BY <1>0, <1>15 DEF DestroyEnd, Types
    <2>2. \A v \in Value : home[v] # Free => home[v][2] \in Object
      BY <1>0 DEF Types
    <2>3. \A u \in Thread, i \in Index : Elements(u)[i] # Null => Elements(u)[i] \in Value
      BY <1>0, ElementsType
    <2>4. \A u \in Thread : Exiting(u) \/ Elements(u)[idOf[obj[t]]] = Null
      BY <1>0, <1>15, DestroyEndDoes DEF DestroyEnd, Visited, Destroying, CallOf
    <2> QED  BY <1>0, <1>15, <1>c, <2>v, <2>h, <2>1, <2>2, <2>3, <2>4, DestroyEndDoes
                DEF ClearingLasts, Filed, Own, Exiting, ViewsSame, Others, Same
  <1>16. ASSUME NEW t \in Thread, Forget(t)
         PROVE  Filed'
    <2>v. ViewsSame
      BY <1>16, ViewStep DEF Silent
    <2>h. home' = home
      BY <1>16 DEF Forget
    <2> QED  BY <1>0, <1>16, <1>c, <2>v, <2>h, ForgetDoes
                DEF ClearingLasts, Filed, Own, Exiting, ViewsSame, Others, Same
  <1>17. ASSUME NEW t \in Thread, Unlock(t)
         PROVE  Filed'
    <2>v. ViewsSame
      BY <1>17, ViewStep DEF Silent
    <2>h. home' = home
      BY <1>17 DEF Unlock
    <2> QED  BY <1>0, <1>17, <1>c, <2>v, <2>h, UnlockDoes
                DEF ClearingLasts, Filed, Own, Exiting, ViewsSame, Others, Same
  <1>18. ASSUME NEW t \in Thread, DestroyAllNext(t)
         PROVE  Filed'
    <2>1. PICK i \in Index : /\ Elements(t)[i] # Null /\ Delete(Elements(t)[i])
                             /\ Elements(t)' = [Elements(t) EXCEPT ![i] = Null]
      BY <1>0, <1>18, DropView
    <2> DEFINE v == Elements(t)[i]
    <2>2. v \in Value /\ home[v][1] = t /\ \A y \in Value \ {v} : home'[y] = home[y]
      BY <1>0, <1>18, <2>1, DestroyAllNextDoes, NotClearing, ElementsType DEF Exiting, Filed, Own, Delete
    <2>3. \A u \in Thread, j \in Index : Elements(u)'[j] # Null => Elements(u)'[j] = Elements(u)[j] /\ (u # t \/ j # i)
      BY <1>0, <1>18, <2>1, DropView, ElementsType
    <2>4. \A j \in Index : j # i => Elements(t)[j] # v
      BY <1>0, <1>18, <2>1, DestroyAllNextDoes DEF Distinct, Exiting
    <2> HIDE DEF v
    <2>5. \A u \in Thread, j \in Index : Elements(u)[j] # Null => Elements(u)[j] \in Value
      BY <1>0, ElementsType
    <2>6. \A u \in Thread, j \in Index : Elements(u)'[j] # Null /\ Own(u, j) => Elements(u)[j] # v
      BY <2>2, <2>3, <2>4 DEF Own
    <2> QED  BY <1>0, <1>18, <1>c, <2>2, <2>3, <2>5, <2>6, DestroyAllNextDoes
                DEF ClearingLasts, Filed, Own, Exiting, Others, Same
  <1>19. ASSUME NEW t \in Thread, DestroyAllEnd(t)
         PROVE  Filed'
    <2>v. ViewsSame
      BY <1>19, ViewStep DEF Silent
    <2>h. home' = home
      BY <1>19 DEF DestroyAllEnd
    <2>1. \A i \in Index : Elements(t)'[i] = Null
      BY <1>0, <1>19, DestroyAllEndDoes, FreeFacts DEF Elements
    <2> QED  BY <1>0, <1>19, <1>c, <2>v, <2>h, <2>1, DestroyAllEndDoes
                DEF ClearingLasts, Filed, Own, Exiting, ViewsSame, Others, Same
  <1>20. ASSUME StaticallyDestructed \/ UNCHANGED vars
         PROVE  Filed'
    BY <1>0, <1>20
       DEF StaticallyDestructed, vars, Filed, Own, Clearing, Exiting, Elements, ids, sync, storage, locals
  <1> QED
    BY <1>1, <1>2, <1>3, <1>4, <1>5, <1>6, <1>7, <1>8, <1>9, <1>10, <1>11, <1>12, <1>13, <1>14,
       <1>15, <1>16, <1>17, <1>18, <1>19, <1>20
       DEF Next, Step, GetStep, DestroyStep, ExitStep, Finished

\* An exiting thread has no value twice.
LEMMA DistinctStep ==
    ASSUME GrowsAlone, Inv, [Next]_vars
    PROVE  Distinct'
  <1>0. /\ Inv /\ GrowsAlone /\ Types /\ Alone /\ Filed /\ Distinct /\ Finds /\ Visited /\ Gone /\ Kept
        /\ \A u \in Thread : CallOf(u)
    BY DEF Inv, Calls, Slots
  <1>1. ASSUME NEW t \in Thread, NEW o \in Object, Create(t, o)
        PROVE  Distinct'
    <2>v. ViewsSame
      BY <1>1, ViewStep DEF Silent
    <2> QED  BY <1>0, <1>1, <2>v, CreateDoes DEF Distinct, Exiting, ViewsSame, Others, Same
  <1>2. ASSUME NEW t \in Thread, NEW o \in Object, GetBegin(t, o)
        PROVE  Distinct'
    <2>v. ViewsSame
      BY <1>2, ViewStep DEF Silent
    <2> QED  BY <1>0, <1>2, <2>v, GetBeginDoes DEF Distinct, Exiting, ViewsSame, Others, Same
  <1>3. ASSUME NEW t \in Thread, Register(t)
        PROVE  Distinct'
    <2>v. ViewsSame
      BY <1>3, ViewStep DEF Silent
    <2> QED  BY <1>0, <1>3, <2>v, RegisterDoes DEF Distinct, Exiting, ViewsSame, Others, Same
  <1>4. ASSUME NEW t \in Thread, Get(t)
        PROVE  Distinct'
    <2>v. ViewsSame
      BY <1>4, ViewStep DEF Silent
    <2> QED  BY <1>0, <1>4, <2>v, GetDoes DEF Distinct, Exiting, ViewsSame, Others, Same
  <1>5. ASSUME NEW t \in Thread, GrowCopy(t)
        PROVE  Distinct'
    <2>v. ViewsSame
      BY <1>5, ViewStep DEF Silent
    <2> QED  BY <1>0, <1>5, <2>v, GrowCopyDoes DEF Distinct, Exiting, ViewsSame, Others, Same
  <1>6. ASSUME NEW t \in Thread, GrowDelete(t)
        PROVE  Distinct'
    <2>v. ViewsSame
      BY <1>6, ViewStep DEF Silent
    <2> QED  BY <1>0, <1>6, <2>v, GrowDeleteDoes DEF Distinct, Exiting, ViewsSame, Others, Same
  <1>7. ASSUME NEW t \in Thread, GrowSet(t)
        PROVE  Distinct'
    <2>v. ViewsSame
      BY <1>7, ViewStep DEF Silent
    <2> QED  BY <1>0, <1>7, <2>v, GrowSetDoes DEF Distinct, Exiting, ViewsSame, Others, Same
  <1>8. ASSUME NEW t \in Thread, New(t)
        PROVE  Distinct'
    <2>v. ViewsSame
      BY <1>8, ViewStep DEF Silent
    <2> QED  BY <1>0, <1>8, <2>v, NewDoes DEF Distinct, Exiting, ViewsSame, Others, Same
  <1>9. ASSUME NEW t \in Thread, Set(t)
        PROVE  Distinct'
    <2> QED  BY <1>0, <1>9, SetView, SetDoes DEF Distinct, Exiting, Others, Same
  <1>10. ASSUME NEW t \in Thread, Got(t)
         PROVE  Distinct'
    <2>v. ViewsSame
      BY <1>10, ViewStep DEF Silent
    <2> QED  BY <1>0, <1>10, <2>v, GotDoes DEF Distinct, Exiting, ViewsSame, Others, Same
  <1>11. ASSUME NEW t \in Thread, NEW o \in Object, DestroyBegin(t, o)
         PROVE  Distinct'
    <2>v. ViewsSame
      BY <1>11, ViewStep DEF Silent
    <2> QED  BY <1>0, <1>11, <2>v, DestroyBeginDoes DEF Distinct, Exiting, ViewsSame, Others, Same
  <1>12. ASSUME NEW t \in Thread, DestroyNext(t)
         PROVE  Distinct'
    <2>v. ViewsSame
      BY <1>12, ViewStep DEF Silent
    <2> QED  BY <1>0, <1>12, <2>v, DestroyNextDoes DEF Distinct, Exiting, ViewsSame, Others, Same
  <1>13. ASSUME NEW t \in Thread, DestroyRead(t)
         PROVE  Distinct'
    <2>v. ViewsSame
      BY <1>13, ViewStep DEF Silent
    <2> QED  BY <1>0, <1>13, <2>v, DestroyReadDoes DEF Distinct, Exiting, ViewsSame, Others, Same
  <1>14. ASSUME NEW t \in Thread, DestroyClear(t)
         PROVE  Distinct'
    <2>1. \A u \in Thread : Exiting(u) => Elements(u)' = Elements(u)
      BY <1>0, <1>14, DestroyClearDoes, PointedView, ClearView
    <2> QED  BY <1>0, <1>14, <2>1, DestroyClearDoes DEF Distinct, Exiting, Others, Same
  <1>15. ASSUME NEW t \in Thread, DestroyEnd(t)
         PROVE  Distinct'
    <2>v. ViewsSame
      BY <1>15, ViewStep DEF Silent
    <2> QED  BY <1>0, <1>15, <2>v, DestroyEndDoes DEF Distinct, Exiting, ViewsSame, Others, Same
  <1>16. ASSUME NEW t \in Thread, Forget(t)
         PROVE  Distinct'
    <2>v. ViewsSame
      BY <1>16, ViewStep DEF Silent
    <2>1. \A i \in Index : ~Clearing(t, i)
      BY <1>0, <1>16, ForgetDoes, NullAssumption DEF Clearing, CallOf, Destroying
    <2>2. \A i, j \in Index : i # j /\ Elements(t)[i] # Null => Elements(t)[i] # Elements(t)[j]
      BY <1>0, <1>16, <2>1, ForgetDoes DEF Filed, Own, Exiting
    <2> QED  BY <1>0, <1>16, <2>v, <2>2, ForgetDoes DEF Distinct, Exiting, ViewsSame, Others, Same
  <1>17. ASSUME NEW t \in Thread, Unlock(t)
         PROVE  Distinct'
    <2>v. ViewsSame
      BY <1>17, ViewStep DEF Silent
    <2> QED  BY <1>0, <1>17, <2>v, UnlockDoes DEF Distinct, Exiting, ViewsSame, Others, Same
  <1>18. ASSUME NEW t \in Thread, DestroyAllNext(t)
         PROVE  Distinct'
    <2>1. \A u \in Thread, j \in Index : Elements(u)'[j] # Null => Elements(u)'[j] = Elements(u)[j]
      BY <1>0, <1>18, DropView, ElementsType
    <2> QED  BY <1>0, <1>18, <2>1, DestroyAllNextDoes DEF Distinct, Exiting, Others, Same
  <1>19. ASSUME NEW t \in Thread, DestroyAllEnd(t)
         PROVE  Distinct'
    <2>v. ViewsSame
      BY <1>19, ViewStep DEF Silent
    <2> QED  BY <1>0, <1>19, <2>v, DestroyAllEndDoes DEF Distinct, Exiting, ViewsSame, Others, Same
  <1>20. ASSUME StaticallyDestructed \/ UNCHANGED vars
         PROVE  Distinct'
    BY <1>0, <1>20 DEF StaticallyDestructed, vars, Distinct, Exiting, Elements, ids, sync, storage, locals
  <1> QED
    BY <1>1, <1>2, <1>3, <1>4, <1>5, <1>6, <1>7, <1>8, <1>9, <1>10, <1>11, <1>12, <1>13, <1>14,
       <1>15, <1>16, <1>17, <1>18, <1>19, <1>20
       DEF Next, Step, GetStep, DestroyStep, ExitStep, Finished

-----------------------------------------------------------------------------
(* Finds, Visited, Gone and Kept *)

\* What the calls of the other threads have found stays where it is.
LEMMA FindsKept ==
    ASSUME Finds, NEW t \in Thread, Others(t), FindsOf(t)',
           \A u \in Thread \ {t} : pc[u] \in {"new", "set", "got"} =>
              Elements(u)'[idOf[obj[u]]] = Elements(u)[idOf[obj[u]]] /\ idOf'[obj[u]] = idOf[obj[u]],
           \A u \in Thread \ {t} : pc[u] \in {"set", "got"} => home'[ptr[u]] = home[ptr[u]]
    PROVE  Finds'
  <1> SUFFICES ASSUME NEW u \in Thread \ {t}
               PROVE  FindsOf(u)'
    BY DEF Finds
  <1>1. FindsOf(u) /\ pc'[u] = pc[u] /\ obj'[u] = obj[u] /\ ptr'[u] = ptr[u]
    BY DEF Finds, Others, Same
  <1> QED  BY <1>1 DEF FindsOf

\* What a call has found stays where it is until the call is over.
LEMMA FindsStep ==
    ASSUME GrowsAlone, Inv, [Next]_vars
    PROVE  Finds'
  <1>0. /\ Inv /\ GrowsAlone /\ Types /\ Ids /\ Alone /\ Filed /\ Inside /\ Finds /\ Visited /\ Gone /\ Kept
        /\ \A u \in Thread : CallOf(u)
    BY DEF Inv, Calls, Slots
  <1>1. ASSUME NEW t \in Thread, NEW o \in Object, Create(t, o)
        PROVE  Finds'
    <2>v. ViewsSame
      BY <1>1, ViewStep DEF Silent
    <2>h. home' = home
      BY <1>1 DEF Create
    <2>i. \A p \in Object : idOf[p] # 0 => idOf'[p] = idOf[p]
      BY <1>0, <1>1 DEF Create, Types
    <2>j. \A u \in Thread : obj[u] # Null => idOf'[obj[u]] = idOf[obj[u]]
      BY <1>0, <2>i DEF CallOf, Types
    <2>x. \A u \in Thread \ {t} : pc[u] \in {"new", "set", "got"} =>
             Elements(u)'[idOf[obj[u]]] = Elements(u)[idOf[obj[u]]] /\ idOf'[obj[u]] = idOf[obj[u]]
      BY <1>0, <2>v, <2>j, CreateDoes DEF ViewsSame, CallOf, GetPCs
    <2>y. \A u \in Thread \ {t} : pc[u] \in {"set", "got"} => home'[ptr[u]] = home[ptr[u]]
      BY <2>h
    <2>z. FindsOf(t)'
      BY <1>0, <1>1, CreateDoes DEF FindsOf
    <2> QED  BY <1>0, <1>1, <2>x, <2>y, <2>z, CreateDoes, FindsKept
  <1>2. ASSUME NEW t \in Thread, NEW o \in Object, GetBegin(t, o)
        PROVE  Finds'
    <2>v. ViewsSame
      BY <1>2, ViewStep DEF Silent
    <2>h. home' = home
      BY <1>2 DEF GetBegin
    <2>x. \A u \in Thread \ {t} : pc[u] \in {"new", "set", "got"} =>
             Elements(u)'[idOf[obj[u]]] = Elements(u)[idOf[obj[u]]] /\ idOf'[obj[u]] = idOf[obj[u]]
      BY <1>0, <1>2, <2>v, GetBeginDoes DEF ViewsSame
    <2>y. \A u \in Thread \ {t} : pc[u] \in {"set", "got"} => home'[ptr[u]] = home[ptr[u]]
      BY <2>h
    <2>z. FindsOf(t)'
      BY <1>0, <1>2, GetBeginDoes DEF FindsOf
    <2> QED  BY <1>0, <1>2, <2>x, <2>y, <2>z, GetBeginDoes, FindsKept
  <1>3. ASSUME NEW t \in Thread, Register(t)
        PROVE  Finds'
    <2>v. ViewsSame
      BY <1>3, ViewStep DEF Silent
    <2>h. home' = home
      BY <1>3 DEF Register
    <2>x. \A u \in Thread \ {t} : pc[u] \in {"new", "set", "got"} =>
             Elements(u)'[idOf[obj[u]]] = Elements(u)[idOf[obj[u]]] /\ idOf'[obj[u]] = idOf[obj[u]]
      BY <1>0, <1>3, <2>v, RegisterDoes DEF ViewsSame
    <2>y. \A u \in Thread \ {t} : pc[u] \in {"set", "got"} => home'[ptr[u]] = home[ptr[u]]
      BY <2>h
    <2>z. FindsOf(t)'
      BY <1>0, <1>3, RegisterDoes DEF FindsOf
    <2> QED  BY <1>0, <1>3, <2>x, <2>y, <2>z, RegisterDoes, FindsKept
  <1>4. ASSUME NEW t \in Thread, Get(t)
        PROVE  Finds'
    <2>v. ViewsSame
      BY <1>4, ViewStep DEF Silent
    <2>h. home' = home
      BY <1>4 DEF Get
    <2>0. PICK k \in Index : k = idOf[obj[t]]
      BY <1>0, <1>4, GetDoes, IdFacts DEF CallOf, GetPCs, Destroying, Types
    <2> DEFINE v == Elements(t)[k]
    <2>1. Elements(t) = array[elements[t]]
      BY <1>0, <1>4, GetDoes DEF Elements, CallOf, GetPCs
    <2>2. ptr'[t] = v /\ pc'[t] = IF v = Null THEN "new" ELSE "got"
      BY <1>0, <1>4, <2>0, <2>1 DEF Get, Goto, Types
    <2>3. ASSUME v # Null
          PROVE  home[v] = <<t, obj[t]>>
      <3>1. ~Clearing(t, k) /\ ~Exiting(t)
        BY <1>0, <1>4, <2>0, GetDoes, NotClearingUsed DEF GetPCs, Exiting
      <3>2. v \in Value /\ home[v] \in Thread \X Object /\ home[v][1] = t /\ idOf[home[v][2]] = k
        BY <1>0, <2>3, <3>1, ElementsType DEF Filed, Own, Types
      <3>3. obj[t] \in Object /\ idOf[obj[t]] # 0
        BY <1>0, <1>4, GetDoes DEF CallOf, GetPCs, Types
      <3>4. home[v][2] = obj[t]
        BY <1>0, <2>0, <3>2, <3>3 DEF Ids
      <3> QED  BY <3>2, <3>4
    <2> HIDE DEF v
    <2>4. Elements(t)'[idOf'[obj'[t]]] = v
      BY <1>0, <1>4, <2>0, <2>v, GetDoes DEF ViewsSame, v
    <2>5. obj'[t] = obj[t]
      BY <1>0, <1>4, GetDoes
    <2>x. \A u \in Thread \ {t} : pc[u] \in {"new", "set", "got"} =>
             Elements(u)'[idOf[obj[u]]] = Elements(u)[idOf[obj[u]]] /\ idOf'[obj[u]] = idOf[obj[u]]
      BY <1>0, <1>4, <2>v, GetDoes DEF ViewsSame
    <2>y. \A u \in Thread \ {t} : pc[u] \in {"set", "got"} => home'[ptr[u]] = home[ptr[u]]
      BY <2>h
    <2>z. FindsOf(t)'
      BY <2>2, <2>3, <2>4, <2>5, <2>h DEF FindsOf
    <2> QED  BY <1>0, <1>4, <2>x, <2>y, <2>z, GetDoes, FindsKept
  <1>5. ASSUME NEW t \in Thread, GrowCopy(t)
        PROVE  Finds'
    <2>v. ViewsSame
      BY <1>5, ViewStep DEF Silent
    <2>h. home' = home
      BY <1>5 DEF GrowCopy
    <2>x. \A u \in Thread \ {t} : pc[u] \in {"new", "set", "got"} =>
             Elements(u)'[idOf[obj[u]]] = Elements(u)[idOf[obj[u]]] /\ idOf'[obj[u]] = idOf[obj[u]]
      BY <1>0, <1>5, <2>v, GrowCopyDoes DEF ViewsSame
    <2>y. \A u \in Thread \ {t} : pc[u] \in {"set", "got"} => home'[ptr[u]] = home[ptr[u]]
      BY <2>h
    <2>z. FindsOf(t)'
      BY <1>0, <1>5, GrowCopyDoes DEF FindsOf
    <2> QED  BY <1>0, <1>5, <2>x, <2>y, <2>z, GrowCopyDoes, FindsKept
  <1>6. ASSUME NEW t \in Thread, GrowDelete(t)
        PROVE  Finds'
    <2>v. ViewsSame
      BY <1>6, ViewStep DEF Silent
    <2>h. home' = home
      BY <1>6 DEF GrowDelete
    <2>x. \A u \in Thread \ {t} : pc[u] \in {"new", "set", "got"} =>
             Elements(u)'[idOf[obj[u]]] = Elements(u)[idOf[obj[u]]] /\ idOf'[obj[u]] = idOf[obj[u]]
      BY <1>0, <1>6, <2>v, GrowDeleteDoes DEF ViewsSame
    <2>y. \A u \in Thread \ {t} : pc[u] \in {"set", "got"} => home'[ptr[u]] = home[ptr[u]]
      BY <2>h
    <2>z. FindsOf(t)'
      BY <1>0, <1>6, GrowDeleteDoes DEF FindsOf
    <2> QED  BY <1>0, <1>6, <2>x, <2>y, <2>z, GrowDeleteDoes, FindsKept
  <1>7. ASSUME NEW t \in Thread, GrowSet(t)
        PROVE  Finds'
    <2>v. ViewsSame
      BY <1>7, ViewStep DEF Silent
    <2>h. home' = home
      BY <1>7 DEF GrowSet
    <2>x. \A u \in Thread \ {t} : pc[u] \in {"new", "set", "got"} =>
             Elements(u)'[idOf[obj[u]]] = Elements(u)[idOf[obj[u]]] /\ idOf'[obj[u]] = idOf[obj[u]]
      BY <1>0, <1>7, <2>v, GrowSetDoes DEF ViewsSame
    <2>y. \A u \in Thread \ {t} : pc[u] \in {"set", "got"} => home'[ptr[u]] = home[ptr[u]]
      BY <2>h
    <2>z. FindsOf(t)'
      BY <1>0, <1>7, GrowSetDoes DEF FindsOf
    <2> QED  BY <1>0, <1>7, <2>x, <2>y, <2>z, GrowSetDoes, FindsKept
  <1>8. ASSUME NEW t \in Thread, New(t)
        PROVE  Finds'
    <2>v. ViewsSame
      BY <1>8, ViewStep DEF Silent
    <2>1. home'[ptr'[t]] = <<t, obj[t]>> /\ \A y \in Value : home[y] # Free => home'[y] = home[y]
      BY <1>0, <1>8 DEF New, Types
    <2>2. \A u \in Thread : pc[u] \in {"set", "got"} => ptr[u] \in Value /\ home[ptr[u]] = <<u, obj[u]>>
      BY <1>0 DEF CallOf, Finds, FindsOf, Types
    <2>3. FindsOf(t)
      BY <1>0 DEF Finds
    <2>4. \A u \in Thread : <<u, obj[u]>> # Free
      BY FreeFacts
    <2>x. \A u \in Thread \ {t} : pc[u] \in {"new", "set", "got"} =>
             Elements(u)'[idOf[obj[u]]] = Elements(u)[idOf[obj[u]]] /\ idOf'[obj[u]] = idOf[obj[u]]
      BY <1>0, <1>8, <2>v, NewDoes DEF ViewsSame
    <2>y. \A u \in Thread \ {t} : pc[u] \in {"set", "got"} => home'[ptr[u]] = home[ptr[u]]
      BY <2>1, <2>2, <2>4
    <2>z. FindsOf(t)'
      BY <1>0, <1>8, <2>v, <2>1, <2>3, NewDoes DEF FindsOf, ViewsSame
    <2> QED  BY <1>0, <1>8, <2>x, <2>y, <2>z, NewDoes, FindsKept
  <1>9. ASSUME NEW t \in Thread, Set(t)
        PROVE  Finds'
    <2>h. home' = home
      BY <1>9 DEF Set
    <2>0. PICK k \in Index : k = idOf[obj[t]]
      BY <1>0, <1>9, SetDoes, IdFacts DEF CallOf, GetPCs, Destroying, Types
    <2>1. \A u \in Thread \ {t} : Elements(u)' = Elements(u)
      BY <1>0, <1>9, SetView
    <2>2. Elements(t)'[k] = ptr[t]
      BY <1>0, <1>9, <2>0, SetView, ElementsType
    <2>3. FindsOf(t)
      BY <1>0 DEF Finds
    <2>x. \A u \in Thread \ {t} : pc[u] \in {"new", "set", "got"} =>
             Elements(u)'[idOf[obj[u]]] = Elements(u)[idOf[obj[u]]] /\ idOf'[obj[u]] = idOf[obj[u]]
      BY <1>0, <1>9, <2>1, SetDoes
    <2>y. \A u \in Thread \ {t} : pc[u] \in {"set", "got"} => home'[ptr[u]] = home[ptr[u]]
      BY <2>h
    <2>z. FindsOf(t)'
      BY <1>0, <1>9, <2>h, <2>0, <2>2, <2>3, SetDoes DEF FindsOf
    <2> QED  BY <1>0, <1>9, <2>x, <2>y, <2>z, SetDoes, FindsKept
  <1>10. ASSUME NEW t \in Thread, Got(t)
         PROVE  Finds'
    <2>v. ViewsSame
      BY <1>10, ViewStep DEF Silent
    <2>h. home' = home
      BY <1>10 DEF Got
    <2>x. \A u \in Thread \ {t} : pc[u] \in {"new", "set", "got"} =>
             Elements(u)'[idOf[obj[u]]] = Elements(u)[idOf[obj[u]]] /\ idOf'[obj[u]] = idOf[obj[u]]
      BY <1>0, <1>10, <2>v, GotDoes DEF ViewsSame
    <2>y. \A u \in Thread \ {t} : pc[u] \in {"set", "got"} => home'[ptr[u]] = home[ptr[u]]
      BY <2>h
    <2>z. FindsOf(t)'
      BY <1>0, <1>10, GotDoes DEF FindsOf
    <2> QED  BY <1>0, <1>10, <2>x, <2>y, <2>z, GotDoes, FindsKept
  <1>11. ASSUME NEW t \in Thread, NEW o \in Object, DestroyBegin(t, o)
         PROVE  Finds'
    <2>v. ViewsSame
      BY <1>11, ViewStep DEF Silent
    <2>h. home' = home
      BY <1>11 DEF DestroyBegin
    <2>x. \A u \in Thread \ {t} : pc[u] \in {"new", "set", "got"} =>
             Elements(u)'[idOf[obj[u]]] = Elements(u)[idOf[obj[u]]] /\ idOf'[obj[u]] = idOf[obj[u]]
      BY <1>0, <1>11, <2>v, DestroyBeginDoes DEF ViewsSame
    <2>y. \A u \in Thread \ {t} : pc[u] \in {"set", "got"} => home'[ptr[u]] = home[ptr[u]]
      BY <2>h
    <2>z. FindsOf(t)'
      BY <1>0, <1>11, DestroyBeginDoes DEF FindsOf
    <2> QED  BY <1>0, <1>11, <2>x, <2>y, <2>z, DestroyBeginDoes, FindsKept
  <1>12. ASSUME NEW t \in Thread, DestroyNext(t)
         PROVE  Finds'
    <2>v. ViewsSame
      BY <1>12, ViewStep DEF Silent
    <2>h. home' = home
      BY <1>12 DEF DestroyNext
    <2>x. \A u \in Thread \ {t} : pc[u] \in {"new", "set", "got"} =>
             Elements(u)'[idOf[obj[u]]] = Elements(u)[idOf[obj[u]]] /\ idOf'[obj[u]] = idOf[obj[u]]
      BY <1>0, <1>12, <2>v, DestroyNextDoes DEF ViewsSame
    <2>y. \A u \in Thread \ {t} : pc[u] \in {"set", "got"} => home'[ptr[u]] = home[ptr[u]]
      BY <2>h
    <2>z. FindsOf(t)'
      BY <1>0, <1>12, DestroyNextDoes DEF FindsOf
    <2> QED  BY <1>0, <1>12, <2>x, <2>y, <2>z, DestroyNextDoes, FindsKept
  <1>13. ASSUME NEW t \in Thread, DestroyRead(t)
         PROVE  Finds'
    <2>v. ViewsSame
      BY <1>13, ViewStep DEF Silent
    <2>0. PICK k \in Index : k = idOf[obj[t]]
      BY <1>0, <1>13, DestroyReadDoes, IdFacts DEF CallOf, GetPCs, Destroying, Types
    <2> DEFINE v == array[entry[t]][k]
    <2>1. ASSUME v # Null, NEW u \in Thread, pc[u] \in {"set", "got"}
          PROVE  ptr[u] # v
      <3>1. PICK x \in Thread : home[v] = <<x, obj[t]>>
        BY ZenonT(60), <1>0, <1>13, <2>0, <2>1, DestroyReadDoes, ReadOwn
      <3>2. home[ptr[u]] = <<u, obj[u]>> /\ obj[u] # obj[t]
        BY <1>0, <1>13, <2>1, DestroyReadDoes DEF Alone, Destroying, Finds, FindsOf
      <3> QED  BY <3>1, <3>2
    <2>2. \A u \in Thread : pc[u] \in {"set", "got"} => ptr[u] \in Value
      BY <1>0 DEF CallOf, Types
    <2>3. \A y \in Value : y # v => home'[y] = home[y]
      BY <1>0, <1>13, <2>0 DEF DestroyRead, Delete
    <2>x. \A u \in Thread \ {t} : pc[u] \in {"new", "set", "got"} =>
             Elements(u)'[idOf[obj[u]]] = Elements(u)[idOf[obj[u]]] /\ idOf'[obj[u]] = idOf[obj[u]]
      BY <1>0, <1>13, <2>v, DestroyReadDoes DEF ViewsSame
    <2>y. \A u \in Thread \ {t} : pc[u] \in {"set", "got"} => home'[ptr[u]] = home[ptr[u]]
      BY <2>1, <2>2, <2>3, NullAssumption
    <2>z. FindsOf(t)'
      BY <1>0, <1>13, DestroyReadDoes DEF FindsOf
    <2> QED  BY <1>0, <1>13, <2>x, <2>y, <2>z, DestroyReadDoes, FindsKept
  <1>14. ASSUME NEW t \in Thread, DestroyClear(t)
         PROVE  Finds'
    <2>h. home' = home
      BY <1>14 DEF DestroyClear
    <2>0. PICK k \in Index : k = idOf[obj[t]]
      BY <1>0, <1>14, DestroyClearDoes, IdFacts DEF CallOf, GetPCs, Destroying, Types
    <2>1. \A u \in Thread : pc[u] \in {"new", "set", "got"} => idOf[obj[u]] \in Index /\ idOf[obj[u]] # k
      BY SMTT(40), <1>0, <1>14, <2>0, DestroyClearDoes, IdFacts DEF Alone, Destroying, CallOf, GetPCs, Ids, Types
    <2>2. \A u \in Thread, i \in Index : i # k => Elements(u)'[i] = Elements(u)[i]
      BY <1>0, <1>14, <2>0, ClearView, ElementsType
    <2>x. \A u \in Thread \ {t} : pc[u] \in {"new", "set", "got"} =>
             Elements(u)'[idOf[obj[u]]] = Elements(u)[idOf[obj[u]]] /\ idOf'[obj[u]] = idOf[obj[u]]
      BY <1>0, <1>14, <2>1, <2>2, DestroyClearDoes
    <2>y. \A u \in Thread \ {t} : pc[u] \in {"set", "got"} => home'[ptr[u]] = home[ptr[u]]
      BY <2>h
    <2>z. FindsOf(t)'
      BY <1>0, <1>14, DestroyClearDoes DEF FindsOf
    <2> QED  BY <1>0, <1>14, <2>x, <2>y, <2>z, DestroyClearDoes, FindsKept
  <1>15. ASSUME NEW t \in Thread, DestroyEnd(t)
         PROVE  Finds'
    <2>v. ViewsSame
      BY <1>15, ViewStep DEF Silent
    <2>h. home' = home
      BY <1>15 DEF DestroyEnd
    <2>i. \A p \in Object \ {obj[t]} : idOf'[p] = idOf[p]
      BY <1>0, <1>15 DEF DestroyEnd, Types
    <2>j. \A u \in Thread \ {t} : obj[u] # Null => idOf'[obj[u]] = idOf[obj[u]]
      BY <1>0, <1>15, <2>i, DestroyEndDoes DEF Alone, Destroying, Types
    <2>x. \A u \in Thread \ {t} : pc[u] \in {"new", "set", "got"} =>
             Elements(u)'[idOf[obj[u]]] = Elements(u)[idOf[obj[u]]] /\ idOf'[obj[u]] = idOf[obj[u]]
      BY <1>0, <2>v, <2>j, DestroyEndDoes DEF ViewsSame, CallOf, GetPCs
    <2>y. \A u \in Thread \ {t} : pc[u] \in {"set", "got"} => home'[ptr[u]] = home[ptr[u]]
      BY <2>h
    <2>z. FindsOf(t)'
      BY <1>0, <1>15, DestroyEndDoes DEF FindsOf
    <2> QED  BY <1>0, <1>15, <2>x, <2>y, <2>z, DestroyEndDoes, FindsKept
  <1>16. ASSUME NEW t \in Thread, Forget(t)
         PROVE  Finds'
    <2>v. ViewsSame
      BY <1>16, ViewStep DEF Silent
    <2>h. home' = home
      BY <1>16 DEF Forget
    <2>x. \A u \in Thread \ {t} : pc[u] \in {"new", "set", "got"} =>
             Elements(u)'[idOf[obj[u]]] = Elements(u)[idOf[obj[u]]] /\ idOf'[obj[u]] = idOf[obj[u]]
      BY <1>0, <1>16, <2>v, ForgetDoes DEF ViewsSame
    <2>y. \A u \in Thread \ {t} : pc[u] \in {"set", "got"} => home'[ptr[u]] = home[ptr[u]]
      BY <2>h
    <2>z. FindsOf(t)'
      BY <1>0, <1>16, ForgetDoes DEF FindsOf
    <2> QED  BY <1>0, <1>16, <2>x, <2>y, <2>z, ForgetDoes, FindsKept
  <1>17. ASSUME NEW t \in Thread, Unlock(t)
         PROVE  Finds'
    <2>v. ViewsSame
      BY <1>17, ViewStep DEF Silent
    <2>h. home' = home
      BY <1>17 DEF Unlock
    <2>x. \A u \in Thread \ {t} : pc[u] \in {"new", "set", "got"} =>
             Elements(u)'[idOf[obj[u]]] = Elements(u)[idOf[obj[u]]] /\ idOf'[obj[u]] = idOf[obj[u]]
      BY <1>0, <1>17, <2>v, UnlockDoes DEF ViewsSame
    <2>y. \A u \in Thread \ {t} : pc[u] \in {"set", "got"} => home'[ptr[u]] = home[ptr[u]]
      BY <2>h
    <2>z. FindsOf(t)'
      BY <1>0, <1>17, UnlockDoes DEF FindsOf
    <2> QED  BY <1>0, <1>17, <2>x, <2>y, <2>z, UnlockDoes, FindsKept
  <1>18. ASSUME NEW t \in Thread, DestroyAllNext(t)
         PROVE  Finds'
    <2>1. PICK i \in Index : /\ Elements(t)[i] # Null /\ Delete(Elements(t)[i])
                             /\ Elements(t)' = [Elements(t) EXCEPT ![i] = Null]
      BY <1>0, <1>18, DropView
    <2> DEFINE v == Elements(t)[i]
    <2>2. v \in Value /\ home[v][1] = t /\ \A y \in Value \ {v} : home'[y] = home[y]
      BY <1>0, <1>18, <2>1, DestroyAllNextDoes, NotClearing, ElementsType DEF Exiting, Filed, Own, Delete
    <2>d. home'[v] = Free
      BY <2>1, <2>2 DEF Delete
    <2>3. \A u \in Thread : pc[u] \in {"set", "got"} => ptr[u] \in Value /\ home[ptr[u]] = <<u, obj[u]>>
      BY <1>0 DEF CallOf, Finds, FindsOf, Types
    <2>4. \A u \in Thread \ {t} : Elements(u)' = Elements(u)
      BY <1>0, <1>18, DropView
    <2> HIDE DEF v
    <2>x. \A u \in Thread \ {t} : pc[u] \in {"new", "set", "got"} =>
             Elements(u)'[idOf[obj[u]]] = Elements(u)[idOf[obj[u]]] /\ idOf'[obj[u]] = idOf[obj[u]]
      BY <1>0, <1>18, <2>4, DestroyAllNextDoes
    <2>y. \A u \in Thread \ {t} : pc[u] \in {"set", "got"} => home'[ptr[u]] = home[ptr[u]]
      BY <2>2, <2>3
    <2>z. FindsOf(t)'
      BY <1>0, <1>18, DestroyAllNextDoes DEF FindsOf
    <2> QED  BY <1>0, <1>18, <2>x, <2>y, <2>z, DestroyAllNextDoes, FindsKept
  <1>19. ASSUME NEW t \in Thread, DestroyAllEnd(t)
         PROVE  Finds'
    <2>v. ViewsSame
      BY <1>19, ViewStep DEF Silent
    <2>h. home' = home
      BY <1>19 DEF DestroyAllEnd
    <2>x. \A u \in Thread \ {t} : pc[u] \in {"new", "set", "got"} =>
             Elements(u)'[idOf[obj[u]]] = Elements(u)[idOf[obj[u]]] /\ idOf'[obj[u]] = idOf[obj[u]]
      BY <1>0, <1>19, <2>v, DestroyAllEndDoes DEF ViewsSame
    <2>y. \A u \in Thread \ {t} : pc[u] \in {"set", "got"} => home'[ptr[u]] = home[ptr[u]]
      BY <2>h
    <2>z. FindsOf(t)'
      BY <1>0, <1>19, DestroyAllEndDoes DEF FindsOf
    <2> QED  BY <1>0, <1>19, <2>x, <2>y, <2>z, DestroyAllEndDoes, FindsKept
  <1>20. ASSUME StaticallyDestructed \/ UNCHANGED vars
         PROVE  Finds'
    BY <1>0, <1>20 DEF StaticallyDestructed, vars, Finds, FindsOf, Elements, ids, sync, storage, locals
  <1> QED
    BY <1>1, <1>2, <1>3, <1>4, <1>5, <1>6, <1>7, <1>8, <1>9, <1>10, <1>11, <1>12, <1>13, <1>14,
       <1>15, <1>16, <1>17, <1>18, <1>19, <1>20
       DEF Next, Step, GetStep, DestroyStep, ExitStep, Finished

\* No thread puts a value back where destroy has been.
LEMMA VisitedStep ==
    ASSUME GrowsAlone, Inv, [Next]_vars
    PROVE  Visited'
  <1>0. /\ Inv /\ GrowsAlone /\ Types /\ Ids /\ Alone /\ Owned /\ Filed /\ Inside /\ Finds /\ Visited /\ Gone /\ Kept
        /\ \A u \in Thread : CallOf(u)
    BY DEF Inv, Calls, Slots, Arrays
  <1>1. ASSUME NEW t \in Thread, NEW o \in Object, Create(t, o)
        PROVE  Visited'
    <2>v. ViewsSame
      BY <1>1, ViewStep DEF Silent
    <2>i. \A p \in Object : idOf[p] # 0 => idOf'[p] = idOf[p]
      BY <1>0, <1>1 DEF Create, Types
    <2>j. \A u \in Thread : obj[u] # Null => idOf'[obj[u]] = idOf[obj[u]]
      BY <1>0, <2>i DEF CallOf, Types
    <2>s. SUFFICES ASSUME NEW w \in Thread, Destroying(w)', NEW u \in Thread
                 PROVE  \/ u \in left'[w]
                        \/ Exiting(u)'
                        \/ entry'[w] # Null /\ entry'[w] = elements'[u]
                        \/ Elements(u)'[idOf'[obj'[w]]] = Null
      BY DEF Visited
    <2>a. w # t /\ Destroying(w) /\ left'[w] = left[w] /\ entry'[w] = entry[w] /\ obj'[w] = obj[w]
      BY <1>0, <1>1, <2>s, CreateDoes DEF Destroying, Others, Same
    <2>b. \/ u \in left[w]
          \/ Exiting(u)
          \/ entry[w] # Null /\ entry[w] = elements[u]
          \/ Elements(u)[idOf[obj[w]]] = Null
      BY <1>0, <2>a DEF Visited
    <2>c. idOf'[obj[w]] = idOf[obj[w]]
      BY <1>0, <1>1, <2>a, <2>j, CreateDoes DEF CallOf, Destroying
    <2>d. u = t \/ (elements'[u] = elements[u] /\ (Exiting(u)' <=> Exiting(u)))
      BY <1>0, <1>1, CreateDoes DEF Others, Same, Exiting
    <2>e. CASE u # t
      BY <2>a, <2>b, <2>c, <2>d, <2>e, <2>v DEF ViewsSame
    <2>f. CASE u = t
      BY <1>0, <1>1, <2>a, <2>b, <2>c, <2>f, <2>v, CreateDoes DEF ViewsSame, Exiting, CallOf
    <2> QED  BY <2>e, <2>f
  <1>2. ASSUME NEW t \in Thread, NEW o \in Object, GetBegin(t, o)
        PROVE  Visited'
    <2>v. ViewsSame
      BY <1>2, ViewStep DEF Silent
    <2>s. SUFFICES ASSUME NEW w \in Thread, Destroying(w)', NEW u \in Thread
                 PROVE  \/ u \in left'[w]
                        \/ Exiting(u)'
                        \/ entry'[w] # Null /\ entry'[w] = elements'[u]
                        \/ Elements(u)'[idOf'[obj'[w]]] = Null
      BY DEF Visited
    <2>a. w # t /\ Destroying(w) /\ left'[w] = left[w] /\ entry'[w] = entry[w] /\ obj'[w] = obj[w]
      BY <1>0, <1>2, <2>s, GetBeginDoes DEF Destroying, Others, Same
    <2>b. \/ u \in left[w]
          \/ Exiting(u)
          \/ entry[w] # Null /\ entry[w] = elements[u]
          \/ Elements(u)[idOf[obj[w]]] = Null
      BY <1>0, <2>a DEF Visited
    <2>c. idOf'[obj[w]] = idOf[obj[w]]
      BY <1>0, <1>2, <2>a, GetBeginDoes DEF CallOf, Destroying
    <2>d. u = t \/ (elements'[u] = elements[u] /\ (Exiting(u)' <=> Exiting(u)))
      BY <1>0, <1>2, GetBeginDoes DEF Others, Same, Exiting
    <2>e. CASE u # t
      BY <2>a, <2>b, <2>c, <2>d, <2>e, <2>v DEF ViewsSame
    <2>f. CASE u = t
      BY <1>0, <1>2, <2>a, <2>b, <2>c, <2>f, <2>v, GetBeginDoes DEF ViewsSame, Exiting, CallOf
    <2> QED  BY <2>e, <2>f
  <1>3. ASSUME NEW t \in Thread, Register(t)
        PROVE  Visited'
    <2>v. ViewsSame
      BY <1>3, ViewStep DEF Silent
    <2>s. SUFFICES ASSUME NEW w \in Thread, Destroying(w)', NEW u \in Thread
                 PROVE  \/ u \in left'[w]
                        \/ Exiting(u)'
                        \/ entry'[w] # Null /\ entry'[w] = elements'[u]
                        \/ Elements(u)'[idOf'[obj'[w]]] = Null
      BY DEF Visited
    <2>a. w # t /\ Destroying(w) /\ left'[w] = left[w] /\ entry'[w] = entry[w] /\ obj'[w] = obj[w]
      BY <1>0, <1>3, <2>s, RegisterDoes DEF Destroying, Others, Same
    <2>b. \/ u \in left[w]
          \/ Exiting(u)
          \/ entry[w] # Null /\ entry[w] = elements[u]
          \/ Elements(u)[idOf[obj[w]]] = Null
      BY <1>0, <2>a DEF Visited
    <2>c. idOf'[obj[w]] = idOf[obj[w]]
      BY <1>0, <1>3, <2>a, RegisterDoes DEF CallOf, Destroying
    <2>d. u = t \/ (elements'[u] = elements[u] /\ (Exiting(u)' <=> Exiting(u)))
      BY <1>0, <1>3, RegisterDoes DEF Others, Same, Exiting
    <2>e. CASE u # t
      BY <2>a, <2>b, <2>c, <2>d, <2>e, <2>v DEF ViewsSame
    <2>f. CASE u = t
      BY <1>0, <1>3, <2>a, <2>b, <2>c, <2>f, <2>v, RegisterDoes DEF ViewsSame, Exiting, CallOf
    <2> QED  BY <2>e, <2>f
  <1>4. ASSUME NEW t \in Thread, Get(t)
        PROVE  Visited'
    <2>v. ViewsSame
      BY <1>4, ViewStep DEF Silent
    <2>s. SUFFICES ASSUME NEW w \in Thread, Destroying(w)', NEW u \in Thread
                 PROVE  \/ u \in left'[w]
                        \/ Exiting(u)'
                        \/ entry'[w] # Null /\ entry'[w] = elements'[u]
                        \/ Elements(u)'[idOf'[obj'[w]]] = Null
      BY DEF Visited
    <2>a. w # t /\ Destroying(w) /\ left'[w] = left[w] /\ entry'[w] = entry[w] /\ obj'[w] = obj[w]
      BY <1>0, <1>4, <2>s, GetDoes DEF Destroying, Others, Same
    <2>b. \/ u \in left[w]
          \/ Exiting(u)
          \/ entry[w] # Null /\ entry[w] = elements[u]
          \/ Elements(u)[idOf[obj[w]]] = Null
      BY <1>0, <2>a DEF Visited
    <2>c. idOf'[obj[w]] = idOf[obj[w]]
      BY <1>0, <1>4, <2>a, GetDoes DEF CallOf, Destroying
    <2>d. u = t \/ (elements'[u] = elements[u] /\ (Exiting(u)' <=> Exiting(u)))
      BY <1>0, <1>4, GetDoes DEF Others, Same, Exiting
    <2>e. CASE u # t
      BY <2>a, <2>b, <2>c, <2>d, <2>e, <2>v DEF ViewsSame
    <2>f. CASE u = t
      BY <1>0, <1>4, <2>a, <2>b, <2>c, <2>f, <2>v, GetDoes DEF ViewsSame, Exiting, CallOf
    <2> QED  BY <2>e, <2>f
  <1>5. ASSUME NEW t \in Thread, GrowCopy(t)
        PROVE  Visited'
    <2>1. \A u \in Thread : ~Destroying(u)
      BY <1>0, <1>5, GrowCopyDoes DEF CallOf, Alone, Growing, Outgrows, GetPCs
    <2> QED  BY <1>0, <1>5, <2>1, GrowCopyDoes DEF Visited, Destroying, Others, Same
  <1>6. ASSUME NEW t \in Thread, GrowDelete(t)
        PROVE  Visited'
    <2>1. \A u \in Thread : ~Destroying(u)
      BY <1>0, <1>6, GrowDeleteDoes DEF CallOf, Alone, Growing, Outgrows, GetPCs
    <2> QED  BY <1>0, <1>6, <2>1, GrowDeleteDoes DEF Visited, Destroying, Others, Same
  <1>7. ASSUME NEW t \in Thread, GrowSet(t)
        PROVE  Visited'
    <2>1. \A u \in Thread : ~Destroying(u)
      BY <1>0, <1>7, GrowSetDoes DEF CallOf, Alone, Growing, Outgrows, GetPCs
    <2> QED  BY <1>0, <1>7, <2>1, GrowSetDoes DEF Visited, Destroying, Others, Same
  <1>8. ASSUME NEW t \in Thread, New(t)
        PROVE  Visited'
    <2>v. ViewsSame
      BY <1>8, ViewStep DEF Silent
    <2>s. SUFFICES ASSUME NEW w \in Thread, Destroying(w)', NEW u \in Thread
                 PROVE  \/ u \in left'[w]
                        \/ Exiting(u)'
                        \/ entry'[w] # Null /\ entry'[w] = elements'[u]
                        \/ Elements(u)'[idOf'[obj'[w]]] = Null
      BY DEF Visited
    <2>a. w # t /\ Destroying(w) /\ left'[w] = left[w] /\ entry'[w] = entry[w] /\ obj'[w] = obj[w]
      BY <1>0, <1>8, <2>s, NewDoes DEF Destroying, Others, Same
    <2>b. \/ u \in left[w]
          \/ Exiting(u)
          \/ entry[w] # Null /\ entry[w] = elements[u]
          \/ Elements(u)[idOf[obj[w]]] = Null
      BY <1>0, <2>a DEF Visited
    <2>c. idOf'[obj[w]] = idOf[obj[w]]
      BY <1>0, <1>8, <2>a, NewDoes DEF CallOf, Destroying
    <2>d. u = t \/ (elements'[u] = elements[u] /\ (Exiting(u)' <=> Exiting(u)))
      BY <1>0, <1>8, NewDoes DEF Others, Same, Exiting
    <2>e. CASE u # t
      BY <2>a, <2>b, <2>c, <2>d, <2>e, <2>v DEF ViewsSame
    <2>f. CASE u = t
      BY <1>0, <1>8, <2>a, <2>b, <2>c, <2>f, <2>v, NewDoes DEF ViewsSame, Exiting, CallOf
    <2> QED  BY <2>e, <2>f
  <1>9. ASSUME NEW t \in Thread, Set(t)
        PROVE  Visited'
    <2>0. PICK k \in Index : k = idOf[obj[t]]
      BY SMTT(40), <1>0, <1>9, SetDoes, IdFacts DEF CallOf, GetPCs, Destroying, Types
    <2>1. \A w \in Thread : Destroying(w) => w # t /\ idOf[obj[w]] \in Index /\ idOf[obj[w]] # k
      BY <1>0, <1>9, <2>0, SetDoes, IdFacts DEF Alone, Destroying, CallOf, GetPCs, Ids, Types
    <2>2. \A u \in Thread, i \in Index : i # k => Elements(u)'[i] = Elements(u)[i]
      BY <1>0, <1>9, <2>0, SetView, ElementsType
    <2>s. SUFFICES ASSUME NEW w \in Thread, Destroying(w)', NEW u \in Thread
                 PROVE  \/ u \in left'[w]
                        \/ Exiting(u)'
                        \/ entry'[w] # Null /\ entry'[w] = elements'[u]
                        \/ Elements(u)'[idOf'[obj'[w]]] = Null
      BY DEF Visited
    <2>a. w # t /\ Destroying(w) /\ left'[w] = left[w] /\ entry'[w] = entry[w] /\ obj'[w] = obj[w]
      BY <1>0, <1>9, <2>s, SetDoes DEF Destroying, Others, Same
    <2>b. \/ u \in left[w]
          \/ Exiting(u)
          \/ entry[w] # Null /\ entry[w] = elements[u]
          \/ Elements(u)[idOf[obj[w]]] = Null
      BY <1>0, <2>a DEF Visited
    <2>c. idOf'[obj[w]] = idOf[obj[w]]
      BY <1>0, <1>9, <2>a, SetDoes DEF CallOf, Destroying
    <2>d. u = t \/ (elements'[u] = elements[u] /\ (Exiting(u)' <=> Exiting(u)))
      BY <1>0, <1>9, SetDoes DEF Others, Same, Exiting
    <2>e. CASE u # t
      BY <2>a, <2>b, <2>c, <2>d, <2>e, <2>1, <2>2 DEF ViewsSame
    <2>f. CASE u = t
      BY <1>0, <1>9, <2>a, <2>b, <2>c, <2>f, <2>1, <2>2, SetDoes DEF ViewsSame, Exiting, CallOf
    <2> QED  BY <2>e, <2>f
  <1>10. ASSUME NEW t \in Thread, Got(t)
         PROVE  Visited'
    <2>v. ViewsSame
      BY <1>10, ViewStep DEF Silent
    <2>s. SUFFICES ASSUME NEW w \in Thread, Destroying(w)', NEW u \in Thread
                 PROVE  \/ u \in left'[w]
                        \/ Exiting(u)'
                        \/ entry'[w] # Null /\ entry'[w] = elements'[u]
                        \/ Elements(u)'[idOf'[obj'[w]]] = Null
      BY DEF Visited
    <2>a. w # t /\ Destroying(w) /\ left'[w] = left[w] /\ entry'[w] = entry[w] /\ obj'[w] = obj[w]
      BY <1>0, <1>10, <2>s, GotDoes DEF Destroying, Others, Same
    <2>b. \/ u \in left[w]
          \/ Exiting(u)
          \/ entry[w] # Null /\ entry[w] = elements[u]
          \/ Elements(u)[idOf[obj[w]]] = Null
      BY <1>0, <2>a DEF Visited
    <2>c. idOf'[obj[w]] = idOf[obj[w]]
      BY <1>0, <1>10, <2>a, GotDoes DEF CallOf, Destroying
    <2>d. u = t \/ (elements'[u] = elements[u] /\ (Exiting(u)' <=> Exiting(u)))
      BY <1>0, <1>10, GotDoes DEF Others, Same, Exiting
    <2>e. CASE u # t
      BY <2>a, <2>b, <2>c, <2>d, <2>e, <2>v DEF ViewsSame
    <2>f. CASE u = t
      BY <1>0, <1>10, <2>a, <2>b, <2>c, <2>f, <2>v, GotDoes DEF ViewsSame, Exiting, CallOf
    <2> QED  BY <2>e, <2>f
  <1>11. ASSUME NEW t \in Thread, NEW o \in Object, DestroyBegin(t, o)
         PROVE  Visited'
    <2>v. ViewsSame
      BY <1>11, ViewStep DEF Silent
    <2>1. \A u \in Thread \ {t} : ~Destroying(u)
      BY <1>0, <1>11, DestroyBeginDoes, NullAssumption DEF CallOf
    <2>2. PICK k \in Index : k = idOf[o]
      BY <1>0, <1>11, DestroyBeginDoes, IdFacts
    <2>3. ASSUME NEW u \in Thread, u \notin registered, ~Exiting(u)
          PROVE  Elements(u)[k] = Null
      <3>1. elements[u] = Null \/ pc[u] = "register"
        BY <1>0, <2>3 DEF CallOf, Exiting
      <3>2. CASE pc[u] = "register"
        BY <1>0, <3>2 DEF Inside
      <3>3. CASE elements[u] = Null
        BY <1>0, <3>3, FreeFacts DEF Elements, CallOf, GetPCs
      <3> QED  BY <3>1, <3>2, <3>3
    <2>4. \A u \in Thread : Exiting(u)' <=> Exiting(u)
      BY <1>0, <1>11, DestroyBeginDoes DEF Exiting, Others, Same
    <2>5. obj'[t] = o /\ left'[t] = registered /\ idOf' = idOf /\ \A u \in Thread \ {t} : ~Destroying(u)'
      BY <1>0, <1>11, <2>1, DestroyBeginDoes DEF Others, Same, Destroying
    <2> QED  BY <2>v, <2>2, <2>3, <2>4, <2>5 DEF Visited, ViewsSame
  <1>12. ASSUME NEW t \in Thread, DestroyNext(t)
         PROVE  Visited'
    <2>v. ViewsSame
      BY <1>12, ViewStep DEF Silent
    <2>0. PICK k \in Index : k = idOf[obj[t]]
      BY <1>0, <1>12, DestroyNextDoes, IdFacts DEF CallOf, GetPCs, Destroying, Types
    <2>s. SUFFICES ASSUME NEW u \in Thread, ~Exiting(u), u \notin left'[t], ~(entry'[t] # Null /\ entry'[t] = elements'[u])
                 PROVE  Elements(u)'[k] = Null
      <3>1. \A w \in Thread \ {t} : ~Destroying(w)'
        BY <1>0, <1>12, DestroyNextDoes DEF CallOf, Destroying, Others, Same
      <3>2. \A w \in Thread : Exiting(w)' <=> Exiting(w)
        BY <1>0, <1>12, DestroyNextDoes DEF Exiting, Others, Same
      <3>3. idOf'[obj'[t]] = k
        BY <1>0, <1>12, <2>0, DestroyNextDoes
      <3> QED  BY <3>1, <3>2, <3>3 DEF Visited
    <2>e. elements' = elements
      BY <1>0, <1>12 DEF DestroyNext, storage
    <2>w. \/ u \in left[t]
          \/ entry[t] # Null /\ entry[t] = elements[u]
          \/ Elements(u)[k] = Null
      BY <1>0, <1>12, <2>0, <2>s, DestroyNextDoes DEF Visited, Destroying
    <2>1. entry[t] = Null
      BY <1>0, <1>12, DestroyNextDoes DEF CallOf
    <2>2. ASSUME u \in left[t], ~(entry'[t] # Null /\ entry'[t] = elements[u])
          PROVE  k > size[u]
      <3>1. PICK x \in left[t] : /\ left' = [left EXCEPT ![t] = @ \ {x}]
                                /\ \/ k <= size[x] /\ entry' = [entry EXCEPT ![t] = elements[x]]
                                   \/ ~(k <= size[x])
        BY <1>0, <1>12, <2>0 DEF DestroyNext
      <3>2. x = u
        BY <1>0, <2>2, <2>s, <3>1 DEF Types
      <3>3. elements[u] # Null /\ size[u] \in Nat /\ k \in Nat
        BY SMTT(40), <1>0, <1>12, <2>2, DestroyNextDoes, RegisteredArray, NullAssumption, IdAssumption
           DEF CallOf, Destroying, Types, Index, Grown
      <3> QED  BY <1>0, <2>2, <3>1, <3>2, <3>3 DEF Types
    <2> QED  BY <1>0, <2>v, <2>e, <2>s, <2>w, <2>1, <2>2 DEF Inside, ViewsSame
  <1>13. ASSUME NEW t \in Thread, DestroyRead(t)
         PROVE  Visited'
    <2>v. ViewsSame
      BY <1>13, ViewStep DEF Silent
    <2>0. PICK k \in Index : k = idOf[obj[t]]
      BY <1>0, <1>13, DestroyReadDoes, IdFacts DEF CallOf, GetPCs, Destroying, Types
    <2>s. SUFFICES ASSUME NEW u \in Thread, ~Exiting(u), u \notin left'[t], ~(entry'[t] # Null /\ entry'[t] = elements'[u])
                 PROVE  Elements(u)'[k] = Null
      <3>1. \A w \in Thread \ {t} : ~Destroying(w)'
        BY <1>0, <1>13, DestroyReadDoes DEF CallOf, Destroying, Others, Same
      <3>2. \A w \in Thread : Exiting(w)' <=> Exiting(w)
        BY <1>0, <1>13, DestroyReadDoes DEF Exiting, Others, Same
      <3>3. idOf'[obj'[t]] = k
        BY <1>0, <1>13, <2>0, DestroyReadDoes
      <3> QED  BY <3>1, <3>2, <3>3 DEF Visited
    <2>e. elements' = elements
      BY <1>0, <1>13 DEF DestroyRead, storage
    <2>w. \/ u \in left[t]
          \/ entry[t] # Null /\ entry[t] = elements[u]
          \/ Elements(u)[k] = Null
      BY <1>0, <1>13, <2>0, <2>s, DestroyReadDoes DEF Visited, Destroying
    <2> DEFINE v == array[entry[t]][k]
    <2>1. CASE v = Null
      <3>1. entry[t] = elements[u] => Elements(u) = array[entry[t]]
        BY <1>0, <1>13, DestroyReadDoes, PointedView
      <3> QED  BY <1>0, <1>13, <2>v, <2>s, <2>w, <2>1, <3>1, DestroyReadDoes DEF ViewsSame
    <2>2. CASE v # Null
      <3>1. entry' = entry
        BY <1>0, <1>13, <2>0, <2>2 DEF DestroyRead, Types
      <3> QED  BY <1>0, <1>13, <2>v, <2>e, <2>s, <2>w, <3>1, DestroyReadDoes DEF ViewsSame
    <2> QED  BY <2>1, <2>2
  <1>14. ASSUME NEW t \in Thread, DestroyClear(t)
         PROVE  Visited'
    <2>0. PICK k \in Index : k = idOf[obj[t]]
      BY SMTT(40), <1>0, <1>14, DestroyClearDoes, IdFacts DEF CallOf, GetPCs, Destroying, Types
    <2>s. SUFFICES ASSUME NEW u \in Thread, ~Exiting(u), u \notin left'[t], ~(entry'[t] # Null /\ entry'[t] = elements'[u])
                 PROVE  Elements(u)'[k] = Null
      <3>1. \A w \in Thread \ {t} : ~Destroying(w)'
        BY <1>0, <1>14, DestroyClearDoes DEF CallOf, Destroying, Others, Same
      <3>2. \A w \in Thread : Exiting(w)' <=> Exiting(w)
        BY <1>0, <1>14, DestroyClearDoes DEF Exiting, Others, Same
      <3>3. idOf'[obj'[t]] = k
        BY <1>0, <1>14, <2>0, DestroyClearDoes
      <3> QED  BY <3>1, <3>2, <3>3 DEF Visited
    <2>e. elements' = elements
      BY <1>0, <1>14 DEF DestroyClear, storage
    <2>w. \/ u \in left[t]
          \/ entry[t] # Null /\ entry[t] = elements[u]
          \/ Elements(u)[k] = Null
      BY <1>0, <1>14, <2>0, <2>s, DestroyClearDoes DEF Visited, Destroying
    <2>1. elements[u] = entry[t] => Elements(u)'[k] = Null
      BY <1>0, <1>14, <2>0, ClearView, ElementsType
    <2>2. elements[u] # entry[t] => Elements(u)' = Elements(u)
      BY <1>0, <1>14, ClearView
    <2> QED  BY <1>0, <1>14, <2>s, <2>w, <2>1, <2>2, DestroyClearDoes
  <1>15. ASSUME NEW t \in Thread, DestroyEnd(t)
         PROVE  Visited'
    <2>1. \A u \in Thread \ {t} : ~Destroying(u)
      BY <1>0, <1>15, DestroyEndDoes DEF CallOf, Destroying
    <2> QED  BY <1>0, <1>15, <2>1, DestroyEndDoes DEF Visited, Destroying, Others, Same
  <1>16. ASSUME NEW t \in Thread, Forget(t)
         PROVE  Visited'
    <2>1. \A u \in Thread : ~Destroying(u)
      BY <1>0, <1>16, ForgetDoes, NullAssumption DEF CallOf
    <2> QED  BY <1>0, <1>16, <2>1, ForgetDoes DEF Visited, Destroying, Others, Same
  <1>17. ASSUME NEW t \in Thread, Unlock(t)
         PROVE  Visited'
    <2>v. ViewsSame
      BY <1>17, ViewStep DEF Silent
    <2>s. SUFFICES ASSUME NEW w \in Thread, Destroying(w)', NEW u \in Thread
                 PROVE  \/ u \in left'[w]
                        \/ Exiting(u)'
                        \/ entry'[w] # Null /\ entry'[w] = elements'[u]
                        \/ Elements(u)'[idOf'[obj'[w]]] = Null
      BY DEF Visited
    <2>a. w # t /\ Destroying(w) /\ left'[w] = left[w] /\ entry'[w] = entry[w] /\ obj'[w] = obj[w]
      BY <1>0, <1>17, <2>s, UnlockDoes DEF Destroying, Others, Same
    <2>b. \/ u \in left[w]
          \/ Exiting(u)
          \/ entry[w] # Null /\ entry[w] = elements[u]
          \/ Elements(u)[idOf[obj[w]]] = Null
      BY <1>0, <2>a DEF Visited
    <2>c. idOf'[obj[w]] = idOf[obj[w]]
      BY <1>0, <1>17, <2>a, UnlockDoes DEF CallOf, Destroying
    <2>d. u = t \/ (elements'[u] = elements[u] /\ (Exiting(u)' <=> Exiting(u)))
      BY <1>0, <1>17, UnlockDoes DEF Others, Same, Exiting
    <2>e. CASE u # t
      BY <2>a, <2>b, <2>c, <2>d, <2>e, <2>v DEF ViewsSame
    <2>f. CASE u = t
      BY <1>0, <1>17, <2>a, <2>b, <2>c, <2>f, <2>v, UnlockDoes DEF ViewsSame, Exiting, CallOf
    <2> QED  BY <2>e, <2>f
  <1>18. ASSUME NEW t \in Thread, DestroyAllNext(t)
         PROVE  Visited'
    <2>1. \A u \in Thread \ {t} : Elements(u)' = Elements(u)
      BY <1>0, <1>18, DropView
    <2>2. Exiting(t)'
      BY <1>0, <1>18, DestroyAllNextDoes DEF Exiting
    <2>s. SUFFICES ASSUME NEW w \in Thread, Destroying(w)', NEW u \in Thread
                 PROVE  \/ u \in left'[w]
                        \/ Exiting(u)'
                        \/ entry'[w] # Null /\ entry'[w] = elements'[u]
                        \/ Elements(u)'[idOf'[obj'[w]]] = Null
      BY DEF Visited
    <2>a. w # t /\ Destroying(w) /\ left'[w] = left[w] /\ entry'[w] = entry[w] /\ obj'[w] = obj[w]
      BY <1>0, <1>18, <2>s, DestroyAllNextDoes DEF Destroying, Others, Same
    <2>b. \/ u \in left[w]
          \/ Exiting(u)
          \/ entry[w] # Null /\ entry[w] = elements[u]
          \/ Elements(u)[idOf[obj[w]]] = Null
      BY <1>0, <2>a DEF Visited
    <2>c. idOf'[obj[w]] = idOf[obj[w]]
      BY <1>0, <1>18, <2>a, DestroyAllNextDoes DEF CallOf, Destroying
    <2>d. u = t \/ (elements'[u] = elements[u] /\ (Exiting(u)' <=> Exiting(u)))
      BY <1>0, <1>18, DestroyAllNextDoes DEF Others, Same, Exiting
    <2>e. CASE u # t
      BY <2>a, <2>b, <2>c, <2>d, <2>e, <2>1, <2>2 DEF ViewsSame
    <2>f. CASE u = t
      BY <1>0, <1>18, <2>a, <2>b, <2>c, <2>f, <2>1, <2>2, DestroyAllNextDoes DEF ViewsSame, Exiting, CallOf
    <2> QED  BY <2>e, <2>f
  <1>19. ASSUME NEW t \in Thread, DestroyAllEnd(t)
         PROVE  Visited'
    <2>v. ViewsSame
      BY <1>19, ViewStep DEF Silent
    <2>1. \A i \in Index : Elements(t)'[i] = Null
      BY <1>0, <1>19, DestroyAllEndDoes, FreeFacts DEF Elements
    <2>2. \A w \in Thread : Destroying(w) => idOf[obj[w]] \in Index
      BY <1>0, IdFacts DEF Destroying, CallOf, Types
    <2>s. SUFFICES ASSUME NEW w \in Thread, Destroying(w)', NEW u \in Thread
                 PROVE  \/ u \in left'[w]
                        \/ Exiting(u)'
                        \/ entry'[w] # Null /\ entry'[w] = elements'[u]
                        \/ Elements(u)'[idOf'[obj'[w]]] = Null
      BY DEF Visited
    <2>a. w # t /\ Destroying(w) /\ left'[w] = left[w] /\ entry'[w] = entry[w] /\ obj'[w] = obj[w]
      BY <1>0, <1>19, <2>s, DestroyAllEndDoes DEF Destroying, Others, Same
    <2>b. \/ u \in left[w]
          \/ Exiting(u)
          \/ entry[w] # Null /\ entry[w] = elements[u]
          \/ Elements(u)[idOf[obj[w]]] = Null
      BY <1>0, <2>a DEF Visited
    <2>c. idOf'[obj[w]] = idOf[obj[w]]
      BY <1>0, <1>19, <2>a, DestroyAllEndDoes DEF CallOf, Destroying
    <2>d. u = t \/ (elements'[u] = elements[u] /\ (Exiting(u)' <=> Exiting(u)))
      BY <1>0, <1>19, DestroyAllEndDoes DEF Others, Same, Exiting
    <2>e. CASE u # t
      BY <2>a, <2>b, <2>c, <2>d, <2>e, <2>v, <2>1, <2>2 DEF ViewsSame
    <2>f. CASE u = t
      BY <1>0, <1>19, <2>a, <2>b, <2>c, <2>f, <2>v, <2>1, <2>2, DestroyAllEndDoes DEF ViewsSame, Exiting, CallOf
    <2> QED  BY <2>e, <2>f
  <1>20. ASSUME StaticallyDestructed \/ UNCHANGED vars
         PROVE  Visited'
    BY <1>0, <1>20
       DEF StaticallyDestructed, vars, Visited, Destroying, Exiting, Elements, ids, sync, storage, locals
  <1> QED
    BY <1>1, <1>2, <1>3, <1>4, <1>5, <1>6, <1>7, <1>8, <1>9, <1>10, <1>11, <1>12, <1>13, <1>14,
       <1>15, <1>16, <1>17, <1>18, <1>19, <1>20
       DEF Next, Step, GetStep, DestroyStep, ExitStep, Finished

\* A thread makes no value of an object that is being destroyed.
LEMMA GoneStep ==
    ASSUME GrowsAlone, Inv, [Next]_vars
    PROVE  Gone'
  <1>0. /\ Inv /\ GrowsAlone /\ Types /\ Ids /\ Alone /\ Owned /\ Filed /\ Inside /\ Finds /\ Visited /\ Gone /\ Kept
        /\ \A u \in Thread : CallOf(u)
    BY DEF Inv, Calls, Slots, Arrays
  <1>1. ASSUME NEW t \in Thread, NEW o \in Object, Create(t, o)
        PROVE  Gone'
    <2>h. home' = home
      BY <1>1 DEF Create
    <2>5. elements' = elements
      BY <1>0, <1>1 DEF Create, storage
    <2>6. \A w \in Thread : pc'[w] = "d_clear" => w # t /\ Same(w) /\ pc[w] = "d_clear"
      BY <1>0, <1>1, CreateDoes DEF Others, Same
    <2> QED  BY <1>0, <2>5, <2>6, <2>h DEF Gone, Same
  <1>2. ASSUME NEW t \in Thread, NEW o \in Object, GetBegin(t, o)
        PROVE  Gone'
    <2>h. home' = home
      BY <1>2 DEF GetBegin
    <2>4. \A w \in Thread : pc[w] = "d_clear" => entry[w] # Null /\ array[entry[w]] # Free
      <3>1. SUFFICES ASSUME NEW w \in Thread, pc[w] = "d_clear"
                     PROVE  entry[w] # Null /\ array[entry[w]] # Free
        OBVIOUS
      <3>2. PICK x \in Thread : entry[w] # Null /\ Elements(x) = array[entry[w]]
        BY <1>0, <3>1, PointedView
      <3> QED  BY <1>0, <3>2, ElementsType, FreeFacts
    <2>5. \A u \in Thread : elements'[u] = elements[u] \/ array[elements'[u]] = Free
      BY <1>0, <1>2 DEF GetBegin, storage, Types
    <2>6. \A w \in Thread : pc'[w] = "d_clear" => w # t /\ Same(w) /\ pc[w] = "d_clear"
      BY <1>0, <1>2, GetBeginDoes DEF Others, Same
    <2> QED  BY <1>0, <2>4, <2>5, <2>6, <2>h DEF Gone, Same
  <1>3. ASSUME NEW t \in Thread, Register(t)
        PROVE  Gone'
    <2>h. home' = home
      BY <1>3 DEF Register
    <2>5. elements' = elements
      BY <1>0, <1>3 DEF Register, storage
    <2>6. \A w \in Thread : pc'[w] = "d_clear" => w # t /\ Same(w) /\ pc[w] = "d_clear"
      BY <1>0, <1>3, RegisterDoes DEF Others, Same
    <2> QED  BY <1>0, <2>5, <2>6, <2>h DEF Gone, Same
  <1>4. ASSUME NEW t \in Thread, Get(t)
        PROVE  Gone'
    <2>h. home' = home
      BY <1>4 DEF Get
    <2>5. elements' = elements
      BY <1>0, <1>4 DEF Get, storage
    <2>6. \A w \in Thread : pc'[w] = "d_clear" => w # t /\ Same(w) /\ pc[w] = "d_clear"
      BY <1>0, <1>4, GetDoes DEF Others, Same
    <2> QED  BY <1>0, <2>5, <2>6, <2>h DEF Gone, Same
  <1>5. ASSUME NEW t \in Thread, GrowCopy(t)
        PROVE  Gone'
    <2>1. \A u \in Thread : ~Destroying(u)
      BY <1>0, <1>5, GrowCopyDoes DEF CallOf, Alone, Growing, Outgrows, GetPCs
    <2> QED  BY <1>0, <1>5, <2>1, GrowCopyDoes DEF Gone, Destroying, Others, Same
  <1>6. ASSUME NEW t \in Thread, GrowDelete(t)
        PROVE  Gone'
    <2>1. \A u \in Thread : ~Destroying(u)
      BY <1>0, <1>6, GrowDeleteDoes DEF CallOf, Alone, Growing, Outgrows, GetPCs
    <2> QED  BY <1>0, <1>6, <2>1, GrowDeleteDoes DEF Gone, Destroying, Others, Same
  <1>7. ASSUME NEW t \in Thread, GrowSet(t)
        PROVE  Gone'
    <2>1. \A u \in Thread : ~Destroying(u)
      BY <1>0, <1>7, GrowSetDoes DEF CallOf, Alone, Growing, Outgrows, GetPCs
    <2> QED  BY <1>0, <1>7, <2>1, GrowSetDoes DEF Gone, Destroying, Others, Same
  <1>8. ASSUME NEW t \in Thread, New(t)
        PROVE  Gone'
    <2>1. \A y \in Value : home'[y] = home[y] \/ home'[y] = <<t, obj[t]>>
      BY <1>0, <1>8 DEF New, Types
    <2>2. \A w \in Thread : pc[w] = "d_clear" => w # t /\ obj[w] # obj[t]
      BY <1>0, <1>8, NewDoes DEF Alone, Destroying
    <2>3. \A y \in Value, w, u \in Thread : pc[w] = "d_clear" /\ home'[y] = <<u, obj[w]>> => home[y] = <<u, obj[w]>>
      BY <2>1, <2>2
    <2>5. elements' = elements
      BY <1>0, <1>8 DEF New, storage
    <2>6. \A w \in Thread : pc'[w] = "d_clear" => w # t /\ Same(w) /\ pc[w] = "d_clear"
      BY <1>0, <1>8, NewDoes DEF Others, Same
    <2> QED  BY <1>0, <2>5, <2>6, <2>3 DEF Gone, Same
  <1>9. ASSUME NEW t \in Thread, Set(t)
        PROVE  Gone'
    <2>h. home' = home
      BY <1>9 DEF Set
    <2>5. elements' = elements
      BY <1>0, <1>9 DEF Set, storage
    <2>6. \A w \in Thread : pc'[w] = "d_clear" => w # t /\ Same(w) /\ pc[w] = "d_clear"
      BY <1>0, <1>9, SetDoes DEF Others, Same
    <2> QED  BY <1>0, <2>5, <2>6, <2>h DEF Gone, Same
  <1>10. ASSUME NEW t \in Thread, Got(t)
         PROVE  Gone'
    <2>h. home' = home
      BY <1>10 DEF Got
    <2>5. elements' = elements
      BY <1>0, <1>10 DEF Got, storage
    <2>6. \A w \in Thread : pc'[w] = "d_clear" => w # t /\ Same(w) /\ pc[w] = "d_clear"
      BY <1>0, <1>10, GotDoes DEF Others, Same
    <2> QED  BY <1>0, <2>5, <2>6, <2>h DEF Gone, Same
  <1>11. ASSUME NEW t \in Thread, NEW o \in Object, DestroyBegin(t, o)
         PROVE  Gone'
    <2>h. home' = home
      BY <1>11 DEF DestroyBegin
    <2>5. elements' = elements
      BY <1>0, <1>11 DEF DestroyBegin, storage
    <2>6. \A w \in Thread : pc'[w] = "d_clear" => w # t /\ Same(w) /\ pc[w] = "d_clear"
      BY <1>0, <1>11, DestroyBeginDoes DEF Others, Same
    <2> QED  BY <1>0, <2>5, <2>6, <2>h DEF Gone, Same
  <1>12. ASSUME NEW t \in Thread, DestroyNext(t)
         PROVE  Gone'
    <2>h. home' = home
      BY <1>12 DEF DestroyNext
    <2>5. elements' = elements
      BY <1>0, <1>12 DEF DestroyNext, storage
    <2>6. \A w \in Thread : pc'[w] = "d_clear" => w # t /\ Same(w) /\ pc[w] = "d_clear"
      BY <1>0, <1>12, DestroyNextDoes DEF Others, Same
    <2> QED  BY <1>0, <2>5, <2>6, <2>h DEF Gone, Same
  <1>13. ASSUME NEW t \in Thread, DestroyRead(t)
         PROVE  Gone'
    <2>v. ViewsSame
      BY <1>13, ViewStep DEF Silent
    <2>0. PICK k \in Index : k = idOf[obj[t]]
      BY <1>0, <1>13, DestroyReadDoes, IdFacts DEF CallOf, GetPCs, Destroying, Types
    <2>a. \A w \in Thread \ {t} : pc'[w] # "d_clear"
      BY <1>0, <1>13, DestroyReadDoes DEF CallOf, Destroying, Others, Same
    <2>e. elements' = elements
      BY <1>0, <1>13 DEF DestroyRead, storage
    <2> DEFINE v == array[entry[t]][k]
    <2>1. CASE v = Null
      BY <1>0, <1>13, <2>0, <2>1, <2>a DEF Gone, DestroyRead, Goto, Types
    <2>2. CASE v # Null
      <3>1. PICK x \in Thread : /\ ~Exiting(x) /\ entry[t] = elements[x] /\ home[v] = <<x, obj[t]>> /\ v \in Value
                               /\ Elements(x)[k] = v /\ \A w \in Thread : elements[w] = entry[t] => w = x
        BY ZenonT(60), <1>0, <1>13, <2>2, <2>0, DestroyReadDoes, ReadOwn
      <3>2. pc'[t] = "d_clear" /\ entry'[t] = entry[t] /\ home'[v] = Free /\ \A y \in Value \ {v} : home'[y] = home[y]
        BY <1>0, <1>13, <2>2, <2>0, <3>1 DEF DestroyRead, Delete, Goto, Types
      <3> HIDE DEF v
      <3>3. ASSUME NEW y \in Value, home'[y] = <<x, obj[t]>>
            PROVE  FALSE
        <4>1. y # v /\ home[y] = <<x, obj[t]>>
          BY <3>2, <3>3, FreeFacts
        <4>2. KeptOf(y)
          BY <1>0, <4>1, FreeFacts DEF Kept
        <4>3. \/ pc[x] = "set" /\ ptr[x] = y
              \/ idOf[obj[t]] # 0 /\ Elements(x)[idOf[obj[t]]] = y
              \/ Exiting(x)
          BY <4>1, <4>2 DEF KeptOf
        <4>4. pc[x] = "set" /\ ptr[x] = y
          BY <2>0, <3>1, <4>1, <4>3
        <4>5. home[y] = <<x, obj[x]>> /\ obj[x] # obj[t]
          BY <1>0, <1>13, <4>4, DestroyReadDoes DEF Alone, Destroying, Finds, FindsOf
        <4> QED  BY <4>1, <4>5
      <3> QED  BY <1>0, <1>13, <2>a, <2>e, <3>1, <3>2, <3>3, DestroyReadDoes DEF Gone
    <2> QED  BY <2>1, <2>2
  <1>14. ASSUME NEW t \in Thread, DestroyClear(t)
         PROVE  Gone'
    <2>h. home' = home
      BY <1>14 DEF DestroyClear
    <2>5. elements' = elements
      BY <1>0, <1>14 DEF DestroyClear, storage
    <2>6. \A w \in Thread : pc'[w] = "d_clear" => w # t /\ Same(w) /\ pc[w] = "d_clear"
      BY <1>0, <1>14, DestroyClearDoes DEF Others, Same
    <2> QED  BY <1>0, <2>5, <2>6, <2>h DEF Gone, Same
  <1>15. ASSUME NEW t \in Thread, DestroyEnd(t)
         PROVE  Gone'
    <2>h. home' = home
      BY <1>15 DEF DestroyEnd
    <2>5. elements' = elements
      BY <1>0, <1>15 DEF DestroyEnd, storage
    <2>6. \A w \in Thread : pc'[w] = "d_clear" => w # t /\ Same(w) /\ pc[w] = "d_clear"
      BY <1>0, <1>15, DestroyEndDoes DEF Others, Same
    <2> QED  BY <1>0, <2>5, <2>6, <2>h DEF Gone, Same
  <1>16. ASSUME NEW t \in Thread, Forget(t)
         PROVE  Gone'
    <2>h. home' = home
      BY <1>16 DEF Forget
    <2>5. elements' = elements
      BY <1>0, <1>16 DEF Forget, storage
    <2>6. \A w \in Thread : pc'[w] = "d_clear" => w # t /\ Same(w) /\ pc[w] = "d_clear"
      BY <1>0, <1>16, ForgetDoes DEF Others, Same
    <2> QED  BY <1>0, <2>5, <2>6, <2>h DEF Gone, Same
  <1>17. ASSUME NEW t \in Thread, Unlock(t)
         PROVE  Gone'
    <2>h. home' = home
      BY <1>17 DEF Unlock
    <2>5. elements' = elements
      BY <1>0, <1>17 DEF Unlock, storage
    <2>6. \A w \in Thread : pc'[w] = "d_clear" => w # t /\ Same(w) /\ pc[w] = "d_clear"
      BY <1>0, <1>17, UnlockDoes DEF Others, Same
    <2> QED  BY <1>0, <2>5, <2>6, <2>h DEF Gone, Same
  <1>18. ASSUME NEW t \in Thread, DestroyAllNext(t)
         PROVE  Gone'
    <2>1. \A y \in Value : home'[y] = home[y] \/ home'[y] = Free
      BY <1>0, <1>18 DEF DestroyAllNext, Delete, Types
    <2>3. \A y \in Value, w, u \in Thread : home'[y] = <<u, obj[w]>> => home[y] = <<u, obj[w]>>
      BY <2>1, FreeFacts
    <2>5. elements' = elements
      BY <1>0, <1>18 DEF DestroyAllNext, storage
    <2>6. \A w \in Thread : pc'[w] = "d_clear" => w # t /\ Same(w) /\ pc[w] = "d_clear"
      BY <1>0, <1>18, DestroyAllNextDoes DEF Others, Same
    <2> QED  BY <1>0, <2>5, <2>6, <2>3 DEF Gone, Same
  <1>19. ASSUME NEW t \in Thread, DestroyAllEnd(t)
         PROVE  Gone'
    <2>h. home' = home
      BY <1>19 DEF DestroyAllEnd
    <2>4. \A w \in Thread : pc[w] = "d_clear" => entry[w] # Null
      BY <1>0 DEF CallOf
    <2>5. \A u \in Thread : elements'[u] = elements[u] \/ elements'[u] = Null
      BY <1>0, <1>19, DestroyAllEndDoes DEF Others, Same
    <2>6. \A w \in Thread : pc'[w] = "d_clear" => w # t /\ Same(w) /\ pc[w] = "d_clear"
      BY <1>0, <1>19, DestroyAllEndDoes DEF Others, Same
    <2> QED  BY <1>0, <2>4, <2>5, <2>6, <2>h DEF Gone, Same
  <1>20. ASSUME StaticallyDestructed \/ UNCHANGED vars
         PROVE  Gone'
    BY <1>0, <1>20 DEF StaticallyDestructed, vars, Gone, Elements, ids, sync, storage, locals
  <1> QED
    BY <1>1, <1>2, <1>3, <1>4, <1>5, <1>6, <1>7, <1>8, <1>9, <1>10, <1>11, <1>12, <1>13, <1>14,
       <1>15, <1>16, <1>17, <1>18, <1>19, <1>20
       DEF Next, Step, GetStep, DestroyStep, ExitStep, Finished

\* No step loses a value that is alive.
LEMMA KeptStep ==
    ASSUME GrowsAlone, Inv, [Next]_vars
    PROVE  Kept'
  <1>0. /\ Inv /\ GrowsAlone /\ Types /\ Ids /\ Alone /\ Owned /\ Filed /\ Inside /\ Finds /\ Visited /\ Gone /\ Kept
        /\ \A u \in Thread : CallOf(u)
    BY DEF Inv, Calls, Slots, Arrays
  <1>1. ASSUME NEW t \in Thread, NEW o \in Object, Create(t, o)
        PROVE  Kept'
    <2>v. ViewsSame
      BY <1>1, ViewStep DEF Silent
    <2>h. home' = home
      BY <1>1 DEF Create
    <2>i. \A p \in Object : idOf[p] # 0 => idOf'[p] = idOf[p]
      BY <1>0, <1>1 DEF Create, Types
    <2>j. \A u \in Thread : obj[u] # Null => idOf'[obj[u]] = idOf[obj[u]]
      BY <1>0, <2>i DEF CallOf, Types
    <2>s. SUFFICES ASSUME NEW y \in Value, home'[y] # Free
                 PROVE  KeptOf(y)'
      BY DEF Kept
    <2>t. home'[y] = home[y] /\ home[y] # Free
      BY <2>s, <2>h
    <2>p. PICK x \in Thread, p \in Object : home[y] = <<x, p>>
      BY <1>0, <2>t DEF Types
    <2>k. \/ pc[x] = "set" /\ ptr[x] = y
          \/ idOf[p] # 0 /\ Elements(x)[idOf[p]] = y
          \/ Exiting(x) /\ \E j \in Index : Elements(x)[j] = y
      <3>1. KeptOf(y)
        BY <1>0, <2>t DEF Kept
      <3>2. home[y][1] = x /\ home[y][2] = p
        BY <2>p
      <3> QED  BY <3>1, <3>2 DEF KeptOf
    <2>g. SUFFICES \/ pc'[x] = "set" /\ ptr'[x] = y
                   \/ idOf'[p] # 0 /\ Elements(x)'[idOf'[p]] = y
                   \/ Exiting(x)' /\ \E j \in Index : Elements(x)'[j] = y
      BY <2>t, <2>p DEF KeptOf
    <2> QED  BY <1>0, <1>1, <2>v, <2>k, <2>i, CreateDoes DEF ViewsSame, Exiting, Others, Same
  <1>2. ASSUME NEW t \in Thread, NEW o \in Object, GetBegin(t, o)
        PROVE  Kept'
    <2>v. ViewsSame
      BY <1>2, ViewStep DEF Silent
    <2>h. home' = home
      BY <1>2 DEF GetBegin
    <2>s. SUFFICES ASSUME NEW y \in Value, home'[y] # Free
                 PROVE  KeptOf(y)'
      BY DEF Kept
    <2>t. home'[y] = home[y] /\ home[y] # Free
      BY <2>s, <2>h
    <2>p. PICK x \in Thread, p \in Object : home[y] = <<x, p>>
      BY <1>0, <2>t DEF Types
    <2>k. \/ pc[x] = "set" /\ ptr[x] = y
          \/ idOf[p] # 0 /\ Elements(x)[idOf[p]] = y
          \/ Exiting(x) /\ \E j \in Index : Elements(x)[j] = y
      <3>1. KeptOf(y)
        BY <1>0, <2>t DEF Kept
      <3>2. home[y][1] = x /\ home[y][2] = p
        BY <2>p
      <3> QED  BY <3>1, <3>2 DEF KeptOf
    <2>g. SUFFICES \/ pc'[x] = "set" /\ ptr'[x] = y
                   \/ idOf'[p] # 0 /\ Elements(x)'[idOf'[p]] = y
                   \/ Exiting(x)' /\ \E j \in Index : Elements(x)'[j] = y
      BY <2>t, <2>p DEF KeptOf
    <2> QED  BY <1>0, <1>2, <2>v, <2>k, GetBeginDoes DEF ViewsSame, Exiting, Others, Same
  <1>3. ASSUME NEW t \in Thread, Register(t)
        PROVE  Kept'
    <2>v. ViewsSame
      BY <1>3, ViewStep DEF Silent
    <2>h. home' = home
      BY <1>3 DEF Register
    <2>s. SUFFICES ASSUME NEW y \in Value, home'[y] # Free
                 PROVE  KeptOf(y)'
      BY DEF Kept
    <2>t. home'[y] = home[y] /\ home[y] # Free
      BY <2>s, <2>h
    <2>p. PICK x \in Thread, p \in Object : home[y] = <<x, p>>
      BY <1>0, <2>t DEF Types
    <2>k. \/ pc[x] = "set" /\ ptr[x] = y
          \/ idOf[p] # 0 /\ Elements(x)[idOf[p]] = y
          \/ Exiting(x) /\ \E j \in Index : Elements(x)[j] = y
      <3>1. KeptOf(y)
        BY <1>0, <2>t DEF Kept
      <3>2. home[y][1] = x /\ home[y][2] = p
        BY <2>p
      <3> QED  BY <3>1, <3>2 DEF KeptOf
    <2>g. SUFFICES \/ pc'[x] = "set" /\ ptr'[x] = y
                   \/ idOf'[p] # 0 /\ Elements(x)'[idOf'[p]] = y
                   \/ Exiting(x)' /\ \E j \in Index : Elements(x)'[j] = y
      BY <2>t, <2>p DEF KeptOf
    <2> QED  BY <1>0, <1>3, <2>v, <2>k, RegisterDoes DEF ViewsSame, Exiting, Others, Same
  <1>4. ASSUME NEW t \in Thread, Get(t)
        PROVE  Kept'
    <2>v. ViewsSame
      BY <1>4, ViewStep DEF Silent
    <2>h. home' = home
      BY <1>4 DEF Get
    <2>s. SUFFICES ASSUME NEW y \in Value, home'[y] # Free
                 PROVE  KeptOf(y)'
      BY DEF Kept
    <2>t. home'[y] = home[y] /\ home[y] # Free
      BY <2>s, <2>h
    <2>p. PICK x \in Thread, p \in Object : home[y] = <<x, p>>
      BY <1>0, <2>t DEF Types
    <2>k. \/ pc[x] = "set" /\ ptr[x] = y
          \/ idOf[p] # 0 /\ Elements(x)[idOf[p]] = y
          \/ Exiting(x) /\ \E j \in Index : Elements(x)[j] = y
      <3>1. KeptOf(y)
        BY <1>0, <2>t DEF Kept
      <3>2. home[y][1] = x /\ home[y][2] = p
        BY <2>p
      <3> QED  BY <3>1, <3>2 DEF KeptOf
    <2>g. SUFFICES \/ pc'[x] = "set" /\ ptr'[x] = y
                   \/ idOf'[p] # 0 /\ Elements(x)'[idOf'[p]] = y
                   \/ Exiting(x)' /\ \E j \in Index : Elements(x)'[j] = y
      BY <2>t, <2>p DEF KeptOf
    <2> QED  BY <1>0, <1>4, <2>v, <2>k, GetDoes DEF ViewsSame, Exiting, Others, Same
  <1>5. ASSUME NEW t \in Thread, GrowCopy(t)
        PROVE  Kept'
    <2>v. ViewsSame
      BY <1>5, ViewStep DEF Silent
    <2>h. home' = home
      BY <1>5 DEF GrowCopy
    <2>s. SUFFICES ASSUME NEW y \in Value, home'[y] # Free
                 PROVE  KeptOf(y)'
      BY DEF Kept
    <2>t. home'[y] = home[y] /\ home[y] # Free
      BY <2>s, <2>h
    <2>p. PICK x \in Thread, p \in Object : home[y] = <<x, p>>
      BY <1>0, <2>t DEF Types
    <2>k. \/ pc[x] = "set" /\ ptr[x] = y
          \/ idOf[p] # 0 /\ Elements(x)[idOf[p]] = y
          \/ Exiting(x) /\ \E j \in Index : Elements(x)[j] = y
      <3>1. KeptOf(y)
        BY <1>0, <2>t DEF Kept
      <3>2. home[y][1] = x /\ home[y][2] = p
        BY <2>p
      <3> QED  BY <3>1, <3>2 DEF KeptOf
    <2>g. SUFFICES \/ pc'[x] = "set" /\ ptr'[x] = y
                   \/ idOf'[p] # 0 /\ Elements(x)'[idOf'[p]] = y
                   \/ Exiting(x)' /\ \E j \in Index : Elements(x)'[j] = y
      BY <2>t, <2>p DEF KeptOf
    <2> QED  BY <1>0, <1>5, <2>v, <2>k, GrowCopyDoes DEF ViewsSame, Exiting, Others, Same
  <1>6. ASSUME NEW t \in Thread, GrowDelete(t)
        PROVE  Kept'
    <2>v. ViewsSame
      BY <1>6, ViewStep DEF Silent
    <2>h. home' = home
      BY <1>6 DEF GrowDelete
    <2>s. SUFFICES ASSUME NEW y \in Value, home'[y] # Free
                 PROVE  KeptOf(y)'
      BY DEF Kept
    <2>t. home'[y] = home[y] /\ home[y] # Free
      BY <2>s, <2>h
    <2>p. PICK x \in Thread, p \in Object : home[y] = <<x, p>>
      BY <1>0, <2>t DEF Types
    <2>k. \/ pc[x] = "set" /\ ptr[x] = y
          \/ idOf[p] # 0 /\ Elements(x)[idOf[p]] = y
          \/ Exiting(x) /\ \E j \in Index : Elements(x)[j] = y
      <3>1. KeptOf(y)
        BY <1>0, <2>t DEF Kept
      <3>2. home[y][1] = x /\ home[y][2] = p
        BY <2>p
      <3> QED  BY <3>1, <3>2 DEF KeptOf
    <2>g. SUFFICES \/ pc'[x] = "set" /\ ptr'[x] = y
                   \/ idOf'[p] # 0 /\ Elements(x)'[idOf'[p]] = y
                   \/ Exiting(x)' /\ \E j \in Index : Elements(x)'[j] = y
      BY <2>t, <2>p DEF KeptOf
    <2> QED  BY <1>0, <1>6, <2>v, <2>k, GrowDeleteDoes DEF ViewsSame, Exiting, Others, Same
  <1>7. ASSUME NEW t \in Thread, GrowSet(t)
        PROVE  Kept'
    <2>v. ViewsSame
      BY <1>7, ViewStep DEF Silent
    <2>h. home' = home
      BY <1>7 DEF GrowSet
    <2>s. SUFFICES ASSUME NEW y \in Value, home'[y] # Free
                 PROVE  KeptOf(y)'
      BY DEF Kept
    <2>t. home'[y] = home[y] /\ home[y] # Free
      BY <2>s, <2>h
    <2>p. PICK x \in Thread, p \in Object : home[y] = <<x, p>>
      BY <1>0, <2>t DEF Types
    <2>k. \/ pc[x] = "set" /\ ptr[x] = y
          \/ idOf[p] # 0 /\ Elements(x)[idOf[p]] = y
          \/ Exiting(x) /\ \E j \in Index : Elements(x)[j] = y
      <3>1. KeptOf(y)
        BY <1>0, <2>t DEF Kept
      <3>2. home[y][1] = x /\ home[y][2] = p
        BY <2>p
      <3> QED  BY <3>1, <3>2 DEF KeptOf
    <2>g. SUFFICES \/ pc'[x] = "set" /\ ptr'[x] = y
                   \/ idOf'[p] # 0 /\ Elements(x)'[idOf'[p]] = y
                   \/ Exiting(x)' /\ \E j \in Index : Elements(x)'[j] = y
      BY <2>t, <2>p DEF KeptOf
    <2> QED  BY <1>0, <1>7, <2>v, <2>k, GrowSetDoes DEF ViewsSame, Exiting, Others, Same
  <1>8. ASSUME NEW t \in Thread, New(t)
        PROVE  Kept'
    <2>v. ViewsSame
      BY <1>8, ViewStep DEF Silent
    <2>1. ptr'[t] \in Value /\ home'[ptr'[t]] = <<t, obj[t]>> /\ \A y \in Value \ {ptr'[t]} : home'[y] = home[y]
      BY <1>0, <1>8 DEF New, Types
    <2>2. pc'[t] = "set"
      BY <1>0, <1>8, NewDoes
    <2>s. SUFFICES ASSUME NEW y \in Value, home'[y] # Free
                 PROVE  KeptOf(y)'
      BY DEF Kept
    <2>3. CASE y = ptr'[t]
      BY <2>1, <2>2, <2>3 DEF KeptOf
    <2>4. CASE y # ptr'[t]
      <3>t. home'[y] = home[y] /\ home[y] # Free
        BY <2>s, <2>1, <2>4
      <3>p. PICK x \in Thread, p \in Object : home[y] = <<x, p>>
        BY <1>0, <3>t DEF Types
      <3>k. \/ pc[x] = "set" /\ ptr[x] = y
            \/ idOf[p] # 0 /\ Elements(x)[idOf[p]] = y
            \/ Exiting(x) /\ \E j \in Index : Elements(x)[j] = y
        <4>5. KeptOf(y)
          BY <1>0, <3>t DEF Kept
        <4>2. home[y][1] = x /\ home[y][2] = p
          BY <3>p
        <4> QED  BY <4>5, <4>2 DEF KeptOf
      <3>g. SUFFICES \/ pc'[x] = "set" /\ ptr'[x] = y
                     \/ idOf'[p] # 0 /\ Elements(x)'[idOf'[p]] = y
                     \/ Exiting(x)' /\ \E j \in Index : Elements(x)'[j] = y
        BY <3>t, <3>p DEF KeptOf
      <3> QED  BY <1>0, <1>8, <2>v, <3>k, NewDoes DEF ViewsSame, Exiting, Others, Same
    <2> QED  BY <2>3, <2>4
  <1>9. ASSUME NEW t \in Thread, Set(t)
        PROVE  Kept'
    <2>h. home' = home
      BY <1>9 DEF Set
    <2>s. SUFFICES ASSUME NEW y \in Value, home'[y] # Free
                 PROVE  KeptOf(y)'
      BY DEF Kept
    <2>t. home'[y] = home[y] /\ home[y] # Free
      BY <2>s, <2>h
    <2>p. PICK x \in Thread, p \in Object : home[y] = <<x, p>>
      BY <1>0, <2>t DEF Types
    <2>k. \/ pc[x] = "set" /\ ptr[x] = y
          \/ idOf[p] # 0 /\ Elements(x)[idOf[p]] = y
          \/ Exiting(x) /\ \E j \in Index : Elements(x)[j] = y
      <3>1. KeptOf(y)
        BY <1>0, <2>t DEF Kept
      <3>2. home[y][1] = x /\ home[y][2] = p
        BY <2>p
      <3> QED  BY <3>1, <3>2 DEF KeptOf
    <2>g. SUFFICES \/ pc'[x] = "set" /\ ptr'[x] = y
                   \/ idOf'[p] # 0 /\ Elements(x)'[idOf'[p]] = y
                   \/ Exiting(x)' /\ \E j \in Index : Elements(x)'[j] = y
      BY <2>t, <2>p DEF KeptOf
    <2>0. PICK k \in Index : k = idOf[obj[t]]
      BY SMTT(40), <1>0, <1>9, SetDoes, IdFacts DEF CallOf, GetPCs, Destroying, Types
    <2>1. FindsOf(t)
      BY <1>0 DEF Finds
    <2>2. Elements(t)[k] = Null /\ home[ptr[t]] = <<t, obj[t]>> /\ idOf' = idOf /\ k # 0
      BY <1>0, <1>9, <2>0, <2>1, SetDoes DEF FindsOf, CallOf, GetPCs
    <2>3. \A u \in Thread, j \in Index : Elements(u)[j] = y => Elements(u)'[j] = y
      BY <1>0, <1>9, <2>0, <2>2, SetView, ElementsType, NullAssumption
    <2>4. Elements(t)'[k] = ptr[t]
      BY <1>0, <1>9, <2>0, SetView, ElementsType
    <2>5. idOf[p] # 0 => idOf[p] \in Index
      BY <1>0, IdFacts
    <2>6. CASE x = t /\ ptr[t] = y
      BY <2>p, <2>0, <2>2, <2>4, <2>6
    <2>7. CASE ~(x = t /\ ptr[t] = y)
      BY <1>0, <1>9, <2>k, <2>2, <2>3, <2>5, <2>7, SetDoes DEF Exiting, Others, Same
    <2> QED  BY <2>6, <2>7
  <1>10. ASSUME NEW t \in Thread, Got(t)
         PROVE  Kept'
    <2>v. ViewsSame
      BY <1>10, ViewStep DEF Silent
    <2>h. home' = home
      BY <1>10 DEF Got
    <2>s. SUFFICES ASSUME NEW y \in Value, home'[y] # Free
                 PROVE  KeptOf(y)'
      BY DEF Kept
    <2>t. home'[y] = home[y] /\ home[y] # Free
      BY <2>s, <2>h
    <2>p. PICK x \in Thread, p \in Object : home[y] = <<x, p>>
      BY <1>0, <2>t DEF Types
    <2>k. \/ pc[x] = "set" /\ ptr[x] = y
          \/ idOf[p] # 0 /\ Elements(x)[idOf[p]] = y
          \/ Exiting(x) /\ \E j \in Index : Elements(x)[j] = y
      <3>1. KeptOf(y)
        BY <1>0, <2>t DEF Kept
      <3>2. home[y][1] = x /\ home[y][2] = p
        BY <2>p
      <3> QED  BY <3>1, <3>2 DEF KeptOf
    <2>g. SUFFICES \/ pc'[x] = "set" /\ ptr'[x] = y
                   \/ idOf'[p] # 0 /\ Elements(x)'[idOf'[p]] = y
                   \/ Exiting(x)' /\ \E j \in Index : Elements(x)'[j] = y
      BY <2>t, <2>p DEF KeptOf
    <2> QED  BY <1>0, <1>10, <2>v, <2>k, GotDoes DEF ViewsSame, Exiting, Others, Same
  <1>11. ASSUME NEW t \in Thread, NEW o \in Object, DestroyBegin(t, o)
         PROVE  Kept'
    <2>v. ViewsSame
      BY <1>11, ViewStep DEF Silent
    <2>h. home' = home
      BY <1>11 DEF DestroyBegin
    <2>s. SUFFICES ASSUME NEW y \in Value, home'[y] # Free
                 PROVE  KeptOf(y)'
      BY DEF Kept
    <2>t. home'[y] = home[y] /\ home[y] # Free
      BY <2>s, <2>h
    <2>p. PICK x \in Thread, p \in Object : home[y] = <<x, p>>
      BY <1>0, <2>t DEF Types
    <2>k. \/ pc[x] = "set" /\ ptr[x] = y
          \/ idOf[p] # 0 /\ Elements(x)[idOf[p]] = y
          \/ Exiting(x) /\ \E j \in Index : Elements(x)[j] = y
      <3>1. KeptOf(y)
        BY <1>0, <2>t DEF Kept
      <3>2. home[y][1] = x /\ home[y][2] = p
        BY <2>p
      <3> QED  BY <3>1, <3>2 DEF KeptOf
    <2>g. SUFFICES \/ pc'[x] = "set" /\ ptr'[x] = y
                   \/ idOf'[p] # 0 /\ Elements(x)'[idOf'[p]] = y
                   \/ Exiting(x)' /\ \E j \in Index : Elements(x)'[j] = y
      BY <2>t, <2>p DEF KeptOf
    <2> QED  BY <1>0, <1>11, <2>v, <2>k, DestroyBeginDoes DEF ViewsSame, Exiting, Others, Same
  <1>12. ASSUME NEW t \in Thread, DestroyNext(t)
         PROVE  Kept'
    <2>v. ViewsSame
      BY <1>12, ViewStep DEF Silent
    <2>h. home' = home
      BY <1>12 DEF DestroyNext
    <2>s. SUFFICES ASSUME NEW y \in Value, home'[y] # Free
                 PROVE  KeptOf(y)'
      BY DEF Kept
    <2>t. home'[y] = home[y] /\ home[y] # Free
      BY <2>s, <2>h
    <2>p. PICK x \in Thread, p \in Object : home[y] = <<x, p>>
      BY <1>0, <2>t DEF Types
    <2>k. \/ pc[x] = "set" /\ ptr[x] = y
          \/ idOf[p] # 0 /\ Elements(x)[idOf[p]] = y
          \/ Exiting(x) /\ \E j \in Index : Elements(x)[j] = y
      <3>1. KeptOf(y)
        BY <1>0, <2>t DEF Kept
      <3>2. home[y][1] = x /\ home[y][2] = p
        BY <2>p
      <3> QED  BY <3>1, <3>2 DEF KeptOf
    <2>g. SUFFICES \/ pc'[x] = "set" /\ ptr'[x] = y
                   \/ idOf'[p] # 0 /\ Elements(x)'[idOf'[p]] = y
                   \/ Exiting(x)' /\ \E j \in Index : Elements(x)'[j] = y
      BY <2>t, <2>p DEF KeptOf
    <2> QED  BY <1>0, <1>12, <2>v, <2>k, DestroyNextDoes DEF ViewsSame, Exiting, Others, Same
  <1>13. ASSUME NEW t \in Thread, DestroyRead(t)
         PROVE  Kept'
    <2>v. ViewsSame
      BY <1>13, ViewStep DEF Silent
    <2>0. PICK k \in Index : k = idOf[obj[t]]
      BY <1>0, <1>13, DestroyReadDoes, IdFacts DEF CallOf, GetPCs, Destroying, Types
    <2>s. SUFFICES ASSUME NEW y \in Value, home'[y] # Free
                 PROVE  KeptOf(y)'
      BY DEF Kept
    <2>1. home'[y] = home[y] \/ home'[y] = Free
      BY <1>0, <1>13 DEF DestroyRead, Delete, Types
    <2>t. home'[y] = home[y] /\ home[y] # Free
      BY <2>s, <2>1
    <2>p. PICK x \in Thread, p \in Object : home[y] = <<x, p>>
      BY <1>0, <2>t DEF Types
    <2>k. \/ pc[x] = "set" /\ ptr[x] = y
          \/ idOf[p] # 0 /\ Elements(x)[idOf[p]] = y
          \/ Exiting(x) /\ \E j \in Index : Elements(x)[j] = y
      <3>1. KeptOf(y)
        BY <1>0, <2>t DEF Kept
      <3>2. home[y][1] = x /\ home[y][2] = p
        BY <2>p
      <3> QED  BY <3>1, <3>2 DEF KeptOf
    <2>g. SUFFICES \/ pc'[x] = "set" /\ ptr'[x] = y
                   \/ idOf'[p] # 0 /\ Elements(x)'[idOf'[p]] = y
                   \/ Exiting(x)' /\ \E j \in Index : Elements(x)'[j] = y
      BY <2>t, <2>p DEF KeptOf
    <2> QED  BY <1>0, <1>13, <2>v, <2>k, DestroyReadDoes DEF ViewsSame, Exiting, Others, Same
  <1>14. ASSUME NEW t \in Thread, DestroyClear(t)
         PROVE  Kept'
    <2>h. home' = home
      BY <1>14 DEF DestroyClear
    <2>s. SUFFICES ASSUME NEW y \in Value, home'[y] # Free
                 PROVE  KeptOf(y)'
      BY DEF Kept
    <2>t. home'[y] = home[y] /\ home[y] # Free
      BY <2>s, <2>h
    <2>p. PICK x \in Thread, p \in Object : home[y] = <<x, p>>
      BY <1>0, <2>t DEF Types
    <2>k. \/ pc[x] = "set" /\ ptr[x] = y
          \/ idOf[p] # 0 /\ Elements(x)[idOf[p]] = y
          \/ Exiting(x) /\ \E j \in Index : Elements(x)[j] = y
      <3>1. KeptOf(y)
        BY <1>0, <2>t DEF Kept
      <3>2. home[y][1] = x /\ home[y][2] = p
        BY <2>p
      <3> QED  BY <3>1, <3>2 DEF KeptOf
    <2>g. SUFFICES \/ pc'[x] = "set" /\ ptr'[x] = y
                   \/ idOf'[p] # 0 /\ Elements(x)'[idOf'[p]] = y
                   \/ Exiting(x)' /\ \E j \in Index : Elements(x)'[j] = y
      BY <2>t, <2>p DEF KeptOf
    <2>0. PICK k \in Index : k = idOf[obj[t]]
      BY SMTT(40), <1>0, <1>14, DestroyClearDoes, IdFacts DEF CallOf, GetPCs, Destroying, Types
    <2>1. \A u \in Thread, j \in Index : ~(elements[u] = entry[t] /\ j = k) => Elements(u)'[j] = Elements(u)[j]
      BY <1>0, <1>14, <2>0, ClearView, ElementsType
    <2>2. Exiting(x) => elements[x] # entry[t]
      BY <1>0, <1>14, DestroyClearDoes, PointedView
    <2>3. elements[x] = entry[t] => p # obj[t]
      BY <1>0, <1>14, <2>p, DestroyClearDoes DEF Gone
    <2>4. idOf[p] # 0 => idOf[p] \in Index /\ (p # obj[t] => idOf[p] # k)
      BY SMTT(40), <1>0, <1>14, <2>0, DestroyClearDoes, IdFacts DEF Ids, Types, CallOf, Destroying
    <2> QED  BY <1>0, <1>14, <2>k, <2>1, <2>2, <2>3, <2>4, DestroyClearDoes DEF Exiting, Others, Same
  <1>15. ASSUME NEW t \in Thread, DestroyEnd(t)
         PROVE  Kept'
    <2>v. ViewsSame
      BY <1>15, ViewStep DEF Silent
    <2>h. home' = home
      BY <1>15 DEF DestroyEnd
    <2>i. \A p \in Object \ {obj[t]} : idOf'[p] = idOf[p]
      BY <1>0, <1>15 DEF DestroyEnd, Types
    <2>j. \A u \in Thread \ {t} : obj[u] # Null => idOf'[obj[u]] = idOf[obj[u]]
      BY <1>0, <1>15, <2>i, DestroyEndDoes DEF Alone, Destroying, Types
    <2>s. SUFFICES ASSUME NEW y \in Value, home'[y] # Free
                 PROVE  KeptOf(y)'
      BY DEF Kept
    <2>t. home'[y] = home[y] /\ home[y] # Free
      BY <2>s, <2>h
    <2>p. PICK x \in Thread, p \in Object : home[y] = <<x, p>>
      BY <1>0, <2>t DEF Types
    <2>k. \/ pc[x] = "set" /\ ptr[x] = y
          \/ idOf[p] # 0 /\ Elements(x)[idOf[p]] = y
          \/ Exiting(x) /\ \E j \in Index : Elements(x)[j] = y
      <3>1. KeptOf(y)
        BY <1>0, <2>t DEF Kept
      <3>2. home[y][1] = x /\ home[y][2] = p
        BY <2>p
      <3> QED  BY <3>1, <3>2 DEF KeptOf
    <2>g. SUFFICES \/ pc'[x] = "set" /\ ptr'[x] = y
                   \/ idOf'[p] # 0 /\ Elements(x)'[idOf'[p]] = y
                   \/ Exiting(x)' /\ \E j \in Index : Elements(x)'[j] = y
      BY <2>t, <2>p DEF KeptOf
    <2>1. ASSUME idOf[p] # 0, Elements(x)[idOf[p]] = y, p = obj[t]
          PROVE  Exiting(x)' /\ \E j \in Index : Elements(x)'[j] = y
      <3>1. idOf[p] \in Index
        BY <1>0, <2>1, IdFacts
      <3>2. entry[t] = Null /\ left[t] = {} /\ Destroying(t)
        BY <1>0, <1>15, DestroyEndDoes DEF CallOf, DestroyEnd, Destroying
      <3>3. Exiting(x)
        BY <1>0, <2>1, <3>2, NullAssumption DEF Visited
      <3> QED  BY <1>0, <1>15, <2>v, <2>1, <3>1, <3>3, DestroyEndDoes DEF ViewsSame, Exiting, Others, Same
    <2> QED  BY <1>0, <1>15, <2>v, <2>k, <2>i, <2>1, DestroyEndDoes DEF ViewsSame, Exiting, Others, Same
  <1>16. ASSUME NEW t \in Thread, Forget(t)
         PROVE  Kept'
    <2>v. ViewsSame
      BY <1>16, ViewStep DEF Silent
    <2>h. home' = home
      BY <1>16 DEF Forget
    <2>s. SUFFICES ASSUME NEW y \in Value, home'[y] # Free
                 PROVE  KeptOf(y)'
      BY DEF Kept
    <2>t. home'[y] = home[y] /\ home[y] # Free
      BY <2>s, <2>h
    <2>p. PICK x \in Thread, p \in Object : home[y] = <<x, p>>
      BY <1>0, <2>t DEF Types
    <2>k. \/ pc[x] = "set" /\ ptr[x] = y
          \/ idOf[p] # 0 /\ Elements(x)[idOf[p]] = y
          \/ Exiting(x) /\ \E j \in Index : Elements(x)[j] = y
      <3>1. KeptOf(y)
        BY <1>0, <2>t DEF Kept
      <3>2. home[y][1] = x /\ home[y][2] = p
        BY <2>p
      <3> QED  BY <3>1, <3>2 DEF KeptOf
    <2>g. SUFFICES \/ pc'[x] = "set" /\ ptr'[x] = y
                   \/ idOf'[p] # 0 /\ Elements(x)'[idOf'[p]] = y
                   \/ Exiting(x)' /\ \E j \in Index : Elements(x)'[j] = y
      BY <2>t, <2>p DEF KeptOf
    <2> QED  BY <1>0, <1>16, <2>v, <2>k, ForgetDoes DEF ViewsSame, Exiting, Others, Same
  <1>17. ASSUME NEW t \in Thread, Unlock(t)
         PROVE  Kept'
    <2>v. ViewsSame
      BY <1>17, ViewStep DEF Silent
    <2>h. home' = home
      BY <1>17 DEF Unlock
    <2>s. SUFFICES ASSUME NEW y \in Value, home'[y] # Free
                 PROVE  KeptOf(y)'
      BY DEF Kept
    <2>t. home'[y] = home[y] /\ home[y] # Free
      BY <2>s, <2>h
    <2>p. PICK x \in Thread, p \in Object : home[y] = <<x, p>>
      BY <1>0, <2>t DEF Types
    <2>k. \/ pc[x] = "set" /\ ptr[x] = y
          \/ idOf[p] # 0 /\ Elements(x)[idOf[p]] = y
          \/ Exiting(x) /\ \E j \in Index : Elements(x)[j] = y
      <3>1. KeptOf(y)
        BY <1>0, <2>t DEF Kept
      <3>2. home[y][1] = x /\ home[y][2] = p
        BY <2>p
      <3> QED  BY <3>1, <3>2 DEF KeptOf
    <2>g. SUFFICES \/ pc'[x] = "set" /\ ptr'[x] = y
                   \/ idOf'[p] # 0 /\ Elements(x)'[idOf'[p]] = y
                   \/ Exiting(x)' /\ \E j \in Index : Elements(x)'[j] = y
      BY <2>t, <2>p DEF KeptOf
    <2> QED  BY <1>0, <1>17, <2>v, <2>k, UnlockDoes DEF ViewsSame, Exiting, Others, Same
  <1>18. ASSUME NEW t \in Thread, DestroyAllNext(t)
         PROVE  Kept'
    <2>1. PICK i \in Index : /\ Elements(t)[i] # Null /\ Delete(Elements(t)[i])
                             /\ Elements(t)' = [Elements(t) EXCEPT ![i] = Null]
      BY <1>0, <1>18, DropView
    <2> DEFINE v == Elements(t)[i]
    <2>2. v \in Value /\ home[v][1] = t /\ \A y \in Value \ {v} : home'[y] = home[y]
      BY <1>0, <1>18, <2>1, DestroyAllNextDoes, NotClearing, ElementsType DEF Exiting, Filed, Own, Delete
    <2>d. home'[v] = Free
      BY <2>1, <2>2 DEF Delete
    <2>s. SUFFICES ASSUME NEW y \in Value, home'[y] # Free
                 PROVE  KeptOf(y)'
      BY DEF Kept
    <2>t. home'[y] = home[y] /\ home[y] # Free
      BY <2>s, <2>2, <2>d
    <2>p. PICK x \in Thread, p \in Object : home[y] = <<x, p>>
      BY <1>0, <2>t DEF Types
    <2>k. \/ pc[x] = "set" /\ ptr[x] = y
          \/ idOf[p] # 0 /\ Elements(x)[idOf[p]] = y
          \/ Exiting(x) /\ \E j \in Index : Elements(x)[j] = y
      <3>1. KeptOf(y)
        BY <1>0, <2>t DEF Kept
      <3>2. home[y][1] = x /\ home[y][2] = p
        BY <2>p
      <3> QED  BY <3>1, <3>2 DEF KeptOf
    <2>g. SUFFICES \/ pc'[x] = "set" /\ ptr'[x] = y
                   \/ idOf'[p] # 0 /\ Elements(x)'[idOf'[p]] = y
                   \/ Exiting(x)' /\ \E j \in Index : Elements(x)'[j] = y
      BY <2>t, <2>p DEF KeptOf
    <2>3. y # v
      BY <2>s, <2>d
    <2>4. \A u \in Thread, j \in Index : Elements(u)[j] = y => Elements(u)'[j] = y
      BY <1>0, <1>18, <2>1, <2>3, DropView, ElementsType
    <2>5. idOf[p] # 0 => idOf[p] \in Index
      BY <1>0, IdFacts
    <2> QED  BY <1>0, <1>18, <2>k, <2>4, <2>5, DestroyAllNextDoes DEF Exiting, Others, Same
  <1>19. ASSUME NEW t \in Thread, DestroyAllEnd(t)
         PROVE  Kept'
    <2>v. ViewsSame
      BY <1>19, ViewStep DEF Silent
    <2>h. home' = home
      BY <1>19 DEF DestroyAllEnd
    <2>s. SUFFICES ASSUME NEW y \in Value, home'[y] # Free
                 PROVE  KeptOf(y)'
      BY DEF Kept
    <2>t. home'[y] = home[y] /\ home[y] # Free
      BY <2>s, <2>h
    <2>p. PICK x \in Thread, p \in Object : home[y] = <<x, p>>
      BY <1>0, <2>t DEF Types
    <2>k. \/ pc[x] = "set" /\ ptr[x] = y
          \/ idOf[p] # 0 /\ Elements(x)[idOf[p]] = y
          \/ Exiting(x) /\ \E j \in Index : Elements(x)[j] = y
      <3>1. KeptOf(y)
        BY <1>0, <2>t DEF Kept
      <3>2. home[y][1] = x /\ home[y][2] = p
        BY <2>p
      <3> QED  BY <3>1, <3>2 DEF KeptOf
    <2>g. SUFFICES \/ pc'[x] = "set" /\ ptr'[x] = y
                   \/ idOf'[p] # 0 /\ Elements(x)'[idOf'[p]] = y
                   \/ Exiting(x)' /\ \E j \in Index : Elements(x)'[j] = y
      BY <2>t, <2>p DEF KeptOf
    <2>1. \A j \in Index : Elements(t)[j] = Null
      <3>1. \A j \in 1..size[t] : Elements(t)[j] = Null
        BY <1>0, <1>19, DestroyAllEndDoes DEF DestroyAllEnd, Elements, CallOf
      <3>2. \A j \in Index : j > size[t] => Elements(t)[j] = Null
        BY <1>0 DEF Inside
      <3>3. size[t] \in Nat /\ Grown(MaxId) \in Nat
        BY <1>0, IdAssumption DEF Types, Grown
      <3> QED  BY <3>1, <3>2, <3>3 DEF Index
    <2>2. x # t
      BY <1>0, <1>19, <2>k, <2>1, DestroyAllEndDoes, IdFacts, NullAssumption
    <2> QED  BY <1>0, <1>19, <2>v, <2>k, <2>2, DestroyAllEndDoes DEF ViewsSame, Exiting, Others, Same
  <1>20. ASSUME StaticallyDestructed \/ UNCHANGED vars
         PROVE  Kept'
    BY <1>0, <1>20 DEF StaticallyDestructed, vars, Kept, KeptOf, Exiting, Elements, ids, sync, storage, locals
  <1> QED
    BY <1>1, <1>2, <1>3, <1>4, <1>5, <1>6, <1>7, <1>8, <1>9, <1>10, <1>11, <1>12, <1>13, <1>14,
       <1>15, <1>16, <1>17, <1>18, <1>19, <1>20
       DEF Next, Step, GetStep, DestroyStep, ExitStep, Finished

-----------------------------------------------------------------------------
(* The invariant and the theorems *)

\* Nothing exists at the beginning.
LEMMA Initially ==
    ASSUME Init
    PROVE  Inv
  <1>1. Types
    <2>1. 0 \in 0..MaxId /\ 0 \in 0..Grown(MaxId) /\ << >> \in Seq(1..0)
      BY IdAssumption DEF Grown
    <2> QED  BY <2>1 DEF Init, Types, PCs
  <1>2. Ids
    <2>1. Made = {}
      BY DEF Init, Made
    <2>2. IsFiniteSet(Made) /\ Cardinality(Made) = 0
      BY <2>1, FS_EmptySet
    <2>3. Len(freeList) = 0 /\ nextId = 0 /\ 1..Len(freeList) = {}
      BY DEF Init
    <2>4. \A o \in Object : idOf[o] = 0
      BY DEF Init
    <2> QED  BY <2>2, <2>3, <2>4 DEF Ids
  <1>3. \A t \in Thread : pc[t] = "idle" /\ elements[t] = Null /\ size[t] = 0 /\ obj[t] = Null /\ entry[t] = Null
    BY DEF Init
  <1>4. registered = {} /\ lock = Null /\ \A v \in Value : home[v] = Free
    BY DEF Init
  <1>5. Calls
    BY <1>3, <1>4, NullAssumption DEF Calls, CallOf, Destroying, GetPCs
  <1>6. Alone /\ Visited /\ Gone
    BY <1>3 DEF Alone, Visited, Gone, Destroying
  <1>7. Arrays
    BY <1>3 DEF Arrays, Owned, Copied, Pointed, Mine
  <1>8. \A t \in Thread, i \in Index : Elements(t)[i] = Null
    BY <1>3, FreeFacts DEF Elements
  <1>9. Slots
    BY <1>3, <1>8 DEF Slots, Inside, Filed, Distinct, Exiting
  <1>10. Finds /\ Kept
    BY <1>3, <1>4 DEF Finds, FindsOf, Kept
  <1> QED  BY <1>1, <1>2, <1>5, <1>6, <1>7, <1>9, <1>10 DEF Inv

\* Every step keeps the invariant.
LEMMA InvStep ==
    ASSUME GrowsAlone, Inv, [Next]_vars
    PROVE  Inv'
  <1>1. Types' /\ Ids' /\ Calls' /\ Alone'
    BY TypesStep, IdsStep, CallsStep, AloneStep
  <1>2. Arrays'
    BY OwnedStep, CopiedStep, PointedStep DEF Arrays
  <1>3. Slots'
    BY InsideStep, FiledStep, DistinctStep DEF Slots
  <1>4. Finds' /\ Visited' /\ Gone' /\ Kept'
    BY FindsStep, VisitedStep, GoneStep, KeptStep
  <1> QED  BY <1>1, <1>2, <1>3, <1>4 DEF Inv

\* The ids of the objects that exist and the free ids are unique and are together all
\* the ids made so far, whatever create and destroy reuse; an array and its size come
\* and go together.
THEOREM IdsStayUnique ==
    ASSUME GrowsAlone
    PROVE  Spec => []IdsUnique
  <1>1. ASSUME Inv
        PROVE  IdsUnique
    <2>1. TypeOK
      BY <1>1 DEF Inv, Types, Calls, CallOf, TypeOK
    <2> QED  BY <1>1, <2>1 DEF Inv, Ids, Made, IdsUnique
  <1> QED  BY <1>1, Initially, InvStep, PTL DEF Spec

\* get returns the value that its thread made for its object, even when the id of the
\* object was that of another before.
THEOREM GetsItsOwn ==
    ASSUME GrowsAlone
    PROVE  Spec => []GetsOwn
  <1>1. ASSUME Inv
        PROVE  GetsOwn
    BY <1>1 DEF Inv, Finds, FindsOf, GetsOwn
  <1> QED  BY <1>1, Initially, InvStep, PTL DEF Spec

\* Values are destroyed exactly once, whichever of their object and their thread goes
\* first: no element keeps a destroyed value, and no live value is lost by destroy,
\* destroyAll or a resize.
THEOREM ValuesStayKept ==
    ASSUME GrowsAlone
    PROVE  Spec => []ValuesKept
  <1>1. ASSUME Inv
        PROVE  ValuesKept
    <2>1. \A t \in Thread, i \in Index :
             Elements(t)[i] # Null /\ ~Clearing(t, i) => home[Elements(t)[i]] # Free
      BY <1>1 DEF Inv, Slots, Filed, Own
    <2>2. \A v \in Value : home[v] # Free => KeptOf(v)
      BY <1>1 DEF Inv, Kept
    <2> QED  BY <2>1, <2>2 DEF ValuesKept, KeptOf
  <1> QED  BY <1>1, Initially, InvStep, PTL DEF Spec

\* An exiting thread destroys its values alone, whichever of destroy and threadExitCleanup
\* began first: no destructor that walks the list is at work on its array.
THEOREM ThreadsExitAlone ==
    ASSUME GrowsAlone
    PROVE  Spec => []ExitsAlone
  <1>1. ASSUME Inv
        PROVE  ExitsAlone
    <2> SUFFICES ASSUME NEW t \in Thread, pc[t] = "x_destroy"
                 PROVE  /\ array[elements[t]] # Free
                        /\ \A u \in Thread : pc[u] \in {"d_read", "d_clear"} => entry[u] # elements[t]
      BY DEF ExitsAlone
    <2>1. t \notin registered /\ elements[t] # Null /\ elements[t] \in Mine(t)
      BY <1>1 DEF Inv, Calls, CallOf, Types, Mine
    <2>2. array[elements[t]] # Free
      BY <1>1, <2>1 DEF Inv, Arrays, Owned
    <2>3. ASSUME NEW u \in Thread, pc[u] \in {"d_read", "d_clear"}
          PROVE  entry[u] # elements[t]
      <3>1. PICK w \in Thread : PointsAt(u, w)
        BY <1>1, <2>3 DEF Inv, Arrays, Pointed
      <3>2. pc[w] # "grow_set"
        BY <1>1, <2>3, <3>1, RegisteredArray DEF PointsAt, Destroying
      <3>3. w # t /\ Mine(w) \cap Mine(t) = {}
        BY <1>1, <2>1, <3>1 DEF PointsAt, Inv, Arrays, Owned
      <3> QED  BY <2>1, <3>1, <3>2, <3>3 DEF PointsAt, Mine
    <2> QED  BY <2>2, <2>3
  <1> QED  BY <1>1, Initially, InvStep, PTL DEF Spec
=============================================================================
