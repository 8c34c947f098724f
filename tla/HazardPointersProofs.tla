------------------------ MODULE HazardPointersProofs ------------------------
(***************************************************************************)
(* Proofs about HazardPointers, for every number of threads, nodes, slots  *)
(* and records.  Under either memory model: types, the record count, one   *)
(* writer per retire list, no node deleted twice, nothing leaks, retire    *)
(* lists are bounded.  On sequentially consistent memory: no node in use   *)
(* is deleted, and HazardPointers implements SafeReclamation.              *)
(***************************************************************************)
EXTENDS HazardPointers, FiniteSetTheorems, TLAPS

USE DEF Rec, Slot, Pointer

\* Where a thread without a record can be.
Outside == {"none", "alloc_walk", "alloc_count", "alloc_load", "alloc_cas"}

\* How the local variables of an operation go with its program counter.
ControlOf(t) ==
    /\ pc[t] \in Outside => rec[t] = 0
    /\ pc[t] \notin Outside => rec[t] \in 1..nrec
    /\ pos[t] <= nrec
    /\ spos[t] <= nrec
    /\ pc[t] \in {"alloc_walk", "help", "move"} => pos[t] # 0
    /\ pos[t] # 0 => pc[t] \in {"alloc_walk", "alloc_load", "alloc_cas",
                                "scan_begin", "scan", "help", "move"}
    /\ spos[t] # 0 => pc[t] = "scan"
    /\ pc[t] = "retire" => ref[t] # Null

Control == \A t \in Thread : ControlOf(t)

Basic == TypeOK /\ Control /\ CountedRecords

\* Stores keep the memory well typed.
LEMMA CommitType ==
    ASSUME TypeOK, NEW e \in Pending, Commit(e)
    PROVE  /\ active' \in [Rec -> BOOLEAN]
           /\ pointers' \in [Rec -> [Slot -> Pointer]]
  <1>1. e.rec \in Rec /\ e.slot \in 0..K /\ e.val \in Pointer
    BY DEF Pending
  <1>2. CASE e.slot = 0
    <2>1. active' = [active EXCEPT ![e.rec] = FALSE] /\ UNCHANGED pointers
      BY <1>2 DEF Commit
    <2> QED  BY <2>1, Zenon DEF TypeOK
  <1>3. CASE e.slot # 0
    <2>1. pointers' = [pointers EXCEPT ![e.rec][e.slot] = e.val] /\ UNCHANGED active
      BY <1>3 DEF Commit
    <2>2. e.slot \in Slot
      BY <1>1, <1>3, KAssumption
    <2> QED  BY <1>1, <2>1, <2>2 DEF TypeOK
  <1> QED  BY <1>2, <1>3

\* A store keeps the memory and the store buffer well typed, buffered or not.
LEMMA StoreType ==
    ASSUME TypeOK, NEW t \in Thread, NEW r \in Rec, NEW k \in 0..K, NEW v \in Pointer,
           Store(t, r, k, v)
    PROVE  /\ active' \in [Rec -> BOOLEAN]
           /\ pointers' \in [Rec -> [Slot -> Pointer]]
           /\ buf' \in [Thread -> Seq(Pending)]
  <1> DEFINE e == [rec |-> r, slot |-> k, val |-> v]
  <1>1. e \in Pending
    BY DEF Pending
  <1>2. CASE StoreBuffered
    <2>1. buf' = [buf EXCEPT ![t] = Append(@, e)] /\ UNCHANGED <<active, pointers>>
      BY <1>2 DEF Store
    <2>2. Append(buf[t], e) \in Seq(Pending)
      BY <1>1 DEF TypeOK
    <2> QED  BY <2>1, <2>2 DEF TypeOK
  <1>3. CASE ~StoreBuffered
    <2>1. Commit(e) /\ UNCHANGED buf
      BY <1>3 DEF Store
    <2> QED  BY <1>1, <2>1, CommitType DEF TypeOK
  <1> QED  BY <1>2, <1>3

\* A thread past allocate has a record of the list.
LEMMA HasRecord ==
    ASSUME TypeOK, Control, NEW t \in Thread, pc[t] \notin Outside
    PROVE  rec[t] \in Rec /\ rec[t] <= nrec
  <1>1. rec[t] \in 1..nrec
    BY DEF Control, ControlOf
  <1> QED  BY <1>1, BoundAssumption DEF TypeOK

\* hp_count_ is raised before the record is linked, so there is room for it.
LEMMA RoomToLink ==
    ASSUME Basic, NEW t \in Thread, pc[t] = "alloc_cas"
    PROVE  nrec < MaxRecords
  <1>1. IsFiniteSet(Pushing)
    BY ThreadAssumption, FS_Subset DEF Pushing
  <1>2. t \in Pushing
    BY DEF Pushing
  <1>3. Cardinality(Pushing) \in Nat /\ Cardinality(Pushing) # 0
    BY <1>1, <1>2, FS_CardinalityType, FS_EmptySet
  <1> QED
    BY <1>3, BoundAssumption DEF Basic, TypeOK, CountedRecords

\* Every action keeps the types.
LEMMA TypeStep ==
    ASSUME Basic, NEW t \in Thread, Step(t) \/ Flush(t) \/ Destroy
    PROVE  TypeOK'
  <1> USE KAssumption, BoundAssumption DEF Basic, memory, heap, client, scanner
  <1>1. CASE AllocBegin(t)
    BY <1>1 DEF AllocBegin, TypeOK, Control, ControlOf, PCs, Outside
  <1>2. CASE AllocSkip(t)
    <2>1. pos[t] \in 1..MaxRecords
      BY <1>2 DEF AllocSkip, TypeOK, Control, ControlOf, Outside
    <2>2. pos' \in [Thread -> 0..MaxRecords]
      BY <1>2, <2>1 DEF AllocSkip, TypeOK
    <2>3. pc' \in [Thread -> PCs]
      BY <1>2, <2>1 DEF AllocSkip, TypeOK, PCs
    <2> QED
      BY <1>2, <2>2, <2>3 DEF AllocSkip, TypeOK
  <1>3. CASE AllocClaim(t)
    BY <1>3 DEF AllocClaim, TypeOK, Control, ControlOf, PCs, Outside
  <1>4. CASE AllocCount(t)
    BY SMTT(40), <1>4 DEF AllocCount, TypeOK, Control, ControlOf, PCs, Outside
  <1>5. CASE AllocLoad(t)
    BY <1>5 DEF AllocLoad, TypeOK, Control, ControlOf, PCs, Outside
  <1>6. CASE AllocLink(t)
    <2>1. nrec < MaxRecords
      BY <1>6, RoomToLink DEF AllocLink
    <2>2. nrec + 1 \in Rec
      BY <2>1 DEF TypeOK
    <2>3. CASE nrec = pos[t]
      <3>1. /\ nrec' = nrec + 1
            /\ active' = [active EXCEPT ![nrec + 1] = TRUE]
            /\ rec' = [rec EXCEPT ![t] = nrec + 1]
            /\ pos' = [pos EXCEPT ![t] = 0]
            /\ pc' = [pc EXCEPT ![t] = "ready"]
            /\ UNCHANGED <<hpCount, pointers, buf, heap, slot, ref, client, scanner>>
        BY <1>6, <2>3 DEF AllocLink
      <3>2. active' \in [Rec -> BOOLEAN]
        BY <3>1, Zenon DEF TypeOK
      <3> QED  BY SMTT(40), <2>2, <3>1, <3>2 DEF TypeOK, PCs
    <2>4. CASE nrec # pos[t]
      BY <1>6, <2>4 DEF AllocLink, TypeOK, PCs
    <2> QED  BY <2>3, <2>4
  <1>7. CASE RetireBegin(t)
    BY SMTT(40), <1>7 DEF RetireBegin, TypeOK, Control, ControlOf, PCs, Outside
  <1>8. CASE RetireSlot(t)
    <2>1. Store(t, rec[t], slot[t], Null)
      BY <1>8 DEF RetireSlot
    <2>2. rec[t] \in Rec
      <3>1. pc[t] \notin Outside
        BY <1>8 DEF RetireSlot, Outside
      <3> QED  BY <3>1, HasRecord
    <2>3. slot[t] \in 0..K /\ Null \in Pointer
      BY <1>8 DEF TypeOK
    <2>4. /\ active' \in [Rec -> BOOLEAN]
          /\ pointers' \in [Rec -> [Slot -> Pointer]]
          /\ buf' \in [Thread -> Seq(Pending)]
      BY <2>1, <2>2, <2>3, StoreType
    <2>5. slot' \in [Thread -> Slot]
      BY <1>8, <2>2, <2>3 DEF RetireSlot, TypeOK
    <2>6. pc' \in [Thread -> PCs]
      BY <1>8, <2>2, <2>3 DEF RetireSlot, TypeOK, PCs
    <2> QED
      BY <1>8, <2>4, <2>5, <2>6 DEF RetireSlot, TypeOK
  <1>9. CASE RetireActive(t)
    <2>1. Store(t, rec[t], 0, Null)
      BY <1>9 DEF RetireActive
    <2>2. rec[t] \in Rec
      <3>1. pc[t] \notin Outside
        BY <1>9 DEF RetireActive, Outside
      <3> QED  BY <3>1, HasRecord
    <2>3. 0 \in 0..K /\ Null \in Pointer
      BY <1>9 DEF TypeOK
    <2>4. /\ active' \in [Rec -> BOOLEAN]
          /\ pointers' \in [Rec -> [Slot -> Pointer]]
          /\ buf' \in [Thread -> Seq(Pending)]
      BY <2>1, <2>2, <2>3, StoreType
    <2>5. rec' \in [Thread -> 0..MaxRecords]
      BY <1>9, <2>2, <2>3 DEF RetireActive, TypeOK
    <2>6. pc' \in [Thread -> PCs]
      BY <1>9, <2>2, <2>3 DEF RetireActive, TypeOK, PCs
    <2> QED
      BY <1>9, <2>4, <2>5, <2>6 DEF RetireActive, TypeOK
  <1>10. CASE LoadCell(t)
    BY <1>10 DEF LoadCell, TypeOK, Control, ControlOf, PCs, Outside
  <1>11. CASE SetCur(t)
    <2>1. Store(t, rec[t], slot[t], ref[t])
      BY <1>11 DEF SetCur
    <2>2. rec[t] \in Rec
      <3>1. pc[t] \notin Outside
        BY <1>11 DEF SetCur, Outside
      <3> QED  BY <3>1, HasRecord
    <2>3. slot[t] \in 0..K /\ ref[t] \in Pointer
      BY <1>11 DEF TypeOK
    <2>4. /\ active' \in [Rec -> BOOLEAN]
          /\ pointers' \in [Rec -> [Slot -> Pointer]]
          /\ buf' \in [Thread -> Seq(Pending)]
      BY <2>1, <2>2, <2>3, StoreType
    <2>5. pc' \in [Thread -> PCs]
      BY <1>11, <2>2, <2>3 DEF SetCur, TypeOK, PCs
    <2> QED
      BY <1>11, <2>4, <2>5 DEF SetCur, TypeOK
  <1>12. CASE CheckSame(t)
    BY <1>12 DEF CheckSame, TypeOK, Control, ControlOf, PCs, Outside
  <1>13. CASE CheckChanged(t)
    BY <1>13 DEF CheckChanged, TypeOK, Control, ControlOf, PCs, Outside
  <1>14. CASE FailClear(t)
    <2>1. Store(t, rec[t], slot[t], Null)
      BY <1>14 DEF FailClear
    <2>2. rec[t] \in Rec
      <3>1. pc[t] \notin Outside
        BY <1>14 DEF FailClear, Outside
      <3> QED  BY <3>1, HasRecord
    <2>3. slot[t] \in 0..K /\ Null \in Pointer
      BY <1>14 DEF TypeOK
    <2>4. /\ active' \in [Rec -> BOOLEAN]
          /\ pointers' \in [Rec -> [Slot -> Pointer]]
          /\ buf' \in [Thread -> Seq(Pending)]
      BY <2>1, <2>2, <2>3, StoreType
    <2>5. pc' \in [Thread -> PCs]
      BY <1>14, <2>2, <2>3 DEF FailClear, TypeOK, PCs
    <2> QED
      BY <1>14, <2>4, <2>5 DEF FailClear, TypeOK
  <1>15. CASE NewNode(t)
    BY SMTT(40), <1>15 DEF NewNode, TypeOK, Control, ControlOf, PCs, Outside
  <1>16. CASE DropNode(t)
    BY SMTT(40), <1>16 DEF DropNode, TypeOK, Control, ControlOf, PCs, Outside
  <1>17. CASE Exchange(t)
    BY <1>17 DEF Exchange, TypeOK, Control, ControlOf, PCs, Outside
  <1>18. CASE RetireNode(t)
    <2>1. rec[t] \in Rec /\ ref[t] \in Node
      <3>1. pc[t] = "retire" /\ pc[t] \notin Outside
        BY <1>18 DEF RetireNode, Outside
      <3> QED  BY <3>1, HasRecord DEF Control, ControlOf, TypeOK
    <2>2. retireList' \in [Rec -> SUBSET Node]
      BY <1>18, <2>1 DEF RetireNode, TypeOK
    <2>3. pc' \in [Thread -> PCs]
      BY <1>18, <2>1 DEF RetireNode, TypeOK, PCs
    <2> QED
      BY <1>18, <2>2, <2>3 DEF RetireNode, TypeOK
  <1>19. CASE ScanBegin(t)
    BY <1>19 DEF ScanBegin, TypeOK, Control, ControlOf, PCs, Outside
  <1>20. CASE ScanSlot(t)
    <2>1. spos[t] \in 1..MaxRecords /\ sk[t] \in 1..K
      BY <1>20 DEF ScanSlot, TypeOK, Control, ControlOf, Outside
    <2>2. spos' \in [Thread -> 0..MaxRecords]
      BY <1>20, <2>1 DEF ScanSlot, TypeOK
    <2>3. sk' \in [Thread -> Slot]
      BY <1>20, <2>1 DEF ScanSlot, TypeOK
    <2>4. live' \in [Thread -> SUBSET Node]
      BY <1>20, <2>1 DEF ScanSlot, TypeOK
    <2> QED
      BY <1>20, <2>2, <2>3, <2>4 DEF ScanSlot, TypeOK
  <1>21. CASE Sweep(t)
    BY <1>21 DEF Sweep, TypeOK, Control, ControlOf, PCs, Outside
  <1>22. CASE HelpBegin(t)
    BY <1>22 DEF HelpBegin, TypeOK, Control, ControlOf, PCs, Outside
  <1>23. CASE HelpSkip(t)
    <2>1. pos[t] \in 1..MaxRecords
      BY <1>23 DEF HelpSkip, TypeOK, Control, ControlOf, Outside
    <2>2. pos' \in [Thread -> 0..MaxRecords]
      BY <1>23, <2>1 DEF HelpSkip, TypeOK, HelpNext
    <2>3. pc' \in [Thread -> PCs]
      BY <1>23, <2>1 DEF HelpSkip, TypeOK, PCs, HelpNext
    <2> QED
      BY <1>23, <2>2, <2>3 DEF HelpSkip, TypeOK, HelpNext
  <1>24. CASE HelpLock(t)
    BY <1>24 DEF HelpLock, TypeOK, Control, ControlOf, PCs, Outside
  <1>25. CASE Move(t)
    <2>1. rec[t] \in Rec /\ pos[t] \in Rec
      <3>1. pc[t] = "move" /\ pc[t] \notin Outside
        BY <1>25 DEF Move, Outside
      <3>2. pos[t] # 0
        BY <3>1 DEF Control, ControlOf
      <3>3. pos[t] \in Rec
        BY <3>2 DEF TypeOK
      <3> QED  BY <3>1, <3>3, HasRecord
    <2>2. retireList' \in [Rec -> SUBSET Node]
      <3>1. PICK n \in retireList[pos[t]] :
               retireList' = [retireList EXCEPT ![rec[t]] = retireList[rec[t]] \cup {n},
                                                ![pos[t]] = @ \ {n}]
        BY <1>25 DEF Move
      <3>2. n \in Node
        BY <2>1 DEF TypeOK
      <3> QED  BY ZenonT(60), <2>1, <3>1, <3>2 DEF TypeOK
    <2>3. pc' \in [Thread -> PCs]
      BY <1>25, <2>1 DEF Move, TypeOK, PCs
    <2> QED
      BY <1>25, <2>2, <2>3 DEF Move, TypeOK
  <1>26. CASE HelpUnlock(t)
    <2>1. Store(t, pos[t], 0, Null)
      BY <1>26 DEF HelpUnlock
    <2>2. pos[t] \in Rec
      BY <1>26 DEF HelpUnlock, TypeOK, Control, ControlOf, Outside
    <2>3. 0 \in 0..K /\ Null \in Pointer
      BY <1>26 DEF TypeOK
    <2>4. /\ active' \in [Rec -> BOOLEAN]
          /\ pointers' \in [Rec -> [Slot -> Pointer]]
          /\ buf' \in [Thread -> Seq(Pending)]
      BY <2>1, <2>2, <2>3, StoreType
    <2>5. pos' \in [Thread -> 0..MaxRecords]
      BY <1>26, <2>2, <2>3 DEF HelpUnlock, TypeOK, HelpNext
    <2>6. pc' \in [Thread -> PCs]
      BY <1>26, <2>2, <2>3 DEF HelpUnlock, TypeOK, PCs, HelpNext
    <2> QED
      BY <1>26, <2>4, <2>5, <2>6 DEF HelpUnlock, TypeOK, HelpNext
  <1>27. ASSUME NEW k \in Slot, LoadBegin(t, k) PROVE TypeOK'
    BY <1>27 DEF LoadBegin, TypeOK, Control, ControlOf, PCs, Outside
  <1>28. ASSUME NEW k \in Slot, SetHazardFresh(t, k) PROVE TypeOK'
    <2>1. Store(t, rec[t], k, priv[t])
      BY <1>28 DEF SetHazardFresh
    <2>2. rec[t] \in Rec
      <3>1. pc[t] \notin Outside
        BY <1>28 DEF SetHazardFresh, Outside
      <3> QED  BY <3>1, HasRecord
    <2>3. k \in 0..K /\ priv[t] \in Pointer
      BY <1>28 DEF TypeOK
    <2>4. /\ active' \in [Rec -> BOOLEAN]
          /\ pointers' \in [Rec -> [Slot -> Pointer]]
          /\ buf' \in [Thread -> Seq(Pending)]
      BY <2>1, <2>2, <2>3, StoreType
    <2>5. held' \in [Thread -> [Slot -> Pointer]]
      BY <1>28, <2>2, <2>3 DEF SetHazardFresh, TypeOK
    <2> QED
      BY <1>28, <2>4, <2>5 DEF SetHazardFresh, TypeOK
  <1>29. ASSUME NEW k \in Slot, ClearHazard(t, k) PROVE TypeOK'
    <2>1. Store(t, rec[t], k, Null)
      BY <1>29 DEF ClearHazard
    <2>2. rec[t] \in Rec
      <3>1. pc[t] \notin Outside
        BY <1>29 DEF ClearHazard, Outside
      <3> QED  BY <3>1, HasRecord
    <2>3. k \in 0..K /\ Null \in Pointer
      BY <1>29 DEF TypeOK
    <2>4. /\ active' \in [Rec -> BOOLEAN]
          /\ pointers' \in [Rec -> [Slot -> Pointer]]
          /\ buf' \in [Thread -> Seq(Pending)]
      BY <2>1, <2>2, <2>3, StoreType
    <2>5. held' \in [Thread -> [Slot -> Pointer]]
      BY <1>29, <2>2, <2>3 DEF ClearHazard, TypeOK
    <2> QED
      BY <1>29, <2>4, <2>5 DEF ClearHazard, TypeOK
  <1>30. ASSUME NEW i \in Slot, NEW j \in Slot, SetHazardCopy(t, i, j) PROVE TypeOK'
    <2>1. Store(t, rec[t], j, held[t][i])
      BY <1>30 DEF SetHazardCopy
    <2>2. rec[t] \in Rec
      <3>1. pc[t] \notin Outside
        BY <1>30 DEF SetHazardCopy, Outside
      <3> QED  BY <3>1, HasRecord
    <2>3. j \in 0..K /\ held[t][i] \in Pointer
      BY <1>30 DEF TypeOK
    <2>4. /\ active' \in [Rec -> BOOLEAN]
          /\ pointers' \in [Rec -> [Slot -> Pointer]]
          /\ buf' \in [Thread -> Seq(Pending)]
      BY <2>1, <2>2, <2>3, StoreType
    <2>5. held' \in [Thread -> [Slot -> Pointer]]
      BY <1>30, <2>2, <2>3 DEF SetHazardCopy, TypeOK
    <2> QED
      BY <1>30, <2>4, <2>5 DEF SetHazardCopy, TypeOK
  <1>31. CASE Flush(t)
    <2>1. Head(buf[t]) \in Pending /\ Tail(buf[t]) \in Seq(Pending)
      BY <1>31 DEF Flush, Drained, TypeOK
    <2>2. /\ active' \in [Rec -> BOOLEAN]
          /\ pointers' \in [Rec -> [Slot -> Pointer]]
      BY <1>31, <2>1, CommitType DEF Flush
    <2> QED  BY <1>31, <2>1, <2>2 DEF Flush, TypeOK
  <1>32. CASE Destroy
    BY SMTT(40), <1>32 DEF Destroy, TypeOK
  <1> QED
    BY <1>1, <1>2, <1>3, <1>4, <1>5, <1>6, <1>7, <1>8, <1>9, <1>10, <1>11, <1>12, <1>13, <1>14, <1>15, <1>16, <1>17, <1>18, <1>19, <1>20, <1>21, <1>22, <1>23, <1>24, <1>25, <1>26, <1>27, <1>28, <1>29, <1>30, <1>31, <1>32
       DEF Step, Allocate, Retire, LoadAndSetHazard, RetireNodeStep, ClientStep

\* Every action keeps record, position and program counter of each thread in step.
LEMMA ControlStep ==
    ASSUME Basic, TypeOK', NEW t \in Thread, Step(t) \/ Flush(t) \/ Destroy
    PROVE  Control'
  <1> USE KAssumption, BoundAssumption DEF Basic, memory, heap, client, scanner
  <1>1. CASE AllocBegin(t)
    BY SMTT(40), <1>1 DEF AllocBegin, TypeOK, Control, ControlOf, Outside
  <1>2. CASE AllocSkip(t)
    BY SMTT(40), <1>2 DEF AllocSkip, TypeOK, Control, ControlOf, Outside
  <1>3. CASE AllocClaim(t)
    BY SMTT(40), <1>3 DEF AllocClaim, TypeOK, Control, ControlOf, Outside
  <1>4. CASE AllocCount(t)
    BY ZenonT(60), <1>4 DEF AllocCount, TypeOK, Control, ControlOf, Outside
  <1>5. CASE AllocLoad(t)
    BY SMTT(40), <1>5 DEF AllocLoad, TypeOK, Control, ControlOf, Outside
  <1>6. CASE AllocLink(t)
    <2>1. CASE nrec = pos[t]
      <3>1. /\ nrec' = nrec + 1
            /\ rec' = [rec EXCEPT ![t] = nrec + 1]
            /\ pos' = [pos EXCEPT ![t] = 0]
            /\ pc' = [pc EXCEPT ![t] = "ready"]
            /\ UNCHANGED <<ref, spos>>
            /\ pc[t] = "alloc_cas"
        BY <1>6, <2>1 DEF AllocLink
      <3> SUFFICES ASSUME NEW u \in Thread PROVE ControlOf(u)'
        BY DEF Control
      <3>2. ControlOf(u) /\ nrec \in Nat
        BY DEF Control, TypeOK
      <3>3. CASE u = t
        BY <3>1, <3>2, <3>3 DEF TypeOK, ControlOf, Outside
      <3>4. CASE u # t
        <4>1. /\ rec'[u] = rec[u] /\ pos'[u] = pos[u] /\ spos'[u] = spos[u]
              /\ pc'[u] = pc[u] /\ ref'[u] = ref[u]
          BY <3>1, <3>4 DEF TypeOK
        <4>2. pos[u] \in Int /\ spos[u] \in Int
          BY DEF TypeOK
        <4>3. rec[u] \in 1..nrec => rec[u] \in 1..(nrec + 1)
          BY <3>2
        <4> QED  BY <3>1, <3>2, <4>1, <4>2, <4>3 DEF ControlOf
      <3> QED  BY <3>3, <3>4
    <2>2. CASE nrec # pos[t]
      BY SMTT(40), <1>6, <2>2 DEF AllocLink, TypeOK, Control, ControlOf, Outside
    <2> QED  BY <2>1, <2>2
  <1>7. CASE RetireBegin(t)
    BY ZenonT(60), <1>7 DEF RetireBegin, TypeOK, Control, ControlOf, Outside
  <1>8. CASE RetireSlot(t)
    BY ZenonT(60), <1>8 DEF RetireSlot, TypeOK, Control, ControlOf, Outside
  <1>9. CASE RetireActive(t)
    BY <1>9 DEF RetireActive, TypeOK, Control, ControlOf, Outside
  <1>10. CASE LoadCell(t)
    BY ZenonT(60), <1>10 DEF LoadCell, TypeOK, Control, ControlOf, Outside
  <1>11. CASE SetCur(t)
    BY ZenonT(60), <1>11 DEF SetCur, TypeOK, Control, ControlOf, Outside
  <1>12. CASE CheckSame(t)
    BY ZenonT(60), <1>12 DEF CheckSame, TypeOK, Control, ControlOf, Outside
  <1>13. CASE CheckChanged(t)
    <2>1. PICK p \in {"load", "fail"} : pc' = [pc EXCEPT ![t] = p]
      BY <1>13 DEF CheckChanged
    <2>2. /\ pc[t] = "check"
          /\ ref' = [ref EXCEPT ![t] = Null]
          /\ UNCHANGED <<nrec, rec, pos, spos>>
      BY <1>13 DEF CheckChanged
    <2> QED  BY ZenonT(60), <2>1, <2>2 DEF TypeOK, Control, ControlOf, Outside
  <1>14. CASE FailClear(t)
    BY <1>14 DEF FailClear, TypeOK, Control, ControlOf, Outside
  <1>15. CASE NewNode(t)
    BY <1>15 DEF NewNode, TypeOK, Control, ControlOf, Outside
  <1>16. CASE DropNode(t)
    BY <1>16 DEF DropNode, TypeOK, Control, ControlOf, Outside
  <1>17. CASE Exchange(t)
    BY ZenonT(60), <1>17 DEF Exchange, TypeOK, Control, ControlOf, Outside
  <1>18. CASE RetireNode(t)
    BY SMTT(40), <1>18 DEF RetireNode, TypeOK, Control, ControlOf, Outside
  <1>19. CASE ScanBegin(t)
    BY <1>19 DEF ScanBegin, TypeOK, Control, ControlOf, Outside
  <1>20. CASE ScanSlot(t)
    BY SMTT(40), <1>20 DEF ScanSlot, TypeOK, Control, ControlOf, Outside
  <1>21. CASE Sweep(t)
    BY ZenonT(60), <1>21 DEF Sweep, TypeOK, Control, ControlOf, Outside
  <1>22. CASE HelpBegin(t)
    <2>1. nrec # 0
      <3>1. pc[t] \notin Outside
        BY <1>22 DEF HelpBegin, Outside
      <3>2. rec[t] \in Rec /\ rec[t] <= nrec
        BY <3>1, HasRecord
      <3>3. nrec \in Nat
        BY DEF TypeOK
      <3> QED  BY <3>2, <3>3
    <2> QED  BY SMTT(40), <1>22, <2>1 DEF HelpBegin, TypeOK, Control, ControlOf, Outside
  <1>23. CASE HelpSkip(t)
    BY SMTT(40), <1>23 DEF HelpSkip, TypeOK, Control, ControlOf, Outside, HelpNext
  <1>24. CASE HelpLock(t)
    BY ZenonT(60), <1>24 DEF HelpLock, TypeOK, Control, ControlOf, Outside
  <1>25. CASE Move(t)
    BY SMTT(40), <1>25 DEF Move, TypeOK, Control, ControlOf, Outside
  <1>26. CASE HelpUnlock(t)
    <2>1. /\ pc[t] = "move"
          /\ pos' = [pos EXCEPT ![t] = pos[t] - 1]
          /\ pc' = [pc EXCEPT ![t] = IF pos[t] = 1 THEN "ready" ELSE "help"]
          /\ UNCHANGED <<nrec, rec, ref, spos>>
      BY <1>26 DEF HelpUnlock, HelpNext
    <2>2. pos[t] \in 1..nrec
      BY SMTT(40), <2>1 DEF TypeOK, Control, ControlOf
    <2> SUFFICES ASSUME NEW u \in Thread PROVE ControlOf(u)'
      BY DEF Control
    <2>3. ControlOf(u) /\ nrec \in Nat
      BY DEF Control, TypeOK
    <2>4. CASE u = t
      BY <2>1, <2>2, <2>3, <2>4 DEF TypeOK, ControlOf, Outside
    <2>5. CASE u # t
      BY <2>1, <2>3, <2>5 DEF TypeOK, ControlOf, Outside
    <2> QED  BY <2>4, <2>5
  <1>27. ASSUME NEW k \in Slot, LoadBegin(t, k) PROVE Control'
    BY ZenonT(60), <1>27 DEF LoadBegin, TypeOK, Control, ControlOf, Outside
  <1>28. ASSUME NEW k \in Slot, SetHazardFresh(t, k) PROVE Control'
    BY <1>28 DEF SetHazardFresh, TypeOK, Control, ControlOf, Outside
  <1>29. ASSUME NEW k \in Slot, ClearHazard(t, k) PROVE Control'
    BY <1>29 DEF ClearHazard, TypeOK, Control, ControlOf, Outside
  <1>30. ASSUME NEW i \in Slot, NEW j \in Slot, SetHazardCopy(t, i, j) PROVE Control'
    BY <1>30 DEF SetHazardCopy, TypeOK, Control, ControlOf, Outside
  <1>31. CASE Flush(t)
    BY <1>31 DEF Flush, TypeOK, Control, ControlOf, Outside
  <1>32. CASE Destroy
    BY SMTT(40), <1>32 DEF Destroy, TypeOK, Control, ControlOf, Outside
  <1> QED
    BY <1>1, <1>2, <1>3, <1>4, <1>5, <1>6, <1>7, <1>8, <1>9, <1>10, <1>11, <1>12, <1>13, <1>14, <1>15, <1>16, <1>17, <1>18, <1>19, <1>20, <1>21, <1>22, <1>23, <1>24, <1>25, <1>26, <1>27, <1>28, <1>29, <1>30, <1>31, <1>32
       DEF Step, Allocate, Retire, LoadAndSetHazard, RetireNodeStep, ClientStep

\* Cardinality of Pushing under the two changes it undergoes.
LEMMA PushingFinite == IsFiniteSet(Pushing) /\ Cardinality(Pushing) \in Nat
  BY ThreadAssumption, FS_Subset, FS_CardinalityType DEF Pushing

\* Every action keeps hp_count_ equal to the linked records and those being pushed.
LEMMA CountedStep ==
    ASSUME Basic, TypeOK', NEW t \in Thread, Step(t) \/ Flush(t) \/ Destroy
    PROVE  CountedRecords'
  <1> USE DEF Basic, memory, heap, client, scanner
  <1>1. CASE AllocCount(t)
    <2>1. Pushing' = Pushing \cup {t} /\ t \notin Pushing
      BY <1>1 DEF AllocCount, Pushing, TypeOK
    <2>2. Cardinality(Pushing') = Cardinality(Pushing) + 1
      BY <2>1, PushingFinite, FS_AddElement
    <2> QED  BY <1>1, <2>2, PushingFinite DEF AllocCount, CountedRecords, TypeOK
  <1>2. CASE AllocLink(t) /\ nrec = pos[t]
    <2>1. Pushing' = Pushing \ {t} /\ t \in Pushing
      BY <1>2 DEF AllocLink, Pushing, TypeOK
    <2>2. Cardinality(Pushing') = Cardinality(Pushing) - 1
      BY <2>1, PushingFinite, FS_RemoveElement
    <2>3. nrec' = nrec + 1 /\ hpCount' = hpCount
      BY <1>2 DEF AllocLink
    <2> QED  BY <2>2, <2>3, PushingFinite DEF CountedRecords, TypeOK
  <1>3. CASE Destroy
    <2>1. Pushing = {} /\ Pushing' = {}
      BY <1>3 DEF Destroy, Pushing
    <2> QED  BY <1>3, <2>1, FS_EmptySet DEF Destroy, CountedRecords
  <1>4. ASSUME UNCHANGED <<nrec, hpCount>>, Pushing' = Pushing
        PROVE  CountedRecords'
    BY <1>4 DEF CountedRecords
  <1>5. CASE AllocBegin(t)
    BY <1>5, <1>4 DEF AllocBegin, Pushing, TypeOK
  <1>6. CASE AllocSkip(t)
    BY <1>6, <1>4 DEF AllocSkip, Pushing, TypeOK
  <1>7. CASE AllocClaim(t)
    BY <1>7, <1>4 DEF AllocClaim, Pushing, TypeOK
  <1>8. CASE AllocLoad(t)
    BY <1>8, <1>4 DEF AllocLoad, Pushing, TypeOK
  <1>9. CASE AllocLink(t) /\ nrec # pos[t]
    BY <1>9, <1>4 DEF AllocLink, Pushing, TypeOK
  <1>10. CASE RetireBegin(t)
    BY <1>10, <1>4 DEF RetireBegin, Pushing, TypeOK
  <1>11. CASE RetireSlot(t)
    BY <1>11, <1>4 DEF RetireSlot, Pushing, TypeOK
  <1>12. CASE RetireActive(t)
    BY <1>12, <1>4 DEF RetireActive, Pushing, TypeOK
  <1>13. CASE LoadCell(t)
    BY <1>13, <1>4 DEF LoadCell, Pushing, TypeOK
  <1>14. CASE SetCur(t)
    BY <1>14, <1>4 DEF SetCur, Pushing, TypeOK
  <1>15. CASE CheckSame(t)
    BY <1>15, <1>4 DEF CheckSame, Pushing, TypeOK
  <1>16. CASE CheckChanged(t)
    BY <1>16, <1>4 DEF CheckChanged, Pushing, TypeOK
  <1>17. CASE FailClear(t)
    BY <1>17, <1>4 DEF FailClear, Pushing, TypeOK
  <1>18. CASE NewNode(t)
    BY <1>18, <1>4 DEF NewNode, Pushing, TypeOK
  <1>19. CASE DropNode(t)
    BY <1>19, <1>4 DEF DropNode, Pushing, TypeOK
  <1>20. CASE Exchange(t)
    BY <1>20, <1>4 DEF Exchange, Pushing, TypeOK
  <1>21. CASE RetireNode(t)
    BY <1>21, <1>4 DEF RetireNode, Pushing, TypeOK
  <1>22. CASE ScanBegin(t)
    BY <1>22, <1>4 DEF ScanBegin, Pushing, TypeOK
  <1>23. CASE ScanSlot(t)
    BY <1>23, <1>4 DEF ScanSlot, Pushing, TypeOK
  <1>24. CASE Sweep(t)
    BY <1>24, <1>4 DEF Sweep, Pushing, TypeOK
  <1>25. CASE HelpBegin(t)
    BY <1>25, <1>4 DEF HelpBegin, Pushing, TypeOK
  <1>26. CASE HelpSkip(t)
    BY <1>26, <1>4 DEF HelpSkip, Pushing, TypeOK, HelpNext
  <1>27. CASE HelpLock(t)
    BY <1>27, <1>4 DEF HelpLock, Pushing, TypeOK
  <1>28. CASE Move(t)
    BY <1>28, <1>4 DEF Move, Pushing, TypeOK
  <1>29. CASE HelpUnlock(t)
    BY <1>29, <1>4 DEF HelpUnlock, Pushing, TypeOK, HelpNext
  <1>30. ASSUME NEW k \in Slot, LoadBegin(t, k) PROVE CountedRecords'
    BY <1>30, <1>4 DEF LoadBegin, Pushing, TypeOK
  <1>31. ASSUME NEW k \in Slot, SetHazardFresh(t, k) PROVE CountedRecords'
    BY <1>31, <1>4 DEF SetHazardFresh, Pushing, TypeOK
  <1>32. ASSUME NEW k \in Slot, ClearHazard(t, k) PROVE CountedRecords'
    BY <1>32, <1>4 DEF ClearHazard, Pushing, TypeOK
  <1>33. ASSUME NEW i \in Slot, NEW j \in Slot, SetHazardCopy(t, i, j) PROVE CountedRecords'
    BY <1>33, <1>4 DEF SetHazardCopy, Pushing, TypeOK
  <1>34. CASE Flush(t)
    BY <1>34, <1>4 DEF Flush, Pushing, TypeOK
  <1> QED
    BY <1>1, <1>2, <1>3, <1>5, <1>6, <1>7, <1>8, <1>9, <1>10, <1>11, <1>12, <1>13, <1>14, <1>15, <1>16, <1>17, <1>18, <1>19, <1>20, <1>21, <1>22, <1>23, <1>24, <1>25, <1>26, <1>27, <1>28, <1>29, <1>30, <1>31, <1>32, <1>33, <1>34
       DEF Step, Allocate, Retire, LoadAndSetHazard, RetireNodeStep, ClientStep

\* The inductive invariant holds of the empty record list.
LEMMA BasicInit == Init => Basic
  <1> SUFFICES ASSUME Init PROVE Basic
    OBVIOUS
  <1> USE KAssumption, BoundAssumption DEF Init
  <1>1. TypeOK
    BY DEF TypeOK, PCs
  <1>2. Control
    BY DEF Control, ControlOf, Outside
  <1>3. CountedRecords
    <2>1. Pushing = {}
      BY DEF Pushing
    <2> QED  BY <2>1, FS_EmptySet DEF CountedRecords
  <1> QED  BY <1>1, <1>2, <1>3 DEF Basic

\* The inductive invariant is kept by every step.
LEMMA BasicNext == Basic /\ [Next]_vars => Basic'
  <1> SUFFICES ASSUME Basic, [Next]_vars PROVE Basic'
    OBVIOUS
  <1>1. ASSUME NEW t \in Thread, Step(t) \/ Flush(t) \/ Destroy
        PROVE  Basic'
    <2>1. TypeOK'
      BY <1>1, TypeStep
    <2> QED  BY <1>1, <2>1, ControlStep, CountedStep DEF Basic
  <1>2. CASE UNCHANGED vars
    BY <1>2 DEF Basic, TypeOK, Control, ControlOf, CountedRecords, Pushing,
                vars, memory, heap, client, scanner
  <1>3. CASE Next
    BY <1>1, <1>3, ThreadAssumption DEF Next
  <1> QED  BY <1>2, <1>3

\* The type invariant, in both memory models: indices stay within the records and
\* slots, also across the store buffers.
THEOREM TypeCorrect == Spec => []TypeOK
  <1>1. Basic => TypeOK
    BY DEF Basic
  <1> QED  BY <1>1, BasicInit, BasicNext, PTL DEF Spec

\* hp_count_ counts every record on the list and every push under way, in both
\* memory models.
THEOREM BasicCorrect == Spec => []CountedRecords
  <1>1. Basic => CountedRecords
    BY DEF Basic
  <1> QED  BY <1>1, BasicInit, BasicNext, PTL DEF Spec

-----------------------------------------------------------------------------
(* One writer per retire list, with store buffers and without *)

\* How records change hands in a step: a thread takes on a record that was new
\* or inactive, and only a thread that writes a record makes it inactive.
Handed ==
    /\ nrec <= nrec'
    /\ \A u \in Thread, r \in Rec : Writes(u, r)' => Writes(u, r) \/ r > nrec \/ ~active[r]
    /\ \A r \in Rec : active[r] /\ ~active'[r] => \E u \in Thread : Writes(u, r)

\* No thread takes on a record, and records given up may become inactive.
LEMMA ExclusiveFrame ==
    ASSUME RecordsExclusive, nrec \in Nat, nrec' \in Nat, nrec <= nrec',
           \A u \in Thread : Helping(u)' => Helping(u) /\ pos'[u] = pos[u] /\ rec'[u] = rec[u],
           \A u \in Thread, r \in Rec : Writes(u, r)' => Writes(u, r) /\ active'[r] = active[r],
           \A r \in Rec : active[r] /\ ~active'[r] => \E u \in Thread : Writes(u, r)
    PROVE  RecordsExclusive' /\ Handed
  <1> SUFFICES RecordsExclusive'
    BY DEF Handed
  <1> SUFFICES ASSUME NEW u \in Thread
               PROVE  /\ Helping(u)' => pos'[u] # rec'[u]
                      /\ \A r \in Rec : Writes(u, r)' =>
                            /\ r <= nrec' /\ active'[r]
                            /\ \A v \in Thread \ {u} : ~Writes(v, r)'
    BY Zenon DEF RecordsExclusive
  <1>1. Helping(u)' => pos'[u] # rec'[u]
    BY DEF RecordsExclusive
  <1>2. ASSUME NEW r \in Rec, Writes(u, r)'
        PROVE  r <= nrec' /\ active'[r] /\ \A v \in Thread \ {u} : ~Writes(v, r)'
    <2>1. Writes(u, r) /\ active'[r] = active[r]
      BY <1>2, Zenon
    <2>2. r <= nrec /\ active[r] /\ \A v \in Thread \ {u} : ~Writes(v, r)
      BY <2>1, Zenon DEF RecordsExclusive
    <2>3. r <= nrec'
      BY <2>2, BoundAssumption
    <2> QED  BY <2>1, <2>2, <2>3, Zenon
  <1> QED  BY <1>1, <1>2, Zenon

\* A thread takes on record s, which no other thread writes.
LEMMA ExclusiveClaim ==
    ASSUME RecordsExclusive, nrec \in Nat, nrec' \in Nat, nrec <= nrec',
           NEW t \in Thread, NEW s \in Rec, s <= nrec', s > nrec \/ ~active[s],
           active' = [active EXCEPT ![s] = TRUE], active \in [Rec -> BOOLEAN],
           \A u \in Thread : Helping(u)' => pos'[u] # rec'[u],
           \A u \in Thread, r \in Rec : Writes(u, r)' => Writes(u, r) \/ (u = t /\ r = s)
    PROVE  RecordsExclusive' /\ Handed
  <1>0. Handed
    <2>1. \A r \in Rec : active[r] => active'[r]
      BY Zenon
    <2> QED  BY <2>1, Zenon DEF Handed
  <1> SUFFICES RecordsExclusive'
    BY <1>0
  <1> SUFFICES ASSUME NEW u \in Thread, NEW r \in Rec, Writes(u, r)'
               PROVE  /\ r <= nrec' /\ active'[r]
                      /\ \A v \in Thread \ {u} : ~Writes(v, r)'
    BY Zenon DEF RecordsExclusive
  <1>1. \A v \in Thread : ~Writes(v, s)
    <2> SUFFICES ASSUME NEW v \in Thread, Writes(v, s) PROVE FALSE
      OBVIOUS
    <2>1. s <= nrec /\ active[s]
      BY Zenon DEF RecordsExclusive
    <2>2. ~(s > nrec)
      BY <2>1, BoundAssumption
    <2> QED  BY <2>1, <2>2, Zenon
  <1>2. CASE r = s
    <2>1. active'[r]
      BY <1>2, Zenon
    <2>2. \A v \in Thread : Writes(v, r)' => v = t
      BY <1>1, <1>2, Zenon
    <2> QED  BY <1>2, <2>1, <2>2, Zenon
  <1>3. CASE r # s
    <2>1. Writes(u, r)
      BY <1>3, Zenon
    <2>2. r <= nrec /\ active[r] /\ \A v \in Thread \ {u} : ~Writes(v, r)
      BY <2>1, Zenon DEF RecordsExclusive
    <2>3. r <= nrec'
      BY <2>2, BoundAssumption
    <2>4. active'[r]
      BY <1>3, <2>2, Zenon
    <2> QED  BY <1>3, <2>2, <2>3, <2>4, Zenon
  <1> QED  BY <1>2, <1>3

\* No record changes hands.
LEMMA ExclusiveSame ==
    ASSUME RecordsExclusive, nrec \in Nat, UNCHANGED <<nrec, active, rec>>,
           \A u \in Thread : Helping(u)' => Helping(u) /\ pos'[u] = pos[u]
    PROVE  RecordsExclusive' /\ Handed
  <1>1. \A u \in Thread, r \in Rec : Writes(u, r)' => Writes(u, r) /\ active'[r] = active[r]
    BY Zenon DEF Writes
  <1> QED  BY <1>1, ExclusiveFrame

\* A store to a hazard slot leaves active_ alone, buffered or not.
LEMMA SlotStore ==
    ASSUME NEW t \in Thread, NEW r \in Rec, NEW k \in Slot, NEW v \in Pointer, Store(t, r, k, v)
    PROVE  UNCHANGED active
  <1>1. k # 0
    BY KAssumption
  <1> QED  BY <1>1 DEF Store, Commit

\* A store to active_ reaches memory at once or waits in the store buffer.
LEMMA ReleaseStore ==
    ASSUME NEW t \in Thread, NEW r \in Rec, Store(t, r, 0, Null)
    PROVE  active' = active \/ active' = [active EXCEPT ![r] = FALSE]
  BY DEF Store, Commit

\* Every action keeps one writer per record: allocate and helpScan take a
\* record only through the CAS on active_.
LEMMA ExclusiveStep ==
    ASSUME Basic, Basic', RecordsExclusive, NEW t \in Thread, Step(t)
    PROVE  RecordsExclusive' /\ Handed
  <1> USE KAssumption, BoundAssumption DEF Basic, memory, heap, client, scanner
  <1>1. CASE AllocBegin(t)
    <2>1. \A u \in Thread : Helping(u)' => Helping(u) /\ pos'[u] = pos[u]
      BY <1>1 DEF AllocBegin, Helping, TypeOK, Control, ControlOf
    <2> QED  BY <1>1, <2>1, ExclusiveSame DEF AllocBegin, TypeOK
  <1>2. CASE AllocSkip(t)
    <2>1. \A u \in Thread : Helping(u)' => Helping(u) /\ pos'[u] = pos[u]
      BY <1>2 DEF AllocSkip, Helping, TypeOK, Control, ControlOf
    <2> QED  BY <1>2, <2>1, ExclusiveSame DEF AllocSkip, TypeOK
  <1>3. CASE AllocClaim(t)
    <2>1. pos[t] \in Rec /\ pos[t] <= nrec /\ ~active[pos[t]]
      BY <1>3 DEF AllocClaim, TypeOK, Control, ControlOf
    <2>2. \A u \in Thread : Helping(u)' => Helping(u) /\ u # t /\ pos'[u] = pos[u] /\ rec'[u] = rec[u]
      BY <1>3 DEF AllocClaim, Helping, TypeOK
    <2>3. \A u \in Thread : rec'[u] = IF u = t THEN pos[t] ELSE rec[u]
      BY <1>3 DEF AllocClaim, TypeOK
    <2>4. \A u \in Thread, r \in Rec : Writes(u, r)' => Writes(u, r) \/ (u = t /\ r = pos[t])
      BY <2>2, <2>3 DEF Writes
    <2>5. \A u \in Thread : Helping(u)' => pos'[u] # rec'[u]
      BY <2>2, Zenon DEF RecordsExclusive
    <2>6. active' = [active EXCEPT ![pos[t]] = TRUE] /\ nrec' = nrec
      BY <1>3 DEF AllocClaim
    <2>7. nrec \in Nat /\ nrec <= nrec /\ active \in [Rec -> BOOLEAN]
      BY DEF TypeOK
    <2> QED  BY ZenonT(60), <2>1, <2>4, <2>5, <2>6, <2>7, ExclusiveClaim
  <1>4. CASE AllocCount(t)
    <2>1. \A u \in Thread : Helping(u)' => Helping(u) /\ pos'[u] = pos[u]
      BY <1>4 DEF AllocCount, Helping, TypeOK, Control, ControlOf
    <2> QED  BY <1>4, <2>1, ExclusiveSame DEF AllocCount, TypeOK
  <1>5. CASE AllocLoad(t)
    <2>1. \A u \in Thread : Helping(u)' => Helping(u) /\ pos'[u] = pos[u]
      BY <1>5 DEF AllocLoad, Helping, TypeOK, Control, ControlOf
    <2> QED  BY <1>5, <2>1, ExclusiveSame DEF AllocLoad, TypeOK
  <1>6. CASE AllocLink(t)
    <2>1. CASE nrec = pos[t]
      <3>1. /\ nrec' = nrec + 1
            /\ active' = [active EXCEPT ![nrec + 1] = TRUE]
            /\ rec' = [rec EXCEPT ![t] = nrec + 1]
            /\ pos' = [pos EXCEPT ![t] = 0]
            /\ pc' = [pc EXCEPT ![t] = "ready"]
            /\ pc[t] = "alloc_cas"
        BY <1>6, <2>1 DEF AllocLink
      <3>2. nrec + 1 \in Rec /\ nrec + 1 > nrec
        BY <3>1, RoomToLink DEF TypeOK
      <3>3. \A u \in Thread : Helping(u)' => Helping(u) /\ u # t /\ pos'[u] = pos[u] /\ rec'[u] = rec[u]
        BY <3>1 DEF Helping, TypeOK
      <3>4. \A u \in Thread : rec'[u] = IF u = t THEN nrec + 1 ELSE rec[u]
        BY <3>1 DEF TypeOK
      <3>5. \A u \in Thread, r \in Rec : Writes(u, r)' => Writes(u, r) \/ (u = t /\ r = nrec + 1)
        BY <3>3, <3>4 DEF Writes
      <3>6. \A u \in Thread : Helping(u)' => pos'[u] # rec'[u]
        BY <3>3, Zenon DEF RecordsExclusive
      <3>7. nrec \in Nat /\ nrec' \in Nat /\ nrec <= nrec' /\ nrec + 1 <= nrec'
        BY <3>1 DEF TypeOK
      <3>8. active \in [Rec -> BOOLEAN]
        BY DEF TypeOK
      <3> QED  BY ZenonT(60), <3>1, <3>2, <3>5, <3>6, <3>7, <3>8, ExclusiveClaim
    <2>2. CASE nrec # pos[t]
      <3>1. \A u \in Thread : Helping(u)' => Helping(u) /\ pos'[u] = pos[u]
        BY ZenonT(60), <1>6, <2>2 DEF AllocLink, Helping, TypeOK
      <3> QED  BY <1>6, <2>2, <3>1, ExclusiveSame DEF AllocLink, TypeOK
    <2> QED  BY <2>1, <2>2
  <1>7. CASE RetireBegin(t)
    <2>1. \A u \in Thread : Helping(u)' => Helping(u) /\ pos'[u] = pos[u]
      BY <1>7 DEF RetireBegin, Helping, TypeOK, Control, ControlOf
    <2> QED  BY <1>7, <2>1, ExclusiveSame DEF RetireBegin, TypeOK
  <1>8. CASE RetireSlot(t)
    <2>1. \A u \in Thread : Helping(u)' => Helping(u) /\ pos'[u] = pos[u]
      BY <1>8 DEF RetireSlot, Helping, TypeOK
    <2>2. pc[t] \notin Outside /\ slot[t] \in Slot /\ Null \in Pointer
      BY <1>8 DEF RetireSlot, Outside, TypeOK
    <2>3. UNCHANGED active
      BY <1>8, <2>2, HasRecord, SlotStore DEF RetireSlot
    <2> QED  BY <1>8, <2>1, <2>3, ExclusiveSame DEF RetireSlot, TypeOK
  <1>9. CASE RetireActive(t)
    <2>1. rec[t] \in Rec /\ Store(t, rec[t], 0, Null)
      <3>1. pc[t] \notin Outside
        BY <1>9 DEF RetireActive, Outside
      <3> QED  BY <1>9, <3>1, HasRecord DEF RetireActive
    <2>2. active' = active \/ active' = [active EXCEPT ![rec[t]] = FALSE]
      BY <2>1, ReleaseStore
    <2>3. \A u \in Thread : Helping(u)' => Helping(u) /\ u # t /\ pos'[u] = pos[u] /\ rec'[u] = rec[u]
      BY <1>9 DEF RetireActive, Helping, TypeOK
    <2>4. \A u \in Thread : rec'[u] = IF u = t THEN 0 ELSE rec[u]
      BY <1>9 DEF RetireActive, TypeOK
    <2>5. \A u \in Thread, r \in Rec : Writes(u, r)' => Writes(u, r) /\ (u = t => r # rec[t])
      BY <2>1, <2>3, <2>4 DEF Writes
    <2>6. Writes(t, rec[t])
      BY <1>9, <2>1 DEF Writes, Helping, RetireActive
    <2>7. ASSUME NEW u \in Thread, NEW r \in Rec, Writes(u, r)'
          PROVE  Writes(u, r) /\ active'[r] = active[r]
      <3>1. Writes(u, r)
        BY <2>5, <2>7
      <3>2. r # rec[t]
        BY <2>1, <2>5, <2>6, <2>7, <3>1, Zenon DEF RecordsExclusive
      <3>3. active'[r] = active[r]
        BY <2>2, <3>2, Zenon DEF TypeOK
      <3> QED  BY <3>1, <3>3
    <2>8. \A r \in Rec : active[r] /\ ~active'[r] => r = rec[t]
      BY <2>1, <2>2, Zenon DEF TypeOK
    <2>9. nrec' = nrec /\ nrec \in Nat
      BY <1>9 DEF RetireActive, TypeOK
    <2> QED  BY <2>3, <2>6, <2>7, <2>8, <2>9, ExclusiveFrame
  <1>10. CASE LoadCell(t)
    <2>1. \A u \in Thread : Helping(u)' => Helping(u) /\ pos'[u] = pos[u]
      BY <1>10 DEF LoadCell, Helping, TypeOK, Control, ControlOf
    <2> QED  BY <1>10, <2>1, ExclusiveSame DEF LoadCell, TypeOK
  <1>11. CASE SetCur(t)
    <2>1. \A u \in Thread : Helping(u)' => Helping(u) /\ pos'[u] = pos[u]
      BY <1>11 DEF SetCur, Helping, TypeOK
    <2>2. pc[t] \notin Outside /\ slot[t] \in Slot /\ ref[t] \in Pointer
      BY <1>11 DEF SetCur, Outside, TypeOK
    <2>3. UNCHANGED active
      BY <1>11, <2>2, HasRecord, SlotStore DEF SetCur
    <2> QED  BY <1>11, <2>1, <2>3, ExclusiveSame DEF SetCur, TypeOK
  <1>12. CASE CheckSame(t)
    <2>1. \A u \in Thread : Helping(u)' => Helping(u) /\ pos'[u] = pos[u]
      BY <1>12 DEF CheckSame, Helping, TypeOK, Control, ControlOf
    <2> QED  BY <1>12, <2>1, ExclusiveSame DEF CheckSame, TypeOK
  <1>13. CASE CheckChanged(t)
    <2>1. \A u \in Thread : Helping(u)' => Helping(u) /\ pos'[u] = pos[u]
      BY SMTT(40), <1>13 DEF CheckChanged, Helping, TypeOK, Control, ControlOf
    <2> QED  BY <1>13, <2>1, ExclusiveSame DEF CheckChanged, TypeOK
  <1>14. CASE FailClear(t)
    <2>1. \A u \in Thread : Helping(u)' => Helping(u) /\ pos'[u] = pos[u]
      BY <1>14 DEF FailClear, Helping, TypeOK
    <2>2. pc[t] \notin Outside /\ slot[t] \in Slot /\ Null \in Pointer
      BY <1>14 DEF FailClear, Outside, TypeOK
    <2>3. UNCHANGED active
      BY <1>14, <2>2, HasRecord, SlotStore DEF FailClear
    <2> QED  BY <1>14, <2>1, <2>3, ExclusiveSame DEF FailClear, TypeOK
  <1>15. CASE NewNode(t)
    <2>1. \A u \in Thread : Helping(u)' => Helping(u) /\ pos'[u] = pos[u]
      BY <1>15 DEF NewNode, Helping, TypeOK, Control, ControlOf
    <2> QED  BY <1>15, <2>1, ExclusiveSame DEF NewNode, TypeOK
  <1>16. CASE DropNode(t)
    <2>1. \A u \in Thread : Helping(u)' => Helping(u) /\ pos'[u] = pos[u]
      BY <1>16 DEF DropNode, Helping, TypeOK, Control, ControlOf
    <2> QED  BY <1>16, <2>1, ExclusiveSame DEF DropNode, TypeOK
  <1>17. CASE Exchange(t)
    <2>1. \A u \in Thread : Helping(u)' => Helping(u) /\ pos'[u] = pos[u]
      BY <1>17 DEF Exchange, Helping, TypeOK, Control, ControlOf
    <2> QED  BY <1>17, <2>1, ExclusiveSame DEF Exchange, TypeOK
  <1>18. CASE RetireNode(t)
    <2>1. \A u \in Thread : Helping(u)' => Helping(u) /\ pos'[u] = pos[u]
      BY <1>18 DEF RetireNode, Helping, TypeOK, Control, ControlOf
    <2> QED  BY <1>18, <2>1, ExclusiveSame DEF RetireNode, TypeOK
  <1>19. CASE ScanBegin(t)
    <2>1. \A u \in Thread : Helping(u)' => Helping(u) /\ pos'[u] = pos[u]
      BY <1>19 DEF ScanBegin, Helping, TypeOK, Control, ControlOf
    <2> QED  BY <1>19, <2>1, ExclusiveSame DEF ScanBegin, TypeOK
  <1>20. CASE ScanSlot(t)
    <2>1. \A u \in Thread : Helping(u)' => Helping(u) /\ pos'[u] = pos[u]
      BY <1>20 DEF ScanSlot, Helping, TypeOK, Control, ControlOf
    <2> QED  BY <1>20, <2>1, ExclusiveSame DEF ScanSlot, TypeOK
  <1>21. CASE Sweep(t)
    <2>1. \A u \in Thread : Helping(u)' => Helping(u) /\ pos'[u] = pos[u]
      BY SMTT(40), <1>21 DEF Sweep, Helping, TypeOK, Control, ControlOf
    <2> QED  BY <1>21, <2>1, ExclusiveSame DEF Sweep, TypeOK
  <1>22. CASE HelpBegin(t)
    <2>1. \A u \in Thread : Helping(u)' => Helping(u) /\ pos'[u] = pos[u]
      BY <1>22 DEF HelpBegin, Helping, TypeOK, Control, ControlOf
    <2> QED  BY <1>22, <2>1, ExclusiveSame DEF HelpBegin, TypeOK
  <1>23. CASE HelpSkip(t)
    <2>1. \A u \in Thread : Helping(u)' => Helping(u) /\ pos'[u] = pos[u]
      BY <1>23 DEF HelpSkip, Helping, TypeOK, Control, ControlOf, HelpNext
    <2> QED  BY <1>23, <2>1, ExclusiveSame DEF HelpSkip, TypeOK
  <1>24. CASE HelpLock(t)
    <2>1. pos[t] \in Rec /\ pos[t] <= nrec /\ ~active[pos[t]] /\ pos[t] # rec[t]
      BY <1>24 DEF HelpLock, TypeOK, Control, ControlOf
    <2>2. \A u \in Thread : Helping(u)' => Helping(u) \/ u = t
      BY <1>24 DEF HelpLock, Helping, TypeOK
    <2>3. /\ active' = [active EXCEPT ![pos[t]] = TRUE]
          /\ nrec' = nrec /\ rec' = rec /\ pos' = pos
      BY <1>24 DEF HelpLock
    <2>4. \A u \in Thread, r \in Rec : Writes(u, r)' => Writes(u, r) \/ (u = t /\ r = pos[t])
      BY <2>2, <2>3, Zenon DEF Writes
    <2>5. \A u \in Thread : Helping(u)' => pos'[u] # rec'[u]
      BY <2>1, <2>2, <2>3, Zenon DEF RecordsExclusive
    <2>6. nrec \in Nat /\ nrec <= nrec /\ active \in [Rec -> BOOLEAN]
      BY DEF TypeOK
    <2> QED  BY <2>1, <2>3, <2>4, <2>5, <2>6, ExclusiveClaim
  <1>25. CASE Move(t)
    <2>1. \A u \in Thread : Helping(u)' => Helping(u) /\ pos'[u] = pos[u]
      BY SMTT(40), <1>25 DEF Move, Helping, TypeOK, Control, ControlOf
    <2> QED  BY <1>25, <2>1, ExclusiveSame DEF Move, TypeOK
  <1>26. CASE HelpUnlock(t)
    <2>1. pos[t] \in Rec /\ Store(t, pos[t], 0, Null)
      BY <1>26 DEF HelpUnlock, TypeOK, Control, ControlOf
    <2>2. active' = active \/ active' = [active EXCEPT ![pos[t]] = FALSE]
      BY <2>1, ReleaseStore
    <2>3. \A u \in Thread : Helping(u)' => Helping(u) /\ u # t /\ pos'[u] = pos[u] /\ rec'[u] = rec[u]
      BY <1>26 DEF HelpUnlock, Helping, TypeOK, HelpNext
    <2>4. \A u \in Thread : rec'[u] = rec[u]
      BY <1>26 DEF HelpUnlock, TypeOK
    <2>5. \A u \in Thread, r \in Rec : Writes(u, r)' => Writes(u, r) /\ (u = t => r # pos[t])
      <3>1. pos[t] # rec[t]
        BY <1>26 DEF HelpUnlock, RecordsExclusive, Helping
      <3> QED  BY <2>1, <2>3, <2>4, <3>1 DEF Writes
    <2>6. Writes(t, pos[t])
      BY <1>26, <2>1 DEF Writes, Helping, HelpUnlock
    <2>7. ASSUME NEW u \in Thread, NEW r \in Rec, Writes(u, r)'
          PROVE  Writes(u, r) /\ active'[r] = active[r]
      <3>1. Writes(u, r)
        BY <2>5, <2>7
      <3>2. r # pos[t]
        BY <2>1, <2>5, <2>6, <2>7, <3>1, Zenon DEF RecordsExclusive
      <3>3. active'[r] = active[r]
        BY <2>2, <3>2, Zenon DEF TypeOK
      <3> QED  BY <3>1, <3>3
    <2>8. \A r \in Rec : active[r] /\ ~active'[r] => r = pos[t]
      BY <2>1, <2>2, Zenon DEF TypeOK
    <2>9. nrec' = nrec /\ nrec \in Nat
      BY <1>26 DEF HelpUnlock, TypeOK
    <2> QED  BY <2>3, <2>6, <2>7, <2>8, <2>9, ExclusiveFrame
  <1>27. ASSUME NEW k \in Slot, LoadBegin(t, k) PROVE RecordsExclusive' /\ Handed
    <2>1. \A u \in Thread : Helping(u)' => Helping(u) /\ pos'[u] = pos[u]
      BY <1>27 DEF LoadBegin, Helping, TypeOK, Control, ControlOf
    <2> QED  BY <1>27, <2>1, ExclusiveSame DEF LoadBegin, TypeOK
  <1>28. ASSUME NEW k \in Slot, SetHazardFresh(t, k) PROVE RecordsExclusive' /\ Handed
    <2>1. \A u \in Thread : Helping(u)' => Helping(u) /\ pos'[u] = pos[u]
      BY <1>28 DEF SetHazardFresh, Helping, TypeOK
    <2>2. pc[t] \notin Outside /\ k \in Slot /\ priv[t] \in Pointer
      BY <1>28 DEF SetHazardFresh, Outside, TypeOK
    <2>3. UNCHANGED active
      BY <1>28, <2>2, HasRecord, SlotStore DEF SetHazardFresh
    <2> QED  BY <1>28, <2>1, <2>3, ExclusiveSame DEF SetHazardFresh, TypeOK
  <1>29. ASSUME NEW k \in Slot, ClearHazard(t, k) PROVE RecordsExclusive' /\ Handed
    <2>1. \A u \in Thread : Helping(u)' => Helping(u) /\ pos'[u] = pos[u]
      BY <1>29 DEF ClearHazard, Helping, TypeOK
    <2>2. pc[t] \notin Outside /\ k \in Slot /\ Null \in Pointer
      BY <1>29 DEF ClearHazard, Outside, TypeOK
    <2>3. UNCHANGED active
      BY <1>29, <2>2, HasRecord, SlotStore DEF ClearHazard
    <2> QED  BY <1>29, <2>1, <2>3, ExclusiveSame DEF ClearHazard, TypeOK
  <1>30. ASSUME NEW i \in Slot, NEW j \in Slot, SetHazardCopy(t, i, j) PROVE RecordsExclusive' /\ Handed
    <2>1. \A u \in Thread : Helping(u)' => Helping(u) /\ pos'[u] = pos[u]
      BY <1>30 DEF SetHazardCopy, Helping, TypeOK
    <2>2. pc[t] \notin Outside /\ j \in Slot /\ held[t][i] \in Pointer
      BY <1>30 DEF SetHazardCopy, Outside, TypeOK
    <2>3. UNCHANGED active
      BY <1>30, <2>2, HasRecord, SlotStore DEF SetHazardCopy
    <2> QED  BY <1>30, <2>1, <2>3, ExclusiveSame DEF SetHazardCopy, TypeOK
  <1> QED
    BY <1>1, <1>2, <1>3, <1>4, <1>5, <1>6, <1>7, <1>8, <1>9, <1>10, <1>11, <1>12, <1>13, <1>14, <1>15, <1>16, <1>17, <1>18, <1>19, <1>20, <1>21, <1>22, <1>23, <1>24, <1>25, <1>26, <1>27, <1>28, <1>29, <1>30
       DEF Step, Allocate, Retire, LoadAndSetHazard, RetireNodeStep, ClientStep

\* The destructor leaves no thread with a record.
LEMMA ExclusiveDestroy ==
    ASSUME Basic, Destroy
    PROVE  RecordsExclusive'
  <1>1. \A u \in Thread : pc'[u] = "none" /\ rec'[u] = 0
    BY DEF Basic, Destroy, Control, ControlOf, Outside
  <1>2. \A u \in Thread : ~Helping(u)' /\ \A r \in Rec : ~Writes(u, r)'
    BY <1>1 DEF Helping, Writes
  <1> QED  BY <1>2, Zenon DEF RecordsExclusive

\* The store at place i of t's buffer is to slot k of record r.
Waits(t, i, r, k) == i \in 1..Len(buf[t]) /\ buf[t][i].rec = r /\ buf[t][i].slot = k

\* It gives record r back.
Gives(t, i, r) == Waits(t, i, r, 0)

\* A record on its way back, its store to active_ still in a buffer, is nobody's
\* and can be taken by nobody, and it is given back once: RecordsExclusive, made
\* inductive in the presence of store buffers.
Releases ==
    \A t \in Thread, i \in Nat, r \in Rec : Gives(t, i, r) =>
        /\ r <= nrec /\ active[r]
        /\ \A u \in Thread : ~Writes(u, r)
        /\ \A u \in Thread, j \in Nat : Gives(u, j, r) => u = t /\ j = i

\* Only a store reaches the buffer; one to active_ gives up a record of the thread.
LEMMA BufferStep ==
    ASSUME Basic, RecordsExclusive, NEW t \in Thread, Step(t)
    PROVE  \/ buf' = buf
           \/ \E e \in Pending :
                 /\ buf' = [buf EXCEPT ![t] = Append(@, e)]
                 /\ UNCHANGED <<active, nrec>>
                 /\ e.slot = 0 => Writes(t, e.rec) /\ ~Writes(t, e.rec)'
  <1> USE KAssumption, BoundAssumption DEF Basic, memory
  <1> DEFINE Goal == \/ buf' = buf
                     \/ \E e \in Pending :
                           /\ buf' = [buf EXCEPT ![t] = Append(@, e)]
                           /\ UNCHANGED <<active, nrec>>
                           /\ e.slot = 0 => Writes(t, e.rec) /\ ~Writes(t, e.rec)'
  <1> SUFFICES Goal
    OBVIOUS
  <1> HIDE DEF Goal
  <1>1. ASSUME NEW r \in Rec, NEW k \in 0..K, NEW v \in Pointer, Store(t, r, k, v), nrec' = nrec,
               k = 0 => Writes(t, r) /\ ~Writes(t, r)'
        PROVE  Goal
    <2> DEFINE e == [rec |-> r, slot |-> k, val |-> v]
    <2>1. e \in Pending /\ e.slot = k /\ e.rec = r
      BY DEF Pending
    <2>2. CASE StoreBuffered
      <3>1. buf' = [buf EXCEPT ![t] = Append(@, e)] /\ UNCHANGED <<active, nrec>>
        BY <1>1, <2>2 DEF Store
      <3> HIDE DEF e
      <3> QED  BY <1>1, <2>1, <3>1, Zenon DEF Goal
    <2>3. CASE ~StoreBuffered
      BY <1>1, <2>3 DEF Store, Goal
    <2> QED  BY <2>2, <2>3
  <1>2. ASSUME pc[t] \notin Outside, NEW k \in Slot, NEW v \in Pointer, Store(t, rec[t], k, v), nrec' = nrec
        PROVE  Goal
    <2>1. rec[t] \in Rec /\ k \in 0..K /\ k # 0
      BY <1>2, HasRecord
    <2>2. PICK p \in Rec : p = rec[t]
      BY <2>1
    <2> QED  BY <1>1, <1>2, <2>1, <2>2
  <1>3. CASE RetireSlot(t)
    <2>1. pc[t] \notin Outside /\ slot[t] \in Slot /\ Null \in Pointer /\ Store(t, rec[t], slot[t], Null) /\ nrec' = nrec
      BY <1>3 DEF RetireSlot, Outside, TypeOK
    <2> QED  BY <1>2, <2>1
  <1>4. CASE RetireActive(t)
    <2>1. pc[t] \notin Outside /\ Null \in Pointer /\ Store(t, rec[t], 0, Null) /\ nrec' = nrec
      BY <1>4 DEF RetireActive, Outside
    <2>2. PICK p \in Rec : p = rec[t]
      BY <2>1, HasRecord
    <2>3. Writes(t, p) /\ 0 \in 0..K
      BY <2>2 DEF Writes
    <2>4. rec'[t] = 0 /\ pc'[t] = "none"
      BY <1>4 DEF RetireActive, TypeOK
    <2>5. ~Writes(t, p)'
      BY <2>4 DEF Writes, Helping
    <2> QED  BY <1>1, <2>1, <2>2, <2>3, <2>5
  <1>5. CASE SetCur(t)
    <2>1. pc[t] \notin Outside /\ slot[t] \in Slot /\ ref[t] \in Pointer /\ Store(t, rec[t], slot[t], ref[t]) /\ nrec' = nrec
      BY <1>5 DEF SetCur, Outside, TypeOK
    <2> QED  BY <1>2, <2>1
  <1>6. CASE FailClear(t)
    <2>1. pc[t] \notin Outside /\ slot[t] \in Slot /\ Null \in Pointer /\ Store(t, rec[t], slot[t], Null) /\ nrec' = nrec
      BY <1>6 DEF FailClear, Outside, TypeOK
    <2> QED  BY <1>2, <2>1
  <1>7. ASSUME NEW k \in Slot, SetHazardFresh(t, k) PROVE Goal
    <2>1. pc[t] \notin Outside /\ k \in Slot /\ priv[t] \in Pointer /\ Store(t, rec[t], k, priv[t]) /\ nrec' = nrec
      BY <1>7 DEF SetHazardFresh, Outside, TypeOK
    <2> QED  BY <1>2, <2>1
  <1>8. ASSUME NEW k \in Slot, ClearHazard(t, k) PROVE Goal
    <2>1. pc[t] \notin Outside /\ k \in Slot /\ Null \in Pointer /\ Store(t, rec[t], k, Null) /\ nrec' = nrec
      BY <1>8 DEF ClearHazard, Outside, TypeOK
    <2> QED  BY <1>2, <2>1
  <1>9. ASSUME NEW i \in Slot, NEW j \in Slot, SetHazardCopy(t, i, j) PROVE Goal
    <2>1. pc[t] \notin Outside /\ j \in Slot /\ held[t][i] \in Pointer /\ Store(t, rec[t], j, held[t][i]) /\ nrec' = nrec
      BY <1>9 DEF SetHazardCopy, Outside, TypeOK
    <2> QED  BY <1>2, <2>1
  <1>10. CASE HelpUnlock(t)
    <2>1. pos[t] \in Rec /\ 0 \in 0..K /\ Null \in Pointer /\ Store(t, pos[t], 0, Null) /\ nrec' = nrec
      BY <1>10 DEF HelpUnlock, TypeOK, Control, ControlOf
    <2>2. Writes(t, pos[t]) /\ pos[t] # rec[t]
      BY <1>10, <2>1 DEF HelpUnlock, RecordsExclusive, Writes, Helping
    <2>3. rec'[t] = rec[t] /\ pc'[t] \in {"ready", "help"}
      BY <1>10 DEF HelpUnlock, HelpNext, TypeOK
    <2>4. PICK p \in Rec : p = pos[t]
      BY <2>1
    <2>5. Writes(t, p) /\ Store(t, p, 0, Null) /\ p # rec[t]
      BY <2>1, <2>2, <2>4
    <2>6. ~Writes(t, p)'
      BY <2>3, <2>5 DEF Writes, Helping
    <2> QED  BY <1>1, <2>1, <2>5, <2>6
  <1>11. QED
    BY <1>3, <1>4, <1>5, <1>6, <1>7, <1>8, <1>9, <1>10
       DEF Step, Allocate, AllocBegin, AllocSkip, AllocClaim, AllocCount, AllocLoad, AllocLink,
           Retire, RetireBegin, LoadAndSetHazard, LoadCell, CheckSame, CheckChanged,
           RetireNodeStep, RetireNode, ScanBegin, ScanSlot, Sweep, HelpBegin, HelpSkip, HelpLock, Move,
           ClientStep, NewNode, DropNode, Exchange, LoadBegin, Goal

-----------------------------------------------------------------------------
(* Every node has one place *)

\* A node on a retire list is on no other list, and in no other place.
ListsDisjoint ==
    \A r, s \in Rec, n \in Node : n \in retireList[r] /\ n \in retireList[s] => r = s

ListedOnce ==
    \A r \in Rec, n \in Node : n \in retireList[r] =>
        /\ n \in alloc /\ n # cell
        /\ \A t \in Thread : n # priv[t] /\ (pc[t] = "retire" => n # ref[t])

\* A node a thread is about to retire is off the structure.
RetiringOnce ==
    \A t \in Thread : pc[t] = "retire" =>
        /\ ref[t] \in alloc /\ ref[t] # cell
        /\ \A u \in Thread : /\ ref[t] # priv[u]
                             /\ u # t /\ pc[u] = "retire" => ref[t] # ref[u]

\* The shared pointer and the private ones do not dangle, and differ.
Reachable ==
    /\ cell \in alloc \cup {Null}
    /\ \A t \in Thread : /\ priv[t] \in alloc \cup {Null}
                         /\ priv[t] # Null => priv[t] # cell
                         /\ \A u \in Thread : u # t /\ priv[t] # Null => priv[t] # priv[u]

\* A node is reachable, private to one thread, handed to one retireNode, or
\* on one retire list, and it is allocated: RetiredOnce, made inductive.
Placed == ListsDisjoint /\ ListedOnce /\ RetiringOnce /\ Reachable

\* No node moves.
LEMMA PlacedSame ==
    ASSUME Placed, UNCHANGED <<retireList, cell, alloc, priv>>,
           \A u \in Thread : pc'[u] = "retire" => pc[u] = "retire" /\ ref'[u] = ref[u]
    PROVE  Placed'
  BY DEF Placed, ListsDisjoint, ListedOnce, RetiringOnce, Reachable

\* Every action keeps each node in one place: cell, private, retiring or on one
\* retire list.
LEMMA PlacedStep ==
    ASSUME Basic, RecordsExclusive, Placed, NEW t \in Thread, Step(t) \/ Destroy
    PROVE  Placed'
  <1> USE KAssumption, BoundAssumption DEF Basic, memory, heap, client, scanner
  <1>1. CASE AllocBegin(t)
    <2>1. \A u \in Thread : pc'[u] = "retire" => pc[u] = "retire" /\ ref'[u] = ref[u]
      BY <1>1 DEF AllocBegin, TypeOK
    <2> QED  BY <1>1, <2>1, PlacedSame DEF AllocBegin
  <1>2. CASE AllocSkip(t)
    <2>1. \A u \in Thread : pc'[u] = "retire" => pc[u] = "retire" /\ ref'[u] = ref[u]
      BY <1>2 DEF AllocSkip, TypeOK
    <2> QED  BY <1>2, <2>1, PlacedSame DEF AllocSkip
  <1>3. CASE AllocClaim(t)
    <2>1. \A u \in Thread : pc'[u] = "retire" => pc[u] = "retire" /\ ref'[u] = ref[u]
      BY <1>3 DEF AllocClaim, TypeOK
    <2> QED  BY <1>3, <2>1, PlacedSame DEF AllocClaim
  <1>4. CASE AllocCount(t)
    <2>1. \A u \in Thread : pc'[u] = "retire" => pc[u] = "retire" /\ ref'[u] = ref[u]
      BY <1>4 DEF AllocCount, TypeOK
    <2> QED  BY <1>4, <2>1, PlacedSame DEF AllocCount
  <1>5. CASE AllocLoad(t)
    <2>1. \A u \in Thread : pc'[u] = "retire" => pc[u] = "retire" /\ ref'[u] = ref[u]
      BY <1>5 DEF AllocLoad, TypeOK
    <2> QED  BY <1>5, <2>1, PlacedSame DEF AllocLoad
  <1>6. CASE AllocLink(t)
    <2>1. \A u \in Thread : pc'[u] = "retire" => pc[u] = "retire" /\ ref'[u] = ref[u]
      BY <1>6 DEF AllocLink, TypeOK
    <2> QED  BY <1>6, <2>1, PlacedSame DEF AllocLink
  <1>7. CASE RetireBegin(t)
    <2>1. \A u \in Thread : pc'[u] = "retire" => pc[u] = "retire" /\ ref'[u] = ref[u]
      BY <1>7 DEF RetireBegin, TypeOK
    <2> QED  BY <1>7, <2>1, PlacedSame DEF RetireBegin
  <1>8. CASE RetireSlot(t)
    <2>1. \A u \in Thread : pc'[u] = "retire" => pc[u] = "retire" /\ ref'[u] = ref[u]
      BY <1>8 DEF RetireSlot, TypeOK
    <2> QED  BY <1>8, <2>1, PlacedSame DEF RetireSlot
  <1>9. CASE RetireActive(t)
    <2>1. \A u \in Thread : pc'[u] = "retire" => pc[u] = "retire" /\ ref'[u] = ref[u]
      BY <1>9 DEF RetireActive, TypeOK
    <2> QED  BY <1>9, <2>1, PlacedSame DEF RetireActive
  <1>10. CASE LoadCell(t)
    <2>1. \A u \in Thread : pc'[u] = "retire" => pc[u] = "retire" /\ ref'[u] = ref[u]
      BY <1>10 DEF LoadCell, TypeOK
    <2> QED  BY <1>10, <2>1, PlacedSame DEF LoadCell
  <1>11. CASE SetCur(t)
    <2>1. \A u \in Thread : pc'[u] = "retire" => pc[u] = "retire" /\ ref'[u] = ref[u]
      BY <1>11 DEF SetCur, TypeOK
    <2> QED  BY <1>11, <2>1, PlacedSame DEF SetCur
  <1>12. CASE CheckSame(t)
    <2>1. \A u \in Thread : pc'[u] = "retire" => pc[u] = "retire" /\ ref'[u] = ref[u]
      BY <1>12 DEF CheckSame, TypeOK
    <2> QED  BY <1>12, <2>1, PlacedSame DEF CheckSame
  <1>13. CASE CheckChanged(t)
    <2>1. \A u \in Thread : pc'[u] = "retire" => pc[u] = "retire" /\ ref'[u] = ref[u]
      BY <1>13 DEF CheckChanged, TypeOK
    <2> QED  BY <1>13, <2>1, PlacedSame DEF CheckChanged
  <1>14. CASE FailClear(t)
    <2>1. \A u \in Thread : pc'[u] = "retire" => pc[u] = "retire" /\ ref'[u] = ref[u]
      BY <1>14 DEF FailClear, TypeOK
    <2> QED  BY <1>14, <2>1, PlacedSame DEF FailClear
  <1>15. CASE NewNode(t)
    <2>1. PICK n \in Node \ alloc : alloc' = alloc \cup {n} /\ priv' = [priv EXCEPT ![t] = n]
      BY <1>15 DEF NewNode
    <2>2. UNCHANGED <<retireList, cell, pc, ref>>
      BY <1>15 DEF NewNode
    <2>3. ListsDisjoint'
      BY <2>1, <2>2, NullAssumption DEF Placed, ListsDisjoint, ListedOnce, RetiringOnce, Reachable, TypeOK
    <2>4. ListedOnce'
      BY <2>1, <2>2, NullAssumption DEF Placed, ListsDisjoint, ListedOnce, RetiringOnce, Reachable, TypeOK
    <2>5. RetiringOnce'
      BY <2>1, <2>2, NullAssumption DEF Placed, ListsDisjoint, ListedOnce, RetiringOnce, Reachable, TypeOK
    <2>6. Reachable'
      BY ZenonT(60), <2>1, <2>2, NullAssumption DEF Placed, ListsDisjoint, ListedOnce, RetiringOnce, Reachable, TypeOK
    <2> QED  BY <2>3, <2>4, <2>5, <2>6 DEF Placed
  <1>16. CASE DropNode(t)
    <2>1. /\ alloc' = alloc \ {priv[t]} /\ priv' = [priv EXCEPT ![t] = Null] /\ priv[t] # Null
          /\ UNCHANGED <<retireList, cell, pc, ref>>
      BY <1>16 DEF DropNode
    <2>2. ListsDisjoint'
      BY <2>1, NullAssumption DEF Placed, ListsDisjoint, ListedOnce, RetiringOnce, Reachable, TypeOK
    <2>3. ListedOnce'
      BY <2>1, NullAssumption DEF Placed, ListsDisjoint, ListedOnce, RetiringOnce, Reachable, TypeOK
    <2>4. RetiringOnce'
      BY SMTT(40), <2>1, NullAssumption DEF Placed, ListsDisjoint, ListedOnce, RetiringOnce, Reachable, TypeOK
    <2>5. Reachable'
      BY <2>1, NullAssumption DEF Placed, ListsDisjoint, ListedOnce, RetiringOnce, Reachable, TypeOK
    <2> QED  BY <2>2, <2>3, <2>4, <2>5 DEF Placed
  <1>17. CASE Exchange(t)
    <2>1. /\ pc[t] = "ready"
          /\ cell' = priv[t] /\ priv' = [priv EXCEPT ![t] = Null]
          /\ ref' = [ref EXCEPT ![t] = cell]
          /\ pc' = [pc EXCEPT ![t] = IF cell = Null THEN "ready" ELSE "retire"]
          /\ UNCHANGED <<retireList, alloc>>
      BY <1>17 DEF Exchange
    <2>2. ListsDisjoint'
      BY <2>1, NullAssumption DEF Placed, ListsDisjoint, ListedOnce, RetiringOnce, Reachable, TypeOK
    <2>3. ListedOnce'
      BY <2>1, NullAssumption DEF Placed, ListsDisjoint, ListedOnce, RetiringOnce, Reachable, TypeOK
    <2>4. RetiringOnce'
      <3>1. \A u \in Thread : pc'[u] = "retire" =>
               \/ u = t /\ ref'[u] = cell /\ cell # Null
               \/ u # t /\ pc[u] = "retire" /\ ref'[u] = ref[u]
        BY <2>1 DEF TypeOK
      <3>2. \A u \in Thread : priv'[u] = IF u = t THEN Null ELSE priv[u]
        BY <2>1 DEF TypeOK
      <3>3. cell \in alloc \/ cell = Null
        BY DEF Placed, Reachable
      <3>4. Null \notin alloc
        BY NullAssumption DEF TypeOK
      <3> QED  BY <2>1, <3>1, <3>2, <3>3, <3>4 DEF Placed, RetiringOnce, Reachable
    <2>5. Reachable'
      BY ZenonT(60), <2>1, NullAssumption DEF Placed, ListsDisjoint, ListedOnce, RetiringOnce, Reachable, TypeOK
    <2> QED  BY <2>2, <2>3, <2>4, <2>5 DEF Placed
  <1>18. CASE RetireNode(t)
    <2>1. rec[t] \in Rec /\ pc[t] = "retire"
      <3>1. pc[t] = "retire" /\ pc[t] \notin Outside
        BY <1>18 DEF RetireNode, Outside
      <3> QED  BY <3>1, HasRecord
    <2>2. /\ retireList' = [retireList EXCEPT ![rec[t]] = retireList[rec[t]] \cup {ref[t]}]
          /\ UNCHANGED <<cell, alloc, priv>>
      BY <1>18 DEF RetireNode
    <2>3. \A u \in Thread : pc'[u] = "retire" => pc[u] = "retire" /\ ref'[u] = ref[u] /\ u # t
      BY <1>18 DEF RetireNode, TypeOK
    <2>4. ListsDisjoint'
      BY <2>1, <2>2, <2>3 DEF Placed, ListsDisjoint, ListedOnce, RetiringOnce, Reachable, TypeOK
    <2>5. ListedOnce'
      BY SMTT(40), <2>1, <2>2, <2>3 DEF Placed, ListsDisjoint, ListedOnce, RetiringOnce, Reachable, TypeOK
    <2>6. RetiringOnce'
      BY <2>2, <2>3 DEF Placed, RetiringOnce
    <2>7. Reachable'
      BY <2>1, <2>2, <2>3 DEF Placed, ListsDisjoint, ListedOnce, RetiringOnce, Reachable, TypeOK
    <2> QED  BY <2>4, <2>5, <2>6, <2>7 DEF Placed
  <1>19. CASE ScanBegin(t)
    <2>1. \A u \in Thread : pc'[u] = "retire" => pc[u] = "retire" /\ ref'[u] = ref[u]
      BY <1>19 DEF ScanBegin, TypeOK
    <2> QED  BY <1>19, <2>1, PlacedSame DEF ScanBegin
  <1>20. CASE ScanSlot(t)
    <2>1. \A u \in Thread : pc'[u] = "retire" => pc[u] = "retire" /\ ref'[u] = ref[u]
      BY <1>20 DEF ScanSlot, TypeOK
    <2> QED  BY <1>20, <2>1, PlacedSame DEF ScanSlot
  <1>21. CASE Sweep(t)
    <2>1. rec[t] \in Rec
      <3>1. pc[t] \notin Outside
        BY <1>21 DEF Sweep, Outside
      <3> QED  BY <3>1, HasRecord
    <2>2. /\ retireList' = [retireList EXCEPT ![rec[t]] = retireList[rec[t]] \cap live[t]]
          /\ alloc' = alloc \ (retireList[rec[t]] \ live[t])
          /\ UNCHANGED <<cell, priv, ref>>
      BY <1>21 DEF Sweep
    <2>3. \A u \in Thread : pc'[u] = "retire" => pc[u] = "retire"
      BY <1>21 DEF Sweep, TypeOK
    <2>4. ListsDisjoint'
      BY <2>1, <2>2, <2>3, NullAssumption DEF Placed, ListsDisjoint, ListedOnce, RetiringOnce, Reachable, TypeOK
    <2>5. ListedOnce'
      BY <2>1, <2>2, <2>3, NullAssumption DEF Placed, ListsDisjoint, ListedOnce, RetiringOnce, Reachable, TypeOK
    <2>6. RetiringOnce'
      <3>1. \A u \in Thread : pc[u] = "retire" => ref[u] \in alloc'
        BY SMTT(40), <2>1, <2>2 DEF Placed, ListedOnce, RetiringOnce, TypeOK
      <3> QED  BY <2>2, <2>3, <3>1 DEF Placed, RetiringOnce
    <2>7. Reachable'
      BY SMTT(40), <2>1, <2>2, <2>3, NullAssumption DEF Placed, ListsDisjoint, ListedOnce, RetiringOnce, Reachable, TypeOK
    <2> QED  BY <2>4, <2>5, <2>6, <2>7 DEF Placed
  <1>22. CASE HelpBegin(t)
    <2>1. \A u \in Thread : pc'[u] = "retire" => pc[u] = "retire" /\ ref'[u] = ref[u]
      BY <1>22 DEF HelpBegin, TypeOK
    <2> QED  BY <1>22, <2>1, PlacedSame DEF HelpBegin
  <1>23. CASE HelpSkip(t)
    <2>1. \A u \in Thread : pc'[u] = "retire" => pc[u] = "retire" /\ ref'[u] = ref[u]
      BY <1>23 DEF HelpSkip, TypeOK, HelpNext
    <2> QED  BY <1>23, <2>1, PlacedSame DEF HelpSkip
  <1>24. CASE HelpLock(t)
    <2>1. \A u \in Thread : pc'[u] = "retire" => pc[u] = "retire" /\ ref'[u] = ref[u]
      BY <1>24 DEF HelpLock, TypeOK
    <2> QED  BY <1>24, <2>1, PlacedSame DEF HelpLock
  <1>25. CASE Move(t)
    <2>1. rec[t] \in Rec /\ pos[t] \in Rec /\ rec[t] # pos[t]
      <3>1. pc[t] = "move" /\ pc[t] \notin Outside
        BY <1>25 DEF Move, Outside
      <3>2. pos[t] \in Rec
        BY <3>1 DEF TypeOK, Control, ControlOf
      <3>3. rec[t] # pos[t]
        BY <3>1 DEF RecordsExclusive, Helping
      <3> QED  BY <3>1, <3>2, <3>3, HasRecord
    <2>2. PICK n \in retireList[pos[t]] :
             retireList' = [retireList EXCEPT ![rec[t]] = retireList[rec[t]] \cup {n},
                                              ![pos[t]] = @ \ {n}]
      BY <1>25 DEF Move
    <2>3. UNCHANGED <<cell, alloc, priv, ref>>
      BY <1>25 DEF Move
    <2>4. \A u \in Thread : pc'[u] = "retire" => pc[u] = "retire"
      BY <1>25 DEF Move, TypeOK
    <2>5. \A r \in Rec : retireList'[r] = IF r = rec[t] THEN retireList[r] \cup {n}
                                          ELSE IF r = pos[t] THEN retireList[r] \ {n}
                                          ELSE retireList[r]
      BY <2>1, <2>2 DEF TypeOK
    <2>6. n \in Node /\ n \in retireList[pos[t]]
      BY <2>1, <2>2 DEF TypeOK
    <2>7. \A r \in Rec, m \in Node : m \in retireList'[r] =>
             \/ m = n /\ r = rec[t]
             \/ m # n /\ m \in retireList[r]
      <3> SUFFICES ASSUME NEW r \in Rec, NEW m \in Node, m \in retireList'[r]
                   PROVE  (m = n /\ r = rec[t]) \/ (m # n /\ m \in retireList[r])
        OBVIOUS
      <3>1. m = n /\ m \in retireList[r] => r = pos[t]
        BY <2>1, <2>6 DEF Placed, ListsDisjoint
      <3>2. CASE r = rec[t]
        BY ZenonT(60), <2>5, <3>2
      <3>3. CASE r = pos[t]
        BY <2>1, <2>5, <3>3
      <3>4. CASE r # rec[t] /\ r # pos[t]
        BY <2>5, <3>1, <3>4
      <3> QED  BY <3>2, <3>3, <3>4
    <2>8. ListsDisjoint' /\ ListedOnce'
      <3>1. ListsDisjoint'
        BY <2>7 DEF Placed, ListsDisjoint
      <3>2. ListedOnce'
        BY <2>1, <2>3, <2>4, <2>6, <2>7 DEF Placed, ListedOnce
      <3> QED  BY <3>1, <3>2
    <2>9. RetiringOnce'
      BY SMTT(40), <2>1, <2>3, <2>4, <2>5, <2>6 DEF Placed, ListsDisjoint, ListedOnce, RetiringOnce, Reachable, TypeOK
    <2>10. Reachable'
      BY <2>1, <2>3, <2>4, <2>5, <2>6 DEF Placed, ListsDisjoint, ListedOnce, RetiringOnce, Reachable, TypeOK
    <2> QED  BY <2>8, <2>9, <2>10 DEF Placed
  <1>26. CASE HelpUnlock(t)
    <2>1. \A u \in Thread : pc'[u] = "retire" => pc[u] = "retire" /\ ref'[u] = ref[u]
      BY <1>26 DEF HelpUnlock, TypeOK, HelpNext
    <2> QED  BY <1>26, <2>1, PlacedSame DEF HelpUnlock
  <1>27. ASSUME NEW k \in Slot, LoadBegin(t, k) PROVE Placed'
    <2>1. \A u \in Thread : pc'[u] = "retire" => pc[u] = "retire" /\ ref'[u] = ref[u]
      BY <1>27 DEF LoadBegin, TypeOK
    <2> QED  BY <1>27, <2>1, PlacedSame DEF LoadBegin
  <1>28. ASSUME NEW k \in Slot, SetHazardFresh(t, k) PROVE Placed'
    <2>1. \A u \in Thread : pc'[u] = "retire" => pc[u] = "retire" /\ ref'[u] = ref[u]
      BY <1>28 DEF SetHazardFresh, TypeOK
    <2> QED  BY <1>28, <2>1, PlacedSame DEF SetHazardFresh
  <1>29. ASSUME NEW k \in Slot, ClearHazard(t, k) PROVE Placed'
    <2>1. \A u \in Thread : pc'[u] = "retire" => pc[u] = "retire" /\ ref'[u] = ref[u]
      BY <1>29 DEF ClearHazard, TypeOK
    <2> QED  BY <1>29, <2>1, PlacedSame DEF ClearHazard
  <1>30. ASSUME NEW i \in Slot, NEW j \in Slot, SetHazardCopy(t, i, j) PROVE Placed'
    <2>1. \A u \in Thread : pc'[u] = "retire" => pc[u] = "retire" /\ ref'[u] = ref[u]
      BY <1>30 DEF SetHazardCopy, TypeOK
    <2> QED  BY <1>30, <2>1, PlacedSame DEF SetHazardCopy
  <1>31. CASE Destroy
    <2>1. /\ retireList' = [r \in Rec |-> {}]
          /\ \A n \in alloc : (\A r \in Rec : n \notin retireList[r]) => n \in alloc'
          /\ UNCHANGED <<cell, priv, ref, pc>>
          /\ \A u \in Thread : pc[u] = "none"
      BY SMTT(40), <1>31 DEF Destroy, TypeOK
    <2>2. ListsDisjoint'
      BY <2>1 DEF Placed, ListsDisjoint, ListedOnce, RetiringOnce, Reachable, TypeOK
    <2>3. ListedOnce'
      BY <2>1 DEF Placed, ListsDisjoint, ListedOnce, RetiringOnce, Reachable, TypeOK
    <2>4. RetiringOnce'
      BY <2>1 DEF Placed, ListsDisjoint, ListedOnce, RetiringOnce, Reachable, TypeOK
    <2>5. Reachable'
      BY SMTT(40), <2>1 DEF Placed, ListsDisjoint, ListedOnce, RetiringOnce, Reachable, TypeOK
    <2> QED  BY <2>2, <2>3, <2>4, <2>5 DEF Placed
  <1> QED
    BY <1>1, <1>2, <1>3, <1>4, <1>5, <1>6, <1>7, <1>8, <1>9, <1>10, <1>11, <1>12, <1>13, <1>14, <1>15, <1>16, <1>17, <1>18, <1>19, <1>20, <1>21, <1>22, <1>23, <1>24, <1>25, <1>26, <1>27, <1>28, <1>29, <1>30, <1>31
       DEF Step, Allocate, Retire, LoadAndSetHazard, RetireNodeStep, ClientStep

-----------------------------------------------------------------------------
(* One writer and no double free, under either memory model *)

\* Every action of a thread keeps the records on their way back apart from those in use.
LEMMA ReleasesStep ==
    ASSUME Basic, Basic', RecordsExclusive, Releases, NEW t \in Thread, Step(t)
    PROVE  Releases'
  <1>1. Handed
    BY ExclusiveStep
  <1>2. ASSUME NEW r \in Rec, r <= nrec, active[r], \A u \in Thread : ~Writes(u, r)
        PROVE  r <= nrec' /\ active'[r] /\ \A u \in Thread : ~Writes(u, r)'
    <2>1. r <= nrec' /\ ~(r > nrec)
      BY <1>1, <1>2 DEF Handed, Basic, TypeOK
    <2> QED  BY <1>1, <1>2, <2>1, Zenon DEF Handed
  <1>3. CASE buf' = buf
    <2>1. \A u \in Thread, i \in Nat, r \in Rec : Gives(u, i, r)' <=> Gives(u, i, r)
      BY <1>3 DEF Gives, Waits
    <2>2. ASSUME NEW u \in Thread, NEW i \in Nat, NEW r \in Rec, Gives(u, i, r)
          PROVE  /\ r <= nrec' /\ active'[r]
                 /\ \A v \in Thread : ~Writes(v, r)'
                 /\ \A v \in Thread, j \in Nat : Gives(v, j, r)' => v = u /\ j = i
      <3>1. /\ r <= nrec /\ active[r]
            /\ \A v \in Thread : ~Writes(v, r)
            /\ \A v \in Thread, j \in Nat : Gives(v, j, r) => v = u /\ j = i
        BY <2>2, Zenon DEF Releases
      <3> QED  BY <1>2, <2>1, <3>1
    <2> QED  BY <2>1, <2>2, Zenon DEF Releases
  <1>4. ASSUME NEW e \in Pending, buf' = [buf EXCEPT ![t] = Append(@, e)], UNCHANGED <<active, nrec>>,
               e.slot = 0 => Writes(t, e.rec) /\ ~Writes(t, e.rec)'
        PROVE  Releases'
    <2>1. \A u \in Thread, i \in Nat, r \in Rec : Gives(u, i, r)' =>
             Gives(u, i, r) \/ (u = t /\ i = Len(buf[t]) + 1 /\ e.slot = 0 /\ e.rec = r)
      <3> SUFFICES ASSUME NEW u \in Thread, NEW i \in Nat, NEW r \in Rec, Gives(u, i, r)'
                   PROVE  Gives(u, i, r) \/ (u = t /\ i = Len(buf[t]) + 1 /\ e.slot = 0 /\ e.rec = r)
        OBVIOUS
      <3>1. buf[u] \in Seq(Pending) /\ buf[t] \in Seq(Pending)
        BY DEF Basic, TypeOK
      <3>2. CASE u = t
        <4>1. buf'[u] = Append(buf[t], e)
          BY <1>4, <3>2 DEF Basic, TypeOK
        <4> QED  BY <3>1, <3>2, <4>1 DEF Gives, Waits
      <3>3. CASE u # t
        <4>1. buf'[u] = buf[u]
          BY <1>4, <3>3 DEF Basic, TypeOK
        <4> QED  BY <4>1 DEF Gives, Waits
      <3> QED  BY <3>2, <3>3
    <2>2. ASSUME e.slot = 0
          PROVE  /\ e.rec \in Rec /\ e.rec <= nrec /\ active[e.rec]
                 /\ \A u \in Thread : ~Writes(u, e.rec)'
                 /\ \A u \in Thread, i \in Nat : ~Gives(u, i, e.rec)
      <3>1. PICK r \in Rec : r = e.rec
        BY DEF Pending
      <3>2. Writes(t, r) /\ ~Writes(t, r)'
        BY <1>4, <2>2, <3>1
      <3>3. r <= nrec /\ active[r] /\ \A u \in Thread \ {t} : ~Writes(u, r)
        BY <3>2, Zenon DEF RecordsExclusive
      <3>4. ~(r > nrec)
        BY <3>3 DEF Basic, TypeOK
      <3>5. \A u \in Thread : ~Writes(u, r)'
        BY <1>1, <3>2, <3>3, <3>4, Zenon DEF Handed
      <3>6. \A u \in Thread, i \in Nat : ~Gives(u, i, r)
        BY <3>2, Zenon DEF Releases
      <3> QED  BY <3>1, <3>3, <3>5, <3>6
    <2> SUFFICES ASSUME NEW u \in Thread, NEW i \in Nat, NEW r \in Rec, Gives(u, i, r)'
                 PROVE  /\ r <= nrec' /\ active'[r]
                        /\ \A v \in Thread : ~Writes(v, r)'
                        /\ \A v \in Thread, j \in Nat : Gives(v, j, r)' => v = u /\ j = i
      BY Zenon DEF Releases
    <2>3. CASE Gives(u, i, r)
      <3>1. /\ r <= nrec /\ active[r]
            /\ \A v \in Thread : ~Writes(v, r)
            /\ \A v \in Thread, j \in Nat : Gives(v, j, r) => v = u /\ j = i
        BY <2>3, Zenon DEF Releases
      <3>2. e.slot = 0 => e.rec # r
        BY <2>2, <2>3, Zenon
      <3> QED  BY <1>2, <2>1, <3>1, <3>2, Zenon
    <2>4. CASE ~Gives(u, i, r)
      <3>1. u = t /\ i = Len(buf[t]) + 1 /\ e.slot = 0 /\ e.rec = r
        BY <2>1, <2>4, Zenon
      <3>2. /\ r <= nrec /\ active[r]
            /\ \A v \in Thread : ~Writes(v, r)'
            /\ \A v \in Thread, j \in Nat : ~Gives(v, j, r)
        BY <2>2, <3>1
      <3> QED  BY <1>4, <2>1, <3>1, <3>2, Zenon
    <2> QED  BY <2>3, <2>4
  <1> QED  BY <1>3, <1>4, BufferStep

\* A store that reaches memory makes at most a record inactive that is nobody's,
\* and that no other store gives back.
LEMMA ReleasesFlush ==
    ASSUME Basic, RecordsExclusive, Releases, NEW t \in Thread, Flush(t)
    PROVE  RecordsExclusive' /\ Releases'
  <1> DEFINE e == Head(buf[t])
  <1>1. /\ buf[t] \in Seq(Pending) /\ buf[t] # << >> /\ e \in Pending
        /\ \A u \in Thread : buf[u] \in Seq(Pending)
        /\ buf' = [buf EXCEPT ![t] = Tail(@)] /\ Commit(e)
    BY DEF Flush, Drained, Basic, TypeOK
  <1>2. UNCHANGED <<nrec, rec, pos, pc>>
    BY DEF Flush
  <1>3. \A u \in Thread : (Helping(u)' <=> Helping(u)) /\ \A r \in Rec : Writes(u, r)' <=> Writes(u, r)
    BY <1>2, Zenon DEF Helping, Writes
  <1>4. \A u \in Thread, i \in Nat, r \in Rec : Gives(u, i, r)' => Gives(u, IF u = t THEN i + 1 ELSE i, r)
    <2> SUFFICES ASSUME NEW u \in Thread, NEW i \in Nat, NEW r \in Rec, Gives(u, i, r)'
                 PROVE  Gives(u, IF u = t THEN i + 1 ELSE i, r)
      OBVIOUS
    <2>1. CASE u = t
      <3>1. buf'[u] = Tail(buf[t])
        BY <1>1, <2>1 DEF Basic, TypeOK
      <3>2. i \in 1..Len(Tail(buf[t])) /\ Tail(buf[t])[i].slot = 0 /\ Tail(buf[t])[i].rec = r
        BY <3>1 DEF Gives, Waits
      <3>3. Tail(buf[t])[i] = buf[t][i + 1] /\ i + 1 \in 1..Len(buf[t])
        BY <1>1, <3>2
      <3> QED  BY <2>1, <3>2, <3>3 DEF Gives, Waits
    <2>2. CASE u # t
      <3>1. buf'[u] = buf[u]
        BY <1>1, <2>2 DEF Basic, TypeOK
      <3> QED  BY <2>2, <3>1 DEF Gives, Waits
    <2> QED  BY <2>1, <2>2
  <1>5. ASSUME NEW r \in Rec, active[r], ~active'[r] PROVE Gives(t, 1, r)
    <2>1. e.slot = 0 /\ active' = [active EXCEPT ![e.rec] = FALSE]
      BY <1>1, <1>5 DEF Commit
    <2>2. e.rec = r
      BY <1>5, <2>1, Zenon DEF Basic, TypeOK
    <2>3. 1 \in 1..Len(buf[t]) /\ buf[t][1] = e
      BY <1>1
    <2> QED  BY <2>1, <2>2, <2>3 DEF Gives, Waits
  <1> HIDE DEF e
  <1>6. RecordsExclusive'
    <2>1. \A r \in Rec : active[r] /\ ~active'[r] => \A u \in Thread : ~Writes(u, r)
      BY <1>5 DEF Releases
    <2>2. \A u \in Thread : pos'[u] = pos[u] /\ rec'[u] = rec[u]
      BY <1>2
    <2> QED  BY <1>2, <1>3, <2>1, <2>2, Zenon DEF RecordsExclusive
  <1>7. ASSUME NEW u \in Thread, NEW i \in Nat, NEW r \in Rec, Gives(u, i, r)'
        PROVE  /\ r <= nrec' /\ active'[r]
               /\ \A v \in Thread : ~Writes(v, r)'
               /\ \A v \in Thread, j \in Nat : Gives(v, j, r)' => v = u /\ j = i
    <2>1. PICK k \in Nat : k = IF u = t THEN i + 1 ELSE i
      OBVIOUS
    <2>2. Gives(u, k, r)
      BY <1>4, <1>7, <2>1
    <2>3. /\ r <= nrec /\ active[r]
          /\ \A v \in Thread : ~Writes(v, r)
          /\ \A v \in Thread, j \in Nat : Gives(v, j, r) => v = u /\ j = k
      BY <2>2, Zenon DEF Releases
    <2>4. i >= 1
      BY <1>7 DEF Gives, Waits
    <2>5. active'[r]
      BY <1>5, <2>1, <2>3, <2>4
    <2>6. ASSUME NEW v \in Thread, NEW j \in Nat, Gives(v, j, r)' PROVE v = u /\ j = i
      BY <1>4, <2>1, <2>3, <2>6
    <2> QED  BY <1>2, <1>3, <2>3, <2>5, <2>6
  <1> QED  BY <1>6, <1>7, Zenon DEF Releases

\* The inductive invariant of the two theorems.
Shared == Basic /\ RecordsExclusive /\ Releases /\ Placed

\* It holds initially and is kept by every step, stores reaching memory included.
LEMMA SharedInvariant ==
    /\ Init => Shared
    /\ Shared /\ [Next]_vars => Shared'
  <1>1. ASSUME Init PROVE Shared
    <2> USE <1>1, KAssumption, BoundAssumption DEF Init
    <2>1. RecordsExclusive
      BY DEF RecordsExclusive, Writes, Helping
    <2>2. Releases
      BY DEF Releases, Gives, Waits
    <2>3. Placed
      BY DEF Placed, ListsDisjoint, ListedOnce, RetiringOnce, Reachable
    <2> QED  BY <2>1, <2>2, <2>3, BasicInit DEF Shared
  <1>2. ASSUME Shared, [Next]_vars PROVE Shared'
    <2>1. Basic /\ Basic' /\ RecordsExclusive /\ Releases /\ Placed
      BY <1>2, BasicNext DEF Shared
    <2>2. ASSUME NEW t \in Thread, Step(t) PROVE RecordsExclusive' /\ Releases' /\ Placed'
      BY <2>1, <2>2, ExclusiveStep, ReleasesStep, PlacedStep
    <2>3. ASSUME NEW t \in Thread, Flush(t) PROVE RecordsExclusive' /\ Releases' /\ Placed'
      <3>1. UNCHANGED <<retireList, cell, alloc, priv, pc, ref>>
        BY <2>3 DEF Flush, heap, client
      <3> QED  BY <2>1, <2>3, <3>1, ReleasesFlush, PlacedSame
    <2>4. CASE Destroy
      <3>1. \A u \in Thread : buf'[u] = << >>
        BY <2>4 DEF Destroy, Drained
      <3>2. Releases'
        BY <3>1 DEF Releases, Gives, Waits
      <3>3. PICK t \in Thread : TRUE
        BY ThreadAssumption
      <3>4. Placed'
        BY <2>1, <2>4, <3>3, PlacedStep
      <3> QED  BY <2>1, <2>4, <3>2, <3>4, ExclusiveDestroy DEF Shared
    <2>5. CASE UNCHANGED vars
      <3> USE <2>5 DEF vars, memory, heap, client, scanner
      <3>1. RecordsExclusive'
        BY ZenonT(60), <2>1 DEF RecordsExclusive, Writes, Helping
      <3>2. Releases'
        <4>1. \A u \in Thread, i \in Nat, r \in Rec : Gives(u, i, r)' <=> Gives(u, i, r)
          BY DEF Gives, Waits
        <4>2. \A u \in Thread, r \in Rec : Writes(u, r)' <=> Writes(u, r)
          BY DEF Writes, Helping
        <4>3. UNCHANGED <<nrec, active>>
          OBVIOUS
        <4> QED  BY <2>1, <4>1, <4>2, <4>3 DEF Releases
      <3>3. Placed'
        BY <2>1, PlacedSame
      <3> QED  BY <2>1, <3>1, <3>2, <3>3 DEF Shared
    <2> QED  BY <1>2, <2>1, <2>2, <2>3, <2>4, <2>5 DEF Next, Shared
  <1> QED  BY <1>1, <1>2

\* Every retire list has one writer at a time, however long the release of a
\* record waits in a store buffer.
THEOREM OneWriter == Spec => []RecordsExclusive
  <1>1. Shared => RecordsExclusive
    BY DEF Shared
  <1> QED  BY <1>1, SharedInvariant, PTL DEF Spec

\* No node is deleted twice, or deleted while it is reachable, under either
\* memory model.
THEOREM NoDoubleFree == Spec => []RetiredOnce
  <1>1. Shared => RetiredOnce
    <2> SUFFICES ASSUME Shared PROVE RetiredOnce
      OBVIOUS
    <2>1. ASSUME NEW n \in Retired
          PROVE  n \in alloc /\ n # cell /\ n \notin Retiring /\ \A t \in Thread : n # priv[t]
      <3>1. PICK r \in Rec : n \in retireList[r]
        BY <2>1 DEF Retired
      <3>2. n \in Node
        BY <3>1 DEF Shared, Basic, TypeOK
      <3> QED  BY <3>1, <3>2 DEF Shared, Placed, ListedOnce, Retiring
    <2>2. ASSUME NEW n \in Retiring
          PROVE  n \in alloc /\ n # cell /\ \A t \in Thread : n # priv[t]
      BY <2>2 DEF Retiring, Shared, Placed, RetiringOnce
    <2>3. ASSUME NEW r \in Rec, NEW s \in Rec, r # s
          PROVE  retireList[r] \cap retireList[s] = {}
      BY <2>3 DEF Shared, Basic, TypeOK, Placed, ListsDisjoint
    <2> QED  BY <2>1, <2>2, <2>3 DEF RetiredOnce
  <1> QED  BY <1>1, SharedInvariant, PTL DEF Spec

-----------------------------------------------------------------------------
(* Safety on sequentially consistent memory *)

\* Without store buffers nothing is ever pending.
Unbuffered == \A t \in Thread : buf[t] = << >>

\* The stores, when they are not buffered.
LEMMA StoreSlot ==
    ASSUME ~StoreBuffered, NEW t \in Thread, NEW r \in Rec, NEW k \in Slot, NEW v \in Pointer,
           Store(t, r, k, v)
    PROVE  pointers' = [pointers EXCEPT ![r][k] = v] /\ UNCHANGED <<active, buf>>
  <1>1. k # 0
    BY KAssumption
  <1> QED  BY <1>1 DEF Store, Commit

\* An unbuffered store to active_ reaches memory at once.
LEMMA StoreActive ==
    ASSUME ~StoreBuffered, NEW t \in Thread, NEW r \in Rec, Store(t, r, 0, Null)
    PROVE  active' = [active EXCEPT ![r] = FALSE] /\ UNCHANGED <<pointers, buf>>
  BY DEF Store, Commit

-----------------------------------------------------------------------------
(* Held nodes are guarded by slots, and scans see the slots *)

\* A node a thread holds is allocated, is in the thread's slot, and is not
\* another thread's unpublished node.
HeldGuarded ==
    \A t \in Thread, k \in Slot : held[t][k] # Null =>
        /\ held[t][k] \in alloc
        /\ pc[t] \notin Outside
        /\ pointers[rec[t]][k] = held[t][k]
        /\ \A u \in Thread : u # t => held[t][k] # priv[u]

\* The slot an operation is about to overwrite guards nothing; after the
\* store of loadAndSetHazard it has what was loaded.
SlotFreeOf(t) ==
    /\ pc[t] \in {"load", "set", "check", "fail"} => held[t][slot[t]] = Null
    /\ pc[t] = "check" => pointers[rec[t]][slot[t]] = ref[t]
    /\ pc[t] \in {"exit", "exit_active"} => \A k \in Slot : held[t][k] = Null
    /\ pc[t] # "scan" \/ spos[t] = 0 => sk[t] = 1

SlotFree == \A t \in Thread : SlotFreeOf(t)

\* Slot k of record r is still ahead of the scan of thread s.
Unread(s, r, k) == r < spos[s] \/ (r = spos[s] /\ k >= sk[s])

\* A held node on the list being scanned is in live, or its slot is ahead.
ScanSees ==
    \A s, t \in Thread, k \in Slot :
        pc[s] = "scan" /\ held[t][k] # Null /\ held[t][k] \in retireList[rec[s]]
        => held[t][k] \in live[s] \/ Unread(s, rec[t], k)

Safe == Basic /\ Unbuffered /\ RecordsExclusive /\ Placed /\ HeldGuarded /\ SlotFree /\ ScanSees

\* The threads past allocate have records of their own.
LEMMA OwnRecords ==
    ASSUME Basic, RecordsExclusive, NEW t \in Thread, NEW u \in Thread, t # u,
           pc[t] \notin Outside, pc[u] \notin Outside
    PROVE  rec[t] # rec[u]
  <1>1. rec[t] \in Rec /\ rec[u] \in Rec
    BY HasRecord DEF Basic
  <1>2. rec[t] # 0 /\ rec[u] # 0
    BY <1>1, BoundAssumption
  <1>3. Writes(t, rec[t]) /\ Writes(u, rec[u])
    BY <1>2, Zenon DEF Writes
  <1> QED  BY <1>1, <1>3, Zenon DEF RecordsExclusive

\* Held nodes and their slots stay as they are, or are given up.
LEMMA GuardFrame ==
    ASSUME HeldGuarded,
           \A u \in Thread, k \in Slot : held'[u][k] # Null =>
               /\ held'[u][k] = held[u][k]
               /\ pc'[u] \notin Outside
               /\ pointers'[rec'[u]][k] = pointers[rec[u]][k]
               /\ held[u][k] \in alloc',
           \A u \in Thread : priv'[u] = priv[u] \/ priv'[u] = Null \/ priv'[u] \notin alloc
    PROVE  HeldGuarded'
  BY DEF HeldGuarded

\* Nothing a guard depends on changes.
LEMMA GuardSame ==
    ASSUME HeldGuarded, UNCHANGED <<held, pointers, rec, priv, alloc>>,
           \A u \in Thread : pc'[u] \in Outside => pc[u] \in Outside
    PROVE  HeldGuarded'
  BY DEF HeldGuarded

\* A store to slot j of thread t's record leaves all other slots alone.
LEMMA OtherSlots ==
    ASSUME ~StoreBuffered, Basic, RecordsExclusive,
           NEW t \in Thread, pc[t] \notin Outside, NEW j \in Slot, NEW v \in Pointer,
           Store(t, rec[t], j, v)
    PROVE  /\ \A u \in Thread, k \in Slot : pc[u] \notin Outside /\ (u # t \/ k # j) =>
                 pointers'[rec[u]][k] = pointers[rec[u]][k]
           /\ pointers'[rec[t]][j] = v
  <1>1. rec[t] \in Rec /\ pointers \in [Rec -> [Slot -> Pointer]]
    BY HasRecord DEF Basic, TypeOK
  <1>2. pointers' = [pointers EXCEPT ![rec[t]][j] = v]
    BY <1>1, StoreSlot
  <1>3. ASSUME NEW u \in Thread, NEW k \in Slot, pc[u] \notin Outside, u # t \/ k # j
        PROVE  pointers'[rec[u]][k] = pointers[rec[u]][k]
    <2>1. rec[u] \in Rec
      BY <1>3, HasRecord DEF Basic
    <2>2. CASE u = t
      BY <1>1, <1>2, <1>3, <2>2
    <2>3. CASE u # t
      BY <1>1, <1>2, <1>3, <2>1, <2>3, OwnRecords
    <2> QED  BY <2>2, <2>3
  <1>4. pointers'[rec[t]][j] = v
    BY <1>1, <1>2
  <1> QED  BY <1>3, <1>4

\* Every action keeps the slot an operation is about to overwrite free of guards.
LEMMA SlotFreeStep ==
    ASSUME ~StoreBuffered, Basic, RecordsExclusive, HeldGuarded, SlotFree, NEW t \in Thread, Step(t) \/ Destroy
    PROVE  SlotFree'
  <1> USE KAssumption, BoundAssumption DEF Basic, memory, heap, client, scanner
  <1>1. CASE AllocBegin(t)
    BY ZenonT(60), <1>1 DEF AllocBegin, TypeOK, SlotFree, SlotFreeOf, Outside
  <1>2. CASE AllocSkip(t)
    BY ZenonT(60), <1>2 DEF AllocSkip, TypeOK, SlotFree, SlotFreeOf, Outside
  <1>3. CASE AllocClaim(t)
    BY ZenonT(60), <1>3 DEF AllocClaim, TypeOK, SlotFree, SlotFreeOf, Outside
  <1>4. CASE AllocCount(t)
    BY ZenonT(60), <1>4 DEF AllocCount, TypeOK, SlotFree, SlotFreeOf, Outside
  <1>5. CASE AllocLoad(t)
    BY ZenonT(60), <1>5 DEF AllocLoad, TypeOK, SlotFree, SlotFreeOf, Outside
  <1>6. CASE AllocLink(t)
    <2>1. CASE nrec = pos[t]
      <3>1. /\ rec' = [rec EXCEPT ![t] = nrec + 1]
            /\ pc' = [pc EXCEPT ![t] = "ready"]
            /\ pc[t] = "alloc_cas"
            /\ UNCHANGED <<pointers, slot, ref, held, spos, sk>>
        BY <1>6, <2>1 DEF AllocLink
      <3> QED  BY ZenonT(60), <3>1 DEF TypeOK, SlotFree, SlotFreeOf
    <2>2. CASE nrec # pos[t]
      BY SMTT(40), <1>6, <2>2 DEF AllocLink, TypeOK, SlotFree, SlotFreeOf
    <2> QED  BY <2>1, <2>2
  <1>7. CASE RetireBegin(t)
    BY SMTT(40), <1>7 DEF RetireBegin, TypeOK, SlotFree, SlotFreeOf, Outside
  <1>8. CASE RetireSlot(t)
    <2>1. pc[t] \notin Outside /\ slot[t] \in Slot /\ Null \in Pointer /\ Store(t, rec[t], slot[t], Null)
      BY <1>8 DEF RetireSlot, Outside, TypeOK
    <2>2. /\ \A u \in Thread, l \in Slot : pc[u] \notin Outside /\ (u # t \/ l # slot[t]) =>
                pointers'[rec[u]][l] = pointers[rec[u]][l]
          /\ pointers'[rec[t]][slot[t]] = Null
      BY <2>1, OtherSlots
    <2> SUFFICES ASSUME NEW u \in Thread PROVE SlotFreeOf(u)'
      BY DEF SlotFree
    <2>3. SlotFreeOf(u)
      BY DEF SlotFree
    <2>4. CASE u = t
      BY <1>8, <2>1, <2>2, <2>3, <2>4 DEF RetireSlot, TypeOK, SlotFreeOf
    <2>5. CASE u # t
      <3>1. slot'[u] = slot[u] /\ pc'[u] = pc[u] /\ UNCHANGED <<rec, ref, held, spos, sk>>
        BY <1>8, <2>5 DEF RetireSlot, TypeOK
      <3>2. pc[u] = "check" => pointers'[rec[u]][slot[u]] = pointers[rec[u]][slot[u]]
        BY <2>2, <2>5 DEF Outside, TypeOK
      <3> QED  BY <2>3, <3>1, <3>2 DEF SlotFreeOf
    <2> QED  BY <2>4, <2>5
  <1>9. CASE RetireActive(t)
    <2>1. pc[t] \notin Outside
      BY <1>9 DEF RetireActive, Outside
    <2>2. UNCHANGED pointers
      BY <1>9, <2>1, HasRecord, StoreActive DEF RetireActive
    <2> QED  BY SMTT(40), <1>9, <2>2 DEF RetireActive, TypeOK, SlotFree, SlotFreeOf, Outside
  <1>10. CASE LoadCell(t)
    BY SMTT(40), <1>10 DEF LoadCell, TypeOK, SlotFree, SlotFreeOf, Outside
  <1>11. CASE SetCur(t)
    <2>1. pc[t] \notin Outside /\ slot[t] \in Slot /\ ref[t] \in Pointer /\ Store(t, rec[t], slot[t], ref[t])
      BY <1>11 DEF SetCur, Outside, TypeOK
    <2>2. /\ \A u \in Thread, l \in Slot : pc[u] \notin Outside /\ (u # t \/ l # slot[t]) =>
                pointers'[rec[u]][l] = pointers[rec[u]][l]
          /\ pointers'[rec[t]][slot[t]] = ref[t]
      BY <2>1, OtherSlots
    <2> SUFFICES ASSUME NEW u \in Thread PROVE SlotFreeOf(u)'
      BY DEF SlotFree
    <2>3. SlotFreeOf(u)
      BY DEF SlotFree
    <2>4. CASE u = t
      BY <1>11, <2>1, <2>2, <2>3, <2>4 DEF SetCur, TypeOK, SlotFreeOf
    <2>5. CASE u # t
      <3>1. pc'[u] = pc[u] /\ UNCHANGED <<rec, slot, ref, held, spos, sk>>
        BY <1>11, <2>5 DEF SetCur, TypeOK
      <3>2. pc[u] = "check" => pointers'[rec[u]][slot[u]] = pointers[rec[u]][slot[u]]
        BY <2>2, <2>5 DEF Outside, TypeOK
      <3> QED  BY <2>3, <3>1, <3>2 DEF SlotFreeOf
    <2> QED  BY <2>4, <2>5
  <1>12. CASE CheckSame(t)
    BY <1>12 DEF CheckSame, TypeOK, SlotFree, SlotFreeOf, Outside
  <1>13. CASE CheckChanged(t)
    BY SMTT(40), <1>13 DEF CheckChanged, TypeOK, SlotFree, SlotFreeOf, Outside
  <1>14. CASE FailClear(t)
    <2>1. pc[t] \notin Outside /\ slot[t] \in Slot /\ Null \in Pointer /\ Store(t, rec[t], slot[t], Null)
      BY <1>14 DEF FailClear, Outside, TypeOK
    <2>2. /\ \A u \in Thread, l \in Slot : pc[u] \notin Outside /\ (u # t \/ l # slot[t]) =>
                pointers'[rec[u]][l] = pointers[rec[u]][l]
          /\ pointers'[rec[t]][slot[t]] = Null
      BY <2>1, OtherSlots
    <2> SUFFICES ASSUME NEW u \in Thread PROVE SlotFreeOf(u)'
      BY DEF SlotFree
    <2>3. SlotFreeOf(u)
      BY DEF SlotFree
    <2>4. CASE u = t
      BY <1>14, <2>1, <2>2, <2>3, <2>4 DEF FailClear, TypeOK, SlotFreeOf
    <2>5. CASE u # t
      <3>1. pc'[u] = pc[u] /\ UNCHANGED <<rec, slot, ref, held, spos, sk>>
        BY <1>14, <2>5 DEF FailClear, TypeOK
      <3>2. pc[u] = "check" => pointers'[rec[u]][slot[u]] = pointers[rec[u]][slot[u]]
        BY <2>2, <2>5 DEF Outside, TypeOK
      <3> QED  BY <2>3, <3>1, <3>2 DEF SlotFreeOf
    <2> QED  BY <2>4, <2>5
  <1>15. CASE NewNode(t)
    BY <1>15 DEF NewNode, TypeOK, SlotFree, SlotFreeOf, Outside
  <1>16. CASE DropNode(t)
    BY SMTT(40), <1>16 DEF DropNode, TypeOK, SlotFree, SlotFreeOf, Outside
  <1>17. CASE Exchange(t)
    BY SMTT(40), <1>17 DEF Exchange, TypeOK, SlotFree, SlotFreeOf, Outside
  <1>18. CASE RetireNode(t)
    BY SMTT(40), <1>18 DEF RetireNode, TypeOK, SlotFree, SlotFreeOf, Outside
  <1>19. CASE ScanBegin(t)
    BY ZenonT(60), <1>19 DEF ScanBegin, TypeOK, SlotFree, SlotFreeOf, Outside
  <1>20. CASE ScanSlot(t)
    BY SMTT(40), <1>20 DEF ScanSlot, TypeOK, SlotFree, SlotFreeOf, Outside
  <1>21. CASE Sweep(t)
    BY <1>21 DEF Sweep, TypeOK, SlotFree, SlotFreeOf, Outside
  <1>22. CASE HelpBegin(t)
    BY ZenonT(60), <1>22 DEF HelpBegin, TypeOK, SlotFree, SlotFreeOf, Outside
  <1>23. CASE HelpSkip(t)
    BY SMTT(40), <1>23 DEF HelpSkip, TypeOK, SlotFree, SlotFreeOf, Outside, HelpNext
  <1>24. CASE HelpLock(t)
    BY <1>24 DEF HelpLock, TypeOK, SlotFree, SlotFreeOf, Outside
  <1>25. CASE Move(t)
    BY SMTT(40), <1>25 DEF Move, TypeOK, SlotFree, SlotFreeOf, Outside
  <1>26. CASE HelpUnlock(t)
    <2>1. pos[t] \in Rec
      BY <1>26 DEF HelpUnlock, TypeOK, Control, ControlOf
    <2>2. UNCHANGED pointers
      BY <1>26, <2>1, StoreActive DEF HelpUnlock
    <2> QED  BY <1>26, <2>2 DEF HelpUnlock, TypeOK, SlotFree, SlotFreeOf, Outside, HelpNext
  <1>27. ASSUME NEW k \in Slot, LoadBegin(t, k) PROVE SlotFree'
    BY SMTT(40), <1>27 DEF LoadBegin, TypeOK, SlotFree, SlotFreeOf, Outside
  <1>28. ASSUME NEW k \in Slot, SetHazardFresh(t, k) PROVE SlotFree'
    <2>1. pc[t] \notin Outside /\ k \in Slot /\ priv[t] \in Pointer /\ Store(t, rec[t], k, priv[t])
      BY <1>28 DEF SetHazardFresh, Outside, TypeOK
    <2>2. /\ \A u \in Thread, l \in Slot : pc[u] \notin Outside /\ (u # t \/ l # k) =>
                pointers'[rec[u]][l] = pointers[rec[u]][l]
          /\ pointers'[rec[t]][k] = priv[t]
      BY <2>1, OtherSlots
    <2> SUFFICES ASSUME NEW u \in Thread PROVE SlotFreeOf(u)'
      BY DEF SlotFree
    <2>3. SlotFreeOf(u)
      BY DEF SlotFree
    <2>4. CASE u = t
      BY <1>28, <2>1, <2>2, <2>3, <2>4 DEF SetHazardFresh, TypeOK, SlotFreeOf
    <2>5. CASE u # t
      <3>1. held'[u] = held[u] /\ UNCHANGED <<pc, rec, slot, ref, spos, sk>>
        BY <1>28, <2>5 DEF SetHazardFresh, TypeOK
      <3>2. pc[u] = "check" => pointers'[rec[u]][slot[u]] = pointers[rec[u]][slot[u]]
        BY <2>2, <2>5 DEF Outside, TypeOK
      <3> QED  BY <2>3, <3>1, <3>2 DEF SlotFreeOf
    <2> QED  BY <2>4, <2>5
  <1>29. ASSUME NEW k \in Slot, ClearHazard(t, k) PROVE SlotFree'
    <2>1. pc[t] \notin Outside /\ k \in Slot /\ Null \in Pointer /\ Store(t, rec[t], k, Null)
      BY <1>29 DEF ClearHazard, Outside, TypeOK
    <2>2. /\ \A u \in Thread, l \in Slot : pc[u] \notin Outside /\ (u # t \/ l # k) =>
                pointers'[rec[u]][l] = pointers[rec[u]][l]
          /\ pointers'[rec[t]][k] = Null
      BY <2>1, OtherSlots
    <2> SUFFICES ASSUME NEW u \in Thread PROVE SlotFreeOf(u)'
      BY DEF SlotFree
    <2>3. SlotFreeOf(u)
      BY DEF SlotFree
    <2>4. CASE u = t
      BY <1>29, <2>1, <2>2, <2>3, <2>4 DEF ClearHazard, TypeOK, SlotFreeOf
    <2>5. CASE u # t
      <3>1. held'[u] = held[u] /\ UNCHANGED <<pc, rec, slot, ref, spos, sk>>
        BY <1>29, <2>5 DEF ClearHazard, TypeOK
      <3>2. pc[u] = "check" => pointers'[rec[u]][slot[u]] = pointers[rec[u]][slot[u]]
        BY <2>2, <2>5 DEF Outside, TypeOK
      <3> QED  BY <2>3, <3>1, <3>2 DEF SlotFreeOf
    <2> QED  BY <2>4, <2>5
  <1>30. ASSUME NEW i \in Slot, NEW j \in Slot, SetHazardCopy(t, i, j) PROVE SlotFree'
    <2>1. pc[t] \notin Outside /\ j \in Slot /\ held[t][i] \in Pointer /\ Store(t, rec[t], j, held[t][i])
      BY <1>30 DEF SetHazardCopy, Outside, TypeOK
    <2>2. /\ \A u \in Thread, l \in Slot : pc[u] \notin Outside /\ (u # t \/ l # j) =>
                pointers'[rec[u]][l] = pointers[rec[u]][l]
          /\ pointers'[rec[t]][j] = held[t][i]
      BY <2>1, OtherSlots
    <2> SUFFICES ASSUME NEW u \in Thread PROVE SlotFreeOf(u)'
      BY DEF SlotFree
    <2>3. SlotFreeOf(u)
      BY DEF SlotFree
    <2>4. CASE u = t
      BY <1>30, <2>1, <2>2, <2>3, <2>4 DEF SetHazardCopy, TypeOK, SlotFreeOf
    <2>5. CASE u # t
      <3>1. held'[u] = held[u] /\ UNCHANGED <<pc, rec, slot, ref, spos, sk>>
        BY <1>30, <2>5 DEF SetHazardCopy, TypeOK
      <3>2. pc[u] = "check" => pointers'[rec[u]][slot[u]] = pointers[rec[u]][slot[u]]
        BY <2>2, <2>5 DEF Outside, TypeOK
      <3> QED  BY <2>3, <3>1, <3>2 DEF SlotFreeOf
    <2> QED  BY <2>4, <2>5
  <1>31. CASE Destroy
    BY <1>31 DEF Destroy, TypeOK, SlotFree, SlotFreeOf, Outside
  <1> QED
    BY <1>1, <1>2, <1>3, <1>4, <1>5, <1>6, <1>7, <1>8, <1>9, <1>10, <1>11, <1>12, <1>13, <1>14, <1>15, <1>16, <1>17, <1>18, <1>19, <1>20, <1>21, <1>22, <1>23, <1>24, <1>25, <1>26, <1>27, <1>28, <1>29, <1>30, <1>31
       DEF Step, Allocate, Retire, LoadAndSetHazard, RetireNodeStep, ClientStep

\* Every action keeps each held node allocated and in its hazard slot.
LEMMA GuardStep ==
    ASSUME ~StoreBuffered, Basic, RecordsExclusive, Placed, HeldGuarded, SlotFree, ScanSees, NEW t \in Thread, Step(t) \/ Destroy
    PROVE  HeldGuarded'
  <1> USE KAssumption, BoundAssumption DEF Basic, memory, heap, client, scanner
  <1>1. CASE AllocBegin(t)
    <2>1. \A u \in Thread : pc'[u] \in Outside => pc[u] \in Outside
      BY <1>1 DEF AllocBegin, TypeOK, Outside
    <2> QED  BY <1>1, <2>1, GuardSame DEF AllocBegin
  <1>2. CASE AllocSkip(t)
    <2>1. \A u \in Thread : pc'[u] \in Outside => pc[u] \in Outside
      BY <1>2 DEF AllocSkip, TypeOK, Outside
    <2> QED  BY <1>2, <2>1, GuardSame DEF AllocSkip
  <1>3. CASE AllocClaim(t)
    <2>1. \A u \in Thread, l \in Slot : held'[u][l] # Null =>
             /\ held'[u][l] = held[u][l]
             /\ pc'[u] \notin Outside
             /\ pointers'[rec'[u]][l] = pointers[rec[u]][l]
             /\ held[u][l] \in alloc'
      BY SMTT(40), <1>3 DEF AllocClaim, HeldGuarded, TypeOK, Outside
    <2> QED  BY <1>3, <2>1, GuardFrame DEF AllocClaim
  <1>4. CASE AllocCount(t)
    <2>1. \A u \in Thread : pc'[u] \in Outside => pc[u] \in Outside
      BY <1>4 DEF AllocCount, TypeOK, Outside
    <2> QED  BY <1>4, <2>1, GuardSame DEF AllocCount
  <1>5. CASE AllocLoad(t)
    <2>1. \A u \in Thread : pc'[u] \in Outside => pc[u] \in Outside
      BY <1>5 DEF AllocLoad, TypeOK, Outside
    <2> QED  BY <1>5, <2>1, GuardSame DEF AllocLoad
  <1>6. CASE AllocLink(t)
    <2>1. /\ \A u \in Thread : u # t => rec'[u] = rec[u] /\ pc'[u] = pc[u]
          /\ pc[t] = "alloc_cas"
          /\ UNCHANGED <<held, pointers, priv, alloc>>
      BY <1>6 DEF AllocLink, TypeOK
    <2>2. \A u \in Thread, l \in Slot : held'[u][l] # Null =>
             /\ held'[u][l] = held[u][l]
             /\ pc'[u] \notin Outside
             /\ pointers'[rec'[u]][l] = pointers[rec[u]][l]
             /\ held[u][l] \in alloc'
      BY SMTT(40), <2>1 DEF HeldGuarded, TypeOK, Outside
    <2> QED  BY <1>6, <2>2, GuardFrame DEF AllocLink
  <1>7. CASE RetireBegin(t)
    <2>1. \A u \in Thread, l \in Slot : held'[u][l] # Null =>
             /\ held'[u][l] = held[u][l]
             /\ pc'[u] \notin Outside
             /\ pointers'[rec'[u]][l] = pointers[rec[u]][l]
             /\ held[u][l] \in alloc'
      BY SMTT(40), <1>7 DEF RetireBegin, HeldGuarded, TypeOK, Outside
    <2> QED  BY <1>7, <2>1, GuardFrame DEF RetireBegin
  <1>8. CASE RetireSlot(t)
    <2>1. pc[t] \notin Outside /\ slot[t] \in Slot /\ Null \in Pointer /\ Store(t, rec[t], slot[t], Null)
      BY <1>8 DEF RetireSlot, Outside, TypeOK
    <2>2. /\ \A u \in Thread, l \in Slot : pc[u] \notin Outside /\ (u # t \/ l # slot[t]) =>
                pointers'[rec[u]][l] = pointers[rec[u]][l]
          /\ pointers'[rec[t]][slot[t]] = Null
      BY <2>1, OtherSlots
    <2>3. \A u \in Thread, l \in Slot : held'[u][l] # Null =>
             /\ held'[u][l] = held[u][l]
             /\ pc'[u] \notin Outside
             /\ pointers'[rec'[u]][l] = pointers[rec[u]][l]
             /\ held[u][l] \in alloc'
      BY SMTT(40), <1>8, <2>2 DEF RetireSlot, SlotFree, SlotFreeOf, HeldGuarded, TypeOK, Outside
    <2> QED  BY <1>8, <2>3, GuardFrame DEF RetireSlot
  <1>9. CASE RetireActive(t)
    <2>1. pc[t] \notin Outside
      BY <1>9 DEF RetireActive, Outside
    <2>2. UNCHANGED pointers
      BY <1>9, <2>1, HasRecord, StoreActive DEF RetireActive
    <2>3. \A u \in Thread, l \in Slot : held'[u][l] # Null =>
             /\ held'[u][l] = held[u][l]
             /\ pc'[u] \notin Outside
             /\ pointers'[rec'[u]][l] = pointers[rec[u]][l]
             /\ held[u][l] \in alloc'
      BY SMTT(40), <1>9, <2>2 DEF RetireActive, SlotFree, SlotFreeOf, HeldGuarded, TypeOK, Outside
    <2> QED  BY <1>9, <2>3, GuardFrame DEF RetireActive
  <1>10. CASE LoadCell(t)
    <2>1. \A u \in Thread : pc'[u] \in Outside => pc[u] \in Outside
      BY <1>10 DEF LoadCell, TypeOK, Outside
    <2> QED  BY <1>10, <2>1, GuardSame DEF LoadCell
  <1>11. CASE SetCur(t)
    <2>1. pc[t] \notin Outside /\ slot[t] \in Slot /\ ref[t] \in Pointer /\ Store(t, rec[t], slot[t], ref[t])
      BY <1>11 DEF SetCur, Outside, TypeOK
    <2>2. /\ \A u \in Thread, l \in Slot : pc[u] \notin Outside /\ (u # t \/ l # slot[t]) =>
                pointers'[rec[u]][l] = pointers[rec[u]][l]
          /\ pointers'[rec[t]][slot[t]] = ref[t]
      BY <2>1, OtherSlots
    <2>3. \A u \in Thread, l \in Slot : held'[u][l] # Null =>
             /\ held'[u][l] = held[u][l]
             /\ pc'[u] \notin Outside
             /\ pointers'[rec'[u]][l] = pointers[rec[u]][l]
             /\ held[u][l] \in alloc'
      BY SMTT(40), <1>11, <2>2 DEF SetCur, SlotFree, SlotFreeOf, HeldGuarded, TypeOK, Outside
    <2> QED  BY <1>11, <2>3, GuardFrame DEF SetCur
  <1>12. CASE CheckSame(t)
    <2> SUFFICES ASSUME NEW u \in Thread, NEW k \in Slot, held'[u][k] # Null
                 PROVE  /\ held'[u][k] \in alloc' /\ pc'[u] \notin Outside
                        /\ pointers'[rec'[u]][k] = held'[u][k]
                        /\ \A v \in Thread : v # u => held'[u][k] # priv'[v]
      BY DEF HeldGuarded
    <2>1. /\ pc[t] = "check" /\ cell = ref[t] /\ slot[t] \in Slot
          /\ held' = [held EXCEPT ![t][slot[t]] = ref[t]]
          /\ pc' = [pc EXCEPT ![t] = "ready"]
          /\ UNCHANGED <<alloc, pointers, rec, priv>>
      BY <1>12 DEF CheckSame, TypeOK
    <2>2. CASE u = t /\ k = slot[t]
      <3>1. held'[u][k] = cell /\ cell # Null /\ pc'[u] = "ready"
        BY <2>1, <2>2 DEF TypeOK
      <3>2. cell \in alloc /\ \A v \in Thread : cell # priv[v]
        BY <3>1, NullAssumption DEF Placed, Reachable, TypeOK
      <3>3. pointers[rec[t]][slot[t]] = ref[t]
        BY <2>1 DEF SlotFree, SlotFreeOf
      <3> QED  BY <2>1, <2>2, <3>1, <3>2, <3>3 DEF Outside
    <2>3. CASE u # t \/ k # slot[t]
      <3>1. held'[u][k] = held[u][k] /\ (pc'[u] = pc[u] \/ pc'[u] = "ready")
        BY <2>1, <2>3 DEF TypeOK
      <3> QED  BY <2>1, <3>1 DEF HeldGuarded, Outside
    <2> QED  BY <2>2, <2>3
  <1>13. CASE CheckChanged(t)
    <2>1. \A u \in Thread : pc'[u] \in Outside => pc[u] \in Outside
      BY SMTT(40), <1>13 DEF CheckChanged, TypeOK, Outside
    <2> QED  BY <1>13, <2>1, GuardSame DEF CheckChanged
  <1>14. CASE FailClear(t)
    <2>1. pc[t] \notin Outside /\ slot[t] \in Slot /\ Null \in Pointer /\ Store(t, rec[t], slot[t], Null)
      BY <1>14 DEF FailClear, Outside, TypeOK
    <2>2. /\ \A u \in Thread, l \in Slot : pc[u] \notin Outside /\ (u # t \/ l # slot[t]) =>
                pointers'[rec[u]][l] = pointers[rec[u]][l]
          /\ pointers'[rec[t]][slot[t]] = Null
      BY <2>1, OtherSlots
    <2>3. \A u \in Thread, l \in Slot : held'[u][l] # Null =>
             /\ held'[u][l] = held[u][l]
             /\ pc'[u] \notin Outside
             /\ pointers'[rec'[u]][l] = pointers[rec[u]][l]
             /\ held[u][l] \in alloc'
      BY SMTT(40), <1>14, <2>2 DEF FailClear, SlotFree, SlotFreeOf, HeldGuarded, TypeOK, Outside
    <2> QED  BY <1>14, <2>3, GuardFrame DEF FailClear
  <1>15. CASE NewNode(t)
    <2>1. PICK n \in Node \ alloc : alloc' = alloc \cup {n} /\ priv' = [priv EXCEPT ![t] = n]
      BY <1>15 DEF NewNode
    <2>2. UNCHANGED <<held, pointers, rec, pc>>
      BY <1>15 DEF NewNode
    <2>3. \A u \in Thread, l \in Slot : held'[u][l] # Null =>
             /\ held'[u][l] = held[u][l]
             /\ pc'[u] \notin Outside
             /\ pointers'[rec'[u]][l] = pointers[rec[u]][l]
             /\ held[u][l] \in alloc'
      BY <2>1, <2>2 DEF HeldGuarded
    <2>4. \A u \in Thread : priv'[u] = priv[u] \/ priv'[u] \notin alloc
      BY <2>1 DEF TypeOK
    <2> QED  BY <2>3, <2>4, GuardFrame
  <1>16. CASE DropNode(t)
    <2>1. /\ alloc' = alloc \ {priv[t]} /\ priv' = [priv EXCEPT ![t] = Null]
          /\ UNCHANGED <<pointers, rec, pc>>
      BY <1>16 DEF DropNode
    <2>2. \A u \in Thread, l \in Slot : held'[u][l] # Null =>
             held'[u][l] = held[u][l] /\ (u = t => held[u][l] # priv[t])
      BY <1>16 DEF DropNode, TypeOK
    <2>3. \A u \in Thread, l \in Slot : held'[u][l] # Null =>
             /\ held'[u][l] = held[u][l]
             /\ pc'[u] \notin Outside
             /\ pointers'[rec'[u]][l] = pointers[rec[u]][l]
             /\ held[u][l] \in alloc'
      BY <2>1, <2>2 DEF HeldGuarded
    <2>4. \A u \in Thread : priv'[u] = priv[u] \/ priv'[u] = Null
      BY <2>1 DEF TypeOK
    <2> QED  BY <2>3, <2>4, GuardFrame
  <1>17. CASE Exchange(t)
    <2>1. /\ priv' = [priv EXCEPT ![t] = Null]
          /\ UNCHANGED <<held, pointers, rec, alloc>>
          /\ \A u \in Thread : pc'[u] \in Outside => pc[u] \in Outside
      BY <1>17 DEF Exchange, TypeOK, Outside
    <2>2. \A u \in Thread, l \in Slot : held'[u][l] # Null =>
             /\ held'[u][l] = held[u][l]
             /\ pc'[u] \notin Outside
             /\ pointers'[rec'[u]][l] = pointers[rec[u]][l]
             /\ held[u][l] \in alloc'
      BY <2>1 DEF HeldGuarded
    <2>3. \A u \in Thread : priv'[u] = priv[u] \/ priv'[u] = Null
      BY <2>1 DEF TypeOK
    <2> QED  BY <2>2, <2>3, GuardFrame
  <1>18. CASE RetireNode(t)
    <2>1. \A u \in Thread : pc'[u] \in Outside => pc[u] \in Outside
      BY <1>18 DEF RetireNode, TypeOK, Outside
    <2> QED  BY <1>18, <2>1, GuardSame DEF RetireNode
  <1>19. CASE ScanBegin(t)
    <2>1. \A u \in Thread : pc'[u] \in Outside => pc[u] \in Outside
      BY <1>19 DEF ScanBegin, TypeOK, Outside
    <2> QED  BY <1>19, <2>1, GuardSame DEF ScanBegin
  <1>20. CASE ScanSlot(t)
    <2>1. \A u \in Thread : pc'[u] \in Outside => pc[u] \in Outside
      BY <1>20 DEF ScanSlot, TypeOK, Outside
    <2> QED  BY <1>20, <2>1, GuardSame DEF ScanSlot
  <1>21. CASE Sweep(t)
    <2>1. /\ pc[t] = "scan" /\ spos[t] = 0
          /\ alloc' = alloc \ (retireList[rec[t]] \ live[t])
          /\ UNCHANGED <<held, pointers, rec, priv>>
          /\ \A u \in Thread : pc'[u] \in Outside => pc[u] \in Outside
      BY <1>21 DEF Sweep, TypeOK, Outside
    <2>2. ASSUME NEW u \in Thread, NEW k \in Slot, held[u][k] # Null
          PROVE  held[u][k] \in alloc'
      <3>1. held[u][k] \in alloc /\ pc[u] \notin Outside
        BY <2>2 DEF HeldGuarded
      <3>2. rec[u] \in Rec
        BY <3>1, HasRecord
      <3>3. ~Unread(t, rec[u], k)
        BY <2>1, <3>2 DEF Unread
      <3>4. held[u][k] \in retireList[rec[t]] => held[u][k] \in live[t]
        BY <2>1, <2>2, <3>3 DEF ScanSees
      <3> QED  BY <2>1, <3>1, <3>4
    <2>3. \A u \in Thread, l \in Slot : held'[u][l] # Null =>
             /\ held'[u][l] = held[u][l]
             /\ pc'[u] \notin Outside
             /\ pointers'[rec'[u]][l] = pointers[rec[u]][l]
             /\ held[u][l] \in alloc'
      BY <2>1, <2>2 DEF HeldGuarded
    <2> QED  BY <2>1, <2>3, GuardFrame
  <1>22. CASE HelpBegin(t)
    <2>1. \A u \in Thread : pc'[u] \in Outside => pc[u] \in Outside
      BY <1>22 DEF HelpBegin, TypeOK, Outside
    <2> QED  BY <1>22, <2>1, GuardSame DEF HelpBegin
  <1>23. CASE HelpSkip(t)
    <2>1. \A u \in Thread : pc'[u] \in Outside => pc[u] \in Outside
      BY <1>23 DEF HelpSkip, TypeOK, Outside, HelpNext
    <2> QED  BY <1>23, <2>1, GuardSame DEF HelpSkip
  <1>24. CASE HelpLock(t)
    <2>1. \A u \in Thread : pc'[u] \in Outside => pc[u] \in Outside
      BY <1>24 DEF HelpLock, TypeOK, Outside
    <2> QED  BY <1>24, <2>1, GuardSame DEF HelpLock
  <1>25. CASE Move(t)
    <2>1. \A u \in Thread : pc'[u] \in Outside => pc[u] \in Outside
      BY <1>25 DEF Move, TypeOK, Outside
    <2> QED  BY <1>25, <2>1, GuardSame DEF Move
  <1>26. CASE HelpUnlock(t)
    <2>1. pos[t] \in Rec
      BY <1>26 DEF HelpUnlock, TypeOK, Control, ControlOf
    <2>2. UNCHANGED pointers
      BY <1>26, <2>1, StoreActive DEF HelpUnlock
    <2>3. \A u \in Thread : pc'[u] \in Outside => pc[u] \in Outside
      BY <1>26 DEF HelpUnlock, HelpNext, TypeOK, Outside
    <2> QED  BY <1>26, <2>2, <2>3, GuardSame DEF HelpUnlock
  <1>27. ASSUME NEW k \in Slot, LoadBegin(t, k) PROVE HeldGuarded'
    <2>1. \A u \in Thread, l \in Slot : held'[u][l] # Null =>
             /\ held'[u][l] = held[u][l]
             /\ pc'[u] \notin Outside
             /\ pointers'[rec'[u]][l] = pointers[rec[u]][l]
             /\ held[u][l] \in alloc'
      BY SMTT(40), <1>27 DEF LoadBegin, HeldGuarded, TypeOK, Outside
    <2> QED  BY <1>27, <2>1, GuardFrame DEF LoadBegin
  <1>28. ASSUME NEW k \in Slot, SetHazardFresh(t, k) PROVE HeldGuarded'
    <2>1. pc[t] \notin Outside /\ k \in Slot /\ priv[t] \in Pointer /\ Store(t, rec[t], k, priv[t])
      BY <1>28 DEF SetHazardFresh, Outside, TypeOK
    <2>2. /\ \A u \in Thread, l \in Slot : pc[u] \notin Outside /\ (u # t \/ l # k) =>
                pointers'[rec[u]][l] = pointers[rec[u]][l]
          /\ pointers'[rec[t]][k] = priv[t]
      BY <2>1, OtherSlots
    <2>3. /\ held' = [held EXCEPT ![t][k] = priv[t]] /\ priv[t] # Null
          /\ UNCHANGED <<alloc, rec, priv, pc>>
      BY <1>28 DEF SetHazardFresh
    <2>4. priv[t] \in alloc /\ \A v \in Thread : v # t => priv[t] # priv[v]
      BY <2>3 DEF Placed, Reachable, TypeOK
    <2>5. \A u \in Thread, l \in Slot : held'[u][l] = IF u = t /\ l = k THEN priv[t] ELSE held[u][l]
      BY <2>1, <2>3 DEF TypeOK
    <2> QED  BY <2>1, <2>2, <2>3, <2>4, <2>5 DEF HeldGuarded
  <1>29. ASSUME NEW k \in Slot, ClearHazard(t, k) PROVE HeldGuarded'
    <2>1. pc[t] \notin Outside /\ k \in Slot /\ Null \in Pointer /\ Store(t, rec[t], k, Null)
      BY <1>29 DEF ClearHazard, Outside, TypeOK
    <2>2. /\ \A u \in Thread, l \in Slot : pc[u] \notin Outside /\ (u # t \/ l # k) =>
                pointers'[rec[u]][l] = pointers[rec[u]][l]
          /\ pointers'[rec[t]][k] = Null
      BY <2>1, OtherSlots
    <2>3. \A u \in Thread, l \in Slot : held'[u][l] # Null =>
             /\ held'[u][l] = held[u][l]
             /\ pc'[u] \notin Outside
             /\ pointers'[rec'[u]][l] = pointers[rec[u]][l]
             /\ held[u][l] \in alloc'
      BY SMTT(40), <1>29, <2>2 DEF ClearHazard, HeldGuarded, TypeOK, Outside
    <2> QED  BY <1>29, <2>3, GuardFrame DEF ClearHazard
  <1>30. ASSUME NEW i \in Slot, NEW j \in Slot, SetHazardCopy(t, i, j) PROVE HeldGuarded'
    <2>1. pc[t] \notin Outside /\ j \in Slot /\ held[t][i] \in Pointer /\ Store(t, rec[t], j, held[t][i])
      BY <1>30 DEF SetHazardCopy, Outside, TypeOK
    <2>2. /\ \A u \in Thread, l \in Slot : pc[u] \notin Outside /\ (u # t \/ l # j) =>
                pointers'[rec[u]][l] = pointers[rec[u]][l]
          /\ pointers'[rec[t]][j] = held[t][i]
      BY <2>1, OtherSlots
    <2>3. /\ held' = [held EXCEPT ![t][j] = held[t][i]] /\ held[t][i] # Null
          /\ UNCHANGED <<alloc, rec, priv, pc>>
      BY <1>30 DEF SetHazardCopy
    <2>4. held[t][i] \in alloc /\ \A v \in Thread : v # t => held[t][i] # priv[v]
      BY <2>3 DEF HeldGuarded, TypeOK
    <2>5. \A u \in Thread, l \in Slot : held'[u][l] = IF u = t /\ l = j THEN held[t][i] ELSE held[u][l]
      BY <2>1, <2>3 DEF TypeOK
    <2> QED  BY <2>1, <2>2, <2>3, <2>4, <2>5 DEF HeldGuarded
  <1>31. CASE Destroy
    <2>1. \A u \in Thread, l \in Slot : held'[u][l] # Null =>
             /\ held'[u][l] = held[u][l]
             /\ pc'[u] \notin Outside
             /\ pointers'[rec'[u]][l] = pointers[rec[u]][l]
             /\ held[u][l] \in alloc'
      BY <1>31 DEF Destroy, HeldGuarded, TypeOK, Outside
    <2> QED  BY <1>31, <2>1, GuardFrame DEF Destroy
  <1> QED
    BY <1>1, <1>2, <1>3, <1>4, <1>5, <1>6, <1>7, <1>8, <1>9, <1>10, <1>11, <1>12, <1>13, <1>14, <1>15, <1>16, <1>17, <1>18, <1>19, <1>20, <1>21, <1>22, <1>23, <1>24, <1>25, <1>26, <1>27, <1>28, <1>29, <1>30, <1>31
       DEF Step, Allocate, Retire, LoadAndSetHazard, RetireNodeStep, ClientStep

\* No guard is taken, no scan moves and no list grows under a scan.
LEMMA SeesFrame ==
    ASSUME ScanSees,
           \A u \in Thread, k \in Slot : held'[u][k] # Null =>
               held'[u][k] = held[u][k] /\ rec'[u] = rec[u],
           \A s \in Thread : pc'[s] = "scan" =>
               /\ pc[s] = "scan" /\ rec'[s] = rec[s]
               /\ spos'[s] = spos[s] /\ sk'[s] = sk[s] /\ live'[s] = live[s]
               /\ retireList'[rec[s]] \subseteq retireList[rec[s]]
    PROVE  ScanSees'
  <1> SUFFICES ASSUME NEW s \in Thread, NEW u \in Thread, NEW k \in Slot, pc'[s] = "scan",
                      held'[u][k] # Null, held'[u][k] \in retireList'[rec'[s]]
               PROVE  held'[u][k] \in live'[s] \/ Unread(s, rec[u], k)'
    BY DEF ScanSees, Unread
  <1>1. held'[u][k] = held[u][k] /\ rec'[u] = rec[u]
    OBVIOUS
  <1>2. held[u][k] \in live[s] \/ Unread(s, rec[u], k)
    BY <1>1 DEF ScanSees
  <1> QED  BY <1>1, <1>2 DEF Unread

\* Every action keeps what a scan has seen, or has still to see, in cover of
\* the held nodes on its list.
LEMMA SeesStep ==
    ASSUME ~StoreBuffered, Basic, Unbuffered, RecordsExclusive, Placed, HeldGuarded, SlotFree, ScanSees, NEW t \in Thread, Step(t) \/ Destroy
    PROVE  ScanSees'
  <1> USE KAssumption, BoundAssumption DEF Basic, memory, heap, client, scanner
  <1>1. CASE AllocBegin(t)
    <2>1. \A u \in Thread, l \in Slot : held'[u][l] # Null => held'[u][l] = held[u][l] /\ rec'[u] = rec[u]
      BY <1>1 DEF AllocBegin, TypeOK
    <2>2. \A s \in Thread : pc'[s] = "scan" =>
             /\ pc[s] = "scan" /\ rec'[s] = rec[s]
             /\ spos'[s] = spos[s] /\ sk'[s] = sk[s] /\ live'[s] = live[s]
             /\ retireList'[rec[s]] \subseteq retireList[rec[s]]
      BY <1>1 DEF AllocBegin, TypeOK
    <2> QED  BY <2>1, <2>2, SeesFrame
  <1>2. CASE AllocSkip(t)
    <2>1. \A u \in Thread, l \in Slot : held'[u][l] # Null => held'[u][l] = held[u][l] /\ rec'[u] = rec[u]
      BY <1>2 DEF AllocSkip, TypeOK
    <2>2. \A s \in Thread : pc'[s] = "scan" =>
             /\ pc[s] = "scan" /\ rec'[s] = rec[s]
             /\ spos'[s] = spos[s] /\ sk'[s] = sk[s] /\ live'[s] = live[s]
             /\ retireList'[rec[s]] \subseteq retireList[rec[s]]
      BY <1>2 DEF AllocSkip, TypeOK
    <2> QED  BY <2>1, <2>2, SeesFrame
  <1>3. CASE AllocClaim(t)
    <2>1. \A u \in Thread, l \in Slot : held'[u][l] # Null => held'[u][l] = held[u][l] /\ rec'[u] = rec[u]
      BY <1>3 DEF AllocClaim, TypeOK, HeldGuarded, Outside
    <2>2. \A s \in Thread : pc'[s] = "scan" =>
             /\ pc[s] = "scan" /\ rec'[s] = rec[s]
             /\ spos'[s] = spos[s] /\ sk'[s] = sk[s] /\ live'[s] = live[s]
             /\ retireList'[rec[s]] \subseteq retireList[rec[s]]
      BY <1>3 DEF AllocClaim, TypeOK
    <2> QED  BY <2>1, <2>2, SeesFrame
  <1>4. CASE AllocCount(t)
    <2>1. \A u \in Thread, l \in Slot : held'[u][l] # Null => held'[u][l] = held[u][l] /\ rec'[u] = rec[u]
      BY <1>4 DEF AllocCount, TypeOK
    <2>2. \A s \in Thread : pc'[s] = "scan" =>
             /\ pc[s] = "scan" /\ rec'[s] = rec[s]
             /\ spos'[s] = spos[s] /\ sk'[s] = sk[s] /\ live'[s] = live[s]
             /\ retireList'[rec[s]] \subseteq retireList[rec[s]]
      BY <1>4 DEF AllocCount, TypeOK
    <2> QED  BY <2>1, <2>2, SeesFrame
  <1>5. CASE AllocLoad(t)
    <2>1. \A u \in Thread, l \in Slot : held'[u][l] # Null => held'[u][l] = held[u][l] /\ rec'[u] = rec[u]
      BY <1>5 DEF AllocLoad, TypeOK
    <2>2. \A s \in Thread : pc'[s] = "scan" =>
             /\ pc[s] = "scan" /\ rec'[s] = rec[s]
             /\ spos'[s] = spos[s] /\ sk'[s] = sk[s] /\ live'[s] = live[s]
             /\ retireList'[rec[s]] \subseteq retireList[rec[s]]
      BY <1>5 DEF AllocLoad, TypeOK
    <2> QED  BY <2>1, <2>2, SeesFrame
  <1>6. CASE AllocLink(t)
    <2>1. /\ \A u \in Thread : u # t => rec'[u] = rec[u] /\ pc'[u] = pc[u]
          /\ pc[t] = "alloc_cas" /\ pc'[t] # "scan"
          /\ UNCHANGED <<held, retireList, spos, sk, live>>
      BY <1>6 DEF AllocLink, TypeOK
    <2>2. \A u \in Thread, l \in Slot : held'[u][l] # Null => held'[u][l] = held[u][l] /\ rec'[u] = rec[u]
      BY <2>1 DEF HeldGuarded, Outside
    <2>3. \A s \in Thread : pc'[s] = "scan" =>
             /\ pc[s] = "scan" /\ rec'[s] = rec[s]
             /\ spos'[s] = spos[s] /\ sk'[s] = sk[s] /\ live'[s] = live[s]
             /\ retireList'[rec[s]] \subseteq retireList[rec[s]]
      BY <2>1
    <2> QED  BY <2>2, <2>3, SeesFrame
  <1>7. CASE RetireBegin(t)
    <2>1. \A u \in Thread, l \in Slot : held'[u][l] # Null => held'[u][l] = held[u][l] /\ rec'[u] = rec[u]
      BY <1>7 DEF RetireBegin, TypeOK
    <2>2. \A s \in Thread : pc'[s] = "scan" =>
             /\ pc[s] = "scan" /\ rec'[s] = rec[s]
             /\ spos'[s] = spos[s] /\ sk'[s] = sk[s] /\ live'[s] = live[s]
             /\ retireList'[rec[s]] \subseteq retireList[rec[s]]
      BY <1>7 DEF RetireBegin, TypeOK
    <2> QED  BY <2>1, <2>2, SeesFrame
  <1>8. CASE RetireSlot(t)
    <2>1. \A u \in Thread, l \in Slot : held'[u][l] # Null => held'[u][l] = held[u][l] /\ rec'[u] = rec[u]
      BY <1>8 DEF RetireSlot, TypeOK
    <2>2. \A s \in Thread : pc'[s] = "scan" =>
             /\ pc[s] = "scan" /\ rec'[s] = rec[s]
             /\ spos'[s] = spos[s] /\ sk'[s] = sk[s] /\ live'[s] = live[s]
             /\ retireList'[rec[s]] \subseteq retireList[rec[s]]
      BY <1>8 DEF RetireSlot, TypeOK
    <2> QED  BY <2>1, <2>2, SeesFrame
  <1>9. CASE RetireActive(t)
    <2>1. \A u \in Thread, l \in Slot : held'[u][l] # Null => held'[u][l] = held[u][l] /\ rec'[u] = rec[u]
      BY <1>9 DEF RetireActive, TypeOK, SlotFree, SlotFreeOf
    <2>2. \A s \in Thread : pc'[s] = "scan" =>
             /\ pc[s] = "scan" /\ rec'[s] = rec[s]
             /\ spos'[s] = spos[s] /\ sk'[s] = sk[s] /\ live'[s] = live[s]
             /\ retireList'[rec[s]] \subseteq retireList[rec[s]]
      BY <1>9 DEF RetireActive, TypeOK
    <2> QED  BY <2>1, <2>2, SeesFrame
  <1>10. CASE LoadCell(t)
    <2>1. \A u \in Thread, l \in Slot : held'[u][l] # Null => held'[u][l] = held[u][l] /\ rec'[u] = rec[u]
      BY <1>10 DEF LoadCell, TypeOK
    <2>2. \A s \in Thread : pc'[s] = "scan" =>
             /\ pc[s] = "scan" /\ rec'[s] = rec[s]
             /\ spos'[s] = spos[s] /\ sk'[s] = sk[s] /\ live'[s] = live[s]
             /\ retireList'[rec[s]] \subseteq retireList[rec[s]]
      BY <1>10 DEF LoadCell, TypeOK
    <2> QED  BY <2>1, <2>2, SeesFrame
  <1>11. CASE SetCur(t)
    <2>1. \A u \in Thread, l \in Slot : held'[u][l] # Null => held'[u][l] = held[u][l] /\ rec'[u] = rec[u]
      BY <1>11 DEF SetCur, TypeOK
    <2>2. \A s \in Thread : pc'[s] = "scan" =>
             /\ pc[s] = "scan" /\ rec'[s] = rec[s]
             /\ spos'[s] = spos[s] /\ sk'[s] = sk[s] /\ live'[s] = live[s]
             /\ retireList'[rec[s]] \subseteq retireList[rec[s]]
      BY <1>11 DEF SetCur, TypeOK
    <2> QED  BY <2>1, <2>2, SeesFrame
  <1>12. CASE CheckSame(t)
    <2> SUFFICES ASSUME NEW s \in Thread, NEW u \in Thread, NEW l \in Slot, pc'[s] = "scan",
                        held'[u][l] # Null, held'[u][l] \in retireList'[rec'[s]]
                 PROVE  held'[u][l] \in live'[s] \/ Unread(s, rec[u], l)'
      BY DEF ScanSees, Unread
    <2>1. /\ pc[t] = "check" /\ slot[t] \in Slot
          /\ held' = [held EXCEPT ![t][slot[t]] = ref[t]]
          /\ UNCHANGED <<rec, retireList, spos, sk, live>>
          /\ pc'[s] = pc[s]
      BY <1>12 DEF CheckSame, TypeOK
    <2>2. CASE u = t /\ l = slot[t]
      <3>1. held'[u][l] = ref[t] /\ ref[t] # Null
        BY <2>1, <2>2 DEF TypeOK
      <3>2. pc[s] \notin Outside
        BY <2>1 DEF Outside
      <3>3. rec[s] \in Rec
        BY <3>2, HasRecord
      <3>4. ref[t] = cell /\ ref[t] \in Node
        BY <1>12, <3>1 DEF CheckSame, TypeOK
      <3>5. cell \notin retireList[rec[s]]
        BY <3>3, <3>4 DEF Placed, ListedOnce
      <3> QED  BY <2>1, <3>1, <3>4, <3>5
    <2>3. CASE ~(u = t /\ l = slot[t])
      <3>1. held'[u][l] = held[u][l]
        BY <2>1, <2>3 DEF TypeOK
      <3> QED  BY <2>1, <3>1 DEF ScanSees, Unread
    <2> QED  BY <2>2, <2>3
  <1>13. CASE CheckChanged(t)
    <2>1. \A u \in Thread, l \in Slot : held'[u][l] # Null => held'[u][l] = held[u][l] /\ rec'[u] = rec[u]
      BY <1>13 DEF CheckChanged, TypeOK
    <2>2. \A s \in Thread : pc'[s] = "scan" =>
             /\ pc[s] = "scan" /\ rec'[s] = rec[s]
             /\ spos'[s] = spos[s] /\ sk'[s] = sk[s] /\ live'[s] = live[s]
             /\ retireList'[rec[s]] \subseteq retireList[rec[s]]
      BY <1>13 DEF CheckChanged, TypeOK
    <2> QED  BY <2>1, <2>2, SeesFrame
  <1>14. CASE FailClear(t)
    <2>1. \A u \in Thread, l \in Slot : held'[u][l] # Null => held'[u][l] = held[u][l] /\ rec'[u] = rec[u]
      BY <1>14 DEF FailClear, TypeOK
    <2>2. \A s \in Thread : pc'[s] = "scan" =>
             /\ pc[s] = "scan" /\ rec'[s] = rec[s]
             /\ spos'[s] = spos[s] /\ sk'[s] = sk[s] /\ live'[s] = live[s]
             /\ retireList'[rec[s]] \subseteq retireList[rec[s]]
      BY <1>14 DEF FailClear, TypeOK
    <2> QED  BY <2>1, <2>2, SeesFrame
  <1>15. CASE NewNode(t)
    <2>1. \A u \in Thread, l \in Slot : held'[u][l] # Null => held'[u][l] = held[u][l] /\ rec'[u] = rec[u]
      BY <1>15 DEF NewNode, TypeOK
    <2>2. \A s \in Thread : pc'[s] = "scan" =>
             /\ pc[s] = "scan" /\ rec'[s] = rec[s]
             /\ spos'[s] = spos[s] /\ sk'[s] = sk[s] /\ live'[s] = live[s]
             /\ retireList'[rec[s]] \subseteq retireList[rec[s]]
      BY <1>15 DEF NewNode, TypeOK
    <2> QED  BY <2>1, <2>2, SeesFrame
  <1>16. CASE DropNode(t)
    <2>1. \A u \in Thread, l \in Slot : held'[u][l] # Null => held'[u][l] = held[u][l] /\ rec'[u] = rec[u]
      BY <1>16 DEF DropNode, TypeOK
    <2>2. \A s \in Thread : pc'[s] = "scan" =>
             /\ pc[s] = "scan" /\ rec'[s] = rec[s]
             /\ spos'[s] = spos[s] /\ sk'[s] = sk[s] /\ live'[s] = live[s]
             /\ retireList'[rec[s]] \subseteq retireList[rec[s]]
      BY <1>16 DEF DropNode, TypeOK
    <2> QED  BY <2>1, <2>2, SeesFrame
  <1>17. CASE Exchange(t)
    <2>1. \A u \in Thread, l \in Slot : held'[u][l] # Null => held'[u][l] = held[u][l] /\ rec'[u] = rec[u]
      BY <1>17 DEF Exchange, TypeOK
    <2>2. \A s \in Thread : pc'[s] = "scan" =>
             /\ pc[s] = "scan" /\ rec'[s] = rec[s]
             /\ spos'[s] = spos[s] /\ sk'[s] = sk[s] /\ live'[s] = live[s]
             /\ retireList'[rec[s]] \subseteq retireList[rec[s]]
      BY <1>17 DEF Exchange, TypeOK
    <2> QED  BY <2>1, <2>2, SeesFrame
  <1>18. CASE RetireNode(t)
    <2>1. pc[t] \notin Outside /\ pc[t] # "scan"
      BY <1>18 DEF RetireNode, Outside
    <2>2. \A s \in Thread : pc[s] = "scan" => rec[s] # rec[t] /\ rec[s] \in Rec
      BY <2>1, HasRecord, OwnRecords DEF Outside
    <2>3. \A u \in Thread, l \in Slot : held'[u][l] # Null => held'[u][l] = held[u][l] /\ rec'[u] = rec[u]
      BY <1>18 DEF RetireNode
    <2>4. \A s \in Thread : pc'[s] = "scan" =>
             /\ pc[s] = "scan" /\ rec'[s] = rec[s]
             /\ spos'[s] = spos[s] /\ sk'[s] = sk[s] /\ live'[s] = live[s]
             /\ retireList'[rec[s]] \subseteq retireList[rec[s]]
      BY <1>18, <2>1, <2>2 DEF RetireNode, TypeOK
    <2> QED  BY <2>3, <2>4, SeesFrame
  <1>19. CASE ScanBegin(t)
    <2> SUFFICES ASSUME NEW s \in Thread, NEW u \in Thread, NEW l \in Slot, pc'[s] = "scan",
                        held'[u][l] # Null, held'[u][l] \in retireList'[rec'[s]]
                 PROVE  held'[u][l] \in live'[s] \/ Unread(s, rec[u], l)'
      BY DEF ScanSees, Unread
    <2>1. /\ pc[t] = "scan_begin"
          /\ spos' = [spos EXCEPT ![t] = nrec]
          /\ pc' = [pc EXCEPT ![t] = "scan"]
          /\ UNCHANGED <<held, rec, retireList, sk, live>>
      BY <1>19 DEF ScanBegin
    <2>2. pc[u] \notin Outside
      BY <2>1 DEF HeldGuarded
    <2>3. rec[u] \in Rec /\ rec[u] <= nrec
      BY <2>2, HasRecord
    <2>4. CASE s = t
      <3>1. spos'[s] = nrec /\ sk'[s] = 1
        BY <2>1, <2>4 DEF TypeOK, SlotFree, SlotFreeOf
      <3>2. l >= 1 /\ (rec[u] < nrec \/ rec[u] = nrec)
        BY <2>3 DEF TypeOK
      <3> QED  BY <2>1, <3>1, <3>2 DEF Unread
    <2>5. CASE s # t
      <3>1. pc[s] = "scan" /\ spos'[s] = spos[s]
        BY <2>1, <2>5 DEF TypeOK
      <3> QED  BY <2>1, <3>1 DEF ScanSees, Unread
    <2> QED  BY <2>4, <2>5
  <1>20. CASE ScanSlot(t)
    <2> SUFFICES ASSUME NEW s \in Thread, NEW u \in Thread, NEW l \in Slot, pc'[s] = "scan",
                        held'[u][l] # Null, held'[u][l] \in retireList'[rec'[s]]
                 PROVE  held'[u][l] \in live'[s] \/ Unread(s, rec[u], l)'
      BY DEF ScanSees, Unread
    <2>1. /\ pc[t] = "scan" /\ spos[t] # 0
          /\ live' = [live EXCEPT ![t] = @ \cup ({LoadSlot(t, spos[t], sk[t])} \cap Node)]
          /\ sk' = [sk EXCEPT ![t] = IF sk[t] = K THEN 1 ELSE sk[t] + 1]
          /\ spos' = [spos EXCEPT ![t] = IF sk[t] = K THEN spos[t] - 1 ELSE spos[t]]
          /\ UNCHANGED <<held, rec, retireList, pc>>
      BY <1>20 DEF ScanSlot
    <2>2. held[u][l] \in live[s] \/ Unread(s, rec[u], l)
      BY <2>1 DEF ScanSees
    <2>3. pc[u] \notin Outside /\ pointers[rec[u]][l] = held[u][l] /\ held[u][l] \in Node
      BY <2>1 DEF HeldGuarded, TypeOK
    <2>4. rec[u] \in Rec
      BY <2>3, HasRecord
    <2>5. CASE s = t
      <3>1. live'[t] = live[t] \cup ({LoadSlot(t, spos[t], sk[t])} \cap Node)
        BY <2>1 DEF TypeOK
      <3>2. CASE rec[u] = spos[t] /\ l = sk[t]
        <4>1. PendingTo(t, spos[t], sk[t]) = {}
          BY DEF PendingTo, Unbuffered
        <4>2. LoadSlot(t, spos[t], sk[t]) = held[u][l]
          BY <2>3, <3>2, <4>1 DEF LoadSlot
        <4> QED  BY <2>1, <2>3, <2>5, <3>1, <4>2
      <3>3. CASE ~(rec[u] = spos[t] /\ l = sk[t])
        <4>1. /\ sk'[t] = IF sk[t] = K THEN 1 ELSE sk[t] + 1
              /\ spos'[t] = IF sk[t] = K THEN spos[t] - 1 ELSE spos[t]
          BY <2>1 DEF TypeOK
        <4>2. sk[t] \in 1..K /\ spos[t] \in Nat
          BY DEF TypeOK
        <4>3. Unread(t, rec[u], l) => Unread(t, rec[u], l)'
          BY <2>1, <2>4, <3>3, <4>1, <4>2 DEF Unread
        <4> QED  BY <2>1, <2>2, <2>5, <3>1, <4>3 DEF Unread
      <3> QED  BY <3>2, <3>3
    <2>6. CASE s # t
      <3>1. spos'[s] = spos[s] /\ sk'[s] = sk[s] /\ live'[s] = live[s]
        BY <2>1, <2>6 DEF TypeOK
      <3> QED  BY <2>1, <2>2, <3>1 DEF Unread
    <2> QED  BY <2>5, <2>6
  <1>21. CASE Sweep(t)
    <2>1. \A u \in Thread, l \in Slot : held'[u][l] # Null => held'[u][l] = held[u][l] /\ rec'[u] = rec[u]
      BY <1>21 DEF Sweep, TypeOK
    <2>2. \A s \in Thread : pc'[s] = "scan" =>
             /\ pc[s] = "scan" /\ rec'[s] = rec[s]
             /\ spos'[s] = spos[s] /\ sk'[s] = sk[s] /\ live'[s] = live[s]
             /\ retireList'[rec[s]] \subseteq retireList[rec[s]]
      BY <1>21 DEF Sweep, TypeOK
    <2> QED  BY <2>1, <2>2, SeesFrame
  <1>22. CASE HelpBegin(t)
    <2>1. \A u \in Thread, l \in Slot : held'[u][l] # Null => held'[u][l] = held[u][l] /\ rec'[u] = rec[u]
      BY <1>22 DEF HelpBegin, TypeOK
    <2>2. \A s \in Thread : pc'[s] = "scan" =>
             /\ pc[s] = "scan" /\ rec'[s] = rec[s]
             /\ spos'[s] = spos[s] /\ sk'[s] = sk[s] /\ live'[s] = live[s]
             /\ retireList'[rec[s]] \subseteq retireList[rec[s]]
      BY <1>22 DEF HelpBegin, TypeOK
    <2> QED  BY <2>1, <2>2, SeesFrame
  <1>23. CASE HelpSkip(t)
    <2>1. \A u \in Thread, l \in Slot : held'[u][l] # Null => held'[u][l] = held[u][l] /\ rec'[u] = rec[u]
      BY <1>23 DEF HelpSkip, TypeOK, HelpNext
    <2>2. \A s \in Thread : pc'[s] = "scan" =>
             /\ pc[s] = "scan" /\ rec'[s] = rec[s]
             /\ spos'[s] = spos[s] /\ sk'[s] = sk[s] /\ live'[s] = live[s]
             /\ retireList'[rec[s]] \subseteq retireList[rec[s]]
      BY <1>23 DEF HelpSkip, TypeOK, HelpNext
    <2> QED  BY <2>1, <2>2, SeesFrame
  <1>24. CASE HelpLock(t)
    <2>1. \A u \in Thread, l \in Slot : held'[u][l] # Null => held'[u][l] = held[u][l] /\ rec'[u] = rec[u]
      BY <1>24 DEF HelpLock, TypeOK
    <2>2. \A s \in Thread : pc'[s] = "scan" =>
             /\ pc[s] = "scan" /\ rec'[s] = rec[s]
             /\ spos'[s] = spos[s] /\ sk'[s] = sk[s] /\ live'[s] = live[s]
             /\ retireList'[rec[s]] \subseteq retireList[rec[s]]
      BY <1>24 DEF HelpLock, TypeOK
    <2> QED  BY <2>1, <2>2, SeesFrame
  <1>25. CASE Move(t)
    <2>1. pc[t] \notin Outside /\ pc[t] # "scan"
      BY <1>25 DEF Move, Outside
    <2>2. \A s \in Thread : pc[s] = "scan" => rec[s] # rec[t] /\ rec[s] \in Rec
      BY <2>1, HasRecord, OwnRecords DEF Outside
    <2>3. \A u \in Thread, l \in Slot : held'[u][l] # Null => held'[u][l] = held[u][l] /\ rec'[u] = rec[u]
      BY <1>25 DEF Move
    <2>4. \A r \in Rec : r # rec[t] => retireList'[r] \subseteq retireList[r]
      BY <1>25 DEF Move, TypeOK
    <2>5. \A s \in Thread : pc'[s] = "scan" =>
             /\ pc[s] = "scan" /\ rec'[s] = rec[s]
             /\ spos'[s] = spos[s] /\ sk'[s] = sk[s] /\ live'[s] = live[s]
             /\ retireList'[rec[s]] \subseteq retireList[rec[s]]
      BY SMTT(40), <1>25, <2>1, <2>2, <2>4 DEF Move, TypeOK
    <2> QED  BY <2>3, <2>5, SeesFrame
  <1>26. CASE HelpUnlock(t)
    <2>1. \A u \in Thread, l \in Slot : held'[u][l] # Null => held'[u][l] = held[u][l] /\ rec'[u] = rec[u]
      BY <1>26 DEF HelpUnlock, TypeOK, HelpNext
    <2>2. \A s \in Thread : pc'[s] = "scan" =>
             /\ pc[s] = "scan" /\ rec'[s] = rec[s]
             /\ spos'[s] = spos[s] /\ sk'[s] = sk[s] /\ live'[s] = live[s]
             /\ retireList'[rec[s]] \subseteq retireList[rec[s]]
      BY <1>26 DEF HelpUnlock, TypeOK, HelpNext
    <2> QED  BY <2>1, <2>2, SeesFrame
  <1>27. ASSUME NEW k \in Slot, LoadBegin(t, k) PROVE ScanSees'
    <2>1. \A u \in Thread, l \in Slot : held'[u][l] # Null => held'[u][l] = held[u][l] /\ rec'[u] = rec[u]
      BY <1>27 DEF LoadBegin, TypeOK
    <2>2. \A s \in Thread : pc'[s] = "scan" =>
             /\ pc[s] = "scan" /\ rec'[s] = rec[s]
             /\ spos'[s] = spos[s] /\ sk'[s] = sk[s] /\ live'[s] = live[s]
             /\ retireList'[rec[s]] \subseteq retireList[rec[s]]
      BY <1>27 DEF LoadBegin, TypeOK
    <2> QED  BY <2>1, <2>2, SeesFrame
  <1>28. ASSUME NEW k \in Slot, SetHazardFresh(t, k) PROVE ScanSees'
    <2> SUFFICES ASSUME NEW s \in Thread, NEW u \in Thread, NEW l \in Slot, pc'[s] = "scan",
                        held'[u][l] # Null, held'[u][l] \in retireList'[rec'[s]]
                 PROVE  held'[u][l] \in live'[s] \/ Unread(s, rec[u], l)'
      BY DEF ScanSees, Unread
    <2>1. /\ pc[t] = "ready" /\ k \in Slot
          /\ held' = [held EXCEPT ![t][k] = priv[t]]
          /\ UNCHANGED <<rec, retireList, spos, sk, live>>
          /\ pc'[s] = pc[s]
      BY <1>28 DEF SetHazardFresh, TypeOK
    <2>2. CASE u = t /\ l = k
      <3>1. held'[u][l] = priv[t] /\ priv[t] # Null
        BY <2>1, <2>2 DEF TypeOK
      <3>2. pc[s] \notin Outside
        BY <2>1 DEF Outside
      <3>3. rec[s] \in Rec
        BY <3>2, HasRecord
      <3>4. priv[t] \in Node
        BY <3>1 DEF TypeOK
      <3>5. priv[t] \notin retireList[rec[s]]
        BY <3>3, <3>4 DEF Placed, ListedOnce
      <3> QED  BY <2>1, <3>1, <3>5
    <2>3. CASE ~(u = t /\ l = k)
      <3>1. held'[u][l] = held[u][l]
        BY <2>1, <2>3 DEF TypeOK
      <3> QED  BY <2>1, <3>1 DEF ScanSees, Unread
    <2> QED  BY <2>2, <2>3
  <1>29. ASSUME NEW k \in Slot, ClearHazard(t, k) PROVE ScanSees'
    <2>1. \A u \in Thread, l \in Slot : held'[u][l] # Null => held'[u][l] = held[u][l] /\ rec'[u] = rec[u]
      BY <1>29 DEF ClearHazard, TypeOK
    <2>2. \A s \in Thread : pc'[s] = "scan" =>
             /\ pc[s] = "scan" /\ rec'[s] = rec[s]
             /\ spos'[s] = spos[s] /\ sk'[s] = sk[s] /\ live'[s] = live[s]
             /\ retireList'[rec[s]] \subseteq retireList[rec[s]]
      BY <1>29 DEF ClearHazard, TypeOK
    <2> QED  BY <2>1, <2>2, SeesFrame
  <1>30. ASSUME NEW i \in Slot, NEW j \in Slot, SetHazardCopy(t, i, j) PROVE ScanSees'
    <2> SUFFICES ASSUME NEW s \in Thread, NEW u \in Thread, NEW l \in Slot, pc'[s] = "scan",
                        held'[u][l] # Null, held'[u][l] \in retireList'[rec'[s]]
                 PROVE  held'[u][l] \in live'[s] \/ Unread(s, rec[u], l)'
      BY DEF ScanSees, Unread
    <2>1. /\ pc[t] = "ready" /\ j \in Slot
          /\ held' = [held EXCEPT ![t][j] = held[t][i]]
          /\ UNCHANGED <<rec, retireList, spos, sk, live>>
          /\ pc'[s] = pc[s]
      BY <1>30 DEF SetHazardCopy, TypeOK
    <2>2. CASE u = t /\ l = j
      <3>1. held'[u][l] = held[t][i] /\ held[t][i] # Null
        BY <2>1, <2>2 DEF TypeOK
      <3>2. held[t][i] \in live[s] \/ Unread(s, rec[t], i)
        BY <2>1, <3>1 DEF ScanSees
      <3>3. i < j /\ i \in Int /\ j \in Int /\ sk[s] \in Int
        BY <1>30 DEF SetHazardCopy, TypeOK
      <3>4. Unread(s, rec[t], i) => Unread(s, rec[t], j)
        BY <3>3 DEF Unread
      <3> QED  BY <2>1, <2>2, <3>1, <3>2, <3>4 DEF Unread
    <2>3. CASE ~(u = t /\ l = j)
      <3>1. held'[u][l] = held[u][l]
        BY <2>1, <2>3 DEF TypeOK
      <3> QED  BY <2>1, <3>1 DEF ScanSees, Unread
    <2> QED  BY <2>2, <2>3
  <1>31. CASE Destroy
    <2>1. \A s \in Thread : pc'[s] # "scan"
      BY <1>31 DEF Destroy
    <2> QED  BY <2>1 DEF ScanSees
  <1> QED
    BY <1>1, <1>2, <1>3, <1>4, <1>5, <1>6, <1>7, <1>8, <1>9, <1>10, <1>11, <1>12, <1>13, <1>14, <1>15, <1>16, <1>17, <1>18, <1>19, <1>20, <1>21, <1>22, <1>23, <1>24, <1>25, <1>26, <1>27, <1>28, <1>29, <1>30, <1>31
       DEF Step, Allocate, Retire, LoadAndSetHazard, RetireNodeStep, ClientStep

-----------------------------------------------------------------------------
(* No node in use is deleted *)

\* Without store buffering no store is ever pending.
LEMMA UnbufferedStep ==
    ASSUME ~StoreBuffered, Basic, Unbuffered, Next
    PROVE  Unbuffered'
  <1>1. ASSUME NEW t \in Thread, Step(t) PROVE buf' = buf
    BY <1>1 DEF Step, Allocate, AllocBegin, AllocSkip, AllocClaim, AllocCount, AllocLoad, AllocLink,
                Retire, RetireBegin, RetireSlot, RetireActive,
                LoadAndSetHazard, LoadCell, SetCur, CheckSame, CheckChanged, FailClear,
                RetireNodeStep, RetireNode, ScanBegin, ScanSlot, Sweep, HelpBegin, HelpSkip,
                HelpLock, Move, HelpUnlock,
                ClientStep, NewNode, DropNode, Exchange, LoadBegin, SetHazardFresh,
                ClearHazard, SetHazardCopy, Store, memory
  <1>2. ASSUME NEW t \in Thread, Flush(t) PROVE FALSE
    BY <1>2 DEF Flush, Drained, Unbuffered
  <1>3. CASE Destroy
    BY <1>3 DEF Destroy, Unbuffered
  <1> QED  BY <1>1, <1>2, <1>3 DEF Next, Unbuffered

\* The inductive invariant holds initially.
LEMMA SafeInit == Init => Safe
  <1> SUFFICES ASSUME Init PROVE Safe
    OBVIOUS
  <1> USE KAssumption, BoundAssumption DEF Init
  <1>1. Basic
    BY BasicInit
  <1>2. Unbuffered
    BY DEF Unbuffered
  <1>3. RecordsExclusive
    BY DEF RecordsExclusive, Writes, Helping
  <1>4. Placed
    BY DEF Placed, ListsDisjoint, ListedOnce, RetiringOnce, Reachable
  <1>5. HeldGuarded /\ ScanSees
    BY DEF HeldGuarded, ScanSees
  <1>6. SlotFree
    BY DEF SlotFree, SlotFreeOf
  <1> QED  BY <1>1, <1>2, <1>3, <1>4, <1>5, <1>6 DEF Safe

\* The inductive invariant is kept by every step.
LEMMA SafeNext ==
    ASSUME ~StoreBuffered
    PROVE  Safe /\ [Next]_vars => Safe'
  <1> SUFFICES ASSUME Safe, [Next]_vars PROVE Safe'
    OBVIOUS
  <1>1. Basic'
    BY BasicNext DEF Safe
  <1>2. ASSUME NEW t \in Thread, Step(t) \/ Destroy
        PROVE  /\ RecordsExclusive' /\ Placed'
               /\ HeldGuarded' /\ SlotFree' /\ ScanSees'
    <2>1. RecordsExclusive'
      BY <1>1, <1>2, ExclusiveStep, ExclusiveDestroy DEF Safe
    <2>2. Placed'
      BY <1>2, PlacedStep DEF Safe
    <2>3. HeldGuarded'
      BY <1>2, GuardStep DEF Safe
    <2>4. SlotFree'
      BY <1>2, SlotFreeStep DEF Safe
    <2>5. ScanSees'
      BY <1>2, SeesStep DEF Safe
    <2> QED  BY <2>1, <2>2, <2>3, <2>4, <2>5
  <1>3. CASE Next
    <2>1. Unbuffered'
      BY <1>3, UnbufferedStep DEF Safe
    <2>2. \A t \in Thread : ~Flush(t)
      BY DEF Flush, Drained, Unbuffered, Safe
    <2> QED  BY <1>1, <1>2, <1>3, <2>1, <2>2, ThreadAssumption DEF Next, Safe
  <1>4. CASE UNCHANGED vars
    <2> USE <1>4 DEF vars, memory, heap, client, scanner, Safe
    <2>1. RecordsExclusive'
      BY ZenonT(60) DEF RecordsExclusive, Writes, Helping
    <2>2. Placed'
      BY PlacedSame
    <2>3. HeldGuarded' /\ ScanSees'
      BY DEF HeldGuarded, ScanSees, Unread
    <2>4. SlotFree' /\ Unbuffered'
      BY DEF SlotFree, SlotFreeOf, Unbuffered
    <2> QED  BY <1>1, <2>1, <2>2, <2>3, <2>4
  <1> QED  BY <1>3, <1>4

\* A node returned by loadAndSetHazard, or copied to a higher slot, is not
\* deleted while its thread holds it: for any number of threads, nodes and
\* slots, any scan threshold, and sequentially consistent memory.
THEOREM NoUseAfterFree ==
    ASSUME ~StoreBuffered
    PROVE  Spec => []HeldIsAllocated
  <1>1. Safe => HeldIsAllocated
    BY DEF Safe, HeldGuarded, HeldIsAllocated
  <1> QED  BY <1>1, SafeInit, SafeNext, PTL DEF Spec

-----------------------------------------------------------------------------
(* Records nobody owns, with store buffers and without *)

\* Once the stores of t have reached memory, slot k of record r is empty.
Empties(t, r, k) ==
    /\ pointers[r][k] = Null \/ \E i \in Nat : Waits(t, i, r, k)
    /\ \A i \in Nat : Waits(t, i, r, k) /\ (\A j \in Nat : j > i => ~Waits(t, j, r, k))
                      => buf[t][i].val = Null

\* An exiting thread t has cleared slot k.
Leaving(t, k) == pc[t] = "exit_active" \/ (pc[t] = "exit" /\ k < slot[t])

\* A store to a slot waits in the buffer of the record's owner, or ahead of the
\* store that gives the record back.
PendingOwned ==
    \A t \in Thread, i \in Nat, r \in Rec, k \in Slot : Waits(t, i, r, k) =>
        rec[t] = r \/ \E j \in Nat : j > i /\ Gives(t, j, r)

\* A record without an owner has empty slots.
UnownedEmpty ==
    \A r \in Rec, k \in Slot :
        (\A t \in Thread : rec[t] # r /\ \A i \in Nat : ~Gives(t, i, r)) => pointers[r][k] = Null

\* A record is given back with empty slots, and an exiting thread empties them.
GivenEmpty == \A t \in Thread, i \in Nat, r \in Rec, k \in Slot : Gives(t, i, r) => Empties(t, r, k)
LeavingEmpty == \A t \in Thread, r \in Rec, k \in Slot : Leaving(t, k) /\ rec[t] = r => Empties(t, r, k)

Cleared ==
    /\ StoreBuffered \/ Unbuffered
    /\ PendingOwned /\ UnownedEmpty /\ GivenEmpty /\ LeavingEmpty

\* An active record is in some thread's hands, or its release waits in a buffer.
ActiveOwned ==
    \A r \in Rec : active[r] => \E t \in Thread : Writes(t, r) \/ \E i \in Nat : Gives(t, i, r)

\* A record that is not linked yet has no nodes.
UnlinkedEmpty == \A r \in Rec : r > nrec => retireList[r] = {}

\* NothingLeaked, node by node.
Kept == \A n \in alloc :
            \/ n = cell
            \/ \E t \in Thread : n = priv[t] \/ (pc[t] = "retire" /\ n = ref[t])
            \/ \E r \in Rec : n \in retireList[r]

\* What a store adds to the buffers, or does to the slots.
LEMMA StoreEffect ==
    ASSUME Basic, NEW t \in Thread, NEW r \in Rec, NEW k \in 0..K, NEW v \in Pointer, Store(t, r, k, v)
    PROVE  /\ \A u \in Thread, i \in Nat, s \in Rec, l \in 0..K :
                 Waits(u, i, s, l) => Waits(u, i, s, l)' /\ buf'[u][i] = buf[u][i]
           /\ \A u \in Thread, i \in Nat, s \in Rec, l \in 0..K :
                 Waits(u, i, s, l)' => \/ Waits(u, i, s, l)
                                       \/ /\ StoreBuffered /\ u = t /\ i = Len(buf[t]) + 1 /\ s = r /\ l = k
                                          /\ buf'[t][i].val = v
           /\ \A s \in Rec, l \in Slot : s # r \/ l # k \/ StoreBuffered => pointers'[s][l] = pointers[s][l]
           /\ StoreBuffered => \E n \in Nat : n = Len(buf[t]) + 1 /\ Waits(t, n, r, k)'
           /\ ~StoreBuffered => buf' = buf /\ (k # 0 => pointers'[r][k] = v)
  <1> DEFINE e == [rec |-> r, slot |-> k, val |-> v]
  <1>1. e \in Pending /\ e.rec = r /\ e.slot = k /\ e.val = v
    BY DEF Pending
  <1>2. \A u \in Thread : buf[u] \in Seq(Pending)
    BY DEF Basic, TypeOK
  <1>3. CASE StoreBuffered
    <2>1. buf' = [buf EXCEPT ![t] = Append(@, e)] /\ UNCHANGED <<active, pointers>>
      BY <1>3 DEF Store
    <2> HIDE DEF e
    <2>2. buf'[t] = Append(buf[t], e) /\ \A u \in Thread : u # t => buf'[u] = buf[u]
      BY <2>1 DEF Basic, TypeOK
    <2>3. /\ Len(buf[t]) \in Nat /\ Len(buf'[t]) = Len(buf[t]) + 1 /\ buf'[t][Len(buf[t]) + 1] = e
          /\ \A i \in 1..Len(buf[t]) : buf'[t][i] = buf[t][i]
      BY <1>1, <1>2, <2>2
    <2>4. ASSUME NEW u \in Thread, NEW i \in Nat, NEW s \in Rec, NEW l \in 0..K, Waits(u, i, s, l)
          PROVE  Waits(u, i, s, l)' /\ buf'[u][i] = buf[u][i]
      <3>1. CASE u = t
        BY <2>3, <2>4, <3>1 DEF Waits
      <3>2. CASE u # t
        BY <2>2, <2>4, <3>2 DEF Waits
      <3> QED  BY <3>1, <3>2
    <2>5. ASSUME NEW u \in Thread, NEW i \in Nat, NEW s \in Rec, NEW l \in 0..K, Waits(u, i, s, l)'
          PROVE  \/ Waits(u, i, s, l)
                 \/ /\ u = t /\ i = Len(buf[t]) + 1 /\ s = r /\ l = k
                    /\ buf'[t][i].val = v
      <3>1. CASE u = t /\ i = Len(buf[t]) + 1
        BY <1>1, <2>3, <2>5, <3>1 DEF Waits
      <3>2. CASE u = t /\ i # Len(buf[t]) + 1
        <4>1. i \in 1..Len(buf[t])
          BY <2>3, <2>5, <3>2 DEF Waits
        <4> QED  BY <2>3, <2>5, <3>2, <4>1 DEF Waits
      <3>3. CASE u # t
        BY <2>2, <2>5, <3>3 DEF Waits
      <3> QED  BY <3>1, <3>2, <3>3
    <2>6. \E n \in Nat : n = Len(buf[t]) + 1 /\ Waits(t, n, r, k)'
      <3>1. PICK n \in Nat : n = Len(buf[t]) + 1
        BY <2>3
      <3>2. Waits(t, n, r, k)'
        BY <1>1, <2>3, <3>1 DEF Waits
      <3> QED  BY <3>1, <3>2
    <2> QED  BY <1>3, <2>1, <2>4, <2>5, <2>6
  <1>4. CASE ~StoreBuffered
    <2>1. buf' = buf /\ Commit(e)
      BY <1>4 DEF Store
    <2>2. \A u \in Thread, i \in Nat, s \in Rec, l \in 0..K : Waits(u, i, s, l)' <=> Waits(u, i, s, l)
      BY <2>1 DEF Waits
    <2> HIDE DEF e
    <2>3. CASE k = 0
      <3>1. pointers' = pointers
        BY <1>1, <2>1, <2>3 DEF Commit
      <3> QED  BY <1>4, <2>1, <2>2, <2>3, <3>1
    <2>4. CASE k # 0
      <3>1. pointers' = [pointers EXCEPT ![r][k] = v] /\ k \in Slot
        BY <1>1, <2>1, <2>4, KAssumption DEF Commit
      <3>2. pointers'[r][k] = v /\ \A s \in Rec, l \in Slot : s # r \/ l # k => pointers'[s][l] = pointers[s][l]
        BY <3>1 DEF Basic, TypeOK
      <3> QED  BY <1>4, <2>1, <2>2, <3>2
    <2> QED  BY <2>3, <2>4
  <1> QED  BY <1>3, <1>4

\* A store elsewhere leaves a slot as empty as it was; nullptr empties it.
LEMMA StoreEmpties ==
    ASSUME Basic, StoreBuffered \/ Unbuffered,
           NEW t \in Thread, NEW r \in Rec, NEW k \in 0..K, NEW v \in Pointer, Store(t, r, k, v)
    PROVE  /\ \A u \in Thread, s \in Rec, l \in Slot :
                 (s # r \/ l # k) /\ Empties(u, s, l) => Empties(u, s, l)'
           /\ k # 0 /\ v = Null => Empties(t, r, k)'
  <1>1. ASSUME NEW u \in Thread, NEW s \in Rec, NEW l \in Slot, s # r \/ l # k, Empties(u, s, l)
        PROVE  Empties(u, s, l)'
    <2>1. l \in 0..K
      OBVIOUS
    <2>2. \A i \in Nat : /\ Waits(u, i, s, l)' <=> Waits(u, i, s, l)
                         /\ Waits(u, i, s, l) => buf'[u][i] = buf[u][i]
      BY <1>1, <2>1, StoreEffect
    <2>3. pointers'[s][l] = pointers[s][l]
      BY <1>1, StoreEffect
    <2> QED  BY <1>1, <2>2, <2>3 DEF Empties
  <1>2. ASSUME k # 0, v = Null PROVE Empties(t, r, k)'
    <2>1. k \in Slot
      BY <1>2
    <2>2. CASE StoreBuffered
      <3>1. PICK n \in Nat : n = Len(buf[t]) + 1 /\ Waits(t, n, r, k)'
        BY <2>2, StoreEffect
      <3>2. \A i \in Nat : Waits(t, i, r, k) => i < n
        BY <3>1 DEF Waits, Basic, TypeOK
      <3>3. \A i \in Nat : Waits(t, i, r, k)' => Waits(t, i, r, k) \/ (i = n /\ buf'[t][i].val = v)
        BY <3>1, StoreEffect
      <3>4. ASSUME NEW i \in Nat, Waits(t, i, r, k)', \A j \in Nat : j > i => ~Waits(t, j, r, k)'
            PROVE  buf'[t][i].val = Null
        <4>1. ~(n > i)
          BY <3>1, <3>4
        <4>2. ~Waits(t, i, r, k)
          BY <3>1, <3>2, <4>1
        <4> QED  BY <1>2, <3>3, <3>4, <4>2
      <3> QED  BY <3>1, <3>4 DEF Empties
    <2>3. CASE ~StoreBuffered
      <3>1. buf' = buf /\ pointers'[r][k] = Null /\ buf[t] = << >>
        BY <1>2, <2>3, StoreEffect DEF Unbuffered
      <3>2. \A i \in Nat : ~Waits(t, i, r, k)'
        BY <3>1 DEF Waits
      <3> QED  BY <3>1, <3>2 DEF Empties
    <2> QED  BY <2>2, <2>3
  <1> QED  BY <1>1, <1>2

\* No store: records may be taken on, and no thread goes further in its exit.
LEMMA ClearedFrame ==
    ASSUME Cleared, UNCHANGED <<pointers, buf>>, Control, Control',
           \A u \in Thread : rec[u] # 0 => rec'[u] = rec[u],
           \A u \in Thread, k \in Slot : Leaving(u, k)' => Leaving(u, k)
    PROVE  Cleared'
  <1>1. \A u \in Thread, i \in Nat, s \in Rec, l \in 0..K : Waits(u, i, s, l)' <=> Waits(u, i, s, l)
    BY DEF Waits
  <1>2. \A u \in Thread, i \in Nat, s \in Rec : Gives(u, i, s)' <=> Gives(u, i, s)
    BY <1>1, KAssumption DEF Gives
  <1>3. \A u \in Thread, s \in Rec, l \in Slot : Empties(u, s, l) => Empties(u, s, l)'
    BY <1>1 DEF Empties
  <1>4. \A u \in Thread, r \in Rec : rec[u] = r => rec'[u] = r
    OBVIOUS
  <1>5. PendingOwned'
    BY <1>1, <1>2, <1>4 DEF Cleared, PendingOwned
  <1>6. UnownedEmpty'
    BY <1>2, <1>4 DEF Cleared, UnownedEmpty
  <1>7. GivenEmpty'
    BY <1>2, <1>3 DEF Cleared, GivenEmpty
  <1>8. LeavingEmpty'
    <2> SUFFICES ASSUME NEW u \in Thread, NEW r \in Rec, NEW k \in Slot, Leaving(u, k)', rec'[u] = r
                 PROVE  Empties(u, r, k)'
      BY DEF LeavingEmpty
    <2>1. Leaving(u, k)
      OBVIOUS
    <2>2. rec[u] # 0
      BY <2>1 DEF Leaving, Control, ControlOf, Outside
    <2>3. rec[u] = r
      BY <2>2
    <2> QED  BY <1>3, <2>1, <2>3 DEF Cleared, LeavingEmpty
  <1>9. StoreBuffered \/ Unbuffered'
    BY DEF Cleared, Unbuffered
  <1> QED  BY <1>5, <1>6, <1>7, <1>8, <1>9 DEF Cleared

\* The owner of a record stores to one of its slots, and only by nullptr goes
\* further in its exit.
LEMMA ClearedSlot ==
    ASSUME Basic, RecordsExclusive, Releases, Cleared,
           NEW t \in Thread, NEW k \in Slot, NEW v \in Pointer,
           pc[t] \notin Outside, Store(t, rec[t], k, v), rec' = rec,
           \A u \in Thread, l \in Slot : Leaving(u, l)' => IF u = t /\ l = k THEN v = Null ELSE Leaving(u, l)
    PROVE  Cleared'
  <1>1. PICK p \in Rec : p = rec[t]
    BY HasRecord DEF Basic
  <1>2. k \in 0..K /\ k # 0 /\ Store(t, p, k, v) /\ (StoreBuffered \/ Unbuffered)
    BY <1>1 DEF Cleared
  <1>3. Writes(t, p)
    BY <1>1 DEF Writes
  <1>4. \A u \in Thread, i \in Nat : ~Gives(u, i, p)
    BY <1>3 DEF Releases
  <1>5. \A u \in Thread, i \in Nat, s \in Rec : Gives(u, i, s)' <=> Gives(u, i, s)
    <2>1. 0 \in 0..K
      BY KAssumption
    <2>2. \A u \in Thread, i \in Nat, s \in Rec : Waits(u, i, s, 0)' <=> Waits(u, i, s, 0)
      BY <1>2, <2>1, StoreEffect
    <2> QED  BY <2>2 DEF Gives
  <1>6. \A u \in Thread, s \in Rec, l \in Slot : (s # p \/ l # k) /\ Empties(u, s, l) => Empties(u, s, l)'
    BY <1>2, StoreEmpties
  <1>7. PendingOwned'
    <2> SUFFICES ASSUME NEW u \in Thread, NEW i \in Nat, NEW r \in Rec, NEW l \in Slot, Waits(u, i, r, l)'
                 PROVE  rec[u] = r \/ \E j \in Nat : j > i /\ Gives(u, j, r)
      BY <1>5 DEF PendingOwned
    <2>1. l \in 0..K
      OBVIOUS
    <2>2. Waits(u, i, r, l) \/ (u = t /\ r = p)
      BY <1>2, <2>1, StoreEffect
    <2> QED  BY <1>1, <2>2 DEF Cleared, PendingOwned
  <1>8. UnownedEmpty'
    <2> SUFFICES ASSUME NEW r \in Rec, NEW l \in Slot,
                        \A u \in Thread : rec[u] # r /\ \A i \in Nat : ~Gives(u, i, r)
                 PROVE  pointers'[r][l] = Null
      BY <1>5 DEF UnownedEmpty
    <2>1. r # p /\ pointers[r][l] = Null
      BY <1>1 DEF Cleared, UnownedEmpty
    <2>2. pointers'[r][l] = pointers[r][l]
      BY <1>2, <2>1, StoreEffect
    <2> QED  BY <2>1, <2>2
  <1>9. GivenEmpty'
    <2> SUFFICES ASSUME NEW u \in Thread, NEW i \in Nat, NEW r \in Rec, NEW l \in Slot, Gives(u, i, r)
                 PROVE  Empties(u, r, l)'
      BY <1>5 DEF GivenEmpty
    <2>1. r # p /\ Empties(u, r, l)
      BY <1>4 DEF Cleared, GivenEmpty
    <2> QED  BY <1>6, <2>1
  <1>10. LeavingEmpty'
    <2> SUFFICES ASSUME NEW u \in Thread, NEW r \in Rec, NEW l \in Slot, Leaving(u, l)', rec[u] = r
                 PROVE  Empties(u, r, l)'
      BY DEF LeavingEmpty
    <2>1. CASE u = t /\ l = k /\ v = Null
      BY <1>1, <1>2, <2>1, StoreEmpties
    <2>2. CASE Leaving(u, l) /\ ~(u = t /\ l = k)
      <3>1. r # p \/ l # k
        <4>1. pc[u] \notin Outside
          BY <2>2 DEF Leaving, Outside
        <4> QED  BY <1>1, <2>2, <4>1, OwnRecords
      <3>2. Empties(u, r, l)
        BY <2>2 DEF Cleared, LeavingEmpty
      <3> QED  BY <1>6, <3>1, <3>2
    <2> QED  BY <2>1, <2>2
  <1>11. StoreBuffered \/ Unbuffered'
    BY <1>2, StoreEffect DEF Unbuffered
  <1> QED  BY <1>7, <1>8, <1>9, <1>10, <1>11 DEF Cleared

\* A thread gives a record back whose slots are empty, its own or one it helped.
LEMMA ClearedRelease ==
    ASSUME Basic, RecordsExclusive, Releases, Cleared, NEW t \in Thread, NEW p \in Rec,
           Store(t, p, 0, Null), Writes(t, p), \A k \in Slot : Empties(t, p, k),
           \A u \in Thread : rec'[u] # p,
           \A u \in Thread, r \in Rec : r # p => (rec'[u] = r <=> rec[u] = r),
           \A u \in Thread, k \in Slot : Leaving(u, k)' => Leaving(u, k)
    PROVE  Cleared'
  <1>1. 0 \in 0..K /\ Null \in Pointer /\ (StoreBuffered \/ Unbuffered)
    BY KAssumption DEF Cleared
  <1>2. \A u \in Thread, i \in Nat : ~Gives(u, i, p)
    BY DEF Releases
  <1>3. \A u \in Thread, i \in Nat, r \in Rec :
           /\ Gives(u, i, r) => Gives(u, i, r)'
           /\ Gives(u, i, r)' => Gives(u, i, r) \/ (u = t /\ r = p)
    BY <1>1, StoreEffect DEF Gives
  <1>4. \A u \in Thread, i \in Nat, r \in Rec, l \in Slot : Waits(u, i, r, l)' => Waits(u, i, r, l)
    BY <1>1, StoreEffect, KAssumption
  <1>5. \A u \in Thread, s \in Rec, l \in Slot : Empties(u, s, l) => Empties(u, s, l)'
    <2>1. \A l \in Slot : l # 0
      OBVIOUS
    <2> QED  BY <1>1, <2>1, StoreEmpties
  <1>6. \A s \in Rec, l \in Slot : pointers'[s][l] = pointers[s][l]
    <2>1. \A l \in Slot : l # 0
      OBVIOUS
    <2> QED  BY <1>1, <2>1, StoreEffect
  <1>7. PendingOwned'
    <2> SUFFICES ASSUME NEW u \in Thread, NEW i \in Nat, NEW r \in Rec, NEW l \in Slot, Waits(u, i, r, l)'
                 PROVE  rec'[u] = r \/ \E j \in Nat : j > i /\ Gives(u, j, r)'
      BY DEF PendingOwned
    <2>1. Waits(u, i, r, l)
      BY <1>4
    <2>2. rec[u] = r \/ \E j \in Nat : j > i /\ Gives(u, j, r)
      BY <2>1 DEF Cleared, PendingOwned
    <2>3. CASE r = p
      <3>1. rec[u] = p /\ StoreBuffered
        BY <1>1, <1>2, <2>1, <2>2, <2>3 DEF Unbuffered, Waits
      <3>2. u = t
        <4>1. Writes(u, p)
          BY <3>1 DEF Writes
        <4> QED  BY <4>1, Zenon DEF RecordsExclusive
      <3>3. PICK n \in Nat : n = Len(buf[t]) + 1 /\ Waits(t, n, p, 0)'
        BY <1>1, <3>1, StoreEffect
      <3>4. i < n
        BY <2>1, <3>2, <3>3 DEF Waits
      <3>5. Gives(t, n, p)'
        BY <3>3 DEF Gives
      <3> QED  BY <2>3, <3>2, <3>4, <3>5
    <2>4. CASE r # p
      BY <1>3, <2>2, <2>4
    <2> QED  BY <2>3, <2>4
  <1>8. UnownedEmpty'
    <2> SUFFICES ASSUME NEW r \in Rec, NEW l \in Slot,
                        \A u \in Thread : rec'[u] # r /\ \A i \in Nat : ~Gives(u, i, r)'
                 PROVE  pointers'[r][l] = Null
      BY DEF UnownedEmpty
    <2>1. CASE r = p
      <3>1. ~StoreBuffered
        <4> SUFFICES ASSUME StoreBuffered PROVE FALSE
          OBVIOUS
        <4>1. PICK n \in Nat : Waits(t, n, p, 0)'
          BY <1>1, StoreEffect
        <4> QED  BY <2>1, <4>1 DEF Gives
      <3>2. \A i \in Nat : ~Waits(t, i, p, l)
        BY <1>1, <3>1 DEF Unbuffered, Waits
      <3> QED  BY <1>6, <2>1, <3>2 DEF Empties
    <2>2. CASE r # p
      <3>1. \A u \in Thread : rec[u] # r /\ \A i \in Nat : ~Gives(u, i, r)
        BY <1>3, <2>2
      <3> QED  BY <1>6, <3>1 DEF Cleared, UnownedEmpty
    <2> QED  BY <2>1, <2>2
  <1>9. GivenEmpty'
    BY <1>3, <1>5 DEF Cleared, GivenEmpty
  <1>10. LeavingEmpty'
    <2> SUFFICES ASSUME NEW u \in Thread, NEW r \in Rec, NEW l \in Slot, Leaving(u, l)', rec'[u] = r
                 PROVE  Empties(u, r, l)'
      BY DEF LeavingEmpty
    <2>1. Leaving(u, l) /\ rec[u] = r
      OBVIOUS
    <2> QED  BY <1>5, <2>1 DEF Cleared, LeavingEmpty
  <1>11. StoreBuffered \/ Unbuffered'
    BY <1>1, StoreEffect DEF Unbuffered
  <1> QED  BY <1>7, <1>8, <1>9, <1>10, <1>11 DEF Cleared

\* Every action of a thread keeps the slots of unowned records empty.
LEMMA ClearedStep ==
    ASSUME Basic, Basic', RecordsExclusive, Releases, Cleared, NEW t \in Thread, Step(t)
    PROVE  Cleared'
  <1> USE DEF Basic, memory, heap, client, scanner
  <1>1. CASE AllocBegin(t)
    <2>1. \A u \in Thread : rec[u] # 0 => rec'[u] = rec[u]
      BY <1>1 DEF AllocBegin, TypeOK, Control, ControlOf, Outside
    <2>2. \A u \in Thread, k \in Slot : Leaving(u, k)' => Leaving(u, k)
      BY <1>1 DEF AllocBegin, Leaving, TypeOK
    <2> QED  BY <1>1, <2>1, <2>2, ClearedFrame DEF AllocBegin
  <1>2. CASE AllocSkip(t)
    <2>1. \A u \in Thread : rec[u] # 0 => rec'[u] = rec[u]
      BY <1>2 DEF AllocSkip, TypeOK, Control, ControlOf, Outside
    <2>2. \A u \in Thread, k \in Slot : Leaving(u, k)' => Leaving(u, k)
      BY <1>2 DEF AllocSkip, Leaving, TypeOK
    <2> QED  BY <1>2, <2>1, <2>2, ClearedFrame DEF AllocSkip
  <1>3. CASE AllocClaim(t)
    <2>1. \A u \in Thread : rec[u] # 0 => rec'[u] = rec[u]
      BY <1>3 DEF AllocClaim, TypeOK, Control, ControlOf, Outside
    <2>2. \A u \in Thread, k \in Slot : Leaving(u, k)' => Leaving(u, k)
      BY <1>3 DEF AllocClaim, Leaving, TypeOK
    <2> QED  BY <1>3, <2>1, <2>2, ClearedFrame DEF AllocClaim
  <1>4. CASE AllocCount(t)
    <2>1. \A u \in Thread : rec[u] # 0 => rec'[u] = rec[u]
      BY <1>4 DEF AllocCount, TypeOK, Control, ControlOf, Outside
    <2>2. \A u \in Thread, k \in Slot : Leaving(u, k)' => Leaving(u, k)
      BY <1>4 DEF AllocCount, Leaving, TypeOK
    <2> QED  BY <1>4, <2>1, <2>2, ClearedFrame DEF AllocCount
  <1>5. CASE AllocLoad(t)
    <2>1. \A u \in Thread : rec[u] # 0 => rec'[u] = rec[u]
      BY <1>5 DEF AllocLoad, TypeOK, Control, ControlOf, Outside
    <2>2. \A u \in Thread, k \in Slot : Leaving(u, k)' => Leaving(u, k)
      BY <1>5 DEF AllocLoad, Leaving, TypeOK
    <2> QED  BY <1>5, <2>1, <2>2, ClearedFrame DEF AllocLoad
  <1>6. CASE AllocLink(t)
    <2>1. \A u \in Thread : rec[u] # 0 => rec'[u] = rec[u]
      BY ZenonT(60), <1>6 DEF AllocLink, TypeOK, Control, ControlOf, Outside
    <2>2. \A u \in Thread, k \in Slot : Leaving(u, k)' => Leaving(u, k)
      BY <1>6 DEF AllocLink, Leaving, TypeOK
    <2> QED  BY <1>6, <2>1, <2>2, ClearedFrame DEF AllocLink
  <1>7. CASE RetireBegin(t)
    <2>1. \A u \in Thread : rec[u] # 0 => rec'[u] = rec[u]
      BY <1>7 DEF RetireBegin, TypeOK, Control, ControlOf, Outside
    <2>2. \A u \in Thread, k \in Slot : Leaving(u, k)' => Leaving(u, k)
      BY <1>7 DEF RetireBegin, Leaving, TypeOK
    <2> QED  BY <1>7, <2>1, <2>2, ClearedFrame DEF RetireBegin
  <1>8. CASE LoadCell(t)
    <2>1. \A u \in Thread : rec[u] # 0 => rec'[u] = rec[u]
      BY <1>8 DEF LoadCell, TypeOK, Control, ControlOf, Outside
    <2>2. \A u \in Thread, k \in Slot : Leaving(u, k)' => Leaving(u, k)
      BY <1>8 DEF LoadCell, Leaving, TypeOK
    <2> QED  BY <1>8, <2>1, <2>2, ClearedFrame DEF LoadCell
  <1>9. CASE CheckSame(t)
    <2>1. \A u \in Thread : rec[u] # 0 => rec'[u] = rec[u]
      BY <1>9 DEF CheckSame, TypeOK, Control, ControlOf, Outside
    <2>2. \A u \in Thread, k \in Slot : Leaving(u, k)' => Leaving(u, k)
      BY <1>9 DEF CheckSame, Leaving, TypeOK
    <2> QED  BY <1>9, <2>1, <2>2, ClearedFrame DEF CheckSame
  <1>10. CASE CheckChanged(t)
    <2>1. \A u \in Thread : rec[u] # 0 => rec'[u] = rec[u]
      BY <1>10 DEF CheckChanged, TypeOK, Control, ControlOf, Outside
    <2>2. \A u \in Thread, k \in Slot : Leaving(u, k)' => Leaving(u, k)
      BY <1>10 DEF CheckChanged, Leaving, TypeOK
    <2> QED  BY <1>10, <2>1, <2>2, ClearedFrame DEF CheckChanged
  <1>11. CASE RetireNode(t)
    <2>1. \A u \in Thread : rec[u] # 0 => rec'[u] = rec[u]
      BY <1>11 DEF RetireNode, TypeOK, Control, ControlOf, Outside
    <2>2. \A u \in Thread, k \in Slot : Leaving(u, k)' => Leaving(u, k)
      BY <1>11 DEF RetireNode, Leaving, TypeOK
    <2> QED  BY <1>11, <2>1, <2>2, ClearedFrame DEF RetireNode
  <1>12. CASE ScanBegin(t)
    <2>1. \A u \in Thread : rec[u] # 0 => rec'[u] = rec[u]
      BY <1>12 DEF ScanBegin, TypeOK, Control, ControlOf, Outside
    <2>2. \A u \in Thread, k \in Slot : Leaving(u, k)' => Leaving(u, k)
      BY <1>12 DEF ScanBegin, Leaving, TypeOK
    <2> QED  BY <1>12, <2>1, <2>2, ClearedFrame DEF ScanBegin
  <1>13. CASE ScanSlot(t)
    <2>1. \A u \in Thread : rec[u] # 0 => rec'[u] = rec[u]
      BY <1>13 DEF ScanSlot, TypeOK, Control, ControlOf, Outside
    <2>2. \A u \in Thread, k \in Slot : Leaving(u, k)' => Leaving(u, k)
      BY <1>13 DEF ScanSlot, Leaving, TypeOK
    <2> QED  BY <1>13, <2>1, <2>2, ClearedFrame DEF ScanSlot
  <1>14. CASE Sweep(t)
    <2>1. \A u \in Thread : rec[u] # 0 => rec'[u] = rec[u]
      BY <1>14 DEF Sweep, TypeOK, Control, ControlOf, Outside
    <2>2. \A u \in Thread, k \in Slot : Leaving(u, k)' => Leaving(u, k)
      BY <1>14 DEF Sweep, Leaving, TypeOK
    <2> QED  BY <1>14, <2>1, <2>2, ClearedFrame DEF Sweep
  <1>15. CASE HelpBegin(t)
    <2>1. \A u \in Thread : rec[u] # 0 => rec'[u] = rec[u]
      BY <1>15 DEF HelpBegin, TypeOK, Control, ControlOf, Outside
    <2>2. \A u \in Thread, k \in Slot : Leaving(u, k)' => Leaving(u, k)
      BY <1>15 DEF HelpBegin, Leaving, TypeOK
    <2> QED  BY <1>15, <2>1, <2>2, ClearedFrame DEF HelpBegin
  <1>16. CASE HelpSkip(t)
    <2>1. \A u \in Thread : rec[u] # 0 => rec'[u] = rec[u]
      BY <1>16 DEF HelpSkip, HelpNext, TypeOK, Control, ControlOf, Outside
    <2>2. \A u \in Thread, k \in Slot : Leaving(u, k)' => Leaving(u, k)
      BY <1>16 DEF HelpSkip, HelpNext, Leaving, TypeOK
    <2> QED  BY <1>16, <2>1, <2>2, ClearedFrame DEF HelpSkip
  <1>17. CASE HelpLock(t)
    <2>1. \A u \in Thread : rec[u] # 0 => rec'[u] = rec[u]
      BY <1>17 DEF HelpLock, TypeOK, Control, ControlOf, Outside
    <2>2. \A u \in Thread, k \in Slot : Leaving(u, k)' => Leaving(u, k)
      BY <1>17 DEF HelpLock, Leaving, TypeOK
    <2> QED  BY <1>17, <2>1, <2>2, ClearedFrame DEF HelpLock
  <1>18. CASE Move(t)
    <2>1. \A u \in Thread : rec[u] # 0 => rec'[u] = rec[u]
      BY <1>18 DEF Move, TypeOK, Control, ControlOf, Outside
    <2>2. \A u \in Thread, k \in Slot : Leaving(u, k)' => Leaving(u, k)
      BY <1>18 DEF Move, Leaving, TypeOK
    <2> QED  BY <1>18, <2>1, <2>2, ClearedFrame DEF Move
  <1>19. CASE NewNode(t)
    <2>1. \A u \in Thread : rec[u] # 0 => rec'[u] = rec[u]
      BY <1>19 DEF NewNode, TypeOK, Control, ControlOf, Outside
    <2>2. \A u \in Thread, k \in Slot : Leaving(u, k)' => Leaving(u, k)
      BY <1>19 DEF NewNode, Leaving, TypeOK
    <2> QED  BY <1>19, <2>1, <2>2, ClearedFrame DEF NewNode
  <1>20. CASE DropNode(t)
    <2>1. \A u \in Thread : rec[u] # 0 => rec'[u] = rec[u]
      BY <1>20 DEF DropNode, TypeOK, Control, ControlOf, Outside
    <2>2. \A u \in Thread, k \in Slot : Leaving(u, k)' => Leaving(u, k)
      BY <1>20 DEF DropNode, Leaving, TypeOK
    <2> QED  BY <1>20, <2>1, <2>2, ClearedFrame DEF DropNode
  <1>21. CASE Exchange(t)
    <2>1. \A u \in Thread : rec[u] # 0 => rec'[u] = rec[u]
      BY <1>21 DEF Exchange, TypeOK, Control, ControlOf, Outside
    <2>2. \A u \in Thread, k \in Slot : Leaving(u, k)' => Leaving(u, k)
      BY <1>21 DEF Exchange, Leaving, TypeOK
    <2> QED  BY <1>21, <2>1, <2>2, ClearedFrame DEF Exchange
  <1>22. ASSUME NEW k \in Slot, LoadBegin(t, k) PROVE Cleared'
    <2>1. \A u \in Thread, l \in Slot : Leaving(u, l)' => Leaving(u, l)
      BY <1>22 DEF LoadBegin, Leaving, TypeOK
    <2> QED  BY <1>22, <2>1, ClearedFrame DEF LoadBegin
  <1>23. CASE RetireSlot(t)
    <2>1. /\ pc[t] \notin Outside /\ slot[t] \in Slot /\ Null \in Pointer
          /\ Store(t, rec[t], slot[t], Null) /\ rec' = rec
      BY <1>23 DEF RetireSlot, Outside, TypeOK
    <2>2. \A u \in Thread, l \in Slot : Leaving(u, l)' => Leaving(u, l) \/ (u = t /\ l = slot[t])
      BY <1>23 DEF RetireSlot, Leaving, TypeOK
    <2> QED  BY <2>1, <2>2, ClearedSlot
  <1>24. CASE SetCur(t)
    <2>1. /\ pc[t] \notin Outside /\ slot[t] \in Slot /\ ref[t] \in Pointer
          /\ Store(t, rec[t], slot[t], ref[t]) /\ rec' = rec
      BY <1>24 DEF SetCur, Outside, TypeOK
    <2>2. \A u \in Thread, l \in Slot : Leaving(u, l)' => Leaving(u, l) /\ u # t
      BY <1>24 DEF SetCur, Leaving, TypeOK
    <2> QED  BY <2>1, <2>2, ClearedSlot
  <1>25. CASE FailClear(t)
    <2>1. /\ pc[t] \notin Outside /\ slot[t] \in Slot /\ Null \in Pointer
          /\ Store(t, rec[t], slot[t], Null) /\ rec' = rec
      BY <1>25 DEF FailClear, Outside, TypeOK
    <2>2. \A u \in Thread, l \in Slot : Leaving(u, l)' => Leaving(u, l) /\ u # t
      BY <1>25 DEF FailClear, Leaving, TypeOK
    <2> QED  BY <2>1, <2>2, ClearedSlot
  <1>26. ASSUME NEW k \in Slot, SetHazardFresh(t, k) PROVE Cleared'
    <2>1. /\ pc[t] \notin Outside /\ k \in Slot /\ priv[t] \in Pointer
          /\ Store(t, rec[t], k, priv[t]) /\ rec' = rec
      BY <1>26 DEF SetHazardFresh, Outside, TypeOK
    <2>2. \A u \in Thread, l \in Slot : Leaving(u, l)' => Leaving(u, l) /\ u # t
      BY <1>26 DEF SetHazardFresh, Leaving, TypeOK
    <2> QED  BY <2>1, <2>2, ClearedSlot
  <1>27. ASSUME NEW k \in Slot, ClearHazard(t, k) PROVE Cleared'
    <2>1. /\ pc[t] \notin Outside /\ k \in Slot /\ Null \in Pointer
          /\ Store(t, rec[t], k, Null) /\ rec' = rec
      BY <1>27 DEF ClearHazard, Outside, TypeOK
    <2>2. \A u \in Thread, l \in Slot : Leaving(u, l)' => Leaving(u, l) /\ u # t
      BY <1>27 DEF ClearHazard, Leaving, TypeOK
    <2> QED  BY <2>1, <2>2, ClearedSlot
  <1>28. ASSUME NEW i \in Slot, NEW j \in Slot, SetHazardCopy(t, i, j) PROVE Cleared'
    <2>1. /\ pc[t] \notin Outside /\ j \in Slot /\ held[t][i] \in Pointer
          /\ Store(t, rec[t], j, held[t][i]) /\ rec' = rec
      BY <1>28 DEF SetHazardCopy, Outside, TypeOK
    <2>2. \A u \in Thread, l \in Slot : Leaving(u, l)' => Leaving(u, l) /\ u # t
      BY <1>28 DEF SetHazardCopy, Leaving, TypeOK
    <2> QED  BY <2>1, <2>2, ClearedSlot
  <1>29. CASE RetireActive(t)
    <2>1. PICK p \in Rec : p = rec[t] /\ Store(t, p, 0, Null)
      <3>1. pc[t] \notin Outside
        BY <1>29 DEF RetireActive, Outside
      <3> QED  BY <1>29, <3>1, HasRecord DEF RetireActive
    <2>2. Writes(t, p)
      BY <2>1 DEF Writes
    <2>3. \A k \in Slot : Empties(t, p, k)
      BY <1>29, <2>1 DEF RetireActive, Cleared, LeavingEmpty, Leaving
    <2>4. \A u \in Thread : rec'[u] = IF u = t THEN 0 ELSE rec[u]
      BY <1>29 DEF RetireActive, TypeOK
    <2>5. \A u \in Thread : u # t => rec[u] # p
      BY <2>2, Zenon DEF RecordsExclusive, Writes
    <2>6. \A u \in Thread, k \in Slot : Leaving(u, k)' => Leaving(u, k)
      BY <1>29 DEF RetireActive, Leaving, TypeOK
    <2> QED  BY <2>1, <2>2, <2>3, <2>4, <2>5, <2>6, ClearedRelease
  <1>30. CASE HelpUnlock(t)
    <2>1. PICK p \in Rec : p = pos[t] /\ Store(t, p, 0, Null)
      BY <1>30 DEF HelpUnlock, TypeOK, Control, ControlOf
    <2>2. Writes(t, p) /\ rec[t] # p /\ rec' = rec
      BY <1>30, <2>1 DEF HelpUnlock, RecordsExclusive, Writes, Helping
    <2>3. \A u \in Thread : u # t => rec[u] # p
      BY <2>2, Zenon DEF RecordsExclusive, Writes
    <2>4. \A u \in Thread, i \in Nat : ~Gives(u, i, p)
      BY <2>2 DEF Releases
    <2>5. \A k \in Slot : Empties(t, p, k)
      <3> SUFFICES ASSUME NEW k \in Slot PROVE Empties(t, p, k)
        OBVIOUS
      <3>1. pointers[p][k] = Null
        BY <2>2, <2>3, <2>4 DEF Cleared, UnownedEmpty
      <3>2. \A i \in Nat : ~Waits(t, i, p, k)
        BY <2>2, <2>4 DEF Cleared, PendingOwned
      <3> QED  BY <3>1, <3>2 DEF Empties
    <2>6. \A u \in Thread, k \in Slot : Leaving(u, k)' => Leaving(u, k)
      BY <1>30 DEF HelpUnlock, HelpNext, Leaving, TypeOK
    <2> QED  BY <2>1, <2>2, <2>3, <2>5, <2>6, ClearedRelease
  <1> QED
    BY <1>1, <1>2, <1>3, <1>4, <1>5, <1>6, <1>7, <1>8, <1>9, <1>10, <1>11, <1>12, <1>13, <1>14, <1>15, <1>16, <1>17, <1>18, <1>19, <1>20, <1>21, <1>22, <1>23, <1>24, <1>25, <1>26, <1>27, <1>28, <1>29, <1>30
       DEF Step, Allocate, Retire, LoadAndSetHazard, RetireNodeStep, ClientStep

\* A store that reaches memory leaves its buffer; the others keep their order.
LEMMA FlushEffect ==
    ASSUME Basic, NEW t \in Thread, Flush(t)
    PROVE  \E p \in Rec, k \in 0..K, v \in Pointer :
              /\ Waits(t, 1, p, k) /\ buf[t][1].val = v
              /\ \A u \in Thread, i \in Nat, s \in Rec, l \in 0..K : u # t =>
                    (Waits(u, i, s, l)' <=> Waits(u, i, s, l)) /\ buf'[u] = buf[u]
              /\ \A i \in Nat, s \in Rec, l \in 0..K : i # 0 =>
                    /\ Waits(t, i, s, l)' <=> Waits(t, i + 1, s, l)
                    /\ Waits(t, i + 1, s, l) => buf'[t][i] = buf[t][i + 1]
              /\ \A s \in Rec, l \in Slot : pointers'[s][l] = IF s = p /\ l = k THEN v ELSE pointers[s][l]
              /\ k = 0 => active' = [active EXCEPT ![p] = FALSE]
              /\ k # 0 => active' = active
  <1> DEFINE e == Head(buf[t])
  <1>1. /\ buf[t] \in Seq(Pending) /\ buf[t] # << >> /\ e \in Pending
        /\ buf' = [buf EXCEPT ![t] = Tail(@)] /\ Commit(e)
    BY DEF Flush, Drained, Basic, TypeOK
  <1>2. PICK p \in Rec, k \in 0..K, v \in Pointer : p = e.rec /\ k = e.slot /\ v = e.val
    BY <1>1 DEF Pending
  <1>3. Waits(t, 1, p, k) /\ buf[t][1].val = v
    BY <1>1, <1>2 DEF Waits
  <1>4. ASSUME NEW u \in Thread, NEW i \in Nat, NEW s \in Rec, NEW l \in 0..K, u # t
        PROVE  (Waits(u, i, s, l)' <=> Waits(u, i, s, l)) /\ buf'[u] = buf[u]
    <2>1. buf'[u] = buf[u]
      BY <1>1, <1>4 DEF Basic, TypeOK
    <2> QED  BY <2>1 DEF Waits
  <1>5. ASSUME NEW i \in Nat, NEW s \in Rec, NEW l \in 0..K, i # 0
        PROVE  /\ Waits(t, i, s, l)' <=> Waits(t, i + 1, s, l)
               /\ Waits(t, i + 1, s, l) => buf'[t][i] = buf[t][i + 1]
    <2>1. buf'[t] = Tail(buf[t])
      BY <1>1 DEF Basic, TypeOK
    <2>2. i \in 1..Len(Tail(buf[t])) <=> i + 1 \in 1..Len(buf[t])
      BY <1>1, <1>5
    <2>3. i \in 1..Len(Tail(buf[t])) => Tail(buf[t])[i] = buf[t][i + 1]
      BY <1>1
    <2> QED  BY <2>1, <2>2, <2>3 DEF Waits
  <1>6. CASE k = 0
    <2>1. pointers' = pointers /\ active' = [active EXCEPT ![p] = FALSE]
      BY <1>1, <1>2, <1>6 DEF Commit
    <2>2. \A l \in Slot : l # k
      BY <1>6
    <2> QED  BY ZenonT(60), <1>2, <1>3, <1>4, <1>5, <1>6, <2>1, <2>2
  <1>7. CASE k # 0
    <2>1. pointers' = [pointers EXCEPT ![p][k] = v] /\ active' = active
      BY <1>1, <1>2, <1>7 DEF Commit
    <2>2. k \in Slot
      BY <1>7, KAssumption
    <2>3. \A s \in Rec, l \in Slot : pointers'[s][l] = IF s = p /\ l = k THEN v ELSE pointers[s][l]
      BY <2>1, <2>2 DEF Basic, TypeOK
    <2> QED  BY <1>2, <1>3, <1>4, <1>5, <1>7, <2>1, <2>3
  <1> QED  BY <1>6, <1>7

\* Stores that reach memory empty the slots of the records they give back first.
LEMMA ClearedFlush ==
    ASSUME Basic, RecordsExclusive, Releases, Cleared, NEW t \in Thread, Flush(t)
    PROVE  Cleared'
  <1>1. PICK p \in Rec, k \in 0..K, v \in Pointer :
              /\ Waits(t, 1, p, k) /\ buf[t][1].val = v
              /\ \A u \in Thread, i \in Nat, s \in Rec, l \in 0..K : u # t =>
                    (Waits(u, i, s, l)' <=> Waits(u, i, s, l)) /\ buf'[u] = buf[u]
              /\ \A i \in Nat, s \in Rec, l \in 0..K : i # 0 =>
                    /\ Waits(t, i, s, l)' <=> Waits(t, i + 1, s, l)
                    /\ Waits(t, i + 1, s, l) => buf'[t][i] = buf[t][i + 1]
              /\ \A s \in Rec, l \in Slot : pointers'[s][l] = IF s = p /\ l = k THEN v ELSE pointers[s][l]
    BY FlushEffect, ZenonT(60)
  <1>2. rec' = rec /\ \A u \in Thread, l \in Slot : Leaving(u, l)' <=> Leaving(u, l)
    BY DEF Flush, Leaving
  <1>3. /\ PendingOwned /\ UnownedEmpty /\ GivenEmpty /\ LeavingEmpty /\ StoreBuffered
        /\ \A u \in Thread, i \in Nat, s \in Rec, l \in 0..K : Waits(u, i, s, l) \/ Waits(u, i, s, l)' => i # 0
    BY DEF Cleared, Flush, Drained, Unbuffered, Waits
  <1>4. ASSUME NEW u \in Thread, NEW i \in Nat, NEW s \in Rec, NEW l \in 0..K, Waits(u, i, s, l)'
        PROVE  Waits(u, IF u = t THEN i + 1 ELSE i, s, l)
    BY <1>1, <1>3, <1>4
  \* What is given back after the step was given back before, one place later.
  <1>5. ASSUME NEW u \in Thread, NEW i \in Nat, NEW s \in Rec, Gives(u, i, s)'
        PROVE  \E j \in Nat : j >= i /\ Gives(u, j, s)
    <2>1. 0 \in 0..K /\ i + 1 \in Nat /\ i + 1 >= i /\ i >= i
      BY KAssumption
    <2> QED  BY <1>4, <1>5, <2>1 DEF Gives
  \* A store behind the first one moves forward.
  <1>6. ASSUME NEW u \in Thread, NEW i \in Nat, NEW s \in Rec, NEW l \in 0..K, Waits(u, i, s, l),
               u = t => i > 1
        PROVE  Waits(u, IF u = t THEN i - 1 ELSE i, s, l)'
    <2>1. CASE u = t
      <3>1. PICK j \in Nat : j # 0 /\ i = j + 1
        BY <1>6, <2>1
      <3>2. Waits(t, j, s, l)'
        BY <1>1, <1>6, <2>1, <3>1
      <3> QED  BY <2>1, <3>1, <3>2
    <2>2. CASE u # t
      BY <1>1, <1>6, <2>2
    <2> QED  BY <2>1, <2>2
  <1>7. ASSUME NEW s \in Rec, NEW l \in Slot, Empties(t, s, l) PROVE Empties(t, s, l)'
    <2>1. l \in 0..K /\ l # 0
      OBVIOUS
    <2>2. CASE \E i \in Nat : i > 1 /\ Waits(t, i, s, l)
      <3>1. PICK j \in Nat : j # 0 /\ Waits(t, j + 1, s, l)
        <4>1. PICK i \in Nat : i > 1 /\ Waits(t, i, s, l)
          BY <2>2
        <4>2. i - 1 \in Nat /\ i - 1 # 0 /\ (i - 1) + 1 = i
          BY <4>1
        <4> QED  BY <4>1, <4>2
      <3>2. Waits(t, j, s, l)'
        BY <1>1, <2>1, <3>1
      <3>3. ASSUME NEW i \in Nat, Waits(t, i, s, l)', \A m \in Nat : m > i => ~Waits(t, m, s, l)'
            PROVE  buf'[t][i].val = Null
        <4>1. i # 0 /\ Waits(t, i + 1, s, l) /\ buf'[t][i] = buf[t][i + 1]
          BY <1>1, <1>3, <2>1, <3>3
        <4>2. ASSUME NEW m \in Nat, m > i + 1 PROVE ~Waits(t, m, s, l)
          <5>1. PICK q \in Nat : q # 0 /\ m = q + 1 /\ q > i
            <6>1. m - 1 \in Nat /\ m - 1 # 0 /\ m = (m - 1) + 1 /\ m - 1 > i
              BY <4>2
            <6> QED  BY <6>1
          <5> QED  BY <1>1, <2>1, <3>3, <5>1
        <4>3. buf[t][i + 1].val = Null
          BY <1>7, <4>1, <4>2 DEF Empties
        <4> QED  BY <4>1, <4>3
      <3> QED  BY <3>2, <3>3 DEF Empties
    <2>3. CASE \A i \in Nat : i > 1 => ~Waits(t, i, s, l)
      <3>1. \A i \in Nat : ~Waits(t, i, s, l)'
        <4> SUFFICES ASSUME NEW i \in Nat, Waits(t, i, s, l)' PROVE FALSE
          OBVIOUS
        <4>1. i # 0 /\ Waits(t, i + 1, s, l) /\ i + 1 \in Nat /\ i + 1 > 1
          BY <1>1, <1>3, <2>1
        <4> QED  BY <2>3, <4>1
      <3>2. pointers'[s][l] = Null
        <4>1. CASE s = p /\ l = k
          <5>1. buf[t][1].val = Null
            BY <1>1, <1>7, <2>3, <4>1 DEF Empties
          <5> QED  BY <1>1, <4>1, <5>1
        <4>2. CASE ~(s = p /\ l = k)
          <5>1. ~Waits(t, 1, s, l)
            BY <1>1, <4>2 DEF Waits
          <5>2. \A i \in Nat : ~Waits(t, i, s, l)
            <6> SUFFICES ASSUME NEW i \in Nat, Waits(t, i, s, l) PROVE FALSE
              OBVIOUS
            <6>1. i = 1 \/ i > 1
              BY <1>3, <2>1
            <6> QED  BY <2>3, <5>1, <6>1
          <5> QED  BY <1>1, <1>7, <4>2, <5>2 DEF Empties
        <4> QED  BY <4>1, <4>2
      <3> QED  BY <3>1, <3>2 DEF Empties
    <2> QED  BY <2>2, <2>3
  \* The record of a store to a slot is the thread's, or the thread gives it back.
  <1>8. k # 0 => rec[t] = p \/ \E j \in Nat : j > 1 /\ Gives(t, j, p)
    <2> SUFFICES ASSUME k # 0 PROVE rec[t] = p \/ \E j \in Nat : j > 1 /\ Gives(t, j, p)
      OBVIOUS
    <2>1. k \in Slot
      BY KAssumption
    <2> QED  BY <1>1, <1>3, <2>1 DEF PendingOwned
  <1>9. ASSUME NEW u \in Thread, NEW s \in Rec, NEW l \in Slot, Empties(u, s, l), u # t, s # p \/ k = 0
        PROVE  Empties(u, s, l)'
    <2>1. l \in 0..K /\ l # 0
      OBVIOUS
    <2>2. pointers'[s][l] = pointers[s][l]
      BY <1>1, <1>9, <2>1
    <2>3. \A i \in Nat : Waits(u, i, s, l)' <=> Waits(u, i, s, l)
      BY <1>1, <1>9, <2>1
    <2>4. buf'[u] = buf[u]
      BY <1>1, <1>9, <2>1
    <2> QED  BY <1>9, <2>2, <2>3, <2>4 DEF Empties
  <1>10. PendingOwned'
    <2> SUFFICES ASSUME NEW u \in Thread, NEW i \in Nat, NEW r \in Rec, NEW l \in Slot, Waits(u, i, r, l)'
                 PROVE  rec[u] = r \/ \E j \in Nat : j > i /\ Gives(u, j, r)'
      BY <1>2 DEF PendingOwned
    <2>1. PICK m \in Nat : m = IF u = t THEN i + 1 ELSE i
      OBVIOUS
    <2>2. l \in 0..K /\ 0 \in 0..K
      BY KAssumption
    <2>3. Waits(u, m, r, l) /\ i # 0
      BY <1>3, <1>4, <2>1, <2>2
    <2>4. CASE rec[u] = r
      BY <2>4
    <2>5. CASE rec[u] # r
      <3>1. PICK j \in Nat : j > m /\ Waits(u, j, r, 0)
        BY <1>3, <2>3, <2>5 DEF PendingOwned, Gives
      <3>2. PICK q \in Nat : q = IF u = t THEN j - 1 ELSE j
        BY <2>1, <3>1
      <3>3. q > i /\ (u = t => j > 1)
        BY <2>1, <2>3, <3>1, <3>2
      <3>4. Waits(u, q, r, 0)'
        BY <1>6, <2>2, <3>1, <3>2, <3>3
      <3> QED  BY <3>3, <3>4 DEF Gives
    <2> QED  BY <2>4, <2>5
  <1>11. UnownedEmpty'
    <2> SUFFICES ASSUME NEW r \in Rec, NEW l \in Slot,
                        \A u \in Thread : rec[u] # r /\ \A i \in Nat : ~Gives(u, i, r)'
                 PROVE  pointers'[r][l] = Null
      BY <1>2 DEF UnownedEmpty
    <2>1. l \in 0..K /\ l # 0 /\ 0 \in 0..K
      BY KAssumption
    <2>2. ASSUME NEW u \in Thread, NEW i \in Nat, Gives(u, i, r) PROVE u = t /\ i = 1
      <3>1. Waits(u, i, r, 0) /\ i # 0
        BY <1>3, <2>1, <2>2 DEF Gives
      <3>2. CASE u # t
        BY <1>1, <2>1, <3>1, <3>2 DEF Gives
      <3>3. CASE u = t /\ i > 1
        <4>1. i - 1 \in Nat /\ Waits(t, i - 1, r, 0)'
          BY <1>6, <2>1, <3>1, <3>3
        <4> QED  BY <4>1 DEF Gives
      <3> QED  BY <3>1, <3>2, <3>3
    <2>3. ~(r = p /\ l = k)
      <3> SUFFICES ASSUME r = p, l = k PROVE FALSE
        OBVIOUS
      <3>1. PICK j \in Nat : j > 1 /\ Gives(t, j, p)
        BY <1>8, <2>1
      <3> QED  BY <2>2, <3>1
    <2>4. pointers'[r][l] = pointers[r][l]
      BY <1>1, <2>3
    <2>5. CASE Gives(t, 1, r)
      <3>1. Empties(t, r, l)
        BY <1>3, <2>5 DEF GivenEmpty
      <3>2. \A i \in Nat : ~Waits(t, i, r, l)
        <4> SUFFICES ASSUME NEW i \in Nat, Waits(t, i, r, l) PROVE FALSE
          OBVIOUS
        <4>1. PICK j \in Nat : j > i /\ Gives(t, j, r)
          BY <1>3 DEF PendingOwned
        <4>2. i # 0 /\ j = 1
          BY <1>3, <2>1, <2>2, <4>1
        <4> QED  BY <4>1, <4>2
      <3> QED  BY <2>4, <3>1, <3>2 DEF Empties
    <2>6. CASE ~Gives(t, 1, r)
      <3>1. \A u \in Thread : rec[u] # r /\ \A i \in Nat : ~Gives(u, i, r)
        BY <2>2, <2>6
      <3> QED  BY <1>3, <2>4, <3>1 DEF UnownedEmpty
    <2> QED  BY <2>5, <2>6
  <1>12. GivenEmpty'
    <2> SUFFICES ASSUME NEW u \in Thread, NEW i \in Nat, NEW r \in Rec, NEW l \in Slot, Gives(u, i, r)'
                 PROVE  Empties(u, r, l)'
      BY DEF GivenEmpty
    <2>1. PICK j \in Nat : Gives(u, j, r)
      BY <1>5
    <2>2. Empties(u, r, l)
      BY <1>3, <2>1 DEF GivenEmpty
    <2>3. CASE u # t /\ r = p /\ k # 0
      <3>1. ~Writes(t, p) /\ \A q \in Nat : Gives(t, q, p) => t = u
        BY <2>1, <2>3 DEF Releases
      <3>2. rec[t] # p
        BY <3>1 DEF Writes
      <3> QED  BY <1>8, <2>3, <3>1, <3>2
    <2> QED  BY <1>7, <1>9, <2>2, <2>3
  <1>13. LeavingEmpty'
    <2> SUFFICES ASSUME NEW u \in Thread, NEW r \in Rec, NEW l \in Slot, Leaving(u, l), rec[u] = r
                 PROVE  Empties(u, r, l)'
      BY <1>2 DEF LeavingEmpty
    <2>1. Empties(u, r, l) /\ Writes(u, r)
      BY <1>3 DEF LeavingEmpty, Writes
    <2>2. CASE u # t /\ r = p /\ k # 0
      <3>1. \A j \in Nat : ~Gives(t, j, p)
        BY <2>1, <2>2 DEF Releases
      <3>2. rec[t] # p
        BY <2>1, <2>2, Zenon DEF RecordsExclusive, Writes
      <3> QED  BY <1>8, <2>2, <3>1, <3>2
    <2> QED  BY <1>7, <1>9, <2>1, <2>2
  <1> QED  BY <1>3, <1>10, <1>11, <1>12, <1>13 DEF Cleared

\* The stores a thread has issued stay in its buffer through its own steps.
LEMMA GivesStay ==
    ASSUME Basic, RecordsExclusive, NEW t \in Thread, Step(t)
    PROVE  \A u \in Thread, i \in Nat, r \in Rec : Gives(u, i, r) => Gives(u, i, r)'
  <1> SUFFICES ASSUME NEW u \in Thread, NEW i \in Nat, NEW r \in Rec, Gives(u, i, r)
               PROVE  Gives(u, i, r)'
    OBVIOUS
  <1>1. CASE buf' = buf
    BY <1>1 DEF Gives, Waits
  <1>2. ASSUME NEW e \in Pending, buf' = [buf EXCEPT ![t] = Append(@, e)] PROVE Gives(u, i, r)'
    <2>1. buf[t] \in Seq(Pending) /\ buf'[t] = Append(buf[t], e) /\ (u # t => buf'[u] = buf[u])
      BY <1>2 DEF Basic, TypeOK
    <2> QED  BY <2>1 DEF Gives, Waits
  <1> QED  BY <1>1, <1>2, BufferStep

\* The same threads have the same records, or more.
LEMMA OwnedFrame ==
    ASSUME ActiveOwned,
           \A r \in Rec : active'[r] => active[r] \/ \E u \in Thread : Writes(u, r)',
           \A r \in Rec, u \in Thread : active'[r] /\ Writes(u, r) =>
               \E v \in Thread : Writes(v, r)' \/ \E i \in Nat : Gives(v, i, r)',
           \A u \in Thread, i \in Nat, r \in Rec : Gives(u, i, r) => Gives(u, i, r)'
    PROVE  ActiveOwned'
  BY Zenon DEF ActiveOwned

\* Every action leaves active records in some thread's hands.
LEMMA OwnedStep ==
    ASSUME Basic, RecordsExclusive, ActiveOwned, NEW t \in Thread, Step(t)
    PROVE  ActiveOwned'
  <1>0. \A u \in Thread, i \in Nat, r \in Rec : Gives(u, i, r) => Gives(u, i, r)'
    BY GivesStay
  <1> USE KAssumption, BoundAssumption DEF Basic, memory, heap, client, scanner
  <1>1. CASE AllocBegin(t)
    <2>1. \A r \in Rec, u \in Thread : Writes(u, r) => Writes(u, r)'
      BY <1>1 DEF AllocBegin, Writes, Helping, TypeOK, Control, ControlOf, Outside
    <2> QED  BY <1>0, <1>1, <2>1, OwnedFrame DEF AllocBegin
  <1>2. CASE AllocSkip(t)
    <2>1. \A r \in Rec, u \in Thread : Writes(u, r) => Writes(u, r)'
      BY <1>2 DEF AllocSkip, Writes, Helping, TypeOK, Control, ControlOf, Outside
    <2> QED  BY <1>0, <1>2, <2>1, OwnedFrame DEF AllocSkip
  <1>3. CASE AllocClaim(t)
    <2>1. pos[t] \in Rec /\ active' = [active EXCEPT ![pos[t]] = TRUE]
      BY <1>3 DEF AllocClaim, TypeOK, Control, ControlOf, Outside
    <2>4. \A r \in Rec : r = pos[t] => Writes(t, r)'
      BY <1>3, <2>1 DEF AllocClaim, Writes, Helping, TypeOK
    <2>2. \A r \in Rec, u \in Thread : Writes(u, r) => Writes(u, r)'
      BY <1>3 DEF AllocClaim, Writes, Helping, TypeOK, Control, ControlOf, Outside
    <2>3. \A r \in Rec : active'[r] => active[r] \/ r = pos[t]
      BY <2>1 DEF TypeOK
    <2>5. \A r \in Rec : active'[r] => active[r] \/ \E u \in Thread : Writes(u, r)'
      BY <2>3, <2>4, Zenon
    <2> QED  BY <1>0, <2>2, <2>5, OwnedFrame
  <1>4. CASE AllocCount(t)
    <2>1. \A r \in Rec, u \in Thread : Writes(u, r) => Writes(u, r)'
      BY <1>4 DEF AllocCount, Writes, Helping, TypeOK, Control, ControlOf, Outside
    <2> QED  BY <1>0, <1>4, <2>1, OwnedFrame DEF AllocCount
  <1>5. CASE AllocLoad(t)
    <2>1. \A r \in Rec, u \in Thread : Writes(u, r) => Writes(u, r)'
      BY <1>5 DEF AllocLoad, Writes, Helping, TypeOK, Control, ControlOf, Outside
    <2> QED  BY <1>0, <1>5, <2>1, OwnedFrame DEF AllocLoad
  <1>6. CASE AllocLink(t)
    <2>1. CASE nrec = pos[t]
      <3>1. nrec + 1 \in Rec /\ active' = [active EXCEPT ![nrec + 1] = TRUE]
        BY SMTT(40), <1>6, <2>1, RoomToLink DEF AllocLink, TypeOK
      <3>4. \A r \in Rec : r = nrec + 1 => Writes(t, r)'
        BY <1>6, <2>1, <3>1 DEF AllocLink, Writes, TypeOK
      <3>2. \A r \in Rec, u \in Thread : Writes(u, r) => Writes(u, r)'
        BY ZenonT(60), <1>6, <2>1 DEF AllocLink, Writes, Helping, TypeOK, Control, ControlOf, Outside
      <3>3. \A r \in Rec : active'[r] => active[r] \/ r = nrec + 1
        BY <3>1 DEF TypeOK
      <3>5. \A r \in Rec : active'[r] => active[r] \/ \E u \in Thread : Writes(u, r)'
        BY <3>3, <3>4, Zenon
      <3> QED  BY <1>0, <3>2, <3>5, OwnedFrame
    <2>2. CASE nrec # pos[t]
      <3>1. \A r \in Rec, u \in Thread : Writes(u, r) => Writes(u, r)'
        BY <1>6, <2>2 DEF AllocLink, Writes, Helping, TypeOK
      <3> QED  BY <1>0, <1>6, <2>2, <3>1, OwnedFrame DEF AllocLink
    <2> QED  BY <2>1, <2>2
  <1>7. CASE RetireBegin(t)
    <2>1. \A r \in Rec, u \in Thread : Writes(u, r) => Writes(u, r)'
      BY <1>7 DEF RetireBegin, Writes, Helping, TypeOK, Control, ControlOf, Outside
    <2> QED  BY <1>0, <1>7, <2>1, OwnedFrame DEF RetireBegin
  <1>8. CASE RetireSlot(t)
    <2>1. pc[t] \notin Outside /\ slot[t] \in Slot /\ Null \in Pointer /\ Store(t, rec[t], slot[t], Null)
      BY <1>8 DEF RetireSlot, Outside, TypeOK
    <2>2. UNCHANGED active
      BY <2>1, HasRecord, SlotStore
    <2>3. \A r \in Rec, u \in Thread : Writes(u, r) => Writes(u, r)'
      BY <1>8 DEF RetireSlot, Writes, Helping, TypeOK
    <2> QED  BY <1>0, <2>2, <2>3, OwnedFrame
  <1>9. CASE RetireActive(t)
    <2>1. pc[t] \notin Outside /\ rec[t] \in Rec /\ Store(t, rec[t], 0, Null)
      BY <1>9, HasRecord DEF RetireActive, Outside, TypeOK, Control, ControlOf
    <2>2. PICK p \in Rec : p = rec[t]
      BY <2>1
    <2>3. CASE StoreBuffered
      <3>1. UNCHANGED active /\ \E i \in Nat : Gives(t, i, p)'
        <4>1. 0 \in 0..K /\ Null \in Pointer /\ UNCHANGED active
          BY <2>1, <2>3 DEF Store
        <4> QED  BY <2>1, <2>2, <2>3, <4>1, StoreEffect DEF Gives
      <3>2. \A r \in Rec, u \in Thread : Writes(u, r) => Writes(u, r)' \/ (u = t /\ r = p)
        BY ZenonT(60), <1>9, <2>1, <2>2 DEF RetireActive, HelpNext, Writes, Helping, TypeOK
      <3>3. \A r \in Rec, u \in Thread : Writes(u, r) =>
               \E v \in Thread : Writes(v, r)' \/ \E i \in Nat : Gives(v, i, r)'
        BY <3>1, <3>2
      <3> QED  BY <1>0, <3>1, <3>3, OwnedFrame
    <2>4. CASE ~StoreBuffered
      <3>1. active' = [active EXCEPT ![rec[t]] = FALSE]
        BY <2>1, <2>4, StoreActive
      <3>2. \A r \in Rec, u \in Thread : active'[r] /\ Writes(u, r) => Writes(u, r)'
        BY ZenonT(60), <1>9, <2>1, <3>1 DEF RetireActive, HelpNext, Writes, Helping, TypeOK
      <3>3. \A r \in Rec : active'[r] => active[r]
        BY <2>1, <3>1 DEF TypeOK
      <3> QED  BY <1>0, <3>2, <3>3, OwnedFrame
    <2> QED  BY <2>3, <2>4
  <1>10. CASE LoadCell(t)
    <2>1. \A r \in Rec, u \in Thread : Writes(u, r) => Writes(u, r)'
      BY <1>10 DEF LoadCell, Writes, Helping, TypeOK, Control, ControlOf, Outside
    <2> QED  BY <1>0, <1>10, <2>1, OwnedFrame DEF LoadCell
  <1>11. CASE SetCur(t)
    <2>1. pc[t] \notin Outside /\ slot[t] \in Slot /\ ref[t] \in Pointer /\ Store(t, rec[t], slot[t], ref[t])
      BY <1>11 DEF SetCur, Outside, TypeOK
    <2>2. UNCHANGED active
      BY <2>1, HasRecord, SlotStore
    <2>3. \A r \in Rec, u \in Thread : Writes(u, r) => Writes(u, r)'
      BY <1>11 DEF SetCur, Writes, Helping, TypeOK
    <2> QED  BY <1>0, <2>2, <2>3, OwnedFrame
  <1>12. CASE CheckSame(t)
    <2>1. \A r \in Rec, u \in Thread : Writes(u, r) => Writes(u, r)'
      BY <1>12 DEF CheckSame, Writes, Helping, TypeOK, Control, ControlOf, Outside
    <2> QED  BY <1>0, <1>12, <2>1, OwnedFrame DEF CheckSame
  <1>13. CASE CheckChanged(t)
    <2>1. \A r \in Rec, u \in Thread : Writes(u, r) => Writes(u, r)'
      BY <1>13 DEF CheckChanged, Writes, Helping, TypeOK, Control, ControlOf, Outside
    <2> QED  BY <1>0, <1>13, <2>1, OwnedFrame DEF CheckChanged
  <1>14. CASE FailClear(t)
    <2>1. pc[t] \notin Outside /\ slot[t] \in Slot /\ Null \in Pointer /\ Store(t, rec[t], slot[t], Null)
      BY <1>14 DEF FailClear, Outside, TypeOK
    <2>2. UNCHANGED active
      BY <2>1, HasRecord, SlotStore
    <2>3. \A r \in Rec, u \in Thread : Writes(u, r) => Writes(u, r)'
      BY <1>14 DEF FailClear, Writes, Helping, TypeOK
    <2> QED  BY <1>0, <2>2, <2>3, OwnedFrame
  <1>15. CASE RetireNode(t)
    <2>1. \A r \in Rec, u \in Thread : Writes(u, r) => Writes(u, r)'
      BY <1>15 DEF RetireNode, Writes, Helping, TypeOK, Control, ControlOf, Outside
    <2> QED  BY <1>0, <1>15, <2>1, OwnedFrame DEF RetireNode
  <1>16. CASE ScanBegin(t)
    <2>1. \A r \in Rec, u \in Thread : Writes(u, r) => Writes(u, r)'
      BY <1>16 DEF ScanBegin, Writes, Helping, TypeOK, Control, ControlOf, Outside
    <2> QED  BY <1>0, <1>16, <2>1, OwnedFrame DEF ScanBegin
  <1>17. CASE ScanSlot(t)
    <2>1. \A r \in Rec, u \in Thread : Writes(u, r) => Writes(u, r)'
      BY <1>17 DEF ScanSlot, Writes, Helping, TypeOK, Control, ControlOf, Outside
    <2> QED  BY <1>0, <1>17, <2>1, OwnedFrame DEF ScanSlot
  <1>18. CASE Sweep(t)
    <2>1. \A r \in Rec, u \in Thread : Writes(u, r) => Writes(u, r)'
      BY <1>18 DEF Sweep, Writes, Helping, TypeOK, Control, ControlOf, Outside
    <2> QED  BY <1>0, <1>18, <2>1, OwnedFrame DEF Sweep
  <1>19. CASE HelpBegin(t)
    <2>1. \A r \in Rec, u \in Thread : Writes(u, r) => Writes(u, r)'
      BY <1>19 DEF HelpBegin, Writes, Helping, TypeOK, Control, ControlOf, Outside
    <2> QED  BY <1>0, <1>19, <2>1, OwnedFrame DEF HelpBegin
  <1>20. CASE HelpSkip(t)
    <2>1. \A r \in Rec, u \in Thread : Writes(u, r) => Writes(u, r)'
      BY <1>20 DEF HelpSkip, HelpNext, Writes, Helping, TypeOK, Control, ControlOf, Outside
    <2> QED  BY <1>0, <1>20, <2>1, OwnedFrame DEF HelpSkip
  <1>21. CASE HelpLock(t)
    <2>1. pos[t] \in Rec /\ active' = [active EXCEPT ![pos[t]] = TRUE]
      BY <1>21 DEF HelpLock, TypeOK, Control, ControlOf, Outside
    <2>4. \A r \in Rec : r = pos[t] => Writes(t, r)'
      BY <1>21, <2>1 DEF HelpLock, Writes, Helping, TypeOK
    <2>2. \A r \in Rec, u \in Thread : Writes(u, r) => Writes(u, r)'
      BY <1>21 DEF HelpLock, Writes, Helping, TypeOK, Control, ControlOf, Outside
    <2>3. \A r \in Rec : active'[r] => active[r] \/ r = pos[t]
      BY <2>1 DEF TypeOK
    <2>5. \A r \in Rec : active'[r] => active[r] \/ \E u \in Thread : Writes(u, r)'
      BY <2>3, <2>4, Zenon
    <2> QED  BY <1>0, <2>2, <2>5, OwnedFrame
  <1>22. CASE Move(t)
    <2>1. \A r \in Rec, u \in Thread : Writes(u, r) => Writes(u, r)'
      BY ZenonT(60), <1>22 DEF Move, Writes, Helping, TypeOK, Control, ControlOf, Outside
    <2> QED  BY <1>0, <1>22, <2>1, OwnedFrame DEF Move
  <1>23. CASE HelpUnlock(t)
    <2>1. pc[t] \notin Outside /\ pos[t] \in Rec /\ Store(t, pos[t], 0, Null)
      BY <1>23, HasRecord DEF HelpUnlock, Outside, TypeOK, Control, ControlOf
    <2>2. PICK p \in Rec : p = pos[t]
      BY <2>1
    <2>3. CASE StoreBuffered
      <3>1. UNCHANGED active /\ \E i \in Nat : Gives(t, i, p)'
        <4>1. 0 \in 0..K /\ Null \in Pointer /\ UNCHANGED active
          BY <2>1, <2>3 DEF Store
        <4> QED  BY <2>1, <2>2, <2>3, <4>1, StoreEffect DEF Gives
      <3>2. \A r \in Rec, u \in Thread : Writes(u, r) => Writes(u, r)' \/ (u = t /\ r = p)
        BY ZenonT(60), <1>23, <2>1, <2>2 DEF HelpUnlock, HelpNext, Writes, Helping, TypeOK
      <3>3. \A r \in Rec, u \in Thread : Writes(u, r) =>
               \E v \in Thread : Writes(v, r)' \/ \E i \in Nat : Gives(v, i, r)'
        BY <3>1, <3>2
      <3> QED  BY <1>0, <3>1, <3>3, OwnedFrame
    <2>4. CASE ~StoreBuffered
      <3>1. active' = [active EXCEPT ![pos[t]] = FALSE]
        BY <2>1, <2>4, StoreActive
      <3>2. \A r \in Rec, u \in Thread : active'[r] /\ Writes(u, r) => Writes(u, r)'
        BY ZenonT(60), <1>23, <2>1, <3>1 DEF HelpUnlock, HelpNext, Writes, Helping, TypeOK
      <3>3. \A r \in Rec : active'[r] => active[r]
        BY <2>1, <3>1 DEF TypeOK
      <3> QED  BY <1>0, <3>2, <3>3, OwnedFrame
    <2> QED  BY <2>3, <2>4
  <1>24. CASE NewNode(t)
    <2>1. \A r \in Rec, u \in Thread : Writes(u, r) => Writes(u, r)'
      BY <1>24 DEF NewNode, Writes, Helping, TypeOK, Control, ControlOf, Outside
    <2> QED  BY <1>0, <1>24, <2>1, OwnedFrame DEF NewNode
  <1>25. CASE DropNode(t)
    <2>1. \A r \in Rec, u \in Thread : Writes(u, r) => Writes(u, r)'
      BY <1>25 DEF DropNode, Writes, Helping, TypeOK, Control, ControlOf, Outside
    <2> QED  BY <1>0, <1>25, <2>1, OwnedFrame DEF DropNode
  <1>26. CASE Exchange(t)
    <2>1. \A r \in Rec, u \in Thread : Writes(u, r) => Writes(u, r)'
      BY <1>26 DEF Exchange, Writes, Helping, TypeOK, Control, ControlOf, Outside
    <2> QED  BY <1>0, <1>26, <2>1, OwnedFrame DEF Exchange
  <1>27. ASSUME NEW k \in Slot, LoadBegin(t, k) PROVE ActiveOwned'
    <2>1. \A r \in Rec, u \in Thread : Writes(u, r) => Writes(u, r)'
      BY <1>27 DEF LoadBegin, Writes, Helping, TypeOK, Control, ControlOf, Outside
    <2> QED  BY <1>0, <1>27, <2>1, OwnedFrame DEF LoadBegin
  <1>28. ASSUME NEW k \in Slot, SetHazardFresh(t, k) PROVE ActiveOwned'
    <2>1. pc[t] \notin Outside /\ k \in Slot /\ priv[t] \in Pointer /\ Store(t, rec[t], k, priv[t])
      BY <1>28 DEF SetHazardFresh, Outside, TypeOK
    <2>2. UNCHANGED active
      BY <2>1, HasRecord, SlotStore
    <2>3. \A r \in Rec, u \in Thread : Writes(u, r) => Writes(u, r)'
      BY <1>28 DEF SetHazardFresh, Writes, Helping, TypeOK
    <2> QED  BY <1>0, <2>2, <2>3, OwnedFrame
  <1>29. ASSUME NEW k \in Slot, ClearHazard(t, k) PROVE ActiveOwned'
    <2>1. pc[t] \notin Outside /\ k \in Slot /\ Null \in Pointer /\ Store(t, rec[t], k, Null)
      BY <1>29 DEF ClearHazard, Outside, TypeOK
    <2>2. UNCHANGED active
      BY <2>1, HasRecord, SlotStore
    <2>3. \A r \in Rec, u \in Thread : Writes(u, r) => Writes(u, r)'
      BY <1>29 DEF ClearHazard, Writes, Helping, TypeOK
    <2> QED  BY <1>0, <2>2, <2>3, OwnedFrame
  <1>30. ASSUME NEW i \in Slot, NEW j \in Slot, SetHazardCopy(t, i, j) PROVE ActiveOwned'
    <2>1. pc[t] \notin Outside /\ j \in Slot /\ held[t][i] \in Pointer /\ Store(t, rec[t], j, held[t][i])
      BY <1>30 DEF SetHazardCopy, Outside, TypeOK
    <2>2. UNCHANGED active
      BY <2>1, HasRecord, SlotStore
    <2>3. \A r \in Rec, u \in Thread : Writes(u, r) => Writes(u, r)'
      BY <1>30 DEF SetHazardCopy, Writes, Helping, TypeOK
    <2> QED  BY <1>0, <2>2, <2>3, OwnedFrame
  <1> QED
    BY <1>1, <1>2, <1>3, <1>4, <1>5, <1>6, <1>7, <1>8, <1>9, <1>10, <1>11, <1>12, <1>13, <1>14, <1>15, <1>16, <1>17, <1>18, <1>19, <1>20, <1>21, <1>22, <1>23, <1>24, <1>25, <1>26, <1>27, <1>28, <1>29, <1>30
       DEF Step, Allocate, Retire, LoadAndSetHazard, RetireNodeStep, ClientStep

\* A release that reaches memory makes its record inactive.
LEMMA OwnedFlush ==
    ASSUME Basic, ActiveOwned, NEW t \in Thread, Flush(t)
    PROVE  ActiveOwned'
  <1>1. PICK p \in Rec, k \in 0..K :
              /\ Waits(t, 1, p, k)
              /\ \A u \in Thread, i \in Nat, s \in Rec, l \in 0..K : u # t =>
                    (Waits(u, i, s, l)' <=> Waits(u, i, s, l))
              /\ \A i \in Nat, s \in Rec, l \in 0..K : i # 0 => (Waits(t, i, s, l)' <=> Waits(t, i + 1, s, l))
              /\ k = 0 => active' = [active EXCEPT ![p] = FALSE]
              /\ k # 0 => active' = active
    BY FlushEffect, Zenon
  <1> SUFFICES ASSUME NEW r \in Rec, active'[r]
               PROVE  \E u \in Thread : Writes(u, r)' \/ \E i \in Nat : Gives(u, i, r)'
    BY DEF ActiveOwned
  <1>2. active[r] /\ ~(k = 0 /\ r = p)
    BY <1>1 DEF Basic, TypeOK
  <1>3. PICK u \in Thread : Writes(u, r) \/ \E i \in Nat : Gives(u, i, r)
    BY <1>2 DEF ActiveOwned
  <1>4. CASE Writes(u, r)
    <2>1. Writes(u, r)'
      BY <1>4 DEF Flush, Writes, Helping
    <2> QED  BY <2>1
  <1>5. ASSUME NEW i \in Nat, Gives(u, i, r) PROVE \E j \in Nat : Gives(u, j, r)'
    <2>1. 0 \in 0..K /\ Waits(u, i, r, 0) /\ i # 0
      BY <1>5, KAssumption DEF Gives, Waits
    <2>2. CASE u # t
      BY <1>1, <2>1, <2>2 DEF Gives
    <2>3. CASE u = t
      <3>1. i # 1
        BY <1>1, <1>2, <2>1, <2>3 DEF Waits
      <3>2. PICK j \in Nat : j # 0 /\ i = j + 1
        <4>1. i - 1 \in Nat /\ i - 1 # 0 /\ i = (i - 1) + 1
          BY <2>1, <3>1
        <4> QED  BY <4>1
      <3>3. Waits(t, j, r, 0)'
        BY <1>1, <2>1, <2>3, <3>2
      <3> QED  BY <2>3, <3>3 DEF Gives
    <2> QED  BY <2>2, <2>3
  <1> QED  BY <1>3, <1>4, <1>5

\* When all threads are out and their stores have reached memory, no record is
\* active and no slot is set: what the destructor finds.
LEMMA AtRest ==
    ASSUME Basic, Cleared, ActiveOwned, Destroy
    PROVE  /\ \A r \in Rec : ~active[r]
           /\ \A r \in Rec, k \in Slot : pointers[r][k] = Null
  <1>1. \A u \in Thread : pc[u] = "none" /\ buf[u] = << >>
    BY DEF Destroy, Drained
  <1>2. \A u \in Thread : rec[u] = 0
    BY <1>1 DEF Basic, Control, ControlOf, Outside
  <1>3. \A u \in Thread, i \in Nat, r \in Rec : ~Gives(u, i, r)
    BY <1>1 DEF Gives, Waits
  <1>4. \A u \in Thread, r \in Rec : ~Writes(u, r)
    BY <1>1, <1>2 DEF Writes, Helping
  <1>5. \A r \in Rec : ~active[r]
    BY <1>3, <1>4 DEF ActiveOwned
  <1>6. \A u \in Thread, r \in Rec : rec[u] # r
    BY <1>2
  <1> QED  BY <1>3, <1>5, <1>6 DEF Cleared, UnownedEmpty

-----------------------------------------------------------------------------
(* Nothing leaks *)

\* No node changes its place.
LEMMA KeptFrame ==
    ASSUME Kept, alloc' \subseteq alloc, UNCHANGED <<cell, priv, retireList>>,
           \A u \in Thread : pc[u] = "retire" => pc'[u] = "retire" /\ ref'[u] = ref[u]
    PROVE  Kept'
  BY DEF Kept

\* No action loses a node: what leaves a place goes to another, or is deleted.
LEMMA KeptStep ==
    ASSUME Basic, RecordsExclusive, Cleared, ActiveOwned, UnlinkedEmpty, Kept,
           NEW t \in Thread, Step(t) \/ Destroy
    PROVE  Kept'
  <1> USE KAssumption, BoundAssumption DEF Basic, memory, heap, client, scanner
  <1>1. CASE AllocBegin(t)
    <2>1. \A u \in Thread : pc[u] = "retire" => pc'[u] = "retire" /\ ref'[u] = ref[u]
      BY <1>1 DEF AllocBegin, TypeOK
    <2> QED  BY <1>1, <2>1, KeptFrame DEF AllocBegin
  <1>2. CASE AllocSkip(t)
    <2>1. \A u \in Thread : pc[u] = "retire" => pc'[u] = "retire" /\ ref'[u] = ref[u]
      BY <1>2 DEF AllocSkip, TypeOK
    <2> QED  BY <1>2, <2>1, KeptFrame DEF AllocSkip
  <1>3. CASE AllocClaim(t)
    <2>1. \A u \in Thread : pc[u] = "retire" => pc'[u] = "retire" /\ ref'[u] = ref[u]
      BY <1>3 DEF AllocClaim, TypeOK
    <2> QED  BY <1>3, <2>1, KeptFrame DEF AllocClaim
  <1>4. CASE AllocCount(t)
    <2>1. \A u \in Thread : pc[u] = "retire" => pc'[u] = "retire" /\ ref'[u] = ref[u]
      BY <1>4 DEF AllocCount, TypeOK
    <2> QED  BY <1>4, <2>1, KeptFrame DEF AllocCount
  <1>5. CASE AllocLoad(t)
    <2>1. \A u \in Thread : pc[u] = "retire" => pc'[u] = "retire" /\ ref'[u] = ref[u]
      BY <1>5 DEF AllocLoad, TypeOK
    <2> QED  BY <1>5, <2>1, KeptFrame DEF AllocLoad
  <1>6. CASE AllocLink(t)
    <2>1. \A u \in Thread : pc[u] = "retire" => pc'[u] = "retire" /\ ref'[u] = ref[u]
      BY <1>6 DEF AllocLink, TypeOK
    <2> QED  BY <1>6, <2>1, KeptFrame DEF AllocLink
  <1>7. CASE RetireBegin(t)
    <2>1. \A u \in Thread : pc[u] = "retire" => pc'[u] = "retire" /\ ref'[u] = ref[u]
      BY <1>7 DEF RetireBegin, TypeOK
    <2> QED  BY <1>7, <2>1, KeptFrame DEF RetireBegin
  <1>8. CASE RetireSlot(t)
    <2>1. \A u \in Thread : pc[u] = "retire" => pc'[u] = "retire" /\ ref'[u] = ref[u]
      BY <1>8 DEF RetireSlot, TypeOK
    <2> QED  BY <1>8, <2>1, KeptFrame DEF RetireSlot
  <1>9. CASE RetireActive(t)
    <2>1. \A u \in Thread : pc[u] = "retire" => pc'[u] = "retire" /\ ref'[u] = ref[u]
      BY <1>9 DEF RetireActive, TypeOK
    <2> QED  BY <1>9, <2>1, KeptFrame DEF RetireActive
  <1>10. CASE LoadCell(t)
    <2>1. \A u \in Thread : pc[u] = "retire" => pc'[u] = "retire" /\ ref'[u] = ref[u]
      BY <1>10 DEF LoadCell, TypeOK
    <2> QED  BY <1>10, <2>1, KeptFrame DEF LoadCell
  <1>11. CASE SetCur(t)
    <2>1. \A u \in Thread : pc[u] = "retire" => pc'[u] = "retire" /\ ref'[u] = ref[u]
      BY <1>11 DEF SetCur, TypeOK
    <2> QED  BY <1>11, <2>1, KeptFrame DEF SetCur
  <1>12. CASE CheckSame(t)
    <2>1. \A u \in Thread : pc[u] = "retire" => pc'[u] = "retire" /\ ref'[u] = ref[u]
      BY <1>12 DEF CheckSame, TypeOK
    <2> QED  BY <1>12, <2>1, KeptFrame DEF CheckSame
  <1>13. CASE CheckChanged(t)
    <2>1. \A u \in Thread : pc[u] = "retire" => pc'[u] = "retire" /\ ref'[u] = ref[u]
      BY <1>13 DEF CheckChanged, TypeOK
    <2> QED  BY <1>13, <2>1, KeptFrame DEF CheckChanged
  <1>14. CASE FailClear(t)
    <2>1. \A u \in Thread : pc[u] = "retire" => pc'[u] = "retire" /\ ref'[u] = ref[u]
      BY <1>14 DEF FailClear, TypeOK
    <2> QED  BY <1>14, <2>1, KeptFrame DEF FailClear
  <1>15. CASE RetireNode(t)
    <2>1. rec[t] \in Rec
      BY <1>15, HasRecord DEF RetireNode, Outside
    <2>2. /\ ref[t] \in retireList'[rec[t]]
          /\ \A r \in Rec : retireList[r] \subseteq retireList'[r]
          /\ \A u \in Thread : u # t => pc'[u] = pc[u] /\ ref'[u] = ref[u]
      BY <1>15, <2>1 DEF RetireNode, TypeOK
    <2> QED  BY <1>15, <2>1, <2>2 DEF RetireNode, Kept
  <1>16. CASE ScanBegin(t)
    <2>1. \A u \in Thread : pc[u] = "retire" => pc'[u] = "retire" /\ ref'[u] = ref[u]
      BY <1>16 DEF ScanBegin, TypeOK
    <2> QED  BY <1>16, <2>1, KeptFrame DEF ScanBegin
  <1>17. CASE ScanSlot(t)
    <2>1. \A u \in Thread : pc[u] = "retire" => pc'[u] = "retire" /\ ref'[u] = ref[u]
      BY <1>17 DEF ScanSlot, TypeOK
    <2> QED  BY <1>17, <2>1, KeptFrame DEF ScanSlot
  <1>18. CASE Sweep(t)
    <2>1. rec[t] \in Rec
      BY <1>18, HasRecord DEF Sweep, Outside
    <2>2. /\ retireList'[rec[t]] = retireList[rec[t]] \cap live[t]
          /\ \A r \in Rec : r # rec[t] => retireList'[r] = retireList[r]
          /\ \A u \in Thread : pc[u] = "retire" => pc'[u] = "retire" /\ ref'[u] = ref[u]
          /\ alloc' = alloc \ (retireList[rec[t]] \ live[t])
      BY <1>18, <2>1 DEF Sweep, TypeOK
    <2>3. \A n \in alloc' : (\E r \in Rec : n \in retireList[r]) => \E r \in Rec : n \in retireList'[r]
      BY <2>1, <2>2
    <2> QED  BY <1>18, <2>2, <2>3 DEF Sweep, Kept
  <1>19. CASE HelpBegin(t)
    <2>1. \A u \in Thread : pc[u] = "retire" => pc'[u] = "retire" /\ ref'[u] = ref[u]
      BY <1>19 DEF HelpBegin, TypeOK
    <2> QED  BY <1>19, <2>1, KeptFrame DEF HelpBegin
  <1>20. CASE HelpSkip(t)
    <2>1. \A u \in Thread : pc[u] = "retire" => pc'[u] = "retire" /\ ref'[u] = ref[u]
      BY <1>20 DEF HelpSkip, HelpNext, TypeOK
    <2> QED  BY <1>20, <2>1, KeptFrame DEF HelpSkip, HelpNext
  <1>21. CASE HelpLock(t)
    <2>1. \A u \in Thread : pc[u] = "retire" => pc'[u] = "retire" /\ ref'[u] = ref[u]
      BY <1>21 DEF HelpLock, TypeOK
    <2> QED  BY <1>21, <2>1, KeptFrame DEF HelpLock
  <1>22. CASE Move(t)
    <2>6. rec[t] \in Rec
      BY <1>22, HasRecord DEF Move, Outside
    <2>7. pos[t] \in Rec
      BY <1>22 DEF Move, TypeOK, Control, ControlOf
    <2>1. rec[t] \in Rec /\ pos[t] \in Rec
      BY <2>6, <2>7
    <2>2. \A u \in Thread : pc[u] = "retire" => pc'[u] = "retire" /\ ref'[u] = ref[u]
      BY <1>22 DEF Move, TypeOK
    <2>3. PICK n \in retireList[pos[t]] :
             retireList' = [retireList EXCEPT ![rec[t]] = retireList[rec[t]] \cup {n}, ![pos[t]] = @ \ {n}]
      BY <1>22 DEF Move
    <2>4. rec[t] # pos[t]
      BY <1>22 DEF Move, RecordsExclusive, Helping
    <2>5. \A r \in Rec : retireList[r] \subseteq retireList'[r] \cup retireList'[rec[t]]
      BY <2>1, <2>3, <2>4 DEF TypeOK
    <2> QED  BY ZenonT(60), <1>22, <2>1, <2>2, <2>5 DEF Move, Kept
  <1>23. CASE HelpUnlock(t)
    <2>1. \A u \in Thread : pc[u] = "retire" => pc'[u] = "retire" /\ ref'[u] = ref[u]
      BY <1>23 DEF HelpUnlock, HelpNext, TypeOK
    <2> QED  BY <1>23, <2>1, KeptFrame DEF HelpUnlock, HelpNext
  <1>24. CASE NewNode(t)
    <2>1. PICK n \in Node \ alloc : alloc' = alloc \cup {n} /\ priv' = [priv EXCEPT ![t] = n]
      BY <1>24 DEF NewNode
    <2>2. /\ priv'[t] = n /\ priv[t] = Null
          /\ \A u \in Thread : u # t => priv'[u] = priv[u]
          /\ UNCHANGED <<pc, ref, cell, retireList>>
      BY <1>24, <2>1 DEF NewNode, TypeOK
    <2>3. \A m \in alloc : m # Null
      BY NullAssumption DEF TypeOK
    <2> QED  BY <2>1, <2>2, <2>3 DEF Kept
  <1>25. CASE DropNode(t)
    BY <1>25 DEF DropNode, Kept, TypeOK
  <1>26. CASE Exchange(t)
    BY <1>26 DEF Exchange, Kept, TypeOK
  <1>27. ASSUME NEW k \in Slot, LoadBegin(t, k) PROVE Kept'
    <2>1. \A u \in Thread : pc[u] = "retire" => pc'[u] = "retire" /\ ref'[u] = ref[u]
      BY <1>27 DEF LoadBegin, TypeOK
    <2> QED  BY <1>27, <2>1, KeptFrame DEF LoadBegin
  <1>28. ASSUME NEW k \in Slot, SetHazardFresh(t, k) PROVE Kept'
    <2>1. \A u \in Thread : pc[u] = "retire" => pc'[u] = "retire" /\ ref'[u] = ref[u]
      BY <1>28 DEF SetHazardFresh, TypeOK
    <2> QED  BY <1>28, <2>1, KeptFrame DEF SetHazardFresh
  <1>29. ASSUME NEW k \in Slot, ClearHazard(t, k) PROVE Kept'
    <2>1. \A u \in Thread : pc[u] = "retire" => pc'[u] = "retire" /\ ref'[u] = ref[u]
      BY <1>29 DEF ClearHazard, TypeOK
    <2> QED  BY <1>29, <2>1, KeptFrame DEF ClearHazard
  <1>30. ASSUME NEW i \in Slot, NEW j \in Slot, SetHazardCopy(t, i, j) PROVE Kept'
    <2>1. \A u \in Thread : pc[u] = "retire" => pc'[u] = "retire" /\ ref'[u] = ref[u]
      BY <1>30 DEF SetHazardCopy, TypeOK
    <2> QED  BY <1>30, <2>1, KeptFrame DEF SetHazardCopy
  <1>31. CASE Destroy
    <2>1. \A r \in Rec : ~active[r]
      BY <1>31, AtRest
    <2>2. \A r \in Rec, k \in Slot : pointers[r][k] = Null
      BY <1>31, AtRest
    <2>3. alloc' = alloc \ UNION {retireList[r] : r \in 1..nrec}
      BY SMTT(40), <1>31, <2>1, <2>2 DEF Destroy, TypeOK
    <2>4. \A r \in Rec : r \in 1..nrec \/ retireList[r] = {}
      BY DEF UnlinkedEmpty, TypeOK
    <2>5. \A n \in alloc', r \in Rec : n \notin retireList[r]
      BY <2>3, <2>4
    <2> QED  BY <1>31, <2>3, <2>5 DEF Destroy, Kept
  <1> QED
    BY <1>1, <1>2, <1>3, <1>4, <1>5, <1>6, <1>7, <1>8, <1>9, <1>10, <1>11, <1>12, <1>13, <1>14, <1>15, <1>16, <1>17, <1>18, <1>19, <1>20, <1>21, <1>22, <1>23, <1>24, <1>25, <1>26, <1>27, <1>28, <1>29, <1>30, <1>31
       DEF Step, Allocate, Retire, LoadAndSetHazard, RetireNodeStep, ClientStep

\* Nodes are put only on the lists of linked records.
LEMMA UnlinkedStep ==
    ASSUME Basic, UnlinkedEmpty, NEW t \in Thread, Step(t) \/ Destroy
    PROVE  UnlinkedEmpty'
  <1> USE KAssumption, BoundAssumption DEF Basic, memory, heap, client, scanner
  <1>1. CASE AllocBegin(t)
    BY <1>1 DEF AllocBegin, UnlinkedEmpty, TypeOK
  <1>2. CASE AllocSkip(t)
    BY <1>2 DEF AllocSkip, UnlinkedEmpty, TypeOK
  <1>3. CASE AllocClaim(t)
    BY <1>3 DEF AllocClaim, UnlinkedEmpty, TypeOK
  <1>4. CASE AllocCount(t)
    BY <1>4 DEF AllocCount, UnlinkedEmpty, TypeOK
  <1>5. CASE AllocLoad(t)
    BY <1>5 DEF AllocLoad, UnlinkedEmpty, TypeOK
  <1>6. CASE AllocLink(t)
    BY <1>6 DEF AllocLink, UnlinkedEmpty, TypeOK
  <1>7. CASE RetireBegin(t)
    BY <1>7 DEF RetireBegin, UnlinkedEmpty, TypeOK
  <1>8. CASE RetireSlot(t)
    BY <1>8 DEF RetireSlot, UnlinkedEmpty, TypeOK
  <1>9. CASE RetireActive(t)
    BY <1>9 DEF RetireActive, UnlinkedEmpty, TypeOK
  <1>10. CASE LoadCell(t)
    BY <1>10 DEF LoadCell, UnlinkedEmpty, TypeOK
  <1>11. CASE SetCur(t)
    BY <1>11 DEF SetCur, UnlinkedEmpty, TypeOK
  <1>12. CASE CheckSame(t)
    BY <1>12 DEF CheckSame, UnlinkedEmpty, TypeOK
  <1>13. CASE CheckChanged(t)
    BY <1>13 DEF CheckChanged, UnlinkedEmpty, TypeOK
  <1>14. CASE FailClear(t)
    BY <1>14 DEF FailClear, UnlinkedEmpty, TypeOK
  <1>15. CASE RetireNode(t)
    <2>1. rec[t] \in Rec /\ rec[t] <= nrec
      BY <1>15, HasRecord DEF RetireNode, Outside
    <2> QED  BY <1>15, <2>1 DEF RetireNode, UnlinkedEmpty, TypeOK
  <1>16. CASE ScanBegin(t)
    BY <1>16 DEF ScanBegin, UnlinkedEmpty, TypeOK
  <1>17. CASE ScanSlot(t)
    BY <1>17 DEF ScanSlot, UnlinkedEmpty, TypeOK
  <1>18. CASE Sweep(t)
    <2>1. rec[t] \in Rec /\ rec[t] <= nrec
      BY <1>18, HasRecord DEF Sweep, Outside
    <2> QED  BY <1>18, <2>1 DEF Sweep, UnlinkedEmpty, TypeOK
  <1>19. CASE HelpBegin(t)
    BY <1>19 DEF HelpBegin, UnlinkedEmpty, TypeOK
  <1>20. CASE HelpSkip(t)
    BY <1>20 DEF HelpSkip, HelpNext, UnlinkedEmpty, TypeOK
  <1>21. CASE HelpLock(t)
    BY <1>21 DEF HelpLock, UnlinkedEmpty, TypeOK
  <1>22. CASE Move(t)
    <2>1. rec[t] \in Rec /\ rec[t] <= nrec
      BY <1>22, HasRecord DEF Move, Outside
    <2>2. \A r \in Rec : r # rec[t] => retireList'[r] \subseteq retireList[r]
      BY <1>22, <2>1 DEF Move, TypeOK
    <2>3. \A r \in Rec : r > nrec => r # rec[t]
      BY <2>1 DEF TypeOK
    <2>4. UNCHANGED nrec
      BY <1>22 DEF Move
    <2> QED  BY <2>2, <2>3, <2>4 DEF UnlinkedEmpty
  <1>23. CASE HelpUnlock(t)
    BY <1>23 DEF HelpUnlock, HelpNext, UnlinkedEmpty, TypeOK
  <1>24. CASE NewNode(t)
    BY <1>24 DEF NewNode, UnlinkedEmpty, TypeOK
  <1>25. CASE DropNode(t)
    BY <1>25 DEF DropNode, UnlinkedEmpty, TypeOK
  <1>26. CASE Exchange(t)
    BY <1>26 DEF Exchange, UnlinkedEmpty, TypeOK
  <1>27. ASSUME NEW k \in Slot, LoadBegin(t, k) PROVE UnlinkedEmpty'
    BY <1>27 DEF LoadBegin, UnlinkedEmpty, TypeOK
  <1>28. ASSUME NEW k \in Slot, SetHazardFresh(t, k) PROVE UnlinkedEmpty'
    BY <1>28 DEF SetHazardFresh, UnlinkedEmpty, TypeOK
  <1>29. ASSUME NEW k \in Slot, ClearHazard(t, k) PROVE UnlinkedEmpty'
    BY <1>29 DEF ClearHazard, UnlinkedEmpty, TypeOK
  <1>30. ASSUME NEW i \in Slot, NEW j \in Slot, SetHazardCopy(t, i, j) PROVE UnlinkedEmpty'
    BY <1>30 DEF SetHazardCopy, UnlinkedEmpty, TypeOK
  <1>31. CASE Destroy
    BY <1>31 DEF Destroy, UnlinkedEmpty, TypeOK
  <1> QED
    BY <1>1, <1>2, <1>3, <1>4, <1>5, <1>6, <1>7, <1>8, <1>9, <1>10, <1>11, <1>12, <1>13, <1>14, <1>15, <1>16, <1>17, <1>18, <1>19, <1>20, <1>21, <1>22, <1>23, <1>24, <1>25, <1>26, <1>27, <1>28, <1>29, <1>30, <1>31
       DEF Step, Allocate, Retire, LoadAndSetHazard, RetireNodeStep, ClientStep

\* The inductive invariant of NoLeak.
Tidy == Shared /\ Cleared /\ ActiveOwned /\ UnlinkedEmpty /\ Kept

\* The records and nodes are tidy at the start.
LEMMA TidyInit == Init => Tidy
  <1> SUFFICES ASSUME Init PROVE Tidy
    OBVIOUS
  <1>1. \A t \in Thread, i \in Nat, r \in Rec, k \in 0..K : ~Waits(t, i, r, k)
    BY DEF Init, Waits
  <1>2. \A t \in Thread, k \in Slot : ~Leaving(t, k)
    BY DEF Init, Leaving
  <1>3. \A t \in Thread, i \in Nat, r \in Rec : ~Gives(t, i, r)
    BY <1>1, KAssumption DEF Gives
  <1>4. Cleared
    BY <1>1, <1>2, <1>3 DEF Init, Cleared, Unbuffered, PendingOwned, UnownedEmpty, GivenEmpty, LeavingEmpty
  <1>5. ActiveOwned /\ UnlinkedEmpty /\ Kept
    BY DEF Init, ActiveOwned, UnlinkedEmpty, Kept
  <1> QED  BY <1>4, <1>5, SharedInvariant DEF Tidy

\* Every step keeps them tidy.
LEMMA TidyNext == Tidy /\ [Next]_vars => Tidy'
  <1> SUFFICES ASSUME Tidy, [Next]_vars PROVE Tidy'
    OBVIOUS
  <1>1. Shared' /\ Basic' /\ Basic /\ RecordsExclusive /\ Releases
    BY SharedInvariant DEF Tidy, Shared
  <1>2. ASSUME NEW t \in Thread, Step(t) PROVE Tidy'
    <2>1. Cleared' /\ ActiveOwned'
      BY <1>1, <1>2, ClearedStep, OwnedStep DEF Tidy
    <2>2. UnlinkedEmpty' /\ Kept'
      BY <1>1, <1>2, UnlinkedStep, KeptStep DEF Tidy
    <2> QED  BY <1>1, <2>1, <2>2 DEF Tidy
  <1>3. ASSUME NEW t \in Thread, Flush(t) PROVE Tidy'
    <2>1. Cleared' /\ ActiveOwned'
      BY <1>1, <1>3, ClearedFlush, OwnedFlush DEF Tidy
    <2>2. UnlinkedEmpty' /\ Kept'
      BY <1>3 DEF Tidy, Flush, heap, client, UnlinkedEmpty, Kept
    <2> QED  BY <1>1, <2>1, <2>2 DEF Tidy
  <1>4. CASE Destroy
    <2>1. PICK t \in Thread : TRUE
      BY ThreadAssumption
    <2>2. UnlinkedEmpty' /\ Kept'
      BY <1>1, <1>4, <2>1, UnlinkedStep, KeptStep DEF Tidy
    <2>3. ActiveOwned'
      BY <1>4 DEF Destroy, ActiveOwned
    <2>4. /\ \A u \in Thread : buf'[u] = << >> /\ pc'[u] = "none"
          /\ \A r \in Rec, k \in Slot : pointers'[r][k] = Null
      BY <1>4 DEF Destroy, Drained
    <2>5. /\ \A u \in Thread, i \in Nat, r \in Rec, k \in 0..K : ~Waits(u, i, r, k)'
          /\ \A u \in Thread, k \in Slot : ~Leaving(u, k)'
      BY <2>4 DEF Waits, Leaving
    <2>6. \A u \in Thread, i \in Nat, r \in Rec : ~Gives(u, i, r)'
      BY <2>5, KAssumption DEF Gives
    <2>7. Cleared'
      BY <2>4, <2>5, <2>6 DEF Cleared, Unbuffered, PendingOwned, UnownedEmpty, GivenEmpty, LeavingEmpty
    <2> QED  BY <1>1, <2>2, <2>3, <2>7 DEF Tidy
  <1>5. CASE UNCHANGED vars
    <2> USE <1>5 DEF vars, memory, heap, client, scanner
    <2>1. Cleared'
      <3>1. Control /\ Control' /\ Cleared
        BY <1>1 DEF Basic, Tidy
      <3>2. \A u \in Thread, k \in Slot : Leaving(u, k)' => Leaving(u, k)
        BY DEF Leaving
      <3> QED  BY <3>1, <3>2, ClearedFrame
    <2>2. ActiveOwned'
      <3>1. \A u \in Thread, i \in Nat, r \in Rec : Gives(u, i, r)' <=> Gives(u, i, r)
        BY DEF Gives, Waits
      <3>2. \A u \in Thread, r \in Rec : Writes(u, r)' <=> Writes(u, r)
        BY DEF Writes, Helping
      <3> QED  BY <3>1, <3>2 DEF Tidy, ActiveOwned
    <2>3. UnlinkedEmpty' /\ Kept'
      BY DEF Tidy, UnlinkedEmpty, Kept
    <2> QED  BY <1>1, <2>1, <2>2, <2>3 DEF Tidy
  <1> QED  BY <1>2, <1>3, <1>4, <1>5 DEF Next

\* No node is lost: every allocated node is reachable, private to a thread, on
\* its way to a retire list or on one, also across thread exits whose stores are
\* delayed, helpScan and the destructor.
THEOREM NoLeak == Spec => []NothingLeaked
  <1>1. Tidy => NothingLeaked
    BY DEF Tidy, Kept, NothingLeaked, Retiring, Retired
  <1> QED  BY <1>1, TidyInit, TidyNext, PTL DEF Spec

-----------------------------------------------------------------------------
(* HazardPointers implements SafeReclamation *)

\* The refinement mapping of Reclamation.
NodeState == [n \in Node |-> IF n \notin alloc THEN "free"
                             ELSE IF n = cell THEN "shared"
                             ELSE IF n \in Retired \cup Retiring THEN "retired"
                             ELSE "private"]
Guards == [t \in Thread |-> {held[t][k] : k \in Slot} \ {Null}]

\* A node is retired: on a list, or handed to retireNode.
Gone(n) == \/ \E r \in Rec : n \in retireList[r]
           \/ \E t \in Thread : pc[t] = "retire" /\ n = ref[t]

\* The state of a node, before and after a step.
LEMMA StateOf ==
    ASSUME NEW n \in Node
    PROVE  /\ NodeState[n] = IF n \notin alloc THEN "free" ELSE IF n = cell THEN "shared"
                             ELSE IF Gone(n) THEN "retired" ELSE "private"
           /\ (NodeState[n])' = IF n \notin alloc' THEN "free" ELSE IF n = cell' THEN "shared"
                                ELSE IF Gone(n)' THEN "retired" ELSE "private"
  <1>1. (n \in Retired \cup Retiring <=> Gone(n)) /\ (n \in Retired \cup Retiring <=> Gone(n))'
    BY DEF Retired, Retiring, Gone
  <1> QED  BY <1>1 DEF NodeState

\* Retired nodes stay retired and no others become so.
LEMMA StateSame ==
    ASSUME UNCHANGED <<alloc, cell>>, \A n \in Node : Gone(n)' <=> Gone(n)
    PROVE  NodeState' = NodeState
  <1>1. \A n \in Node : (NodeState[n])' = NodeState[n]
    BY StateOf
  <1> QED  BY <1>1 DEF NodeState

\* A step outside retireNode's entry and exit leaves the state of every node.
LEMMA QuietStep ==
    ASSUME NEW t \in Thread, UNCHANGED <<alloc, cell, retireList>>,
           \A u \in Thread : u # t => pc'[u] = pc[u] /\ ref'[u] = ref[u],
           pc[t] # "retire", pc'[t] # "retire"
    PROVE  NodeState' = NodeState
  <1>1. ASSUME NEW n \in Node PROVE Gone(n)' <=> Gone(n)
    <2>1. \A u \in Thread : pc'[u] = "retire" /\ n = ref'[u] <=> pc[u] = "retire" /\ n = ref[u]
      OBVIOUS
    <2> QED  BY <2>1 DEF Gone
  <1> QED  BY <1>1, StateSame

\* The steps of SafeReclamation.
LEMMA AbstractStep ==
    /\ \A n \in Node : Reclamation!New(n) => Reclamation!Next
    /\ \A t \in Thread, n \in Node : Reclamation!Discard(t, n) => Reclamation!Next
    /\ \A old, new \in SUBSET Node : Reclamation!Replace(old, new) => Reclamation!Next
    /\ \A t \in Thread, S \in SUBSET Node : Reclamation!Guard(t, S) => Reclamation!Next
    /\ \A S \in SUBSET Node : Reclamation!Reclaim(S) => Reclamation!Next
  BY Zenon DEF Reclamation!Next

\* A thread that changes what it holds takes guards only on nodes that are not
\* retired.
LEMMA GuardChange ==
    ASSUME TypeOK, TypeOK', NEW t \in Thread, NodeState' = NodeState,
           \A u \in Thread : u # t => held'[u] = held[u],
           \A n \in Node : n \in Guards'[t] /\ n \notin Guards[t] => NodeState[n] \in {"private", "shared"}
    PROVE  Reclamation!Next
  <1>1. PICK S \in SUBSET Node : S = Guards'[t]
    <2>1. held' \in [Thread -> [Slot -> Pointer]]
      BY DEF TypeOK
    <2>2. \A k \in Slot : held'[t][k] \in Node \cup {Null}
      BY <2>1
    <2>3. Guards'[t] \in SUBSET Node
      BY <2>2 DEF Guards
    <2> QED  BY <2>3
  <1>2. Guards' = [Guards EXCEPT ![t] = S]
    <2>1. \A u \in Thread : u # t => Guards'[u] = Guards[u]
      BY DEF Guards
    <2>2. DOMAIN Guards' = Thread /\ DOMAIN Guards = Thread
      BY DEF Guards
    <2>3. Guards' = [u \in Thread |-> Guards'[u]] /\ Guards = [u \in Thread |-> Guards[u]]
      BY DEF Guards
    <2> QED  BY <1>1, <2>1, <2>2, <2>3
  <1>3. \A n \in S \ Guards[t] : NodeState[n] \in {"private", "shared"}
    BY <1>1
  <1>4. Reclamation!Guard(t, S)
    BY <1>2, <1>3 DEF Reclamation!Guard, Guards, NodeState
  <1> QED  BY <1>1, <1>4, AbstractStep

\* Every step of HazardPointers is a step of SafeReclamation, or none: the
\* second load of loadAndSetHazard takes the guard, the exchange retires the
\* node, and the end of a scan reclaims.
LEMMA ReclamationStep ==
    ASSUME Safe, Tidy, TypeOK', NEW t \in Thread, Step(t) \/ Destroy
    PROVE  Reclamation!Next \/ UNCHANGED <<NodeState, Guards>>
  <1> USE KAssumption, BoundAssumption DEF Tidy, Shared, Safe, Basic, memory, heap, client, scanner
  <1>1. CASE AllocBegin(t)
    <2>1. /\ UNCHANGED <<alloc, cell, retireList>> /\ pc[t] # "retire"
          /\ \A u \in Thread : u # t => pc'[u] = pc[u] /\ ref'[u] = ref[u]
      BY <1>1 DEF AllocBegin, TypeOK
    <2>2. NodeState' = NodeState
      <3>1. pc'[t] # "retire"
        BY <1>1 DEF AllocBegin, TypeOK
      <3> QED  BY <2>1, <3>1, QuietStep
    <2> QED  BY <1>1, <2>2 DEF AllocBegin, Guards
  <1>2. CASE AllocSkip(t)
    <2>1. /\ UNCHANGED <<alloc, cell, retireList>> /\ pc[t] # "retire"
          /\ \A u \in Thread : u # t => pc'[u] = pc[u] /\ ref'[u] = ref[u]
      BY <1>2 DEF AllocSkip, TypeOK
    <2>2. NodeState' = NodeState
      <3>1. pc'[t] # "retire"
        BY <1>2 DEF AllocSkip, TypeOK
      <3> QED  BY <2>1, <3>1, QuietStep
    <2> QED  BY <1>2, <2>2 DEF AllocSkip, Guards
  <1>3. CASE AllocClaim(t)
    <2>1. /\ UNCHANGED <<alloc, cell, retireList>> /\ pc[t] # "retire"
          /\ \A u \in Thread : u # t => pc'[u] = pc[u] /\ ref'[u] = ref[u]
      BY <1>3 DEF AllocClaim, TypeOK
    <2>2. NodeState' = NodeState
      <3>1. pc'[t] # "retire"
        BY <1>3 DEF AllocClaim, TypeOK
      <3> QED  BY <2>1, <3>1, QuietStep
    <2> QED  BY <1>3, <2>2 DEF AllocClaim, Guards
  <1>4. CASE AllocCount(t)
    <2>1. /\ UNCHANGED <<alloc, cell, retireList>> /\ pc[t] # "retire"
          /\ \A u \in Thread : u # t => pc'[u] = pc[u] /\ ref'[u] = ref[u]
      BY <1>4 DEF AllocCount, TypeOK
    <2>2. NodeState' = NodeState
      <3>1. pc'[t] # "retire"
        BY <1>4 DEF AllocCount, TypeOK
      <3> QED  BY <2>1, <3>1, QuietStep
    <2> QED  BY <1>4, <2>2 DEF AllocCount, Guards
  <1>5. CASE AllocLoad(t)
    <2>1. /\ UNCHANGED <<alloc, cell, retireList>> /\ pc[t] # "retire"
          /\ \A u \in Thread : u # t => pc'[u] = pc[u] /\ ref'[u] = ref[u]
      BY <1>5 DEF AllocLoad, TypeOK
    <2>2. NodeState' = NodeState
      <3>1. pc'[t] # "retire"
        BY <1>5 DEF AllocLoad, TypeOK
      <3> QED  BY <2>1, <3>1, QuietStep
    <2> QED  BY <1>5, <2>2 DEF AllocLoad, Guards
  <1>6. CASE AllocLink(t)
    <2>1. /\ UNCHANGED <<alloc, cell, retireList>> /\ pc[t] # "retire"
          /\ \A u \in Thread : u # t => pc'[u] = pc[u] /\ ref'[u] = ref[u]
      BY <1>6 DEF AllocLink, TypeOK
    <2>2. NodeState' = NodeState
      <3>1. pc'[t] # "retire"
        BY <1>6 DEF AllocLink, TypeOK
      <3> QED  BY <2>1, <3>1, QuietStep
    <2> QED  BY <1>6, <2>2 DEF AllocLink, Guards
  <1>7. CASE RetireBegin(t)
    <2>1. /\ UNCHANGED <<alloc, cell, retireList>> /\ pc[t] # "retire"
          /\ \A u \in Thread : u # t => pc'[u] = pc[u] /\ ref'[u] = ref[u]
      BY <1>7 DEF RetireBegin, TypeOK
    <2>2. NodeState' = NodeState
      <3>1. pc'[t] # "retire"
        BY <1>7 DEF RetireBegin, TypeOK
      <3> QED  BY <2>1, <3>1, QuietStep
    <2>3. /\ \A u \in Thread : u # t => held'[u] = held[u]
          /\ \A l \in Slot : held'[t][l] \in {held[t][l], Null}
      BY <1>7 DEF RetireBegin, TypeOK
    <2>4. \A n \in Node : n \in Guards'[t] => n \in Guards[t]
      BY <2>3, NullAssumption DEF Guards
    <2> QED  BY <2>2, <2>3, <2>4, GuardChange
  <1>8. CASE RetireSlot(t)
    <2>1. /\ UNCHANGED <<alloc, cell, retireList>> /\ pc[t] # "retire"
          /\ \A u \in Thread : u # t => pc'[u] = pc[u] /\ ref'[u] = ref[u]
      BY <1>8 DEF RetireSlot, TypeOK
    <2>2. NodeState' = NodeState
      <3>1. pc'[t] # "retire"
        BY <1>8 DEF RetireSlot, TypeOK
      <3> QED  BY <2>1, <3>1, QuietStep
    <2> QED  BY <1>8, <2>2 DEF RetireSlot, Guards
  <1>9. CASE RetireActive(t)
    <2>1. /\ UNCHANGED <<alloc, cell, retireList>> /\ pc[t] # "retire"
          /\ \A u \in Thread : u # t => pc'[u] = pc[u] /\ ref'[u] = ref[u]
      BY <1>9 DEF RetireActive, TypeOK
    <2>2. NodeState' = NodeState
      <3>1. pc'[t] # "retire"
        BY <1>9 DEF RetireActive, TypeOK
      <3> QED  BY <2>1, <3>1, QuietStep
    <2> QED  BY <1>9, <2>2 DEF RetireActive, Guards
  <1>10. CASE LoadCell(t)
    <2>1. /\ UNCHANGED <<alloc, cell, retireList>> /\ pc[t] # "retire"
          /\ \A u \in Thread : u # t => pc'[u] = pc[u] /\ ref'[u] = ref[u]
      BY <1>10 DEF LoadCell, TypeOK
    <2>2. NodeState' = NodeState
      <3>1. pc'[t] # "retire"
        BY <1>10 DEF LoadCell, TypeOK
      <3> QED  BY <2>1, <3>1, QuietStep
    <2> QED  BY <1>10, <2>2 DEF LoadCell, Guards
  <1>11. CASE SetCur(t)
    <2>1. /\ UNCHANGED <<alloc, cell, retireList>> /\ pc[t] # "retire"
          /\ \A u \in Thread : u # t => pc'[u] = pc[u] /\ ref'[u] = ref[u]
      BY <1>11 DEF SetCur, TypeOK
    <2>2. NodeState' = NodeState
      <3>1. pc'[t] # "retire"
        BY <1>11 DEF SetCur, TypeOK
      <3> QED  BY <2>1, <3>1, QuietStep
    <2> QED  BY <1>11, <2>2 DEF SetCur, Guards
  <1>12. CASE CheckSame(t)
    <2>1. /\ UNCHANGED <<alloc, cell, retireList>> /\ pc[t] # "retire"
          /\ \A u \in Thread : u # t => pc'[u] = pc[u] /\ ref'[u] = ref[u]
      BY <1>12 DEF CheckSame, TypeOK
    <2>2. NodeState' = NodeState
      <3>1. pc'[t] # "retire"
        BY <1>12 DEF CheckSame, TypeOK
      <3> QED  BY <2>1, <3>1, QuietStep
    <2>3. /\ \A u \in Thread : u # t => held'[u] = held[u]
          /\ \A l \in Slot : held'[t][l] \in {held[t][l], cell}
      BY <1>12 DEF CheckSame, TypeOK
    <2>4. \A n \in Node : n \in Guards'[t] => n \in Guards[t] \/ n = cell
      BY <2>3, NullAssumption DEF Guards
    <2>5. \A n \in Node : n = cell => NodeState[n] = "shared"
      BY StateOf, NullAssumption DEF Placed, Reachable
    <2> QED  BY <2>2, <2>3, <2>4, <2>5, GuardChange
  <1>13. CASE CheckChanged(t)
    <2>1. /\ UNCHANGED <<alloc, cell, retireList>> /\ pc[t] # "retire"
          /\ \A u \in Thread : u # t => pc'[u] = pc[u] /\ ref'[u] = ref[u]
      BY SMTT(40), <1>13 DEF CheckChanged, TypeOK
    <2>2. NodeState' = NodeState
      <3>1. pc'[t] # "retire"
        BY <1>13 DEF CheckChanged, TypeOK
      <3> QED  BY <2>1, <3>1, QuietStep
    <2> QED  BY <1>13, <2>2 DEF CheckChanged, Guards
  <1>14. CASE FailClear(t)
    <2>1. /\ UNCHANGED <<alloc, cell, retireList>> /\ pc[t] # "retire"
          /\ \A u \in Thread : u # t => pc'[u] = pc[u] /\ ref'[u] = ref[u]
      BY <1>14 DEF FailClear, TypeOK
    <2>2. NodeState' = NodeState
      <3>1. pc'[t] # "retire"
        BY <1>14 DEF FailClear, TypeOK
      <3> QED  BY <2>1, <3>1, QuietStep
    <2> QED  BY <1>14, <2>2 DEF FailClear, Guards
  <1>15. CASE RetireNode(t)
    <2>1. rec[t] \in Rec
      BY <1>15, HasRecord DEF RetireNode, Outside
    <2>2. /\ \A r \in Rec : retireList'[r] = IF r = rec[t] THEN retireList[r] \cup {ref[t]} ELSE retireList[r]
          /\ \A u \in Thread : u # t => pc'[u] = pc[u] /\ ref'[u] = ref[u]
          /\ pc[t] = "retire" /\ pc'[t] # "retire"
      BY ZenonT(60), <1>15, <2>1 DEF RetireNode, TypeOK
    <2>3. \A m \in Node : Gone(m)' <=> Gone(m)
      <3> SUFFICES ASSUME NEW m \in Node PROVE Gone(m)' <=> Gone(m)
        OBVIOUS
      <3>1. CASE m = ref[t]
        BY <2>1, <2>2, <3>1 DEF Gone
      <3>2. CASE m # ref[t]
        <4>1. \A r \in Rec : m \in retireList'[r] <=> m \in retireList[r]
          BY ZenonT(60), <2>2, <3>2
        <4>2. \A u \in Thread : pc'[u] = "retire" /\ m = ref'[u] <=> pc[u] = "retire" /\ m = ref[u]
          BY <2>2, <3>2
        <4> QED  BY <4>1, <4>2 DEF Gone
      <3> QED  BY <3>1, <3>2
    <2>4. NodeState' = NodeState
      BY <1>15, <2>3, StateSame DEF RetireNode
    <2> QED  BY <1>15, <2>4 DEF RetireNode, Guards
  <1>16. CASE ScanBegin(t)
    <2>1. /\ UNCHANGED <<alloc, cell, retireList>> /\ pc[t] # "retire"
          /\ \A u \in Thread : u # t => pc'[u] = pc[u] /\ ref'[u] = ref[u]
      BY <1>16 DEF ScanBegin, TypeOK
    <2>2. NodeState' = NodeState
      <3>1. pc'[t] # "retire"
        BY <1>16 DEF ScanBegin, TypeOK
      <3> QED  BY <2>1, <3>1, QuietStep
    <2> QED  BY <1>16, <2>2 DEF ScanBegin, Guards
  <1>17. CASE ScanSlot(t)
    <2>1. /\ UNCHANGED <<alloc, cell, retireList>> /\ pc[t] # "retire"
          /\ \A u \in Thread : u # t => pc'[u] = pc[u] /\ ref'[u] = ref[u]
      BY <1>17 DEF ScanSlot, TypeOK
    <2>2. NodeState' = NodeState
      <3>1. pc'[t] # "retire"
        BY <1>17 DEF ScanSlot, TypeOK
      <3> QED  BY <2>1, <3>1, QuietStep
    <2> QED  BY <1>17, <2>2 DEF ScanSlot, Guards
  <1>18. CASE Sweep(t)
    <2>1. rec[t] \in Rec
      BY <1>18, HasRecord DEF Sweep, Outside
    <2>0. PICK S \in SUBSET Node : S = retireList[rec[t]] \ live[t]
      BY <2>1 DEF TypeOK
    <2>2. /\ \A r \in Rec : retireList'[r] = IF r = rec[t] THEN retireList[r] \ S ELSE retireList[r]
          /\ \A u \in Thread : u # t => pc'[u] = pc[u] /\ ref'[u] = ref[u]
          /\ pc'[t] # "retire"
          /\ alloc' = alloc \ S /\ UNCHANGED <<cell, held>> /\ pc[t] = "scan" /\ spos[t] = 0
      BY ZenonT(60), <1>18, <2>0, <2>1 DEF Sweep, TypeOK
    <2>3. \A m \in S : m \in alloc /\ m # cell /\ Gone(m)
      BY <2>0, <2>1 DEF TypeOK, Placed, ListedOnce, Gone
    <2>4. \A m \in Node : m \notin S => (Gone(m)' <=> Gone(m))
      <3> SUFFICES ASSUME NEW m \in Node, m \notin S PROVE Gone(m)' <=> Gone(m)
        OBVIOUS
      <3>1. \A r \in Rec : m \in retireList'[r] <=> m \in retireList[r]
        BY <2>2
      <3>2. \A u \in Thread : pc'[u] = "retire" /\ m = ref'[u] <=> pc[u] = "retire" /\ m = ref[u]
        BY <2>2
      <3> QED  BY <3>1, <3>2 DEF Gone
    <2>5. S \cap UNION {Guards[u] : u \in Thread} = {}
      <3> SUFFICES ASSUME NEW u \in Thread, NEW l \in Slot, held[u][l] \in S, held[u][l] # Null PROVE FALSE
        BY DEF Guards
      <3>1. Unread(t, rec[u], l)
        BY <2>0, <2>2 DEF ScanSees
      <3>2. rec[u] \in Rec
        BY HasRecord DEF HeldGuarded
      <3> QED  BY <2>0, <2>2, <3>1, <3>2 DEF Unread
    <2>6. \A m \in S : NodeState[m] = "retired"
      BY <2>3, StateOf
    <2>7. \A m \in Node : (NodeState[m])' = IF m \in S THEN "free" ELSE NodeState[m]
      BY <2>2, <2>3, <2>4, StateOf
    <2>8. NodeState' = [m \in Node |-> IF m \in S THEN "free" ELSE NodeState[m]]
      BY <2>7 DEF NodeState
    <2>9. Reclamation!Reclaim(S)
      BY <2>2, <2>5, <2>6, <2>8 DEF Reclamation!Reclaim, Reclamation!Guarded, NodeState, Guards
    <2> QED  BY <2>3, <2>9, AbstractStep
  <1>19. CASE HelpBegin(t)
    <2>1. /\ UNCHANGED <<alloc, cell, retireList>> /\ pc[t] # "retire"
          /\ \A u \in Thread : u # t => pc'[u] = pc[u] /\ ref'[u] = ref[u]
      BY <1>19 DEF HelpBegin, TypeOK
    <2>2. NodeState' = NodeState
      <3>1. pc'[t] # "retire"
        BY <1>19 DEF HelpBegin, TypeOK
      <3> QED  BY <2>1, <3>1, QuietStep
    <2> QED  BY <1>19, <2>2 DEF HelpBegin, Guards
  <1>20. CASE HelpSkip(t)
    <2>1. /\ UNCHANGED <<alloc, cell, retireList>> /\ pc[t] # "retire"
          /\ \A u \in Thread : u # t => pc'[u] = pc[u] /\ ref'[u] = ref[u]
      BY <1>20 DEF HelpSkip, HelpNext, TypeOK
    <2>2. NodeState' = NodeState
      <3>1. pc'[t] # "retire"
        BY <1>20 DEF HelpSkip, HelpNext, TypeOK
      <3> QED  BY <2>1, <3>1, QuietStep
    <2> QED  BY <1>20, <2>2 DEF HelpSkip, Guards
  <1>21. CASE HelpLock(t)
    <2>1. /\ UNCHANGED <<alloc, cell, retireList>> /\ pc[t] # "retire"
          /\ \A u \in Thread : u # t => pc'[u] = pc[u] /\ ref'[u] = ref[u]
      BY <1>21 DEF HelpLock, TypeOK
    <2>2. NodeState' = NodeState
      <3>1. pc'[t] # "retire"
        BY <1>21 DEF HelpLock, TypeOK
      <3> QED  BY <2>1, <3>1, QuietStep
    <2> QED  BY <1>21, <2>2 DEF HelpLock, Guards
  <1>22. CASE Move(t)
    <2>1. rec[t] \in Rec
      BY <1>22, HasRecord DEF Move, Outside
    <2>2. pos[t] \in Rec /\ rec[t] # pos[t]
      BY <1>22 DEF Move, TypeOK, Control, ControlOf, RecordsExclusive, Helping
    <2>3. PICK n \in retireList[pos[t]] :
             retireList' = [retireList EXCEPT ![rec[t]] = retireList[rec[t]] \cup {n}, ![pos[t]] = @ \ {n}]
      BY <1>22 DEF Move
    <2>4. \A r \in Rec : retireList'[r] = IF r = rec[t] THEN retireList[r] \cup {n} ELSE
                                          IF r = pos[t] THEN retireList[r] \ {n} ELSE retireList[r]
      BY <2>1, <2>2, <2>3 DEF TypeOK
    <2>5. \A m \in Node : (\E r \in Rec : m \in retireList'[r]) <=> (\E r \in Rec : m \in retireList[r])
      <3> SUFFICES ASSUME NEW m \in Node
                   PROVE  (\E r \in Rec : m \in retireList'[r]) <=> (\E r \in Rec : m \in retireList[r])
        OBVIOUS
      <3>1. CASE m = n
        <4>1. n \in retireList'[rec[t]] /\ n \in retireList[pos[t]]
          BY SMTT(40), <2>1, <2>3, <2>4 DEF TypeOK
        <4> QED  BY <2>1, <2>2, <3>1, <4>1
      <3>2. CASE m # n
        <4>1. \A r \in Rec : m \in retireList'[r] <=> m \in retireList[r]
          BY ZenonT(60), <2>4, <3>2
        <4> QED  BY <4>1
      <3> QED  BY <3>1, <3>2
    <2>6. /\ \A u \in Thread : u # t => pc'[u] = pc[u] /\ ref'[u] = ref[u]
          /\ pc[t] # "retire" /\ pc'[t] # "retire"
      <3>1. pc'[t] \in {"scan_begin", "move"} /\ pc[t] = "move"
        BY <1>22 DEF Move, TypeOK
      <3>2. \A u \in Thread : u # t => pc'[u] = pc[u] /\ ref'[u] = ref[u]
        BY <1>22 DEF Move, TypeOK
      <3> QED  BY <3>1, <3>2
    <2>7. \A m \in Node : Gone(m)' <=> Gone(m)
      <3>1. \A m \in Node, u \in Thread :
               pc'[u] = "retire" /\ m = ref'[u] <=> pc[u] = "retire" /\ m = ref[u]
        BY <2>6
      <3> QED  BY <2>5, <3>1 DEF Gone
    <2>8. NodeState' = NodeState
      BY <1>22, <2>7, StateSame DEF Move
    <2> QED  BY <1>22, <2>8 DEF Move, Guards
  <1>23. CASE HelpUnlock(t)
    <2>1. /\ UNCHANGED <<alloc, cell, retireList>> /\ pc[t] # "retire"
          /\ \A u \in Thread : u # t => pc'[u] = pc[u] /\ ref'[u] = ref[u]
      BY <1>23 DEF HelpUnlock, HelpNext, TypeOK
    <2>2. NodeState' = NodeState
      <3>1. pc'[t] # "retire"
        BY <1>23 DEF HelpUnlock, HelpNext, TypeOK
      <3> QED  BY <2>1, <3>1, QuietStep
    <2> QED  BY <1>23, <2>2 DEF HelpUnlock, Guards
  <1>24. CASE NewNode(t)
    <2>1. PICK n \in Node \ alloc : alloc' = alloc \cup {n} /\ priv' = [priv EXCEPT ![t] = n]
      BY <1>24 DEF NewNode
    <2>2. UNCHANGED <<pc, ref, cell, retireList, held>>
      BY <1>24 DEF NewNode
    <2>3. n # cell /\ ~Gone(n)' /\ \A m \in Node : Gone(m)' <=> Gone(m)
      BY <2>1, <2>2, NullAssumption DEF Gone, Placed, Reachable, ListedOnce, RetiringOnce
    <2>4. \A m \in Node : (NodeState[m])' = IF m = n THEN "private" ELSE NodeState[m]
      BY <2>1, <2>2, <2>3, StateOf
    <2>5. NodeState[n] = "free" /\ NodeState' = [NodeState EXCEPT ![n] = "private"]
      BY <2>1, <2>4, StateOf DEF NodeState
    <2>6. Reclamation!New(n)
      BY <2>2, <2>5 DEF Reclamation!New, NodeState
    <2> QED  BY <2>6, AbstractStep
  <1>25. CASE DropNode(t)
    <2>0. PICK n \in Node : n = priv[t]
      BY <1>25 DEF DropNode, TypeOK
    <2>1. /\ alloc' = alloc \ {n} /\ UNCHANGED <<pc, ref, cell, retireList>>
          /\ \A u \in Thread : u # t => held'[u] = held[u]
          /\ \A l \in Slot : held'[t][l] = IF held[t][l] = n THEN Null ELSE held[t][l]
      BY <1>25, <2>0 DEF DropNode, TypeOK
    <2>2. n \in alloc /\ n # cell /\ ~Gone(n)
      BY <2>0, <2>1, NullAssumption DEF Placed, Reachable, ListedOnce, RetiringOnce, Gone
    <2>3. \A m \in Node : Gone(m)' <=> Gone(m)
      BY <2>1 DEF Gone
    <2>4. \A m \in Node : (NodeState[m])' = IF m = n THEN "free" ELSE NodeState[m]
      BY <2>1, <2>3, StateOf
    <2>5. NodeState[n] = "private" /\ NodeState' = [NodeState EXCEPT ![n] = "free"]
      BY <2>1, <2>2, <2>4, StateOf DEF NodeState
    <2>6. \A u \in Thread \ {t} : n \notin Guards[u]
      BY <2>0, <2>1, NullAssumption DEF Guards, HeldGuarded
    <2>7. Guards'[t] = Guards[t] \ {n}
      <3>1. Guards'[t] = {held'[t][k] : k \in Slot} \ {Null} /\ Guards[t] = {held[t][k] : k \in Slot} \ {Null}
        BY DEF Guards
      <3>2. \A m : m \in Guards'[t] => m \in Guards[t] /\ m # n
        BY <2>1, <3>1
      <3>3. \A m : m \in Guards[t] /\ m # n => m \in Guards'[t]
        BY <2>1, <3>1
      <3> QED  BY <3>2, <3>3
    <2>8. Guards' = [Guards EXCEPT ![t] = @ \ {n}]
      <3>1. \A u \in Thread : u # t => Guards'[u] = Guards[u]
        BY <2>1 DEF Guards
      <3>2. DOMAIN Guards' = Thread /\ DOMAIN Guards = Thread
        BY DEF Guards
      <3>3. Guards' = [u \in Thread |-> Guards'[u]] /\ Guards = [u \in Thread |-> Guards[u]]
        BY DEF Guards
      <3> QED  BY <2>7, <3>1, <3>2, <3>3
    <2>9. Reclamation!Discard(t, n)
      BY <2>5, <2>6, <2>8 DEF Reclamation!Discard, NodeState, Guards
    <2> QED  BY <2>9, AbstractStep
  <1>26. CASE Exchange(t)
    <2>0. PICK old \in SUBSET Node, new \in SUBSET Node : old = {cell} \ {Null} /\ new = {priv[t]} \ {Null}
      BY DEF TypeOK
    <2>1. /\ cell' = priv[t] /\ cell # priv[t] /\ UNCHANGED <<alloc, retireList, held>>
          /\ \A u \in Thread : u # t => pc'[u] = pc[u] /\ ref'[u] = ref[u]
          /\ pc[t] = "ready" /\ ref'[t] = cell /\ pc'[t] = IF cell = Null THEN "ready" ELSE "retire"
      BY <1>26 DEF Exchange, TypeOK
    <2>3. \A m \in Node : m # cell => (Gone(m)' <=> Gone(m))
      BY <2>1 DEF Gone
    <2>4. \A m \in Node : m = cell => m \in alloc /\ m # cell' /\ Gone(m)'
      BY <2>1, NullAssumption DEF Gone, Placed, Reachable
    <2>5. \A m \in Node : m = priv[t] => m \in alloc /\ m # cell /\ ~Gone(m)
      BY NullAssumption DEF Placed, Reachable, ListedOnce, RetiringOnce, Gone
    <2>6. \A m \in Node : (NodeState[m])' = IF m = cell THEN "retired" ELSE IF m = priv[t] THEN "shared" ELSE NodeState[m]
      BY <2>1, <2>3, <2>4, <2>5, StateOf
    <2>7. /\ \A m \in Node : m = cell => NodeState[m] = "shared"
          /\ \A m \in Node : m = priv[t] => NodeState[m] = "private"
      BY <2>4, <2>5, StateOf
    <2>8. /\ \A m \in old : NodeState[m] = "shared"
          /\ \A m \in new : NodeState[m] = "private"
      BY <2>0, <2>7
    <2>9. NodeState' = [m \in Node |-> IF m \in old THEN "retired" ELSE IF m \in new THEN "shared" ELSE NodeState[m]]
      BY <2>0, <2>6, NullAssumption DEF NodeState
    <2>10. Reclamation!Replace(old, new)
      BY <2>1, <2>8, <2>9 DEF Reclamation!Replace, NodeState, Guards
    <2> QED  BY <2>10, AbstractStep
  <1>27. ASSUME NEW k \in Slot, LoadBegin(t, k) PROVE Reclamation!Next \/ UNCHANGED <<NodeState, Guards>>
    <2>1. /\ UNCHANGED <<alloc, cell, retireList>> /\ pc[t] # "retire"
          /\ \A u \in Thread : u # t => pc'[u] = pc[u] /\ ref'[u] = ref[u]
      BY <1>27 DEF LoadBegin, TypeOK
    <2>2. NodeState' = NodeState
      <3>1. pc'[t] # "retire"
        BY <1>27 DEF LoadBegin, TypeOK
      <3> QED  BY <2>1, <3>1, QuietStep
    <2>3. /\ \A u \in Thread : u # t => held'[u] = held[u]
          /\ \A l \in Slot : held'[t][l] \in {held[t][l], Null}
      BY <1>27 DEF LoadBegin, TypeOK
    <2>4. \A n \in Node : n \in Guards'[t] => n \in Guards[t]
      BY <2>3, NullAssumption DEF Guards
    <2> QED  BY <2>2, <2>3, <2>4, GuardChange
  <1>28. ASSUME NEW k \in Slot, SetHazardFresh(t, k) PROVE Reclamation!Next \/ UNCHANGED <<NodeState, Guards>>
    <2>1. /\ UNCHANGED <<alloc, cell, retireList>> /\ pc[t] # "retire"
          /\ \A u \in Thread : u # t => pc'[u] = pc[u] /\ ref'[u] = ref[u]
      BY <1>28 DEF SetHazardFresh, TypeOK
    <2>2. NodeState' = NodeState
      <3>1. pc'[t] # "retire"
        BY <1>28 DEF SetHazardFresh, TypeOK
      <3> QED  BY <2>1, <3>1, QuietStep
    <2>3. /\ priv[t] # Null /\ \A u \in Thread : u # t => held'[u] = held[u]
          /\ \A l \in Slot : held'[t][l] \in {held[t][l], priv[t]}
      BY <1>28 DEF SetHazardFresh, TypeOK
    <2>4. \A n \in Node : n \in Guards'[t] => n \in Guards[t] \/ n = priv[t]
      BY <2>3, NullAssumption DEF Guards
    <2>5. \A n \in Node : n = priv[t] => n \in alloc /\ n # cell /\ ~Gone(n)
      BY <2>3, NullAssumption DEF Placed, Reachable, ListedOnce, RetiringOnce, Gone
    <2>6. \A n \in Node : n = priv[t] => NodeState[n] = "private"
      BY <2>5, StateOf
    <2> QED  BY <2>2, <2>3, <2>4, <2>6, GuardChange
  <1>29. ASSUME NEW k \in Slot, ClearHazard(t, k) PROVE Reclamation!Next \/ UNCHANGED <<NodeState, Guards>>
    <2>1. /\ UNCHANGED <<alloc, cell, retireList>> /\ pc[t] # "retire"
          /\ \A u \in Thread : u # t => pc'[u] = pc[u] /\ ref'[u] = ref[u]
      BY <1>29 DEF ClearHazard, TypeOK
    <2>2. NodeState' = NodeState
      <3>1. pc'[t] # "retire"
        BY <1>29 DEF ClearHazard, TypeOK
      <3> QED  BY <2>1, <3>1, QuietStep
    <2>3. /\ \A u \in Thread : u # t => held'[u] = held[u]
          /\ \A l \in Slot : held'[t][l] \in {held[t][l], Null}
      BY <1>29 DEF ClearHazard, TypeOK
    <2>4. \A n \in Node : n \in Guards'[t] => n \in Guards[t]
      BY <2>3, NullAssumption DEF Guards
    <2> QED  BY <2>2, <2>3, <2>4, GuardChange
  <1>30. ASSUME NEW i \in Slot, NEW j \in Slot, SetHazardCopy(t, i, j) PROVE Reclamation!Next \/ UNCHANGED <<NodeState, Guards>>
    <2>1. /\ UNCHANGED <<alloc, cell, retireList>> /\ pc[t] # "retire"
          /\ \A u \in Thread : u # t => pc'[u] = pc[u] /\ ref'[u] = ref[u]
      BY <1>30 DEF SetHazardCopy, TypeOK
    <2>2. NodeState' = NodeState
      <3>1. pc'[t] # "retire"
        BY <1>30 DEF SetHazardCopy, TypeOK
      <3> QED  BY <2>1, <3>1, QuietStep
    <2>3. /\ \A u \in Thread : u # t => held'[u] = held[u]
          /\ \A l \in Slot : held'[t][l] \in {held[t][l], held[t][i]}
      BY <1>30 DEF SetHazardCopy, TypeOK
    <2>4. \A n \in Node : n \in Guards'[t] => n \in Guards[t]
      BY <2>3, NullAssumption DEF Guards
    <2> QED  BY <2>2, <2>3, <2>4, GuardChange
  <1>31. CASE Destroy
    <2>0. PICK S \in SUBSET Node : S = UNION {retireList[r] : r \in 1..nrec}
      <3>1. \A r \in 1..nrec : retireList[r] \in SUBSET Node
        BY DEF TypeOK
      <3>2. UNION {retireList[r] : r \in 1..nrec} \in SUBSET Node
        BY <3>1
      <3> QED  BY <3>2
    <2>1. \A u \in Thread : pc[u] = "none" /\ rec[u] = 0
      BY <1>31 DEF Destroy, Control, ControlOf, Outside
    <2>2. \A r \in Rec : ~active[r]
      BY <1>31, AtRest
    <2>3. \A r \in Rec, k \in Slot : pointers[r][k] = Null
      BY <1>31, AtRest
    <2>4. alloc' = alloc \ S
      BY SMTT(40), <1>31, <2>0, <2>2, <2>3 DEF Destroy, TypeOK
    <2>5. \A m \in Node : m \in S <=> Gone(m)
      <3>1. \A m \in Node : Gone(m) <=> \E r \in Rec : m \in retireList[r]
        BY <2>1 DEF Gone
      <3>2. nrec \in 0..MaxRecords /\ \A r \in Rec : r \in 1..nrec \/ retireList[r] = {}
        BY DEF UnlinkedEmpty, TypeOK
      <3>3. \A r \in 1..nrec : r \in Rec
        BY <3>2
      <3> QED  BY <2>0, <3>1, <3>2, <3>3
    <2>6. \A m \in S : m \in alloc /\ m # cell
      <3>1. \A r \in 1..nrec : r \in Rec
        BY DEF TypeOK
      <3>2. \A r \in Rec : \A m \in retireList[r] : m \in Node /\ m \in alloc /\ m # cell
        BY DEF TypeOK, Placed, ListedOnce
      <3> QED  BY <2>0, <3>1, <3>2
    <2>7. \A u \in Thread, l \in Slot : held[u][l] = Null
      BY <2>1 DEF HeldGuarded, Outside
    <2>8. UNCHANGED <<cell, held>> /\ \A m \in Node : ~Gone(m)'
      BY <1>31, <2>1 DEF Destroy, Gone
    <2>9. \A m \in S : NodeState[m] = "retired"
      BY <2>5, <2>6, StateOf
    <2>10. \A m \in Node : (NodeState[m])' = IF m \in S THEN "free" ELSE NodeState[m]
      BY <2>4, <2>5, <2>6, <2>8, StateOf
    <2>11. NodeState' = [m \in Node |-> IF m \in S THEN "free" ELSE NodeState[m]]
      BY <2>10 DEF NodeState
    <2>12. S \cap UNION {Guards[u] : u \in Thread} = {}
      BY <2>7 DEF Guards
    <2>13. Reclamation!Reclaim(S)
      BY <2>8, <2>9, <2>11, <2>12 DEF Reclamation!Reclaim, Reclamation!Guarded, NodeState, Guards
    <2> QED  BY <2>13, AbstractStep
  <1> QED
    BY <1>1, <1>2, <1>3, <1>4, <1>5, <1>6, <1>7, <1>8, <1>9, <1>10, <1>11, <1>12, <1>13, <1>14, <1>15, <1>16, <1>17, <1>18, <1>19, <1>20, <1>21, <1>22, <1>23, <1>24, <1>25, <1>26, <1>27, <1>28, <1>29, <1>30, <1>31
       DEF Step, Allocate, Retire, LoadAndSetHazard, RetireNodeStep, ClientStep

\* The records, slots, scans and helpers of hazard_pointers.h implement safe
\* reclamation for any number of threads, nodes, slots and records, and any scan
\* threshold, on sequentially consistent memory: what a thread guards was not
\* retired when the guard was taken, and only unguarded nodes are deleted.
THEOREM ImplementsSafeReclamation ==
    ASSUME ~StoreBuffered
    PROVE  Spec => ReclaimsSafely
  <1>1. Init => Reclamation!Init
    BY DEF Init, Reclamation!Init
  <1>2. Safe /\ Tidy /\ Tidy' /\ [Next]_vars => [Reclamation!Next]_<<NodeState, Guards>>
    <2> SUFFICES ASSUME Safe, Tidy, Tidy', [Next]_vars PROVE Reclamation!Next \/ UNCHANGED <<NodeState, Guards>>
      OBVIOUS
    <2>1. CASE UNCHANGED vars
      BY <2>1 DEF vars, memory, heap, client, scanner, NodeState, Guards, Retired, Retiring
    <2>2. CASE Next
      <3>1. \A t \in Thread : ~Flush(t)
        BY DEF Flush, Drained, Unbuffered, Safe
      <3>2. PICK t \in Thread : Step(t) \/ Destroy
        BY <2>2, <3>1, ThreadAssumption DEF Next
      <3>3. TypeOK'
        BY DEF Tidy, Shared, Basic
      <3> QED  BY <3>2, <3>3, ReclamationStep
    <2> QED  BY <2>1, <2>2
  <1> QED  BY <1>1, <1>2, SafeInit, SafeNext, TidyInit, TidyNext, PTL DEF Spec, ReclaimsSafely, Reclamation!Spec, NodeState, Guards

-----------------------------------------------------------------------------
(* The retire lists are bounded *)

\* Multiplication is monotonic.
LEMMA TimesMonotonic ==
    ASSUME NEW c \in Nat, NEW a \in Nat, NEW b \in Nat, a <= b
    PROVE  c * a <= c * b
  <1>1. PICK d \in Nat : d = b - a
    OBVIOUS
  <1>2. b = a + d
    BY <1>1
  <1>3. c * b = c * a + c * d /\ c * d \in Nat /\ c * a \in Nat
    BY <1>2
  <1> QED  BY <1>3

\* The nodes a scan has room for: K for each record it has passed, and one for
\* each slot it has read of the record it is at.
Room(t) == K * (nrec - spos[t]) + (sk[t] - 1)

\* The lists and the scans' sets are finite, and a scan has found no more nodes
\* than slots.
Finite ==
    /\ \A r \in Rec : IsFiniteSet(retireList[r])
    /\ \A t \in Thread : IsFiniteSet(live[t])

ScanFrugal ==
    \A t \in Thread :
        /\ spos[t] = 0 => sk[t] = 1
        /\ pc[t] # "scan" => live[t] = {}
        /\ Cardinality(live[t]) <= Room(t)

\* The lists and the scans' sets stay finite.
LEMMA FiniteStep ==
    ASSUME Basic, Finite, NEW t \in Thread, Step(t) \/ Destroy
    PROVE  Finite'
  <1> USE KAssumption, BoundAssumption DEF Basic, memory, heap, client, scanner
  <1>1. CASE AllocBegin(t)
    BY <1>1 DEF AllocBegin, Finite, TypeOK
  <1>2. CASE AllocSkip(t)
    BY <1>2 DEF AllocSkip, Finite, TypeOK
  <1>3. CASE AllocClaim(t)
    BY <1>3 DEF AllocClaim, Finite, TypeOK
  <1>4. CASE AllocCount(t)
    BY <1>4 DEF AllocCount, Finite, TypeOK
  <1>5. CASE AllocLoad(t)
    BY <1>5 DEF AllocLoad, Finite, TypeOK
  <1>6. CASE AllocLink(t)
    BY <1>6 DEF AllocLink, Finite, TypeOK
  <1>7. CASE RetireBegin(t)
    BY <1>7 DEF RetireBegin, Finite, TypeOK
  <1>8. CASE RetireSlot(t)
    BY <1>8 DEF RetireSlot, Finite, TypeOK
  <1>9. CASE RetireActive(t)
    BY <1>9 DEF RetireActive, Finite, TypeOK
  <1>10. CASE LoadCell(t)
    BY <1>10 DEF LoadCell, Finite, TypeOK
  <1>11. CASE SetCur(t)
    BY <1>11 DEF SetCur, Finite, TypeOK
  <1>12. CASE CheckSame(t)
    BY <1>12 DEF CheckSame, Finite, TypeOK
  <1>13. CASE CheckChanged(t)
    BY <1>13 DEF CheckChanged, Finite, TypeOK
  <1>14. CASE FailClear(t)
    BY <1>14 DEF FailClear, Finite, TypeOK
  <1>15. CASE RetireNode(t)
    <2>1. IsFiniteSet(retireList[rec[t]] \cup {ref[t]})
      BY HasRecord, <1>15, FS_AddElement DEF RetireNode, Outside, Finite
    <2> QED  BY <1>15, <2>1 DEF RetireNode, Finite, TypeOK
  <1>16. CASE ScanBegin(t)
    BY <1>16 DEF ScanBegin, Finite, TypeOK
  <1>17. CASE ScanSlot(t)
    <2>1. PICK p : live' = [live EXCEPT ![t] = @ \cup ({p} \cap Node)]
      BY <1>17 DEF ScanSlot
    <2>2. IsFiniteSet(live[t] \cup ({p} \cap Node))
      <3>1. CASE p \in Node
        BY <3>1, FS_AddElement, {p} \cap Node = {p} DEF Finite
      <3>2. CASE p \notin Node
        BY <3>2, live[t] \cup ({p} \cap Node) = live[t] DEF Finite
      <3> QED  BY <3>1, <3>2
    <2> QED  BY <1>17, <2>1, <2>2 DEF ScanSlot, Finite, TypeOK
  <1>18. CASE Sweep(t)
    <2>1. rec[t] \in Rec
      BY <1>18, HasRecord DEF Sweep, Outside
    <2>2. IsFiniteSet(retireList[rec[t]] \cap live[t]) /\ IsFiniteSet({})
      BY <2>1, FS_Subset, FS_EmptySet DEF Finite
    <2> QED  BY <1>18, <2>1, <2>2 DEF Sweep, Finite, TypeOK
  <1>19. CASE HelpBegin(t)
    BY <1>19 DEF HelpBegin, Finite, TypeOK
  <1>20. CASE HelpSkip(t)
    BY <1>20 DEF HelpSkip, HelpNext, Finite, TypeOK
  <1>21. CASE HelpLock(t)
    BY <1>21 DEF HelpLock, Finite, TypeOK
  <1>22. CASE Move(t)
    <2>1. rec[t] \in Rec /\ pos[t] \in Rec
      <3>1. rec[t] \in Rec
        BY <1>22, HasRecord DEF Move, Outside
      <3>2. pos[t] \in Rec
        BY <1>22 DEF Move, Control, ControlOf, TypeOK
      <3> QED  BY <3>1, <3>2
    <2>2. PICK n \in retireList[pos[t]] :
             retireList' = [retireList EXCEPT ![rec[t]] = retireList[rec[t]] \cup {n}, ![pos[t]] = @ \ {n}]
      BY <1>22 DEF Move
    <2>3. \A r \in Rec : IsFiniteSet(retireList[r] \cup {n}) /\ IsFiniteSet(retireList[r] \ {n})
                          /\ IsFiniteSet((retireList[r] \cup {n}) \ {n})
      BY FS_AddElement, FS_Subset DEF Finite
    <2>4. \A r \in Rec : retireList'[r] \in {retireList[r], retireList[r] \cup {n}, retireList[r] \ {n}, (retireList[r] \cup {n}) \ {n}}
      BY <2>1, <2>2 DEF TypeOK
    <2>5. UNCHANGED live
      BY <1>22 DEF Move
    <2> QED  BY <2>3, <2>4, <2>5 DEF Finite
  <1>23. CASE HelpUnlock(t)
    BY <1>23 DEF HelpUnlock, HelpNext, Finite, TypeOK
  <1>24. CASE NewNode(t)
    BY <1>24 DEF NewNode, Finite, TypeOK
  <1>25. CASE DropNode(t)
    BY <1>25 DEF DropNode, Finite, TypeOK
  <1>26. CASE Exchange(t)
    BY <1>26 DEF Exchange, Finite, TypeOK
  <1>27. ASSUME NEW k \in Slot, LoadBegin(t, k) PROVE Finite'
    BY <1>27 DEF LoadBegin, Finite, TypeOK
  <1>28. ASSUME NEW k \in Slot, SetHazardFresh(t, k) PROVE Finite'
    BY <1>28 DEF SetHazardFresh, Finite, TypeOK
  <1>29. ASSUME NEW k \in Slot, ClearHazard(t, k) PROVE Finite'
    BY <1>29 DEF ClearHazard, Finite, TypeOK
  <1>30. ASSUME NEW i \in Slot, NEW j \in Slot, SetHazardCopy(t, i, j) PROVE Finite'
    BY <1>30 DEF SetHazardCopy, Finite, TypeOK
  <1>31. CASE Destroy
    <2>1. IsFiniteSet({})
      BY FS_EmptySet
    <2> QED  BY <1>31, <2>1 DEF Destroy, Finite, TypeOK
  <1> QED
    BY <1>1, <1>2, <1>3, <1>4, <1>5, <1>6, <1>7, <1>8, <1>9, <1>10, <1>11, <1>12, <1>13, <1>14, <1>15, <1>16, <1>17, <1>18, <1>19, <1>20, <1>21, <1>22, <1>23, <1>24, <1>25, <1>26, <1>27, <1>28, <1>29, <1>30, <1>31
       DEF Step, Allocate, Retire, LoadAndSetHazard, RetireNodeStep, ClientStep

\* A step outside scan leaves the scans' sets within bounds; records are only
\* added, so the room grows.
LEMMA FrugalFrame ==
    ASSUME Basic, TypeOK', Finite, ScanFrugal, NEW t \in Thread,
           UNCHANGED <<spos, sk, live>>, nrec <= nrec',
           \A u \in Thread : pc'[u] # "scan" => live[u] = {}
    PROVE  ScanFrugal'
  <1> USE KAssumption, BoundAssumption DEF Basic
  <1> SUFFICES ASSUME NEW u \in Thread PROVE Cardinality(live[u]) <= Room(u)'
    BY DEF ScanFrugal
  <1>0. spos[u] \in Nat /\ nrec \in Nat /\ nrec' \in Nat /\ spos[u] <= nrec /\ sk[u] \in 1..K
    BY DEF TypeOK, Control, ControlOf
  <1>1. /\ nrec - spos[u] \in Nat /\ nrec' - spos[u] \in Nat /\ nrec - spos[u] <= nrec' - spos[u]
        /\ K \in Nat /\ sk[u] \in 1..K
    BY <1>0
  <1>2. K * (nrec - spos[u]) <= K * (nrec' - spos[u])
    BY <1>1, TimesMonotonic
  <1>3. K * (nrec - spos[u]) \in Nat /\ K * (nrec' - spos[u]) \in Nat
    BY <1>1
  <1>4. Cardinality(live[u]) \in Nat
    BY FS_CardinalityType DEF Finite
  <1> QED  BY <1>1, <1>2, <1>3, <1>4 DEF ScanFrugal, Room

\* A scan never finds more nodes than it has read slots.
LEMMA FrugalStep ==
    ASSUME Basic, TypeOK', Finite, Finite', ScanFrugal, NEW t \in Thread, Step(t) \/ Destroy
    PROVE  ScanFrugal'
  <1> USE KAssumption, BoundAssumption DEF Basic, memory, heap, client, scanner
  <1>1. CASE AllocBegin(t)
    <2>1. /\ UNCHANGED <<spos, sk, live>> /\ nrec' >= nrec
          /\ \A u \in Thread : pc'[u] # "scan" => pc[u] # "scan"
      BY <1>1 DEF AllocBegin, TypeOK
    <2> QED  BY <2>1, FrugalFrame DEF ScanFrugal
  <1>2. CASE AllocSkip(t)
    <2>1. /\ UNCHANGED <<spos, sk, live>> /\ nrec' >= nrec
          /\ \A u \in Thread : pc'[u] # "scan" => pc[u] # "scan"
      BY <1>2 DEF AllocSkip, TypeOK
    <2> QED  BY <2>1, FrugalFrame DEF ScanFrugal
  <1>3. CASE AllocClaim(t)
    <2>1. /\ UNCHANGED <<spos, sk, live>> /\ nrec' >= nrec
          /\ \A u \in Thread : pc'[u] # "scan" => pc[u] # "scan"
      BY <1>3 DEF AllocClaim, TypeOK
    <2> QED  BY <2>1, FrugalFrame DEF ScanFrugal
  <1>4. CASE AllocCount(t)
    <2>1. /\ UNCHANGED <<spos, sk, live>> /\ nrec' >= nrec
          /\ \A u \in Thread : pc'[u] # "scan" => pc[u] # "scan"
      BY <1>4 DEF AllocCount, TypeOK
    <2> QED  BY <2>1, FrugalFrame DEF ScanFrugal
  <1>5. CASE AllocLoad(t)
    <2>1. /\ UNCHANGED <<spos, sk, live>> /\ nrec' >= nrec
          /\ \A u \in Thread : pc'[u] # "scan" => pc[u] # "scan"
      BY <1>5 DEF AllocLoad, TypeOK
    <2> QED  BY <2>1, FrugalFrame DEF ScanFrugal
  <1>6. CASE AllocLink(t)
    <2>1. /\ UNCHANGED <<spos, sk, live>> /\ nrec' >= nrec
          /\ \A u \in Thread : pc'[u] # "scan" => pc[u] # "scan"
      BY <1>6 DEF AllocLink, TypeOK
    <2> QED  BY <2>1, FrugalFrame DEF ScanFrugal
  <1>7. CASE RetireBegin(t)
    <2>1. /\ UNCHANGED <<spos, sk, live>> /\ nrec' >= nrec
          /\ \A u \in Thread : pc'[u] # "scan" => pc[u] # "scan"
      BY <1>7 DEF RetireBegin, TypeOK
    <2> QED  BY <2>1, FrugalFrame DEF ScanFrugal
  <1>8. CASE RetireSlot(t)
    <2>1. /\ UNCHANGED <<spos, sk, live>> /\ nrec' >= nrec
          /\ \A u \in Thread : pc'[u] # "scan" => pc[u] # "scan"
      BY <1>8 DEF RetireSlot, TypeOK
    <2> QED  BY <2>1, FrugalFrame DEF ScanFrugal
  <1>9. CASE RetireActive(t)
    <2>1. /\ UNCHANGED <<spos, sk, live>> /\ nrec' >= nrec
          /\ \A u \in Thread : pc'[u] # "scan" => pc[u] # "scan"
      BY <1>9 DEF RetireActive, TypeOK
    <2> QED  BY <2>1, FrugalFrame DEF ScanFrugal
  <1>10. CASE LoadCell(t)
    <2>1. /\ UNCHANGED <<spos, sk, live>> /\ nrec' >= nrec
          /\ \A u \in Thread : pc'[u] # "scan" => pc[u] # "scan"
      BY <1>10 DEF LoadCell, TypeOK
    <2> QED  BY <2>1, FrugalFrame DEF ScanFrugal
  <1>11. CASE SetCur(t)
    <2>1. /\ UNCHANGED <<spos, sk, live>> /\ nrec' >= nrec
          /\ \A u \in Thread : pc'[u] # "scan" => pc[u] # "scan"
      BY <1>11 DEF SetCur, TypeOK
    <2> QED  BY <2>1, FrugalFrame DEF ScanFrugal
  <1>12. CASE CheckSame(t)
    <2>1. /\ UNCHANGED <<spos, sk, live>> /\ nrec' >= nrec
          /\ \A u \in Thread : pc'[u] # "scan" => pc[u] # "scan"
      BY <1>12 DEF CheckSame, TypeOK
    <2> QED  BY <2>1, FrugalFrame DEF ScanFrugal
  <1>13. CASE CheckChanged(t)
    <2>1. /\ UNCHANGED <<spos, sk, live>> /\ nrec' >= nrec
          /\ \A u \in Thread : pc'[u] # "scan" => pc[u] # "scan"
      BY <1>13 DEF CheckChanged, TypeOK
    <2> QED  BY <2>1, FrugalFrame DEF ScanFrugal
  <1>14. CASE FailClear(t)
    <2>1. /\ UNCHANGED <<spos, sk, live>> /\ nrec' >= nrec
          /\ \A u \in Thread : pc'[u] # "scan" => pc[u] # "scan"
      BY <1>14 DEF FailClear, TypeOK
    <2> QED  BY <2>1, FrugalFrame DEF ScanFrugal
  <1>15. CASE RetireNode(t)
    <2>1. /\ UNCHANGED <<spos, sk, live>> /\ nrec' >= nrec
          /\ \A u \in Thread : pc'[u] # "scan" => pc[u] # "scan"
      BY <1>15 DEF RetireNode, TypeOK
    <2> QED  BY <2>1, FrugalFrame DEF ScanFrugal
  <1>16. CASE ScanBegin(t)
    <2>1. live[t] = {} /\ spos[t] = 0 /\ sk[t] = 1
      BY <1>16 DEF ScanBegin, ScanFrugal, Control, ControlOf
    <2>2. /\ spos'[t] = nrec /\ UNCHANGED <<sk, live, nrec>> /\ pc'[t] = "scan"
          /\ \A u \in Thread : u # t => spos'[u] = spos[u] /\ pc'[u] = pc[u]
      BY <1>16 DEF ScanBegin, TypeOK
    <2>3. Room(t)' = 0
      BY <2>1, <2>2 DEF Room, TypeOK
    <2>4. \A u \in Thread : u # t => Room(u)' = Room(u)
      BY <2>2 DEF Room
    <2> QED  BY SMTT(40), <2>1, <2>2, <2>3, <2>4, FS_EmptySet DEF ScanFrugal
  <1>17. CASE ScanSlot(t)
    <2>1. PICK p : live' = [live EXCEPT ![t] = @ \cup ({p} \cap Node)]
      BY <1>17 DEF ScanSlot
    <2>2. /\ pc[t] = "scan" /\ spos[t] # 0 /\ UNCHANGED <<pc, nrec>>
          /\ sk'[t] = (IF sk[t] = K THEN 1 ELSE sk[t] + 1)
          /\ spos'[t] = (IF sk[t] = K THEN spos[t] - 1 ELSE spos[t])
          /\ \A u \in Thread : u # t => spos'[u] = spos[u] /\ sk'[u] = sk[u]
      BY <1>17 DEF ScanSlot, TypeOK
    <2>3. /\ live'[t] = live[t] \cup ({p} \cap Node)
          /\ \A u \in Thread : u # t => live'[u] = live[u]
      BY <2>1 DEF TypeOK
    <2>4. Room(t)' = Room(t) + 1
      <3>1. sk[t] \in 1..K /\ spos[t] \in Nat /\ nrec \in Nat /\ K \in Nat
        BY DEF TypeOK
      <3>2. CASE sk[t] = K
        <4>1. Room(t)' = K * (nrec - (spos[t] - 1)) + 0
          BY <2>2, <3>1, <3>2 DEF Room
        <4>2. Room(t) = K * (nrec - spos[t]) + (K - 1)
          BY <3>2 DEF Room
        <4>3. nrec - (spos[t] - 1) = (nrec - spos[t]) + 1
          BY <3>1
        <4>4. K * ((nrec - spos[t]) + 1) = K * (nrec - spos[t]) + K
          BY <3>1
        <4>5. K * (nrec - spos[t]) \in Int
          BY <3>1
        <4> QED  BY <3>1, <4>1, <4>2, <4>3, <4>4, <4>5
      <3>3. CASE sk[t] # K
        <4>1. Room(t)' = K * (nrec - spos[t]) + (sk[t] + 1 - 1)
          BY <2>2, <3>1, <3>3 DEF Room
        <4>2. K * (nrec - spos[t]) \in Int
          BY <3>1
        <4> QED  BY <3>1, <4>1, <4>2 DEF Room
      <3> QED  BY <3>2, <3>3
    <2>5. Cardinality(live'[t]) <= Cardinality(live[t]) + 1 /\ Cardinality(live[t]) \in Nat
      <3>1. IsFiniteSet(live[t])
        BY DEF Finite
      <3>2. CASE p \in Node
        <4>1. live'[t] = live[t] \cup {p}
          BY <2>3, <3>2
        <4>2. Cardinality(live[t]) \in Nat
          BY <3>1, FS_CardinalityType
        <4>3. Cardinality(live'[t]) = IF p \in live[t] THEN Cardinality(live[t]) ELSE Cardinality(live[t]) + 1
          BY <3>1, <4>1, FS_AddElement
        <4> QED  BY <4>2, <4>3
      <3>3. CASE p \notin Node
        <4>1. live'[t] = live[t]
          BY <2>3, <3>3
        <4> QED  BY <3>1, <4>1, FS_CardinalityType
      <3> QED  BY <3>2, <3>3
    <2>6. Room(t) \in Int /\ Cardinality(live[t]) <= Room(t) /\ Cardinality(live'[t]) \in Nat
      <3>1. Room(t) \in Int
        BY SMTT(40) DEF Room, TypeOK
      <3>2. IsFiniteSet(live'[t])
        BY DEF Finite
      <3> QED  BY <3>1, <3>2, FS_CardinalityType DEF ScanFrugal
    <2>7. Cardinality(live'[t]) <= Room(t)'
      BY <2>4, <2>5, <2>6
    <2>8. spos'[t] = 0 => sk'[t] = 1
      BY <2>2 DEF TypeOK
    <2>9. \A u \in Thread : u # t => Room(u)' = Room(u)
      BY <2>2 DEF Room
    <2> QED  BY <2>2, <2>3, <2>7, <2>8, <2>9 DEF ScanFrugal
  <1>18. CASE Sweep(t)
    <2>1. /\ spos[t] = 0 /\ UNCHANGED <<spos, sk, nrec>> /\ live'[t] = {}
          /\ \A u \in Thread : u # t => live'[u] = live[u] /\ pc'[u] = pc[u]
      BY <1>18 DEF Sweep, TypeOK
    <2>2. \A u \in Thread : Room(u)' = Room(u)
      BY <2>1 DEF Room
    <2>3. 0 <= Room(t)
      <3>1. K \in Nat /\ nrec \in Nat /\ spos[t] = 0 /\ sk[t] \in Nat /\ sk[t] >= 1
        BY <2>1 DEF TypeOK
      <3>2. K * (nrec - spos[t]) \in Nat
        BY <3>1
      <3> QED  BY <3>1, <3>2 DEF Room
    <2> QED  BY SMTT(40), <2>1, <2>2, <2>3, FS_EmptySet DEF ScanFrugal
  <1>19. CASE HelpBegin(t)
    <2>1. /\ UNCHANGED <<spos, sk, live>> /\ nrec' >= nrec
          /\ \A u \in Thread : pc'[u] # "scan" => pc[u] # "scan"
      BY <1>19 DEF HelpBegin, TypeOK
    <2> QED  BY <2>1, FrugalFrame DEF ScanFrugal
  <1>20. CASE HelpSkip(t)
    <2>1. /\ UNCHANGED <<spos, sk, live>> /\ nrec' >= nrec
          /\ \A u \in Thread : pc'[u] # "scan" => pc[u] # "scan"
      BY <1>20 DEF HelpSkip, HelpNext, TypeOK
    <2> QED  BY <2>1, FrugalFrame DEF ScanFrugal
  <1>21. CASE HelpLock(t)
    <2>1. /\ UNCHANGED <<spos, sk, live>> /\ nrec' >= nrec
          /\ \A u \in Thread : pc'[u] # "scan" => pc[u] # "scan"
      BY <1>21 DEF HelpLock, TypeOK
    <2> QED  BY <2>1, FrugalFrame DEF ScanFrugal
  <1>22. CASE Move(t)
    <2>1. /\ UNCHANGED <<spos, sk, live>> /\ nrec' >= nrec
          /\ \A u \in Thread : pc'[u] # "scan" => pc[u] # "scan"
      BY <1>22 DEF Move, TypeOK
    <2> QED  BY <2>1, FrugalFrame DEF ScanFrugal
  <1>23. CASE HelpUnlock(t)
    <2>1. /\ UNCHANGED <<spos, sk, live>> /\ nrec' >= nrec
          /\ \A u \in Thread : pc'[u] # "scan" => pc[u] # "scan"
      BY <1>23 DEF HelpUnlock, HelpNext, TypeOK
    <2> QED  BY <2>1, FrugalFrame DEF ScanFrugal
  <1>24. CASE NewNode(t)
    <2>1. /\ UNCHANGED <<spos, sk, live>> /\ nrec' >= nrec
          /\ \A u \in Thread : pc'[u] # "scan" => pc[u] # "scan"
      BY <1>24 DEF NewNode, TypeOK
    <2> QED  BY <2>1, FrugalFrame DEF ScanFrugal
  <1>25. CASE DropNode(t)
    <2>1. /\ UNCHANGED <<spos, sk, live>> /\ nrec' >= nrec
          /\ \A u \in Thread : pc'[u] # "scan" => pc[u] # "scan"
      BY <1>25 DEF DropNode, TypeOK
    <2> QED  BY <2>1, FrugalFrame DEF ScanFrugal
  <1>26. CASE Exchange(t)
    <2>1. /\ UNCHANGED <<spos, sk, live>> /\ nrec' >= nrec
          /\ \A u \in Thread : pc'[u] # "scan" => pc[u] # "scan"
      BY <1>26 DEF Exchange, TypeOK
    <2> QED  BY <2>1, FrugalFrame DEF ScanFrugal
  <1>27. ASSUME NEW k \in Slot, LoadBegin(t, k) PROVE ScanFrugal'
    <2>1. /\ UNCHANGED <<spos, sk, live>> /\ nrec' >= nrec
          /\ \A u \in Thread : pc'[u] # "scan" => pc[u] # "scan"
      BY <1>27 DEF LoadBegin, TypeOK
    <2> QED  BY <2>1, FrugalFrame DEF ScanFrugal
  <1>28. ASSUME NEW k \in Slot, SetHazardFresh(t, k) PROVE ScanFrugal'
    <2>1. /\ UNCHANGED <<spos, sk, live>> /\ nrec' >= nrec
          /\ \A u \in Thread : pc'[u] # "scan" => pc[u] # "scan"
      BY <1>28 DEF SetHazardFresh, TypeOK
    <2> QED  BY <2>1, FrugalFrame DEF ScanFrugal
  <1>29. ASSUME NEW k \in Slot, ClearHazard(t, k) PROVE ScanFrugal'
    <2>1. /\ UNCHANGED <<spos, sk, live>> /\ nrec' >= nrec
          /\ \A u \in Thread : pc'[u] # "scan" => pc[u] # "scan"
      BY <1>29 DEF ClearHazard, TypeOK
    <2> QED  BY <2>1, FrugalFrame DEF ScanFrugal
  <1>30. ASSUME NEW i \in Slot, NEW j \in Slot, SetHazardCopy(t, i, j) PROVE ScanFrugal'
    <2>1. /\ UNCHANGED <<spos, sk, live>> /\ nrec' >= nrec
          /\ \A u \in Thread : pc'[u] # "scan" => pc[u] # "scan"
      BY <1>30 DEF SetHazardCopy, TypeOK
    <2> QED  BY <2>1, FrugalFrame DEF ScanFrugal
  <1>31. CASE Destroy
    <2>1. \A u \in Thread : pc[u] = "none" /\ UNCHANGED <<pc, spos, sk, live>> /\ nrec' = 0
      BY <1>31 DEF Destroy
    <2>2. \A u \in Thread : live[u] = {} /\ spos[u] = 0 /\ sk[u] = 1
      BY <2>1 DEF ScanFrugal, Control, ControlOf
    <2>3. \A u \in Thread : Room(u)' = 0
      BY <2>1, <2>2 DEF Room
    <2> QED  BY SMTT(40), <2>1, <2>2, <2>3, FS_EmptySet DEF ScanFrugal
  <1> QED
    BY <1>1, <1>2, <1>3, <1>4, <1>5, <1>6, <1>7, <1>8, <1>9, <1>10, <1>11, <1>12, <1>13, <1>14, <1>15, <1>16, <1>17, <1>18, <1>19, <1>20, <1>21, <1>22, <1>23, <1>24, <1>25, <1>26, <1>27, <1>28, <1>29, <1>30, <1>31
       DEF Step, Allocate, Retire, LoadAndSetHazard, RetireNodeStep, ClientStep

\* What RetireListBounded says of record r.
BoundOf(r) ==
    LET n == Cardinality(retireList[r])
    IN  /\ n > 0 => RDen * (n - 1) < RNum * K * hpCount
        /\ Scanning(r) \/ RDen * n < RNum * K * hpCount

\* The threshold grows with hp_count_, and is not 0 for a list with records.
LEMMA ThresholdGrows ==
    ASSUME NEW g \in Nat, NEW h \in Nat, g <= h
    PROVE  /\ RNum * K * g \in Nat /\ RNum * K * h \in Nat /\ RNum * K * g <= RNum * K * h
           /\ h > 0 => RNum * K * h > 0
  <1>1. RNum * K \in Nat /\ RNum * K > 0
    BY RatioAssumption, KAssumption
  <1>2. RNum * K * g <= RNum * K * h
    BY <1>1, TimesMonotonic
  <1>3. h > 0 => RNum * K * 1 <= RNum * K * h
    BY <1>1, TimesMonotonic
  <1>4. RNum * K * g \in Nat /\ RNum * K * h \in Nat
    BY <1>1
  <1> QED  BY <1>1, <1>2, <1>3, <1>4

\* A list that loses nodes stays within bounds, also when records are added.
LEMMA BoundShrinks ==
    ASSUME NEW r \in Rec, IsFiniteSet(retireList[r]), retireList'[r] \subseteq retireList[r],
           hpCount \in Nat, hpCount' \in Nat, hpCount <= hpCount',
           Scanning(r) => Scanning(r)', BoundOf(r)
    PROVE  BoundOf(r)'
  <1> DEFINE n == Cardinality(retireList[r])
             m == Cardinality(retireList'[r])
             g == RNum * K * hpCount
             h == RNum * K * hpCount'
  <1>1. n \in Nat /\ m \in Nat /\ m <= n
    BY FS_Subset, FS_CardinalityType
  <1>2. g \in Nat /\ h \in Nat /\ g <= h
    BY ThresholdGrows
  <1>3. n > 0 => RDen * (n - 1) < g
    BY DEF BoundOf
  <1>4. Scanning(r) \/ RDen * n < g
    BY DEF BoundOf
  <1> HIDE DEF n, m, g, h
  <1>5. RDen * m <= RDen * n /\ RDen * m \in Nat /\ RDen * n \in Nat
    BY <1>1, TimesMonotonic, RatioAssumption
  <1>6. m > 0 => RDen * (m - 1) <= RDen * (n - 1) /\ RDen * (m - 1) \in Nat /\ RDen * (n - 1) \in Nat
    <2> SUFFICES ASSUME m > 0
                 PROVE  RDen * (m - 1) <= RDen * (n - 1) /\ RDen * (m - 1) \in Nat /\ RDen * (n - 1) \in Nat
      OBVIOUS
    <2>1. m - 1 \in Nat /\ n - 1 \in Nat /\ m - 1 <= n - 1
      BY <1>1
    <2> QED  BY <2>1, TimesMonotonic, RatioAssumption
  <1>7. m > 0 => RDen * (m - 1) < h
    BY <1>1, <1>2, <1>3, <1>6
  <1>8. Scanning(r)' \/ RDen * m < h
    BY <1>2, <1>4, <1>5
  <1> QED  BY <1>7, <1>8 DEF BoundOf, n, m, g, h

\* A list below the threshold that takes one node stays within bounds, if a scan
\* starts when it reaches the threshold.
LEMMA BoundGrows ==
    ASSUME NEW r \in Rec, NEW x, IsFiniteSet(retireList[r]), retireList'[r] = retireList[r] \cup {x},
           hpCount \in Nat, hpCount' = hpCount,
           ~Scanning(r), BoundOf(r), ShouldScan(Cardinality(retireList[r] \cup {x})) => Scanning(r)'
    PROVE  BoundOf(r)'
  <1> DEFINE n == Cardinality(retireList[r])
             m == Cardinality(retireList[r] \cup {x})
             g == RNum * K * hpCount
  <1>1. n \in Nat /\ m \in Nat /\ m <= n + 1
    <2>1. m = IF x \in retireList[r] THEN n ELSE n + 1
      BY FS_AddElement
    <2>2. n \in Nat
      BY FS_CardinalityType
    <2> QED  BY <2>1, <2>2
  <1>2. g \in Nat
    BY ThresholdGrows
  <1>3. RDen * n < g
    BY DEF BoundOf
  <1>4. Scanning(r)' \/ ~(RDen * m >= g)
    BY DEF ShouldScan
  <1> HIDE DEF n, m, g
  <1>5. m > 0 => RDen * (m - 1) <= RDen * n /\ RDen * (m - 1) \in Nat /\ RDen * n \in Nat
    <2> SUFFICES ASSUME m > 0
                 PROVE  RDen * (m - 1) <= RDen * n /\ RDen * (m - 1) \in Nat /\ RDen * n \in Nat
      OBVIOUS
    <2>1. m - 1 \in Nat /\ m - 1 <= n
      BY <1>1
    <2> QED  BY <1>1, <2>1, TimesMonotonic, RatioAssumption
  <1>6. m > 0 => RDen * (m - 1) < g
    BY <1>1, <1>2, <1>3, <1>5
  <1>7. Scanning(r)' \/ RDen * m < g
    <2>1. RDen * m \in Nat
      BY <1>1, RatioAssumption
    <2> QED  BY <1>2, <1>4, <2>1
  <1> QED  BY <1>6, <1>7 DEF BoundOf, n, m, g

\* Between the scans of a list nothing but time passes.
LEMMA BoundFrame ==
    ASSUME Basic, TypeOK', Finite, RetireListBounded, UNCHANGED <<nrec, retireList>>, hpCount <= hpCount',
           \A u \in Thread : pc[u] \in {"scan_begin", "scan"} => pc'[u] \in {"scan_begin", "scan"} /\ rec'[u] = rec[u]
    PROVE  RetireListBounded'
  <1> SUFFICES ASSUME NEW r \in 1..nrec PROVE BoundOf(r)'
    BY DEF RetireListBounded, BoundOf
  <1>1. r \in Rec /\ hpCount \in Nat /\ hpCount' \in Nat
    BY BoundAssumption DEF Basic, TypeOK
  <1>2. Scanning(r) => Scanning(r)'
    BY DEF Scanning
  <1>3. BoundOf(r)
    BY DEF RetireListBounded, BoundOf
  <1> QED  BY <1>1, <1>2, <1>3, BoundShrinks DEF Finite

\* hp_count_ is at least the number of linked records.
LEMMA CountAbove ==
    ASSUME Basic
    PROVE  hpCount >= nrec
  <1>1. Cardinality(Pushing) \in Nat
    BY PushingFinite
  <1> QED  BY <1>1 DEF Basic, CountedRecords, TypeOK

\* A scan keeps at most K nodes a record, fewer than the threshold R.
LEMMA SweepFrees ==
    ASSUME RNum > RDen, NEW n \in Nat, NEW h \in Nat \ {0}, n <= K * h
    PROVE  /\ RDen * n < RNum * K * h
           /\ n > 0 => RDen * (n - 1) < RNum * K * h
  <1> DEFINE c == K * h
  <1>1. c \in Nat /\ c > 0 /\ RNum * K * h = RNum * c
    BY KAssumption, RatioAssumption
  <1> HIDE DEF c
  <1>2. RDen * n <= RDen * c /\ RDen * n \in Nat /\ RDen * c \in Nat
    BY <1>1, TimesMonotonic, RatioAssumption DEF c
  <1>3. RNum = RDen + (RNum - RDen) /\ RNum - RDen \in Nat /\ RNum - RDen >= 1
    BY RatioAssumption
  <1>4. RNum * c = RDen * c + (RNum - RDen) * c
    BY <1>1, <1>3, RatioAssumption
  <1>5. c * 1 <= c * (RNum - RDen)
    BY <1>1, <1>3, TimesMonotonic
  <1>6. (RNum - RDen) * c = c * (RNum - RDen) /\ (RNum - RDen) * c \in Nat
    BY <1>1, <1>3
  <1>7. RDen * n < RNum * c
    BY <1>1, <1>2, <1>4, <1>5, <1>6
  <1>8. n > 0 => RDen * (n - 1) <= RDen * n /\ RDen * (n - 1) \in Nat
    <2> SUFFICES ASSUME n > 0 PROVE RDen * (n - 1) <= RDen * n /\ RDen * (n - 1) \in Nat
      OBVIOUS
    <2>1. n - 1 \in Nat /\ n - 1 <= n
      OBVIOUS
    <2> QED  BY <2>1, TimesMonotonic, RatioAssumption
  <1>9. RNum * c \in Nat
    BY <1>1, RatioAssumption
  <1> QED  BY <1>1, <1>2, <1>7, <1>8, <1>9

\* Lists pass the threshold by less than a node, and only while their owner scans.
LEMMA BoundStep ==
    ASSUME Basic, RecordsExclusive, UnlinkedEmpty, Basic', Finite, ScanFrugal, RetireListBounded,
           RNum > RDen, NEW t \in Thread, Step(t) \/ Destroy
    PROVE  RetireListBounded'
  <1> USE KAssumption, BoundAssumption DEF Basic, memory, heap, client, scanner
  <1>1. CASE AllocBegin(t)
    <2>1. /\ UNCHANGED <<nrec, retireList>> /\ hpCount' >= hpCount
          /\ \A u \in Thread : pc[u] \in {"scan_begin", "scan"} => pc'[u] \in {"scan_begin", "scan"} /\ rec'[u] = rec[u]
      BY SMTT(40), <1>1 DEF AllocBegin, TypeOK
    <2> QED  BY <2>1, BoundFrame
  <1>2. CASE AllocSkip(t)
    <2>1. /\ UNCHANGED <<nrec, retireList>> /\ hpCount' >= hpCount
          /\ \A u \in Thread : pc[u] \in {"scan_begin", "scan"} => pc'[u] \in {"scan_begin", "scan"} /\ rec'[u] = rec[u]
      BY SMTT(40), <1>2 DEF AllocSkip, TypeOK
    <2> QED  BY <2>1, BoundFrame
  <1>3. CASE AllocClaim(t)
    <2>1. /\ UNCHANGED <<nrec, retireList>> /\ hpCount' >= hpCount
          /\ \A u \in Thread : pc[u] \in {"scan_begin", "scan"} => pc'[u] \in {"scan_begin", "scan"} /\ rec'[u] = rec[u]
      BY SMTT(40), <1>3 DEF AllocClaim, TypeOK
    <2> QED  BY <2>1, BoundFrame
  <1>4. CASE AllocCount(t)
    <2>1. /\ UNCHANGED <<nrec, retireList>> /\ hpCount' >= hpCount
          /\ \A u \in Thread : pc[u] \in {"scan_begin", "scan"} => pc'[u] \in {"scan_begin", "scan"} /\ rec'[u] = rec[u]
      BY SMTT(40), <1>4 DEF AllocCount, TypeOK
    <2> QED  BY <2>1, BoundFrame
  <1>5. CASE AllocLoad(t)
    <2>1. /\ UNCHANGED <<nrec, retireList>> /\ hpCount' >= hpCount
          /\ \A u \in Thread : pc[u] \in {"scan_begin", "scan"} => pc'[u] \in {"scan_begin", "scan"} /\ rec'[u] = rec[u]
      BY SMTT(40), <1>5 DEF AllocLoad, TypeOK
    <2> QED  BY <2>1, BoundFrame
  <1>6. CASE AllocLink(t)
    <2>1. /\ nrec' \in {nrec, nrec + 1} /\ UNCHANGED <<retireList, hpCount>>
          /\ \A u \in Thread : pc[u] \in {"scan_begin", "scan"} => pc'[u] = pc[u] /\ rec'[u] = rec[u]
      BY ZenonT(60), <1>6 DEF AllocLink, TypeOK
    <2>2. ASSUME NEW r \in 1..nrec' PROVE BoundOf(r)'
      <3>1. r \in Rec /\ hpCount \in Nat /\ nrec \in Nat /\ nrec' \in Nat
        BY DEF TypeOK
      <3>2. CASE r \in 1..nrec
        <4>1. Scanning(r) => Scanning(r)'
          BY <2>1 DEF Scanning
        <4>2. BoundOf(r)
          BY <3>2 DEF RetireListBounded, BoundOf
        <4> QED  BY <2>1, <3>1, <4>1, <4>2, BoundShrinks DEF Finite
      <3>3. CASE r \notin 1..nrec
        <4>1. retireList'[r] = {}
          BY <2>1, <3>1, <3>3 DEF UnlinkedEmpty
        <4>2. hpCount' > 0
          <5>1. t \in Pushing
            BY <1>6 DEF AllocLink, Pushing
          <5>2. Cardinality(Pushing) # 0 /\ Cardinality(Pushing) \in Nat
            BY <5>1, PushingFinite, FS_EmptySet
          <5>3. hpCount = nrec + Cardinality(Pushing)
            BY DEF CountedRecords
          <5> QED  BY <2>1, <3>1, <5>2, <5>3
        <4>3. Cardinality(retireList'[r]) = 0 /\ RDen * 0 = 0
          BY <4>1, FS_EmptySet, RatioAssumption
        <4>4. RNum * K * hpCount' > 0
          BY <2>1, <3>1, <4>2, ThresholdGrows
        <4> QED  BY <4>3, <4>4 DEF BoundOf
      <3> QED  BY <3>2, <3>3
    <2> QED  BY <2>2 DEF RetireListBounded, BoundOf
  <1>7. CASE RetireBegin(t)
    <2>1. /\ UNCHANGED <<nrec, retireList>> /\ hpCount' >= hpCount
          /\ \A u \in Thread : pc[u] \in {"scan_begin", "scan"} => pc'[u] \in {"scan_begin", "scan"} /\ rec'[u] = rec[u]
      BY SMTT(40), <1>7 DEF RetireBegin, TypeOK
    <2> QED  BY <2>1, BoundFrame
  <1>8. CASE RetireSlot(t)
    <2>1. /\ UNCHANGED <<nrec, retireList>> /\ hpCount' >= hpCount
          /\ \A u \in Thread : pc[u] \in {"scan_begin", "scan"} => pc'[u] \in {"scan_begin", "scan"} /\ rec'[u] = rec[u]
      BY SMTT(40), <1>8 DEF RetireSlot, TypeOK
    <2> QED  BY <2>1, BoundFrame
  <1>9. CASE RetireActive(t)
    <2>1. /\ UNCHANGED <<nrec, retireList>> /\ hpCount' >= hpCount
          /\ \A u \in Thread : pc[u] \in {"scan_begin", "scan"} => pc'[u] \in {"scan_begin", "scan"} /\ rec'[u] = rec[u]
      BY SMTT(40), <1>9 DEF RetireActive, TypeOK
    <2> QED  BY <2>1, BoundFrame
  <1>10. CASE LoadCell(t)
    <2>1. /\ UNCHANGED <<nrec, retireList>> /\ hpCount' >= hpCount
          /\ \A u \in Thread : pc[u] \in {"scan_begin", "scan"} => pc'[u] \in {"scan_begin", "scan"} /\ rec'[u] = rec[u]
      BY SMTT(40), <1>10 DEF LoadCell, TypeOK
    <2> QED  BY <2>1, BoundFrame
  <1>11. CASE SetCur(t)
    <2>1. /\ UNCHANGED <<nrec, retireList>> /\ hpCount' >= hpCount
          /\ \A u \in Thread : pc[u] \in {"scan_begin", "scan"} => pc'[u] \in {"scan_begin", "scan"} /\ rec'[u] = rec[u]
      BY SMTT(40), <1>11 DEF SetCur, TypeOK
    <2> QED  BY <2>1, BoundFrame
  <1>12. CASE CheckSame(t)
    <2>1. /\ UNCHANGED <<nrec, retireList>> /\ hpCount' >= hpCount
          /\ \A u \in Thread : pc[u] \in {"scan_begin", "scan"} => pc'[u] \in {"scan_begin", "scan"} /\ rec'[u] = rec[u]
      BY <1>12 DEF CheckSame, TypeOK
    <2> QED  BY <2>1, BoundFrame
  <1>13. CASE CheckChanged(t)
    <2>1. /\ UNCHANGED <<nrec, retireList>> /\ hpCount' >= hpCount
          /\ \A u \in Thread : pc[u] \in {"scan_begin", "scan"} => pc'[u] \in {"scan_begin", "scan"} /\ rec'[u] = rec[u]
      BY SMTT(40), <1>13 DEF CheckChanged, TypeOK
    <2> QED  BY <2>1, BoundFrame
  <1>14. CASE FailClear(t)
    <2>1. /\ UNCHANGED <<nrec, retireList>> /\ hpCount' >= hpCount
          /\ \A u \in Thread : pc[u] \in {"scan_begin", "scan"} => pc'[u] \in {"scan_begin", "scan"} /\ rec'[u] = rec[u]
      BY SMTT(40), <1>14 DEF FailClear, TypeOK
    <2> QED  BY <2>1, BoundFrame
  <1>15. CASE RetireNode(t)
    <2>1. rec[t] \in Rec /\ rec[t] <= nrec
      BY <1>15, HasRecord DEF RetireNode, Outside
    <2>2. /\ \A r \in Rec : retireList'[r] = IF r = rec[t] THEN retireList[r] \cup {ref[t]} ELSE retireList[r]
          /\ \A u \in Thread : u # t => pc'[u] = pc[u]
          /\ UNCHANGED <<nrec, hpCount, rec>> /\ pc[t] = "retire"
          /\ ShouldScan(Cardinality(retireList[rec[t]] \cup {ref[t]})) => pc'[t] = "scan_begin"
      BY ZenonT(60), <1>15, <2>1 DEF RetireNode, TypeOK
    <2>3. ASSUME NEW r \in 1..nrec PROVE BoundOf(r)'
      <3>1. r \in Rec /\ hpCount \in Nat /\ hpCount' = hpCount /\ BoundOf(r) /\ IsFiniteSet(retireList[r])
        <4>1. r \in Rec /\ hpCount \in Nat
          BY DEF TypeOK
        <4>2. BoundOf(r)
          BY DEF RetireListBounded, BoundOf
        <4> QED  BY <2>2, <4>1, <4>2 DEF Finite
      <3>2. CASE r = rec[t]
        <4>1. ~Scanning(r)
          BY <2>1, <2>2, <3>2, OwnRecords DEF Scanning, Outside
        <4>2. ShouldScan(Cardinality(retireList[rec[t]] \cup {ref[t]})) => Scanning(r)'
          BY <2>2, <3>2 DEF Scanning
        <4> QED  BY <2>2, <3>1, <3>2, <4>1, <4>2, BoundGrows DEF Finite
      <3>3. CASE r # rec[t]
        <4>1. Scanning(r) => Scanning(r)'
          BY <2>2 DEF Scanning
        <4>2. retireList'[r] = retireList[r]
          BY <2>2, <3>1, <3>3
        <4>3. hpCount <= hpCount' /\ retireList'[r] \subseteq retireList[r]
          BY <3>1, <4>2
        <4> QED  BY <3>1, <4>1, <4>3, BoundShrinks
      <3> QED  BY <3>2, <3>3
    <2> QED  BY <2>2, <2>3 DEF RetireListBounded, BoundOf
  <1>16. CASE ScanBegin(t)
    <2>1. /\ UNCHANGED <<nrec, retireList>> /\ hpCount' >= hpCount
          /\ \A u \in Thread : pc[u] \in {"scan_begin", "scan"} => pc'[u] \in {"scan_begin", "scan"} /\ rec'[u] = rec[u]
      BY <1>16 DEF ScanBegin, TypeOK
    <2> QED  BY <2>1, BoundFrame
  <1>17. CASE ScanSlot(t)
    <2>1. /\ UNCHANGED <<nrec, retireList>> /\ hpCount' >= hpCount
          /\ \A u \in Thread : pc[u] \in {"scan_begin", "scan"} => pc'[u] \in {"scan_begin", "scan"} /\ rec'[u] = rec[u]
      BY <1>17 DEF ScanSlot, TypeOK
    <2> QED  BY <2>1, BoundFrame
  <1>18. CASE Sweep(t)
    <2>1. rec[t] \in Rec /\ rec[t] <= nrec
      BY <1>18, HasRecord DEF Sweep, Outside
    <2>2. /\ \A r \in Rec : retireList'[r] = IF r = rec[t] THEN retireList[r] \cap live[t] ELSE retireList[r]
          /\ \A u \in Thread : u # t => pc'[u] = pc[u]
          /\ UNCHANGED <<nrec, hpCount, rec>> /\ pc[t] = "scan" /\ spos[t] = 0
      BY ZenonT(60), <1>18, <2>1 DEF Sweep, TypeOK
    <2>3. Cardinality(retireList'[rec[t]]) \in Nat /\ Cardinality(retireList'[rec[t]]) <= K * hpCount
      <3>1. IsFiniteSet(live[t]) /\ retireList'[rec[t]] \subseteq live[t]
        BY <2>1, <2>2 DEF Finite
      <3>2. Cardinality(retireList'[rec[t]]) <= Cardinality(live[t]) /\ Cardinality(live[t]) \in Nat
            /\ Cardinality(retireList'[rec[t]]) \in Nat
        BY <3>1, FS_Subset, FS_CardinalityType
      <3>3. Cardinality(live[t]) <= K * (nrec - spos[t]) + (sk[t] - 1) /\ sk[t] = 1
        BY <2>2 DEF ScanFrugal, Room
      <3>4. K \in Nat /\ nrec \in Nat /\ hpCount \in Nat /\ nrec <= hpCount
        <4>1. K \in Nat /\ nrec \in Nat /\ hpCount \in Nat
          BY DEF TypeOK
        <4>2. hpCount >= nrec
          BY CountAbove
        <4> QED  BY <4>1, <4>2
      <3>5. nrec - spos[t] = nrec
        BY <2>2, <3>4
      <3>6. Cardinality(live[t]) <= K * nrec
        BY <3>3, <3>4, <3>5
      <3>7. K * nrec <= K * hpCount /\ K * nrec \in Nat /\ K * hpCount \in Nat
        BY <3>4, TimesMonotonic
      <3> QED  BY <3>2, <3>6, <3>7
    <2>4. hpCount \in Nat \ {0}
      <3>1. nrec \in Nat /\ hpCount \in Nat
        BY DEF TypeOK
      <3>2. hpCount >= nrec
        BY CountAbove
      <3> QED  BY <2>1, <3>1, <3>2
    <2>5. /\ RDen * Cardinality(retireList'[rec[t]]) < RNum * K * hpCount
          /\ Cardinality(retireList'[rec[t]]) > 0 => RDen * (Cardinality(retireList'[rec[t]]) - 1) < RNum * K * hpCount
      BY <2>3, <2>4, SweepFrees
    <2>6. ASSUME NEW r \in 1..nrec PROVE BoundOf(r)'
      <3>1. r \in Rec /\ hpCount \in Nat /\ hpCount' = hpCount /\ BoundOf(r) /\ IsFiniteSet(retireList[r])
        <4>1. r \in Rec /\ hpCount \in Nat
          BY DEF TypeOK
        <4>2. BoundOf(r)
          BY DEF RetireListBounded, BoundOf
        <4> QED  BY <2>2, <4>1, <4>2 DEF Finite
      <3>2. CASE r = rec[t]
        BY <2>2, <2>5, <3>2 DEF BoundOf
      <3>3. CASE r # rec[t]
        <4>1. Scanning(r) => Scanning(r)'
          BY <2>2, <3>3 DEF Scanning
        <4>2. retireList'[r] = retireList[r]
          BY <2>2, <3>1, <3>3
        <4>3. hpCount <= hpCount' /\ retireList'[r] \subseteq retireList[r]
          BY <3>1, <4>2
        <4> QED  BY <3>1, <4>1, <4>3, BoundShrinks
      <3> QED  BY <3>2, <3>3
    <2> QED  BY <2>2, <2>6 DEF RetireListBounded, BoundOf
  <1>19. CASE HelpBegin(t)
    <2>1. /\ UNCHANGED <<nrec, retireList>> /\ hpCount' >= hpCount
          /\ \A u \in Thread : pc[u] \in {"scan_begin", "scan"} => pc'[u] \in {"scan_begin", "scan"} /\ rec'[u] = rec[u]
      BY <1>19 DEF HelpBegin, TypeOK
    <2> QED  BY <2>1, BoundFrame
  <1>20. CASE HelpSkip(t)
    <2>1. /\ UNCHANGED <<nrec, retireList>> /\ hpCount' >= hpCount
          /\ \A u \in Thread : pc[u] \in {"scan_begin", "scan"} => pc'[u] \in {"scan_begin", "scan"} /\ rec'[u] = rec[u]
      BY SMTT(40), <1>20 DEF HelpSkip, HelpNext, TypeOK
    <2> QED  BY <2>1, BoundFrame
  <1>21. CASE HelpLock(t)
    <2>1. /\ UNCHANGED <<nrec, retireList>> /\ hpCount' >= hpCount
          /\ \A u \in Thread : pc[u] \in {"scan_begin", "scan"} => pc'[u] \in {"scan_begin", "scan"} /\ rec'[u] = rec[u]
      BY SMTT(40), <1>21 DEF HelpLock, TypeOK
    <2> QED  BY <2>1, BoundFrame
  <1>22. CASE Move(t)
    <2>1. rec[t] \in Rec /\ rec[t] <= nrec
      BY <1>22, HasRecord DEF Move, Outside
    <2>2. pos[t] \in Rec /\ rec[t] # pos[t]
      BY <1>22 DEF Move, TypeOK, Control, ControlOf, RecordsExclusive, Helping
    <2>3. PICK x \in retireList[pos[t]] :
             /\ retireList' = [retireList EXCEPT ![rec[t]] = retireList[rec[t]] \cup {x}, ![pos[t]] = @ \ {x}]
             /\ pc' = [pc EXCEPT ![t] = IF ShouldScan(Cardinality(retireList[rec[t]] \cup {x}))
                                         THEN "scan_begin" ELSE @]
      BY <1>22 DEF Move
    <2>4. \A r \in Rec : retireList'[r] = IF r = rec[t] THEN retireList[r] \cup {x} ELSE
                                          IF r = pos[t] THEN retireList[r] \ {x} ELSE retireList[r]
      BY <2>1, <2>2, <2>3 DEF TypeOK
    <2>5. /\ \A u \in Thread : u # t => pc'[u] = pc[u]
          /\ UNCHANGED <<nrec, hpCount, rec>> /\ pc[t] = "move"
          /\ ShouldScan(Cardinality(retireList[rec[t]] \cup {x})) => pc'[t] = "scan_begin"
      BY <1>22, <2>3 DEF Move, TypeOK
    <2>6. ASSUME NEW r \in 1..nrec PROVE BoundOf(r)'
      <3>1. r \in Rec /\ hpCount \in Nat /\ hpCount' = hpCount /\ BoundOf(r) /\ IsFiniteSet(retireList[r])
        <4>1. r \in Rec /\ hpCount \in Nat
          BY DEF TypeOK
        <4>2. BoundOf(r)
          BY DEF RetireListBounded, BoundOf
        <4> QED  BY <2>5, <4>1, <4>2 DEF Finite
      <3>2. CASE r = rec[t]
        <4>1. ~Scanning(r)
          BY <2>1, <2>5, <3>2, OwnRecords DEF Scanning, Outside
        <4>2. ShouldScan(Cardinality(retireList[rec[t]] \cup {x})) => Scanning(r)'
          BY <2>5, <3>2 DEF Scanning
        <4> QED  BY <2>4, <2>5, <3>1, <3>2, <4>1, <4>2, BoundGrows DEF Finite
      <3>3. CASE r # rec[t]
        <4>1. Scanning(r) => Scanning(r)'
          BY <2>5 DEF Scanning
        <4>2. retireList'[r] \subseteq retireList[r]
          BY <2>4, <3>1, <3>3
        <4>3. hpCount <= hpCount'
          BY <3>1
        <4> QED  BY <3>1, <4>1, <4>2, <4>3, BoundShrinks
      <3> QED  BY <3>2, <3>3
    <2> QED  BY <2>5, <2>6 DEF RetireListBounded, BoundOf
  <1>23. CASE HelpUnlock(t)
    <2>1. UNCHANGED <<nrec, retireList, hpCount, rec>> /\ hpCount' >= hpCount
      BY <1>23 DEF HelpUnlock, TypeOK
    <2>2. pc[t] = "move" /\ \A u \in Thread : u # t => pc'[u] = pc[u]
      BY <1>23 DEF HelpUnlock, HelpNext, TypeOK
    <2> QED  BY <2>1, <2>2, BoundFrame
  <1>24. CASE NewNode(t)
    <2>1. /\ UNCHANGED <<nrec, retireList>> /\ hpCount' >= hpCount
          /\ \A u \in Thread : pc[u] \in {"scan_begin", "scan"} => pc'[u] \in {"scan_begin", "scan"} /\ rec'[u] = rec[u]
      BY <1>24 DEF NewNode, TypeOK
    <2> QED  BY <2>1, BoundFrame
  <1>25. CASE DropNode(t)
    <2>1. /\ UNCHANGED <<nrec, retireList>> /\ hpCount' >= hpCount
          /\ \A u \in Thread : pc[u] \in {"scan_begin", "scan"} => pc'[u] \in {"scan_begin", "scan"} /\ rec'[u] = rec[u]
      BY <1>25 DEF DropNode, TypeOK
    <2> QED  BY <2>1, BoundFrame
  <1>26. CASE Exchange(t)
    <2>1. /\ UNCHANGED <<nrec, retireList>> /\ hpCount' >= hpCount
          /\ \A u \in Thread : pc[u] \in {"scan_begin", "scan"} => pc'[u] \in {"scan_begin", "scan"} /\ rec'[u] = rec[u]
      BY <1>26 DEF Exchange, TypeOK
    <2> QED  BY <2>1, BoundFrame
  <1>27. ASSUME NEW k \in Slot, LoadBegin(t, k) PROVE RetireListBounded'
    <2>1. /\ UNCHANGED <<nrec, retireList>> /\ hpCount' >= hpCount
          /\ \A u \in Thread : pc[u] \in {"scan_begin", "scan"} => pc'[u] \in {"scan_begin", "scan"} /\ rec'[u] = rec[u]
      BY SMTT(40), <1>27 DEF LoadBegin, TypeOK
    <2> QED  BY <2>1, BoundFrame
  <1>28. ASSUME NEW k \in Slot, SetHazardFresh(t, k) PROVE RetireListBounded'
    <2>1. /\ UNCHANGED <<nrec, retireList>> /\ hpCount' >= hpCount
          /\ \A u \in Thread : pc[u] \in {"scan_begin", "scan"} => pc'[u] \in {"scan_begin", "scan"} /\ rec'[u] = rec[u]
      BY <1>28 DEF SetHazardFresh, TypeOK
    <2> QED  BY <2>1, BoundFrame
  <1>29. ASSUME NEW k \in Slot, ClearHazard(t, k) PROVE RetireListBounded'
    <2>1. /\ UNCHANGED <<nrec, retireList>> /\ hpCount' >= hpCount
          /\ \A u \in Thread : pc[u] \in {"scan_begin", "scan"} => pc'[u] \in {"scan_begin", "scan"} /\ rec'[u] = rec[u]
      BY <1>29 DEF ClearHazard, TypeOK
    <2> QED  BY <2>1, BoundFrame
  <1>30. ASSUME NEW i \in Slot, NEW j \in Slot, SetHazardCopy(t, i, j) PROVE RetireListBounded'
    <2>1. /\ UNCHANGED <<nrec, retireList>> /\ hpCount' >= hpCount
          /\ \A u \in Thread : pc[u] \in {"scan_begin", "scan"} => pc'[u] \in {"scan_begin", "scan"} /\ rec'[u] = rec[u]
      BY <1>30 DEF SetHazardCopy, TypeOK
    <2> QED  BY <2>1, BoundFrame
  <1>31. CASE Destroy
    BY <1>31 DEF Destroy, RetireListBounded
  <1> QED
    BY <1>1, <1>2, <1>3, <1>4, <1>5, <1>6, <1>7, <1>8, <1>9, <1>10, <1>11, <1>12, <1>13, <1>14, <1>15, <1>16, <1>17, <1>18, <1>19, <1>20, <1>21, <1>22, <1>23, <1>24, <1>25, <1>26, <1>27, <1>28, <1>29, <1>30, <1>31
       DEF Step, Allocate, Retire, LoadAndSetHazard, RetireNodeStep, ClientStep

\* The inductive invariant of the bound.
Bounded == Shared /\ UnlinkedEmpty /\ Finite /\ ScanFrugal /\ RetireListBounded

\* "We never try to free more than the R retire limit at once": every retire list
\* stays below R plus one node and is below R whenever its owner is not scanning,
\* for any number of threads and nodes and any K, under either memory model, as
\* long as R exceeds the number of hazard slots, which 5/4 makes it do.
THEOREM ListsBounded ==
    ASSUME RNum > RDen
    PROVE  Spec => []RetireListBounded
  <1>1. Init => Bounded
    <2> SUFFICES ASSUME Init PROVE Bounded
      OBVIOUS
    <2>1. Finite /\ ScanFrugal
      BY FS_EmptySet, KAssumption DEF Init, Finite, ScanFrugal, Room
    <2>2. RetireListBounded /\ UnlinkedEmpty
      BY DEF Init, RetireListBounded, UnlinkedEmpty
    <2> QED  BY <2>1, <2>2, SharedInvariant DEF Bounded
  <1>2. Bounded /\ [Next]_vars => Bounded'
    <2> SUFFICES ASSUME Bounded, [Next]_vars PROVE Bounded'
      OBVIOUS
    <2>1. Shared'
      BY SharedInvariant DEF Bounded
    <2>2. Basic /\ Basic' /\ TypeOK' /\ RecordsExclusive
      BY <2>1 DEF Bounded, Shared, Basic
    <2>3. ASSUME UNCHANGED <<nrec, hpCount, heap, pc, rec, scanner>> PROVE Bounded'
      <3>1. Finite' /\ UnlinkedEmpty'
        BY <2>3 DEF Bounded, Finite, UnlinkedEmpty, heap, scanner
      <3>2. ScanFrugal'
        BY <2>3 DEF Bounded, ScanFrugal, Room, scanner
      <3>3. RetireListBounded'
        BY <2>3 DEF Bounded, RetireListBounded, Scanning, heap
      <3> QED  BY <2>1, <3>1, <3>2, <3>3 DEF Bounded
    <2>4. ASSUME NEW t \in Thread, Step(t) \/ Destroy PROVE Bounded'
      <3>1. Finite'
        BY <2>2, <2>4, FiniteStep DEF Bounded
      <3>2. ScanFrugal'
        BY <2>2, <2>4, <3>1, FrugalStep DEF Bounded
      <3>3. RetireListBounded'
        BY <2>2, <2>4, BoundStep DEF Bounded
      <3>4. UnlinkedEmpty'
        BY <2>2, <2>4, UnlinkedStep DEF Bounded
      <3> QED  BY <2>1, <3>1, <3>2, <3>3, <3>4 DEF Bounded
    <2>5. ASSUME NEW t \in Thread, Flush(t) PROVE Bounded'
      BY <2>3, <2>5 DEF Flush
    <2>6. CASE UNCHANGED vars
      BY <2>3, <2>6 DEF vars, memory
    <2> QED  BY <2>4, <2>5, <2>6, ThreadAssumption DEF Next
  <1>3. Bounded => RetireListBounded
    BY DEF Bounded
  <1> QED  BY <1>1, <1>2, <1>3, PTL DEF Spec

=============================================================================
