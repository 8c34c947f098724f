--------------------------- MODULE HazardPointers ---------------------------
(***************************************************************************)
(* Safe memory reclamation of src/hazard_pointers.h: the list of           *)
(* HazardPointer records a HazardPointers object keeps, and every          *)
(* operation on it: allocate, retire, setHazard, loadAndSetHazard,         *)
(* loadAndSetHazardOrFail, clearHazard, retireNode with its scan and       *)
(* helpScan, and the destructor.                                           *)
(*                                                                         *)
(* Threads run the operations one shared-memory access at a time.  Their   *)
(* client is any lock-free structure that keeps one shared atomic pointer, *)
(* `cell', through which threads reach nodes (stripes_ of Striped64, data_ *)
(* of ExponentialReservoir, a link of the skip list).                      *)
(*                                                                         *)
(* The record list is push-only, so a record is identified by its          *)
(* position: records 1..nrec exist, head_ is nrec, next_ of r is r - 1 and *)
(* 0 is nullptr.                                                           *)
(*                                                                         *)
(* The hazard stores and the store to active_ are release stores, which    *)
(* x86 keeps in the thread's store buffer until later.  With StoreBuffered *)
(* they go to buf and reach memory by Flush; atomic read-modify-writes     *)
(* need an empty buffer.  Without it memory is sequentially consistent.    *)
(***************************************************************************)
EXTENDS Integers, FiniteSets, Sequences

CONSTANTS
    Thread,         \* threads, and their successive lives
    Node,           \* addresses the allocator hands out (reused after delete)
    Null,           \* nullptr
    K,              \* hazard slots per record, the template parameter
    RNum, RDen,     \* the scan threshold R = H * RNum / RDen (5/4 in the code)
    MaxRecords,     \* bound on the records ever allocated
    StoreBuffered,  \* TRUE: x86 store buffers, FALSE: sequential consistency
    MaxPending      \* bound on the stores waiting in one store buffer

ASSUME ThreadAssumption == IsFiniteSet(Thread) /\ Thread # {}
ASSUME NullAssumption == Null \notin Node
ASSUME KAssumption == K \in Nat \ {0}
ASSUME RatioAssumption == RNum \in Nat \ {0} /\ RDen \in Nat \ {0}
ASSUME BoundAssumption == MaxRecords \in Nat \ {0} /\ MaxPending \in Nat \ {0}
ASSUME StoreBufferedAssumption == StoreBuffered \in BOOLEAN

Rec == 1..MaxRecords
Slot == 1..K
Pointer == Node \cup {Null}

VARIABLES
    nrec,        \* head_: the number of records on the list
    hpCount,     \* hp_count_
    active,      \* active_ of each record
    pointers,    \* pointers[K] of each record
    retireList,  \* retire_list_ of each record; its order is immaterial
    cell,        \* the client's std::atomic<T*>
    alloc,       \* the addresses that are allocated and not deleted
    buf,         \* store buffer of each thread
    pc,          \* where each thread is
    rec,         \* the record the thread allocated, 0 when it has none
    slot,        \* the hazard slot the running operation works on
    ref,         \* cur of loadAndSetHazard, node of retireNode
    held,        \* what the client may dereference, per slot
    priv,        \* a node the client made and has not yet published
    pos,         \* hp of allocate and helpScan, oldhead of allocate
    spos, sk,    \* hp and i of scan
    live         \* live of scan

memory == <<nrec, hpCount, active, pointers, buf>>
heap == <<retireList, cell, alloc>>
client == <<held, priv>>
scanner == <<spos, sk, live>>
vars == <<memory, heap, pc, rec, slot, ref, client, pos, scanner>>

-----------------------------------------------------------------------------
(* Memory accesses *)

\* A store a thread has issued: slot 0 stands for active_ := false.
Pending == [rec : Rec, slot : 0..K, val : Pointer]

\* What a store does when it reaches memory.
Commit(e) ==
    IF e.slot = 0
    THEN /\ active' = [active EXCEPT ![e.rec] = FALSE]
         /\ UNCHANGED pointers
    ELSE /\ pointers' = [pointers EXCEPT ![e.rec][e.slot] = e.val]
         /\ UNCHANGED active

\* pointers[k].store(v, release) and active_.store(false, release).
Store(t, r, k, v) ==
    LET e == [rec |-> r, slot |-> k, val |-> v]
    IN  IF StoreBuffered
        THEN /\ Len(buf[t]) < MaxPending
             /\ buf' = [buf EXCEPT ![t] = Append(@, e)]
             /\ UNCHANGED <<active, pointers>>
        ELSE Commit(e) /\ UNCHANGED buf

\* A read-modify-write drains the thread's store buffer first.
Drained(t) == buf[t] = << >>

\* The stores of t to (r, k) still in its buffer: t itself reads the newest.
PendingTo(t, r, k) == {i \in 1..Len(buf[t]) : buf[t][i].rec = r /\ buf[t][i].slot = k}
Newest(S) == CHOOSE i \in S : \A j \in S : j <= i

LoadSlot(t, r, k) ==
    IF PendingTo(t, r, k) = {} THEN pointers[r][k]
    ELSE buf[t][Newest(PendingTo(t, r, k))].val

LoadActive(t, r) == active[r] /\ PendingTo(t, r, 0) = {}

Flush(t) ==
    /\ ~Drained(t)
    /\ Commit(Head(buf[t]))
    /\ buf' = [buf EXCEPT ![t] = Tail(@)]
    /\ UNCHANGED <<nrec, hpCount, heap, pc, rec, slot, ref, client, pos, scanner>>

-----------------------------------------------------------------------------
(* allocate: reuse an inactive record, or push a new one *)

AllocBegin(t) ==
    /\ pc[t] = "none"
    /\ pos' = [pos EXCEPT ![t] = nrec]
    /\ pc' = [pc EXCEPT ![t] = IF nrec = 0 THEN "alloc_count" ELSE "alloc_walk"]
    /\ UNCHANGED <<memory, heap, rec, slot, ref, client, scanner>>

\* The record is in use: try the next one.
AllocSkip(t) ==
    /\ pc[t] = "alloc_walk"
    /\ LoadActive(t, pos[t])
    /\ pos' = [pos EXCEPT ![t] = @ - 1]
    /\ pc' = [pc EXCEPT ![t] = IF pos[t] = 1 THEN "alloc_count" ELSE @]
    /\ UNCHANGED <<memory, heap, rec, slot, ref, client, scanner>>

\* The CAS on active_ succeeds; the record may still carry retired nodes.
AllocClaim(t) ==
    /\ pc[t] = "alloc_walk"
    /\ Drained(t)
    /\ ~active[pos[t]]
    /\ active' = [active EXCEPT ![pos[t]] = TRUE]
    /\ rec' = [rec EXCEPT ![t] = pos[t]]
    /\ pos' = [pos EXCEPT ![t] = 0]
    /\ pc' = [pc EXCEPT ![t] = "ready"]
    /\ UNCHANGED <<nrec, hpCount, pointers, buf, heap, slot, ref, client, scanner>>

AllocCount(t) ==
    /\ pc[t] = "alloc_count"
    /\ Drained(t)
    /\ hpCount < MaxRecords
    /\ hpCount' = hpCount + 1
    /\ pc' = [pc EXCEPT ![t] = "alloc_load"]
    /\ UNCHANGED <<nrec, active, pointers, buf, heap, rec, slot, ref, client, pos, scanner>>

AllocLoad(t) ==
    /\ pc[t] = "alloc_load"
    /\ pos' = [pos EXCEPT ![t] = nrec]
    /\ pc' = [pc EXCEPT ![t] = "alloc_cas"]
    /\ UNCHANGED <<memory, heap, rec, slot, ref, client, scanner>>

\* Mutant: the retry of a failed CAS counts the record again.
AllocLink_CountsTwice(t) ==
    /\ pc[t] = "alloc_cas"
    /\ Drained(t)
    /\ IF nrec = pos[t]
       THEN /\ nrec' = nrec + 1
            /\ active' = [active EXCEPT ![nrec + 1] = TRUE]
            /\ rec' = [rec EXCEPT ![t] = nrec + 1]
            /\ pos' = [pos EXCEPT ![t] = 0]
            /\ pc' = [pc EXCEPT ![t] = "ready"]
       ELSE /\ pc' = [pc EXCEPT ![t] = "alloc_count"]
            /\ UNCHANGED <<nrec, active, rec, pos>>
    /\ UNCHANGED <<hpCount, pointers, buf, heap, slot, ref, client, scanner>>

\* The CAS on head_ links the new record, active and empty, or fails.
AllocLink(t) ==
    /\ pc[t] = "alloc_cas"
    /\ Drained(t)
    /\ IF nrec = pos[t]
       THEN /\ nrec' = nrec + 1
            /\ active' = [active EXCEPT ![nrec + 1] = TRUE]
            /\ rec' = [rec EXCEPT ![t] = nrec + 1]
            /\ pos' = [pos EXCEPT ![t] = 0]
            /\ pc' = [pc EXCEPT ![t] = "ready"]
       ELSE /\ pc' = [pc EXCEPT ![t] = "alloc_load"]
            /\ UNCHANGED <<nrec, active, rec, pos>>
    /\ UNCHANGED <<hpCount, pointers, buf, heap, slot, ref, client, scanner>>

Allocate(t) ==
    \/ AllocBegin(t) \/ AllocSkip(t) \/ AllocClaim(t)
    \/ AllocCount(t) \/ AllocLoad(t) \/ AllocLink(t)

-----------------------------------------------------------------------------
(* retire: give the record back, its retire list and all *)

RetireBegin(t) ==
    /\ pc[t] = "ready"
    /\ priv[t] = Null
    /\ held' = [held EXCEPT ![t] = [k \in Slot |-> Null]]
    /\ slot' = [slot EXCEPT ![t] = 1]
    /\ pc' = [pc EXCEPT ![t] = "exit"]
    /\ UNCHANGED <<memory, heap, rec, ref, priv, pos, scanner>>

\* Mutant: the loop runs to i <= K.
RetireSlot_OffByOne(t) ==
    /\ pc[t] = "exit"
    /\ Store(t, rec[t], slot[t], Null)
    /\ slot' = [slot EXCEPT ![t] = @ + 1]
    /\ pc' = [pc EXCEPT ![t] = IF slot[t] = K + 1 THEN "exit_active" ELSE @]
    /\ UNCHANGED <<nrec, hpCount, heap, rec, ref, client, pos, scanner>>

RetireSlot(t) ==
    /\ pc[t] = "exit"
    /\ Store(t, rec[t], slot[t], Null)
    /\ slot' = [slot EXCEPT ![t] = IF @ = K THEN 1 ELSE @ + 1]
    /\ pc' = [pc EXCEPT ![t] = IF slot[t] = K THEN "exit_active" ELSE @]
    /\ UNCHANGED <<nrec, hpCount, heap, rec, ref, client, pos, scanner>>

RetireActive(t) ==
    /\ pc[t] = "exit_active"
    /\ Store(t, rec[t], 0, Null)
    /\ rec' = [rec EXCEPT ![t] = 0]
    /\ pc' = [pc EXCEPT ![t] = "none"]
    /\ UNCHANGED <<nrec, hpCount, heap, slot, ref, client, pos, scanner>>

Retire(t) == RetireBegin(t) \/ RetireSlot(t) \/ RetireActive(t)

-----------------------------------------------------------------------------
(* loadAndSetHazard, loadAndSetHazardOrFail, setHazard, clearHazard *)

\* The call: the slot's previous reference is given up.
LoadBegin(t, k) ==
    /\ pc[t] = "ready"
    /\ held' = [held EXCEPT ![t][k] = Null]
    /\ slot' = [slot EXCEPT ![t] = k]
    /\ pc' = [pc EXCEPT ![t] = "load"]
    /\ UNCHANGED <<memory, heap, rec, ref, priv, pos, scanner>>

LoadCell(t) ==
    /\ pc[t] = "load"
    /\ ref' = [ref EXCEPT ![t] = cell]
    /\ pc' = [pc EXCEPT ![t] = "set"]
    /\ UNCHANGED <<memory, heap, rec, slot, client, pos, scanner>>

SetCur(t) ==
    /\ pc[t] = "set"
    /\ Store(t, rec[t], slot[t], ref[t])
    /\ pc' = [pc EXCEPT ![t] = "check"]
    /\ UNCHANGED <<nrec, hpCount, heap, rec, slot, ref, client, pos, scanner>>

\* Mutant: the hazard is set without loading the pointer again.
CheckSame_NoReload(t) ==
    /\ pc[t] = "check"
    /\ held' = [held EXCEPT ![t][slot[t]] = ref[t]]
    /\ ref' = [ref EXCEPT ![t] = Null]
    /\ pc' = [pc EXCEPT ![t] = "ready"]
    /\ UNCHANGED <<memory, heap, rec, slot, priv, pos, scanner>>

\* The second load agrees: from here on the client may dereference cur.
CheckSame(t) ==
    /\ pc[t] = "check"
    /\ cell = ref[t]
    /\ held' = [held EXCEPT ![t][slot[t]] = ref[t]]
    /\ ref' = [ref EXCEPT ![t] = Null]
    /\ pc' = [pc EXCEPT ![t] = "ready"]
    /\ UNCHANGED <<memory, heap, rec, slot, priv, pos, scanner>>

\* It differs: loadAndSetHazard loops, loadAndSetHazardOrFail gives up.
CheckChanged(t) ==
    /\ pc[t] = "check"
    /\ cell # ref[t]
    /\ ref' = [ref EXCEPT ![t] = Null]
    /\ \/ pc' = [pc EXCEPT ![t] = "load"]
       \/ pc' = [pc EXCEPT ![t] = "fail"]
    /\ UNCHANGED <<memory, heap, rec, slot, client, pos, scanner>>

FailClear(t) ==
    /\ pc[t] = "fail"
    /\ Store(t, rec[t], slot[t], Null)
    /\ pc' = [pc EXCEPT ![t] = "ready"]
    /\ UNCHANGED <<nrec, hpCount, heap, rec, slot, ref, client, pos, scanner>>

LoadAndSetHazard(t) ==
    LoadCell(t) \/ SetCur(t) \/ CheckSame(t) \/ CheckChanged(t) \/ FailClear(t)

\* Mutant: references are handed on to lower slots too.
SetHazardCopy_AnyOrder(t, i, j) ==
    /\ pc[t] = "ready"
    /\ i # j
    /\ held[t][i] # Null
    /\ Store(t, rec[t], j, held[t][i])
    /\ held' = [held EXCEPT ![t][j] = held[t][i]]
    /\ UNCHANGED <<nrec, hpCount, heap, pc, rec, slot, ref, priv, pos, scanner>>

\* setHazard(j, p) for a reference p that slot i protects.  The skip list
\* hands references on this way, always to a higher slot, the order in
\* which scan reads them.
SetHazardCopy(t, i, j) ==
    /\ pc[t] = "ready"
    /\ i < j
    /\ held[t][i] # Null
    /\ Store(t, rec[t], j, held[t][i])
    /\ held' = [held EXCEPT ![t][j] = held[t][i]]
    /\ UNCHANGED <<nrec, hpCount, heap, pc, rec, slot, ref, priv, pos, scanner>>

\* setHazard(k, p) for a node p the thread has just made.
SetHazardFresh(t, k) ==
    /\ pc[t] = "ready"
    /\ priv[t] # Null
    /\ Store(t, rec[t], k, priv[t])
    /\ held' = [held EXCEPT ![t][k] = priv[t]]
    /\ UNCHANGED <<nrec, hpCount, heap, pc, rec, slot, ref, priv, pos, scanner>>

ClearHazard(t, k) ==
    /\ pc[t] = "ready"
    /\ held[t][k] # Null
    /\ Store(t, rec[t], k, Null)
    /\ held' = [held EXCEPT ![t][k] = Null]
    /\ UNCHANGED <<nrec, hpCount, heap, pc, rec, slot, ref, priv, pos, scanner>>

-----------------------------------------------------------------------------
(* What the client does with nodes *)

NewNode(t) ==
    /\ pc[t] = "ready"
    /\ priv[t] = Null
    /\ \E n \in Node \ alloc :
          /\ alloc' = alloc \cup {n}
          /\ priv' = [priv EXCEPT ![t] = n]
    /\ UNCHANGED <<memory, retireList, cell, pc, rec, slot, ref, held, pos, scanner>>

\* The client lost the race to publish its node, and deletes it.
DropNode(t) ==
    /\ pc[t] = "ready"
    /\ priv[t] # Null
    /\ alloc' = alloc \ {priv[t]}
    /\ held' = [held EXCEPT ![t] =
                  [k \in Slot |-> IF held[t][k] = priv[t] THEN Null ELSE held[t][k]]]
    /\ priv' = [priv EXCEPT ![t] = Null]
    /\ UNCHANGED <<memory, retireList, cell, pc, rec, slot, ref, pos, scanner>>

\* The client replaces the shared pointer by its node or by nullptr, which
\* makes the old node unobtainable, and calls retireNode on the latter.
Exchange(t) ==
    /\ pc[t] = "ready"
    /\ Drained(t)
    /\ cell # priv[t]
    /\ cell' = priv[t]
    /\ priv' = [priv EXCEPT ![t] = Null]
    /\ ref' = [ref EXCEPT ![t] = cell]
    /\ pc' = [pc EXCEPT ![t] = IF cell = Null THEN "ready" ELSE "retire"]
    /\ UNCHANGED <<memory, retireList, alloc, rec, slot, held, pos, scanner>>

-----------------------------------------------------------------------------
(* retireNode, scan and helpScan *)

\* shouldScan for a list of n nodes.
ShouldScan(n) == RDen * n >= RNum * K * hpCount

RetireNode(t) ==
    LET list == retireList[rec[t]] \cup {ref[t]}
    IN  /\ pc[t] = "retire"
        /\ retireList' = [retireList EXCEPT ![rec[t]] = list]
        /\ ref' = [ref EXCEPT ![t] = Null]
        /\ pc' = [pc EXCEPT ![t] = IF ShouldScan(Cardinality(list))
                                   THEN "scan_begin" ELSE "ready"]
        /\ UNCHANGED <<memory, cell, alloc, rec, slot, client, pos, scanner>>

ScanBegin(t) ==
    /\ pc[t] = "scan_begin"
    /\ spos' = [spos EXCEPT ![t] = nrec]
    /\ pc' = [pc EXCEPT ![t] = "scan"]
    /\ UNCHANGED <<memory, heap, rec, slot, ref, client, pos, sk, live>>

\* Phase 1, one hazard slot.
ScanSlot(t) ==
    /\ pc[t] = "scan"
    /\ spos[t] # 0
    /\ live' = [live EXCEPT ![t] = @ \cup ({LoadSlot(t, spos[t], sk[t])} \cap Node)]
    /\ sk' = [sk EXCEPT ![t] = IF @ = K THEN 1 ELSE @ + 1]
    /\ spos' = [spos EXCEPT ![t] = IF sk[t] = K THEN @ - 1 ELSE @]
    /\ UNCHANGED <<memory, heap, pc, rec, slot, ref, client, pos>>

\* Phase 2; then retireNode goes on to helpScan, or helpScan resumes.
Sweep(t) ==
    /\ pc[t] = "scan"
    /\ spos[t] = 0
    /\ alloc' = alloc \ (retireList[rec[t]] \ live[t])
    /\ retireList' = [retireList EXCEPT ![rec[t]] = @ \cap live[t]]
    /\ live' = [live EXCEPT ![t] = {}]
    /\ pc' = [pc EXCEPT ![t] = IF pos[t] = 0 THEN "help_begin" ELSE "move"]
    /\ UNCHANGED <<memory, cell, rec, slot, ref, client, pos, spos, sk>>

HelpBegin(t) ==
    /\ pc[t] = "help_begin"
    /\ pos' = [pos EXCEPT ![t] = nrec]
    /\ pc' = [pc EXCEPT ![t] = "help"]
    /\ UNCHANGED <<memory, heap, rec, slot, ref, client, scanner>>

\* hp = hp->next_, and the end of helpScan.
HelpNext(t) ==
    /\ pos' = [pos EXCEPT ![t] = @ - 1]
    /\ pc' = [pc EXCEPT ![t] = IF pos[t] = 1 THEN "ready" ELSE "help"]

\* Mutant: helpScan waits for a record that is in use.
HelpSkip_Waits(t) ==
    /\ pc[t] = "help"
    /\ pos[t] = rec[t]
    /\ HelpNext(t)
    /\ UNCHANGED <<memory, heap, rec, slot, ref, client, scanner>>

\* The thread's own record, or one whose active_ the CAS cannot take.
HelpSkip(t) ==
    /\ pc[t] = "help"
    /\ pos[t] = rec[t] \/ (Drained(t) /\ active[pos[t]])
    /\ HelpNext(t)
    /\ UNCHANGED <<memory, heap, rec, slot, ref, client, scanner>>

\* Mutant: active_ is stored, not compared and exchanged.
HelpLock_NoCompare(t) ==
    /\ pc[t] = "help"
    /\ pos[t] # rec[t]
    /\ Drained(t)
    /\ active' = [active EXCEPT ![pos[t]] = TRUE]
    /\ pc' = [pc EXCEPT ![t] = "move"]
    /\ UNCHANGED <<nrec, hpCount, pointers, buf, heap, rec, slot, ref, client, pos, scanner>>

HelpLock(t) ==
    /\ pc[t] = "help"
    /\ pos[t] # rec[t]
    /\ Drained(t)
    /\ ~active[pos[t]]
    /\ active' = [active EXCEPT ![pos[t]] = TRUE]
    /\ pc' = [pc EXCEPT ![t] = "move"]
    /\ UNCHANGED <<nrec, hpCount, pointers, buf, heap, rec, slot, ref, client, pos, scanner>>

\* Mutant: the node stays on the list it was moved from.
Move_NoPop(t) ==
    /\ pc[t] = "move"
    /\ \E n \in retireList[pos[t]] :
          LET list == retireList[rec[t]] \cup {n}
          IN  /\ retireList' = [retireList EXCEPT ![rec[t]] = list]
              /\ pc' = [pc EXCEPT ![t] = IF ShouldScan(Cardinality(list))
                                         THEN "scan_begin" ELSE @]
    /\ UNCHANGED <<memory, cell, alloc, rec, slot, ref, client, pos, scanner>>

\* Mutant: all nodes are moved before the list's size is looked at.
Move_NoScan(t) ==
    /\ pc[t] = "move"
    /\ \E n \in retireList[pos[t]] :
          LET list == retireList[rec[t]] \cup {n}
          IN  retireList' = [retireList EXCEPT ![rec[t]] = list, ![pos[t]] = @ \ {n}]
    /\ UNCHANGED <<memory, cell, alloc, pc, rec, slot, ref, client, pos, scanner>>

\* Move one node over, and scan as soon as the own list reaches R.
Move(t) ==
    /\ pc[t] = "move"
    /\ \E n \in retireList[pos[t]] :
          LET list == retireList[rec[t]] \cup {n}
          IN  /\ retireList' = [retireList EXCEPT ![rec[t]] = list, ![pos[t]] = @ \ {n}]
              /\ pc' = [pc EXCEPT ![t] = IF ShouldScan(Cardinality(list))
                                         THEN "scan_begin" ELSE @]
    /\ UNCHANGED <<memory, cell, alloc, rec, slot, ref, client, pos, scanner>>

HelpUnlock(t) ==
    /\ pc[t] = "move"
    /\ retireList[pos[t]] = {}
    /\ Store(t, pos[t], 0, Null)
    /\ HelpNext(t)
    /\ UNCHANGED <<nrec, hpCount, heap, rec, slot, ref, client, scanner>>

RetireNodeStep(t) ==
    \/ RetireNode(t) \/ ScanBegin(t) \/ ScanSlot(t) \/ Sweep(t)
    \/ HelpBegin(t) \/ HelpSkip(t) \/ HelpLock(t) \/ Move(t) \/ HelpUnlock(t)

-----------------------------------------------------------------------------
(* The destructor.  The ThreadLocal that hands out the records is destroyed *)
(* first and retires them all, so no thread has one.  The head record helps *)
(* every inactive one and scans; then the records go, with what is left on  *)
(* their lists.                                                             *)

\* Mutant: the destructor scans without helping the other records first.
Destroy_NoHelp ==
    LET hazards == {pointers[r][k] : r \in 1..nrec, k \in Slot} \ {Null}
    IN  /\ \A t \in Thread : pc[t] = "none" /\ Drained(t)
        /\ nrec # 0
        /\ alloc' = alloc \ (retireList[nrec] \ hazards)
        /\ retireList' = [r \in Rec |-> {}]
        /\ nrec' = 0
        /\ hpCount' = 0
        /\ active' = [r \in Rec |-> FALSE]
        /\ pointers' = [r \in Rec |-> [k \in Slot |-> Null]]
        /\ UNCHANGED <<buf, cell, pc, rec, slot, ref, client, pos, scanner>>

Destroy ==
    LET hazards == {pointers[r][k] : r \in 1..nrec, k \in Slot} \ {Null}
        drained == {r \in 1..nrec : r = nrec \/ ~active[r]}
        retired == UNION {retireList[r] : r \in drained}
    IN  /\ \A t \in Thread : pc[t] = "none" /\ Drained(t)
        /\ nrec # 0
        /\ alloc' = alloc \ (retired \ hazards)
        /\ retireList' = [r \in Rec |-> {}]
        /\ nrec' = 0
        /\ hpCount' = 0
        /\ active' = [r \in Rec |-> FALSE]
        /\ pointers' = [r \in Rec |-> [k \in Slot |-> Null]]
        /\ UNCHANGED <<buf, cell, pc, rec, slot, ref, client, pos, scanner>>

-----------------------------------------------------------------------------

Init ==
    /\ nrec = 0
    /\ hpCount = 0
    /\ active = [r \in Rec |-> FALSE]
    /\ pointers = [r \in Rec |-> [k \in Slot |-> Null]]
    /\ retireList = [r \in Rec |-> {}]
    /\ cell = Null
    /\ alloc = {}
    /\ buf = [t \in Thread |-> << >>]
    /\ pc = [t \in Thread |-> "none"]
    /\ rec = [t \in Thread |-> 0]
    /\ slot = [t \in Thread |-> 1]
    /\ ref = [t \in Thread |-> Null]
    /\ held = [t \in Thread |-> [k \in Slot |-> Null]]
    /\ priv = [t \in Thread |-> Null]
    /\ pos = [t \in Thread |-> 0]
    /\ spos = [t \in Thread |-> 0]
    /\ sk = [t \in Thread |-> 1]
    /\ live = [t \in Thread |-> {}]

ClientStep(t) ==
    \/ NewNode(t) \/ DropNode(t) \/ Exchange(t)
    \/ \E k \in Slot : LoadBegin(t, k) \/ SetHazardFresh(t, k) \/ ClearHazard(t, k)
    \/ \E i, j \in Slot : SetHazardCopy(t, i, j)

Step(t) ==
    Allocate(t) \/ Retire(t) \/ LoadAndSetHazard(t) \/ RetireNodeStep(t) \/ ClientStep(t)

Next == Destroy \/ \E t \in Thread : Step(t) \/ Flush(t)

Spec == Init /\ [][Next]_vars

-----------------------------------------------------------------------------
(* Properties *)

PCs == {"none", "alloc_walk", "alloc_count", "alloc_load", "alloc_cas",
        "ready", "exit", "exit_active", "load", "set", "check", "fail",
        "retire", "scan_begin", "scan", "help_begin", "help", "move"}

\* The type invariant.
TypeOK ==
    /\ nrec \in 0..MaxRecords
    /\ hpCount \in 0..MaxRecords
    /\ active \in [Rec -> BOOLEAN]
    /\ pointers \in [Rec -> [Slot -> Pointer]]
    /\ retireList \in [Rec -> SUBSET Node]
    /\ cell \in Pointer
    /\ alloc \in SUBSET Node
    /\ buf \in [Thread -> Seq(Pending)]
    /\ pc \in [Thread -> PCs]
    /\ rec \in [Thread -> 0..MaxRecords]
    /\ slot \in [Thread -> Slot]
    /\ ref \in [Thread -> Pointer]
    /\ held \in [Thread -> [Slot -> Pointer]]
    /\ priv \in [Thread -> Pointer]
    /\ pos \in [Thread -> 0..MaxRecords]
    /\ spos \in [Thread -> 0..MaxRecords]
    /\ sk \in [Thread -> Slot]
    /\ live \in [Thread -> SUBSET Node]

\* No use after free: whatever loadAndSetHazard returned to a thread, or the
\* thread copied from such a slot, stays allocated until the thread gives the
\* slot up, whoever unlinks, retires and scans meanwhile (scan, lines 260-292).
HeldIsAllocated == \A t \in Thread, k \in Slot : held[t][k] \in alloc \cup {Null}

\* t has locked the record at pos[t] in helpScan.
Helping(t) == pc[t] = "move" \/ (pc[t] \in {"scan_begin", "scan"} /\ pos[t] # 0)

\* Thread t reads and writes the retire_list_ of record r, without a lock.
Writes(t, r) == r # 0 /\ (rec[t] = r \/ (Helping(t) /\ pos[t] = r))

\* retire_list_ is a plain vector: it has one writer at a time, the thread
\* that owns the record or the one that locked it in helpScan through
\* active_, also when a record changes hands through allocate and retire.
RecordsExclusive ==
    \A t \in Thread :
        /\ Helping(t) => pos[t] # rec[t]
        /\ \A r \in Rec : Writes(t, r) => /\ r <= nrec /\ active[r]
                                          /\ \A u \in Thread \ {t} : ~Writes(u, r)

\* The nodes on their way into retireNode.
Retiring == {ref[t] : t \in {u \in Thread : pc[u] = "retire"}}
Retired == UNION {retireList[r] : r \in Rec}

\* A node is on one retire list at most and is off the structure by then, so
\* no two scans delete it and none deletes what threads can still reach.
RetiredOnce ==
    /\ \A r, s \in Rec : r # s => retireList[r] \cap retireList[s] = {}
    /\ Retired \cup Retiring \subseteq alloc
    /\ Retired \cap Retiring = {}
    /\ cell \notin Retired \cup Retiring
    /\ \A t \in Thread : priv[t] \notin Retired \cup Retiring

\* Nothing leaks: an allocated node is reachable, private to a thread, or
\* waits on a retire list some later scan or the destructor goes through.
NothingLeaked ==
    alloc \subseteq {cell} \cup {priv[t] : t \in Thread} \cup Retiring \cup Retired

\* The threads in the push loop of allocate.
Pushing == {t \in Thread : pc[t] \in {"alloc_load", "alloc_cas"}}

\* hp_count_ never lags behind the list, so R is never underestimated: it
\* counts the linked records and those allocate is still pushing.
CountedRecords == hpCount = nrec + Cardinality(Pushing)

\* The threads now working on r's list past the push that filled it.
Scanning(r) == \E t \in Thread : rec[t] = r /\ pc[t] \in {"scan_begin", "scan"}

\* "We never try to free more than the R retire limit at once": a list exceeds
\* R by less than one node, and is below R again whenever no scan is at work on
\* it: a scan always frees enough.  Needs RNum > RDen, which 5/4 satisfies.
RetireListBounded ==
    \A r \in 1..nrec :
        LET n == Cardinality(retireList[r])
        IN  /\ n > 0 => RDen * (n - 1) < RNum * K * hpCount
            /\ Scanning(r) \/ RDen * n < RNum * K * hpCount

\* retireNode is wait-free: thread t finishes it whatever the others do, also
\* if they stop for ever in the middle of an operation.
RetireNodeEnds(t) == pc[t] = "retire" ~> pc[t] = "ready"

\* Under sequential consistency the records, slots and scans implement safe
\* reclamation: a thread guards only what is not yet retired when it passes
\* the second load of loadAndSetHazard, and a scan deletes only what nobody
\* guards then.
Reclamation == INSTANCE SafeReclamation WITH
    state <- [n \in Node |-> IF n \notin alloc THEN "free"
                             ELSE IF n = cell THEN "shared"
                             ELSE IF n \in Retired \cup Retiring THEN "retired"
                             ELSE "private"],
    guards <- [t \in Thread |-> {held[t][k] : k \in Slot} \ {Null}]

ReclaimsSafely == Reclamation!Spec

=============================================================================
