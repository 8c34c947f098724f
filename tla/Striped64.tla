----------------------------- MODULE Striped64 -----------------------------
(***************************************************************************)
(* The striped counter of src/metrics/striped_int64.{h,cc}: add with its   *)
(* slow path, value, reset, the destructor, and the Striped64_Storage      *)
(* arrays behind it.                                                       *)
(*                                                                         *)
(* A storage of size 2^n points to n slabs: its own, made last, and those  *)
(* it shares with the smaller storages it grew out of.  The counter        *)
(* reclaims storages with hazard pointers; here a retired storage may be   *)
(* deleted as soon as no hazard slot has its address, which is what        *)
(* HazardPointers guarantees (SafeReclamation) on sequentially consistent  *)
(* memory.  Every add adds one.                                            *)
(***************************************************************************)
EXTENDS Integers, Sequences, Functions, Sums

CONSTANTS
    Thread,
    Storage,      \* addresses of Striped64_Storage objects (reused)
    Slab,         \* addresses of the blocks of cells (reused)
    Null,         \* nullptr
    MaxLevel,     \* STRIPE_LIMIT is 2^MaxLevel: 8 in the code
    InitLevel,    \* 0 for Striped64(), or the level that Striped64(k) starts with
    HashCode,     \* the values thread hash codes take
    MaxAdds,      \* bound on the adds each thread starts
    MaxReads,     \* bound on the calls of value, over all threads
    MaxResets     \* bound on the calls of reset, over all threads

ASSUME NullAssumption == Null \notin Storage
ASSUME HashAssumption == HashCode \subseteq Nat /\ HashCode # {}
ASSUME LimitAssumption == MaxLevel \in Nat \ {0} /\ InitLevel \in 0..MaxLevel
ASSUME CallAssumption == MaxAdds \in [Thread -> Nat] /\ MaxReads \in Nat /\ MaxResets \in Nat

VARIABLES
    base,       \* base_
    stripes,    \* stripes_
    store,      \* the storages: slabs (none: not allocated), owner_, clean_created_
    cells,      \* the counts in each slab
    slabs,      \* the slabs that are allocated
    hazard,     \* the hazard slot of each thread (K = 1)
    retired,    \* storages given to retireNode and not yet deleted
    live,       \* the counter exists
    pc, op,     \* where each thread is, and in which call
    cur, next, load, contended,  \* the locals of addSlow
    idx, expected,               \* the cell a thread works on, and what it read
    sum, low,   \* ret of value, and what had been added when value was called
    added, discarded,            \* all that adds added and resets discarded
    adds, reads, resets          \* calls so far

shared == <<base, stripes, store, cells, slabs>>
protect == <<hazard, retired>>
locals == <<cur, next, load, contended, idx, expected, sum, low>>
total == <<added, discarded>>
calls == <<adds, reads, resets>>
vars == <<shared, protect, live, pc, op, locals, total, calls>>

-----------------------------------------------------------------------------
(* Striped64_Storage *)

Pow2[n \in Nat] == IF n = 0 THEN 1 ELSE 2 * Pow2[n - 1]

NoStorage == [slabs |-> << >>, owner |-> FALSE, clean |-> FALSE]
Allocated(s) == s \in Storage /\ store[s].slabs # << >>
Size(s) == Pow2[Len(store[s].slabs)]

Width == Pow2[MaxLevel - 1]
Empty == [i \in 0..Width |-> 0]

\* The slab of element i, and i's place in it: slab 1 has elements 0 and 1,
\* slab l > 1 those from 2^(l - 1) on.
SlabNo(i) == CHOOSE l \in 1..MaxLevel : i < Pow2[l] /\ (l = 1 \/ i >= Pow2[l - 1])
Offset(i) == IF i < 2 THEN i ELSE i - Pow2[SlabNo(i) - 1]

\* get(i).
SlabOf(s, i) == store[s].slabs[SlabNo(i)]
Get(s, i) == cells[SlabOf(s, i)][Offset(i)]
Put(s, i, v) == cells' = [cells EXCEPT ![SlabOf(s, i)][Offset(i)] = v]

\* The constructors: a storage at s with the slabs of `inherited' and a new
\* one.  Slab addresses are never compared, so any free one will do.
Construct(s, inherited) ==
    LET b == CHOOSE x \in Slab : x \notin slabs
    IN  /\ ~Allocated(s)
        /\ slabs # Slab
        /\ slabs' = slabs \cup {b}
        /\ cells' = [cells EXCEPT ![b] = Empty]
        /\ store' = [store EXCEPT ![s] = [slabs |-> Append(inherited, b),
                                         owner |-> TRUE, clean |-> TRUE]]

\* The slabs the destructor of a storage deletes.
Owned(r) ==
    IF r.owner THEN {r.slabs[l] : l \in 1..Len(r.slabs)}
    ELSE IF r.clean /\ r.slabs # << >> THEN {r.slabs[Len(r.slabs)]}
    ELSE {}

Destruct(s, r) ==
    /\ slabs' = slabs \ Owned(r)
    /\ store' = [store EXCEPT ![s] = NoStorage]

Disavow(r) == [r EXCEPT !.owner = FALSE]
DisavowAll(r) == [Disavow(r) EXCEPT !.clean = FALSE]

-----------------------------------------------------------------------------
(* add *)

Goto(t, label) == pc' = [pc EXCEPT ![t] = label]

AddBegin(t) ==
    /\ live
    /\ pc[t] = "idle"
    /\ adds[t] < MaxAdds[t]
    /\ adds' = [adds EXCEPT ![t] = @ + 1]
    /\ cur' = [cur EXCEPT ![t] = stripes]
    /\ op' = [op EXCEPT ![t] = "add"]
    /\ Goto(t, IF stripes = Null THEN "base_read" ELSE "hz_load")
    /\ UNCHANGED <<shared, protect, live, next, load, contended, idx, expected, sum, low, total, reads, resets>>

BaseRead(t) ==
    /\ pc[t] = "base_read"
    /\ expected' = [expected EXCEPT ![t] = base]
    /\ Goto(t, "base_cas")
    /\ UNCHANGED <<shared, protect, live, op, cur, next, load, contended, idx, sum, low, total, calls>>

\* On contention addSlow starts without a storage.
BaseCas(t) ==
    /\ pc[t] = "base_cas"
    /\ IF base = expected[t]
       THEN /\ base' = base + 1
            /\ added' = added + 1
            /\ Goto(t, "idle")
            /\ UNCHANGED op
       ELSE /\ op' = [op EXCEPT ![t] = "addSlow"]
            /\ Goto(t, "install")
            /\ UNCHANGED <<base, added>>
    /\ expected' = [expected EXCEPT ![t] = 0]
    /\ UNCHANGED <<stripes, store, cells, slabs, protect, live, cur, next, load, contended, idx,
                   sum, low, discarded, calls>>

\* loadAndSetHazard(stripes_, 0).
HzLoad(t) ==
    /\ pc[t] = "hz_load"
    /\ cur' = [cur EXCEPT ![t] = stripes]
    /\ Goto(t, "hz_set")
    /\ UNCHANGED <<shared, protect, live, op, next, load, contended, idx, expected, sum, low, total, calls>>

HzSet(t) ==
    /\ pc[t] = "hz_set"
    /\ hazard' = [hazard EXCEPT ![t] = cur[t]]
    /\ Goto(t, "hz_check")
    /\ UNCHANGED <<shared, retired, live, op, locals, total, calls>>

\* Mutant: the storage is used without loading stripes_ again.
HzCheck_NoReload(t) ==
    /\ pc[t] = "hz_check"
    /\ Goto(t, IF op[t] # "reset" THEN "read"
               ELSE IF cur[t] = Null THEN "idle" ELSE "zero")
    /\ UNCHANGED <<shared, protect, live, op, locals, total, calls>>

HzCheck(t) ==
    /\ pc[t] = "hz_check"
    /\ Goto(t, IF stripes # cur[t] THEN "hz_load"
               ELSE IF op[t] # "reset" THEN "read"
               ELSE IF cur[t] = Null THEN "idle" ELSE "zero")
    /\ UNCHANGED <<shared, protect, live, op, locals, total, calls>>

\* The head of the addSlow loop when cur is set: reload it, or use it.
Again(t) == IF load'[t] THEN "hz_load" ELSE "read"

\* The first storage: construct it and set the hazard ...
InstallNew(t) ==
    /\ pc[t] = "install"
    /\ \E s \in Storage :
          /\ Construct(s, << >>)
          /\ cur' = [cur EXCEPT ![t] = s]
          /\ hazard' = [hazard EXCEPT ![t] = s]
    /\ Goto(t, "install_cas")
    /\ UNCHANGED <<base, stripes, retired, live, op, next, load, contended, idx, expected, sum, low, total, calls>>

\* Mutant: a failed installer starts over without a storage.
InstallCas_Forgets(t) ==
    /\ pc[t] = "install_cas"
    /\ IF stripes = Null
       THEN /\ stripes' = cur[t]
            /\ load' = [load EXCEPT ![t] = FALSE]
            /\ Goto(t, "read")
            /\ UNCHANGED <<store, slabs>>
       ELSE /\ Destruct(cur[t], store[cur[t]])
            /\ Goto(t, "install")
            /\ UNCHANGED <<stripes, load>>
    /\ UNCHANGED <<base, cells, protect, live, op, cur, next, contended, idx, expected, sum, low, total, calls>>

\* ... and publish it, unless another thread was first.  The winner leaves
\* load unset for the rest of the call.
InstallCas(t) ==
    /\ pc[t] = "install_cas"
    /\ IF stripes = Null
       THEN /\ stripes' = cur[t]
            /\ load' = [load EXCEPT ![t] = FALSE]
            /\ UNCHANGED <<store, slabs>>
       ELSE /\ Destruct(cur[t], store[cur[t]])
            /\ UNCHANGED <<stripes, load>>
    /\ Goto(t, Again(t))
    /\ UNCHANGED <<base, cells, protect, live, op, cur, next, contended, idx, expected, sum, low, total, calls>>

\* hash_code & (size - 1), and the value to update.
Read(t) ==
    /\ pc[t] = "read"
    /\ \E h \in HashCode :
          /\ idx' = [idx EXCEPT ![t] = h % Size(cur[t])]
          /\ expected' = [expected EXCEPT ![t] = Get(cur[t], h % Size(cur[t]))]
    /\ Goto(t, "cas")
    /\ UNCHANGED <<shared, protect, live, op, cur, next, load, contended, sum, low, total, calls>>

\* Mutant: a store instead of the compare-exchange.
CasDone_Store(t) ==
    /\ pc[t] = "cas"
    /\ Put(cur[t], idx[t], expected[t] + 1)
    /\ added' = added + 1
    /\ expected' = [expected EXCEPT ![t] = 0]
    /\ idx' = [idx EXCEPT ![t] = 0]
    /\ Goto(t, "clear")
    /\ UNCHANGED <<base, stripes, store, slabs, protect, live, op, cur, next, load, contended,
                   sum, low, discarded, calls>>

CasDone(t) ==
    /\ pc[t] = "cas"
    /\ Get(cur[t], idx[t]) = expected[t]
    /\ Put(cur[t], idx[t], expected[t] + 1)
    /\ added' = added + 1
    /\ expected' = [expected EXCEPT ![t] = 0]
    /\ idx' = [idx EXCEPT ![t] = 0]
    /\ Goto(t, "clear")
    /\ UNCHANGED <<base, stripes, store, slabs, protect, live, op, cur, next, load, contended,
                   sum, low, discarded, calls>>

\* Contention: enter addSlow; there, retry once with another hash code, then
\* grow while the limit allows it.
CasFailed(t) ==
    /\ pc[t] = "cas"
    /\ Get(cur[t], idx[t]) # expected[t]
    /\ op' = [op EXCEPT ![t] = "addSlow"]
    /\ contended' = [contended EXCEPT ![t] = op[t] = "addSlow"]
    /\ expected' = [expected EXCEPT ![t] = 0]
    /\ idx' = [idx EXCEPT ![t] = 0]
    /\ UNCHANGED load
    /\ Goto(t, IF contended[t] /\ Len(store[cur[t]].slabs) < MaxLevel THEN "expand" ELSE Again(t))
    /\ UNCHANGED <<shared, protect, live, cur, next, sum, low, total, calls>>

ExpandCur(t) ==
    /\ pc[t] = "expand"
    /\ \E s \in Storage :
          /\ Construct(s, store[cur[t]].slabs)
          /\ next' = [next EXCEPT ![t] = s]
    /\ Goto(t, "grow")
    /\ UNCHANGED <<base, stripes, protect, live, op, cur, load, contended, idx, expected, sum, low, total, calls>>

GrowDone(t) ==
    /\ pc[t] = "grow"
    /\ stripes = cur[t]
    /\ stripes' = next[t]
    /\ next' = [next EXCEPT ![t] = Null]
    /\ Goto(t, "retire")
    /\ UNCHANGED <<base, store, cells, slabs, protect, live, op, cur, load, contended, idx, expected,
                   sum, low, total, calls>>

\* Mutant: the discarded storage still owns the slabs it shares.
GrowFailed_NoDisavow(t) ==
    /\ pc[t] = "grow"
    /\ stripes # cur[t]
    /\ cur' = [cur EXCEPT ![t] = stripes]
    /\ Destruct(next[t], store[next[t]])
    /\ next' = [next EXCEPT ![t] = Null]
    /\ UNCHANGED load
    /\ Goto(t, Again(t))
    /\ UNCHANGED <<base, stripes, cells, protect, live, op, contended, idx, expected, sum, low, total, calls>>

\* The CAS overwrites cur with the storage it found.
GrowFailed(t) ==
    /\ pc[t] = "grow"
    /\ stripes # cur[t]
    /\ cur' = [cur EXCEPT ![t] = stripes]
    /\ Destruct(next[t], Disavow(store[next[t]]))
    /\ next' = [next EXCEPT ![t] = Null]
    /\ UNCHANGED load
    /\ Goto(t, Again(t))
    /\ UNCHANGED <<base, stripes, cells, protect, live, op, contended, idx, expected, sum, low, total, calls>>

\* The outgrown storage relinquishes its slabs and goes to retireNode.
RetireCur(t) ==
    /\ pc[t] = "retire"
    /\ store' = [store EXCEPT ![cur[t]] = DisavowAll(@)]
    /\ retired' = retired \cup {cur[t]}
    /\ UNCHANGED load
    /\ Goto(t, Again(t))
    /\ UNCHANGED <<base, stripes, cells, slabs, hazard, live, op, cur, next, contended, idx, expected,
                   sum, low, total, calls>>

\* clearHazard(0), the end of add, value and reset.
Clear(t) ==
    /\ pc[t] = "clear"
    /\ hazard' = [hazard EXCEPT ![t] = Null]
    /\ cur' = [cur EXCEPT ![t] = Null]
    /\ load' = [load EXCEPT ![t] = TRUE]
    /\ contended' = [contended EXCEPT ![t] = FALSE]
    /\ Goto(t, IF op[t] = "value" THEN "return" ELSE "idle")
    /\ UNCHANGED <<shared, retired, live, op, next, idx, expected, sum, low, total, calls>>

AddStep(t) ==
    \/ BaseRead(t) \/ BaseCas(t) \/ HzLoad(t) \/ HzSet(t) \/ HzCheck(t)
    \/ InstallNew(t) \/ InstallCas(t) \/ Read(t) \/ CasDone(t) \/ CasFailed(t)
    \/ ExpandCur(t) \/ GrowDone(t) \/ GrowFailed(t) \/ RetireCur(t) \/ Clear(t)

-----------------------------------------------------------------------------
(* value *)

ValueBegin(t) ==
    /\ live
    /\ pc[t] = "idle"
    /\ reads < MaxReads
    /\ reads' = reads + 1
    /\ op' = [op EXCEPT ![t] = "value"]
    /\ sum' = [sum EXCEPT ![t] = base]
    /\ low' = [low EXCEPT ![t] = added]
    /\ Goto(t, "v_load")
    /\ UNCHANGED <<shared, protect, live, cur, next, load, contended, idx, expected, total, adds, resets>>

ValueLoad(t) ==
    /\ pc[t] = "v_load"
    /\ cur' = [cur EXCEPT ![t] = stripes]
    /\ Goto(t, IF stripes = Null THEN "return" ELSE "v_set")
    /\ UNCHANGED <<shared, protect, live, op, next, load, contended, idx, expected, sum, low, total, calls>>

ValueSet(t) ==
    /\ pc[t] = "v_set"
    /\ hazard' = [hazard EXCEPT ![t] = cur[t]]
    /\ Goto(t, "v_check")
    /\ UNCHANGED <<shared, retired, live, op, locals, total, calls>>

ValueCheck(t) ==
    /\ pc[t] = "v_check"
    /\ Goto(t, IF stripes = cur[t] THEN "v_sum" ELSE "v_load")
    /\ UNCHANGED <<shared, protect, live, op, locals, total, calls>>

\* Mutant: the first slab only.
ValueSum_FirstSlab(t) ==
    /\ pc[t] = "v_sum"
    /\ sum' = [sum EXCEPT ![t] = @ + Get(cur[t], idx[t])]
    /\ idx' = [idx EXCEPT ![t] = (@ + 1) % 2]
    /\ Goto(t, IF idx[t] = 1 THEN "clear" ELSE "v_sum")
    /\ UNCHANGED <<shared, protect, live, op, cur, next, load, contended, expected, low, total, calls>>

ValueSum(t) ==
    /\ pc[t] = "v_sum"
    /\ sum' = [sum EXCEPT ![t] = @ + Get(cur[t], idx[t])]
    /\ idx' = [idx EXCEPT ![t] = (@ + 1) % Size(cur[t])]
    /\ Goto(t, IF idx[t] = Size(cur[t]) - 1 THEN "clear" ELSE "v_sum")
    /\ UNCHANGED <<shared, protect, live, op, cur, next, load, contended, expected, low, total, calls>>

ValueReturn(t) ==
    /\ pc[t] = "return"
    /\ sum' = [sum EXCEPT ![t] = 0]
    /\ low' = [low EXCEPT ![t] = 0]
    /\ Goto(t, "idle")
    /\ UNCHANGED <<shared, protect, live, op, cur, next, load, contended, idx, expected, total, calls>>

ValueStep(t) ==
    ValueLoad(t) \/ ValueSet(t) \/ ValueCheck(t) \/ ValueSum(t) \/ ValueReturn(t)

-----------------------------------------------------------------------------
(* reset, the destructor, and the deletion of retired storages *)

ResetBase(t) ==
    /\ live
    /\ pc[t] = "idle"
    /\ resets < MaxResets
    /\ resets' = resets + 1
    /\ op' = [op EXCEPT ![t] = "reset"]
    /\ base' = 0
    /\ discarded' = discarded + base
    /\ Goto(t, "hz_load")
    /\ UNCHANGED <<stripes, store, cells, slabs, protect, live, locals, added, adds, reads>>

ResetCell(t) ==
    /\ pc[t] = "zero"
    /\ discarded' = discarded + Get(cur[t], idx[t])
    /\ Put(cur[t], idx[t], 0)
    /\ idx' = [idx EXCEPT ![t] = (@ + 1) % Size(cur[t])]
    /\ Goto(t, IF idx[t] = Size(cur[t]) - 1 THEN "clear" ELSE "zero")
    /\ UNCHANGED <<base, stripes, store, slabs, protect, live, op, cur, next, load, contended, expected,
                   sum, low, added, calls>>

\* ~Striped64, once no thread uses the counter.
Destroy ==
    /\ live
    /\ \A t \in Thread : pc[t] = "idle"
    /\ live' = FALSE
    /\ IF stripes = Null
       THEN UNCHANGED <<slabs, store>>
       ELSE Destruct(stripes, store[stripes])
    /\ stripes' = Null
    /\ UNCHANGED <<base, cells, protect, pc, op, locals, total, calls>>

\* A scan deletes a storage that no hazard slot has.
Reclaim(s) ==
    /\ s \in retired
    /\ \A t \in Thread : hazard[t] # s
    /\ Destruct(s, store[s])
    /\ retired' = retired \ {s}
    /\ UNCHANGED <<base, stripes, cells, hazard, live, pc, op, locals, total, calls>>

-----------------------------------------------------------------------------

\* Striped64() has no storage; Striped64(k) starts with one of size k.
Init ==
    /\ base = 0
    /\ \E s \in Storage, q \in Injection(1..InitLevel, Slab) :
          /\ slabs = Range(q)
          /\ stripes = IF InitLevel = 0 THEN Null ELSE s
          /\ store = [x \in Storage |-> IF x = stripes
                                        THEN [slabs |-> q, owner |-> TRUE, clean |-> TRUE]
                                        ELSE NoStorage]
    /\ cells = [b \in Slab |-> Empty]
    /\ live = TRUE
    /\ hazard = [t \in Thread |-> Null]
    /\ retired = {}
    /\ pc = [t \in Thread |-> "idle"]
    /\ op = [t \in Thread |-> "add"]
    /\ cur = [t \in Thread |-> Null]
    /\ next = [t \in Thread |-> Null]
    /\ load = [t \in Thread |-> TRUE]
    /\ contended = [t \in Thread |-> FALSE]
    /\ idx = [t \in Thread |-> 0]
    /\ expected = [t \in Thread |-> 0]
    /\ sum = [t \in Thread |-> 0]
    /\ low = [t \in Thread |-> 0]
    /\ added = 0
    /\ discarded = 0
    /\ adds = [t \in Thread |-> 0]
    /\ reads = 0
    /\ resets = 0

\* The program ends.
Finished ==
    /\ ~live
    /\ retired = {}
    /\ UNCHANGED vars

Step(t) == AddStep(t) \/ ValueStep(t) \/ ResetCell(t)

Next ==
    \/ \E t \in Thread : Step(t) \/ AddBegin(t) \/ ValueBegin(t) \/ ResetBase(t)
    \/ Destroy
    \/ \E s \in Storage : Reclaim(s)
    \/ Finished

Spec == Init /\ [][Next]_vars

\* The operating system runs every thread.
FairSpec == Spec /\ \A t \in Thread : WF_vars(Step(t))

-----------------------------------------------------------------------------
(* Properties *)

\* The type invariant, with the bound that STRIPE_LIMIT sets.
TypeOK ==
    /\ base \in Nat /\ added \in Nat /\ discarded \in Nat
    /\ stripes \in Storage \cup {Null}
    /\ slabs \subseteq Slab
    /\ retired \subseteq {s \in Storage : Allocated(s)}
    /\ \A s \in Storage : Len(store[s].slabs) <= MaxLevel
    /\ hazard \in [Thread -> Storage \cup {Null}]
    /\ cur \in [Thread -> Storage \cup {Null}]
    /\ next \in [Thread -> Storage \cup {Null}]
    /\ \A t \in Thread : Allocated(cur[t]) => idx[t] < Size(cur[t])

Uses(t) == pc[t] \in {"read", "cas", "expand", "retire", "v_sum", "zero"}

\* The storage a thread works on, and the slabs it reaches through it, have
\* not been freed: growing and reclaiming race with add, value and reset.
CurIsAllocated ==
    \A t \in Thread : Uses(t) =>
        /\ Allocated(cur[t])
        /\ \A l \in 1..Len(store[cur[t]].slabs) : store[cur[t]].slabs[l] \in slabs

\* The counts in a storage by index.
Counts(s) == [i \in Nat |-> IF i < Size(s) THEN Get(s, i) ELSE 0]

\* Nothing added is lost or counted twice: base_ and the cells of the current
\* storage hold all that was added and not discarded by a reset, although
\* threads still add through storages that have been outgrown.
Conservation ==
    LET InCells == IF stripes = Null THEN 0 ELSE SumBelow(Counts(stripes), Size(stripes))
    IN  live => added = base + InCells + discarded

\* Every allocated slab is deleted by some storage, and every slab that a
\* storage would delete is still allocated: disavow and disavow_all hand the
\* slabs over so that none is deleted twice and none leaks.
SlabsOwned ==
    /\ TypeOK
    /\ slabs = UNION {Owned(store[s]) : s \in Storage}

\* What value returns: no less than had been added when it was called, unless
\* a reset came between, and no more than has been added.
ValueInRange ==
    \A t \in Thread : pc[t] = "return" =>
        /\ sum[t] <= added
        /\ resets = 0 => sum[t] >= low[t]

\* Every call returns once the others stop calling: the retry loops of add,
\* value and reset go round again only when another thread made progress.
CallsReturn == \A t \in Thread : pc[t] # "idle" ~> pc[t] = "idle"
=============================================================================
