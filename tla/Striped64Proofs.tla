---------------------------- MODULE Striped64Proofs ----------------------------
(***************************************************************************)
(* Proofs about Striped64, for every number of threads, storages and       *)
(* slabs, every limit and width, and every hash code.                      *)
(*                                                                         *)
(* CurIsAllocated fails in general: when the thread that installed the     *)
(* first storage loses the race to grow it, it does not load stripes_      *)
(* again and goes on with a storage that another thread retires.           *)
(* InstallersWin says that this does not happen, and under it the storages *)
(* stay allocated, the slabs stay owned, and no count is lost.  A counter  *)
(* made with Striped64(k), and one with a limit of two slabs, need no      *)
(* such hypothesis.                                                        *)
(*                                                                         *)
(* Structure is the part of the invariant about memory: what a storage     *)
(* looks like, that the current storage and the retired ones have prefixes *)
(* of the same slabs, that a storage under construction is its maker's     *)
(* alone, which storages the hazards keep, and that every slab has one     *)
(* owner.  Counting is the part about values: base_ and the cells of the   *)
(* current storage hold what was added less what was discarded, and a sum  *)
(* in progress lies between the counter's value when it began and all that *)
(* has been added.                                                         *)
(***************************************************************************)
EXTENDS Striped64, SumsProofs, SequenceTheorems, TLAPS

-----------------------------------------------------------------------------
(* Powers of two *)

\* Pow2 doubles.
LEMMA Pow2Steps ==
    /\ Pow2[0] = 1
    /\ \A n \in Nat : Pow2[n + 1] = 2 * Pow2[n]
<1> DEFINE step == [n \in Nat |-> [v \in Nat |-> 2 * v]]
           Eq(g) == g = [n \in Nat |-> IF n = 0 THEN 1 ELSE 2 * g[n - 1]]
<1>1. step \in [Nat -> [Nat -> Nat]]
    OBVIOUS
<1>2. PICK g \in [Nat -> Nat] : TakesAll(g, 1, step)
    <2> HIDE DEF step
    <2> QED  BY <1>1, RecursionExists
<1>3. g[0] = 1 /\ \A k \in Nat : g[k + 1] = 2 * g[k]
    BY <1>2 DEF TakesAll
<1>4. \A k \in Nat : g[k] = IF k = 0 THEN 1 ELSE 2 * g[k - 1]
    <2> TAKE k \in Nat
    <2>1. CASE k = 0
        BY <2>1, <1>3
    <2>2. CASE k # 0
        <3>1. k - 1 \in Nat
            BY <2>2
        <3> QED  BY <3>1, <2>2, <1>3
    <2> QED  BY <2>1, <2>2
<1>5. Eq(g)
    BY <1>4
<1>6. Pow2 = CHOOSE h : Eq(h)
    BY Zenon DEF Pow2
<1> HIDE DEF Eq
<1>7. Eq(Pow2)
    BY <1>5, <1>6
<1>8. Pow2 = [n \in Nat |-> IF n = 0 THEN 1 ELSE 2 * Pow2[n - 1]]
    BY <1>7 DEF Eq
<1>9. Pow2[0] = 1
    BY <1>8
<1>10. ASSUME NEW n \in Nat
       PROVE  Pow2[n + 1] = 2 * Pow2[n]
    BY <1>8
<1> QED  BY <1>9, <1>10

\* Powers of two are positive.
LEMMA Pow2Type == \A n \in Nat : Pow2[n] \in Nat \ {0}
<1> DEFINE T == {n \in Nat : Pow2[n] \in Nat \ {0}}
<1>1. 0 \in T
    BY Pow2Steps
<1>2. ASSUME NEW n \in Nat, n \in T
      PROVE  n + 1 \in T
    BY <1>2, Pow2Steps
<1> HIDE DEF T
<1>3. Nat \subseteq T
    BY <1>1, <1>2, Induction
<1> QED  BY <1>3 DEF T

\* Pow2 is increasing.
LEMMA Pow2Mono == \A m, n \in Nat : m < n => 2 * Pow2[m] <= Pow2[n]
<1> SUFFICES ASSUME NEW m \in Nat
             PROVE  \A n \in Nat : m < n => 2 * Pow2[m] <= Pow2[n]
    OBVIOUS
<1> DEFINE T == {n \in Nat : m < n => 2 * Pow2[m] <= Pow2[n]}
<1>1. 0 \in T
    OBVIOUS
<1>2. ASSUME NEW n \in Nat, n \in T
      PROVE  n + 1 \in T
    <2>1. Pow2[n + 1] = 2 * Pow2[n] /\ Pow2[n] \in Nat /\ Pow2[m] \in Nat
        BY Pow2Steps, Pow2Type
    <2>2. CASE m = n
        BY <2>1, <2>2
    <2>3. CASE m # n
        BY <2>1, <2>3, <1>2
    <2> QED  BY <2>2, <2>3
<1> HIDE DEF T
<1>3. Nat \subseteq T
    BY <1>1, <1>2, Induction
<1> QED  BY <1>3 DEF T

-----------------------------------------------------------------------------
(* Slabs and offsets *)

\* The number of elements grows with the number of slabs.
LEMMA SizeMono == \A m, n \in Nat : m <= n => Pow2[m] <= Pow2[n]
<1> SUFFICES ASSUME NEW m \in Nat, NEW n \in Nat, m < n
             PROVE  Pow2[m] <= Pow2[n]
    BY Pow2Type
<1>1. 2 * Pow2[m] <= Pow2[n]
    BY Pow2Mono
<1> QED  BY <1>1, Pow2Type

\* SlabNo finds the slab: the elements below 2^n are in the first n slabs.
LEMMA SlabNoIs ==
    ASSUME NEW i \in Nat, NEW n \in 1..MaxLevel, i < Pow2[n]
    PROVE  /\ SlabNo(i) \in 1..n
           /\ i < Pow2[SlabNo(i)]
           /\ SlabNo(i) = 1 \/ i >= Pow2[SlabNo(i) - 1]
<1> DEFINE T == {l \in Nat : l >= 1 /\ i < Pow2[l]}
           Is(l) == i < Pow2[l] /\ (l = 1 \/ i >= Pow2[l - 1])
<1>0. MaxLevel \in Nat /\ \A l \in Nat : Pow2[l] \in Nat
    BY LimitAssumption, Pow2Type
<1>1. PICK l \in T : \A k \in T : l <= k
    <2>1. n \in T
        BY <1>0
    <2> HIDE DEF T
    <2>2. T \subseteq Nat
        BY DEF T
    <2> QED  BY <2>1, <2>2, LeastNumber
<1>2. l \in 1..n /\ l \in 1..MaxLevel
    <2>1. n \in T
        BY <1>0
    <2> QED  BY <2>1, <1>0, <1>1
<1>3. Is(l)
    <2> SUFFICES ASSUME l # 1
                 PROVE  i >= Pow2[l - 1]
        BY <1>1
    <2>1. l - 1 \notin T /\ l - 1 \in Nat /\ l - 1 >= 1
        BY <1>1
    <2> QED  BY <2>1, <1>0
<1>4. SlabNo(i) = CHOOSE k \in 1..MaxLevel : Is(k)
    BY DEF SlabNo
<1>5. SlabNo(i) \in 1..MaxLevel /\ Is(SlabNo(i))
    <2> HIDE DEF Is
    <2> QED  BY <1>2, <1>3, <1>4
<1>6. SlabNo(i) <= n
    <2> SUFFICES ASSUME SlabNo(i) > n
                 PROVE  FALSE
        BY <1>0, <1>5
    <2>1. SlabNo(i) # 1 /\ SlabNo(i) - 1 \in Nat /\ SlabNo(i) - 1 >= n
        BY <1>5, <1>0
    <2>2. i >= Pow2[SlabNo(i) - 1]
        BY <1>5, <2>1
    <2>3. Pow2[n] <= Pow2[SlabNo(i) - 1]
        BY <2>1, SizeMono
    <2> QED  BY <2>2, <2>3, <1>0, <2>1
<1> QED  BY <1>0, <1>5, <1>6

\* Elements 0 and 1 are in slab 1, the others are not.
LEMMA FirstSlab ==
    ASSUME NEW i \in Nat, i < Pow2[MaxLevel]
    PROVE  SlabNo(i) = 1 <=> i < 2
<1>0. MaxLevel \in 1..MaxLevel /\ \A l \in Nat : Pow2[l] \in Nat
    BY LimitAssumption, Pow2Type
<1>1. Pow2[1] = 2
    <2>1. Pow2[0 + 1] = 2 * Pow2[0] /\ Pow2[0] = 1
        BY Pow2Steps
    <2> QED  BY <2>1
<1>2. /\ SlabNo(i) \in 1..MaxLevel
      /\ i < Pow2[SlabNo(i)]
      /\ SlabNo(i) = 1 \/ i >= Pow2[SlabNo(i) - 1]
    BY <1>0, SlabNoIs
<1>3. ASSUME SlabNo(i) # 1
      PROVE  i >= 2
    <2>1. SlabNo(i) - 1 \in Nat /\ SlabNo(i) - 1 >= 1
        BY <1>0, <1>2, <1>3, LimitAssumption
    <2>2. PICK k \in Nat : k = SlabNo(i) - 1 /\ k >= 1
        BY <2>1
    <2>3. Pow2[1] <= Pow2[k]
        BY <2>2, SizeMono
    <2> QED  BY <2>2, <2>3, <1>0, <1>1, <1>2, <1>3
<1>4. ASSUME SlabNo(i) = 1
      PROVE  i < 2
    BY <1>1, <1>2, <1>4
<1> QED  BY <1>3, <1>4

\* A place in a slab.
LEMMA OffsetType ==
    ASSUME NEW i \in Nat, i < Pow2[MaxLevel]
    PROVE  Offset(i) \in 0..Width
<1>0. /\ MaxLevel \in 1..MaxLevel /\ MaxLevel - 1 \in Nat
      /\ \A l \in Nat : Pow2[l] \in Nat \ {0}
    BY LimitAssumption, Pow2Type
<1>1. Width \in Nat \ {0}
    BY <1>0 DEF Width
<1>2. CASE i < 2
    BY <1>1, <1>2 DEF Offset
<1>3. CASE ~(i < 2)
    <2>1. SlabNo(i) # 1
        BY <1>3, FirstSlab
    <2>2. /\ SlabNo(i) \in 1..MaxLevel
          /\ i < Pow2[SlabNo(i)]
          /\ i >= Pow2[SlabNo(i) - 1]
        BY <1>0, <2>1, SlabNoIs
    <2>3. PICK k \in Nat : k = SlabNo(i) - 1 /\ k <= MaxLevel - 1 /\ SlabNo(i) = k + 1
        BY <2>1, <2>2, <1>0
    <2>4. Pow2[k + 1] = 2 * Pow2[k]
        BY Pow2Steps
    <2>5. Pow2[k] <= Width
        BY <2>3, <1>0, SizeMono DEF Width
    <2>6. i < 2 * Pow2[k] /\ i >= Pow2[k] /\ Pow2[k] \in Nat
        BY <2>2, <2>3, <2>4, <1>0
    <2>7. Offset(i) = i - Pow2[k]
        BY <1>3, <2>3 DEF Offset
    <2> QED  BY <2>5, <2>6, <2>7, <1>1
<1> QED  BY <1>2, <1>3

\* No two elements share a place.
LEMMA PlaceUnique ==
    ASSUME NEW i \in Nat, NEW j \in Nat, i < Pow2[MaxLevel], j < Pow2[MaxLevel],
           SlabNo(i) = SlabNo(j), Offset(i) = Offset(j)
    PROVE  i = j
<1>1. i < 2 <=> j < 2
    BY FirstSlab
<1>2. CASE i < 2
    BY <1>1, <1>2 DEF Offset
<1>3. CASE ~(i < 2)
    <2>1. PICK k : k = Pow2[SlabNo(i) - 1]
        OBVIOUS
    <2>2. Offset(i) = i - k /\ Offset(j) = j - k
        BY <1>1, <1>3, <2>1 DEF Offset
    <2>3. k \in Nat
        <3>1. MaxLevel \in 1..MaxLevel
            BY LimitAssumption
        <3>2. SlabNo(i) - 1 \in Nat
            BY <3>1, SlabNoIs
        <3> QED  BY <3>2, <2>1, Pow2Type
    <2>4. i - k = j - k
        BY <2>2, Zenon
    <2> QED  BY <2>3, <2>4
<1> QED  BY <1>2, <1>3

-----------------------------------------------------------------------------
(* The invariant *)

Label == {"idle", "base_read", "base_cas", "hz_load", "hz_set", "hz_check",
          "install", "install_cas", "read", "cas", "expand", "grow", "retire",
          "clear", "v_load", "v_set", "v_check", "v_sum", "return", "zero"}
Op == {"add", "addSlow", "value", "reset"}
Record == [slabs : Seq(Slab), owner : BOOLEAN, clean : BOOLEAN]

TotalTypes ==
    /\ base \in Nat /\ added \in Nat /\ discarded \in Nat
    /\ reads \in Nat /\ resets \in Nat
    /\ live \in BOOLEAN

HeapTypes ==
    /\ stripes \in Storage \cup {Null}
    /\ store \in [Storage -> Record]
    /\ cells \in [Slab -> [0..Width -> Nat]]
    /\ slabs \in SUBSET Slab
    /\ retired \in SUBSET Storage

ThreadTypes ==
    /\ hazard \in [Thread -> Storage \cup {Null}]
    /\ pc \in [Thread -> Label]
    /\ op \in [Thread -> Op]
    /\ cur \in [Thread -> Storage \cup {Null}]
    /\ next \in [Thread -> Storage \cup {Null}]
    /\ load \in [Thread -> BOOLEAN]
    /\ contended \in [Thread -> BOOLEAN]
    /\ idx \in [Thread -> Nat]
    /\ expected \in [Thread -> Nat]
    /\ sum \in [Thread -> Nat]
    /\ low \in [Thread -> Nat]
    /\ adds \in [Thread -> Nat]

Types == TotalTypes /\ HeapTypes /\ ThreadTypes

\* p is a prefix of q.
Prefix(p, q) == Len(p) <= Len(q) /\ \A l \in 1..Len(p) : p[l] = q[l]

\* The storage that only thread t knows of: one that it constructed and has
\* not published.
Mine(t) == IF pc[t] = "grow" THEN next[t]
           ELSE IF pc[t] = "install_cas" THEN cur[t] ELSE Null
Private(s) == \E t \in Thread : Mine(t) = s
Retires(t, s) == pc[t] = "retire" /\ cur[t] = s

\* Each storage by itself.
StorageOf(s) ==
    LET r == store[s]
    IN  /\ Len(r.slabs) <= MaxLevel
        /\ r.clean = r.owner
        /\ r.owner => r.slabs # << >>
        /\ \A i, j \in 1..Len(r.slabs) : r.slabs[i] = r.slabs[j] => i = j
        /\ r.owner => s = stripes \/ Private(s) \/ \E t \in Thread : Retires(t, s)
        /\ s \in retired => r.slabs # << >> /\ ~r.owner /\ s # stripes /\ ~Private(s)
        /\ live => \A l \in 1..Len(r.slabs) : r.slabs[l] \in slabs

\* The slabs of a published storage are those the current one started with.
Grown(s) ==
    Allocated(s) /\ ~Private(s) =>
        /\ stripes # Null
        /\ Prefix(store[s].slabs, store[stripes].slabs)
        /\ s # stripes => Len(store[s].slabs) < Len(store[stripes].slabs)

Published ==
    /\ stripes # Null => live /\ Allocated(stripes) /\ store[stripes].owner /\ ~Private(stripes)
    /\ live => \A s \in Storage : Grown(s)

\* A private storage: nobody else has its newest slab, whose cells are zero.
PrivateOf(t) ==
    Mine(t) # Null =>
        LET q == store[Mine(t)].slabs
        IN  /\ q # << >> /\ store[Mine(t)].owner
            /\ \A s \in Storage \ {Mine(t)} : \A l \in 1..Len(store[s].slabs) : store[s].slabs[l] # q[Len(q)]
            /\ cells[q[Len(q)]] = Empty
            /\ \A u \in Thread \ {t} : Mine(u) # Mine(t)

\* The storage a thread works on cannot go away.
Held(t) ==
    /\ stripes # Null
    /\ Allocated(cur[t]) /\ ~Private(cur[t])
    /\ hazard[t] = cur[t] \/ (cur[t] = stripes /\ Len(store[stripes].slabs) = MaxLevel)

ThreadOf(t) ==
    /\ ~live => pc[t] = "idle"
    /\ pc[t] # "grow" => next[t] = Null
    /\ pc[t] \notin {"read", "cas", "expand", "grow", "retire", "clear"} => load[t]
    /\ pc[t] \notin {"cas", "v_sum", "zero"} => idx[t] = 0
    /\ pc[t] \in {"read", "cas", "expand", "grow", "retire", "v_sum", "zero"} => Held(t)
    /\ pc[t] \in {"cas", "v_sum", "zero"} => idx[t] < Size(cur[t])
    /\ pc[t] \in {"hz_check", "v_check", "install_cas"} => hazard[t] = cur[t]
    /\ pc[t] \in {"v_set", "v_check"} => cur[t] # Null
    /\ pc[t] \in {"hz_load", "hz_set", "hz_check"} /\ op[t] # "reset" => stripes # Null
    /\ pc[t] \in {"expand", "grow", "retire"} =>
          /\ Len(store[cur[t]].slabs) < MaxLevel
          /\ hazard[t] = cur[t]
    /\ pc[t] = "install_cas" => Mine(t) # Null /\ Len(store[cur[t]].slabs) = 1
    /\ pc[t] = "grow" =>
          /\ Mine(t) # Null
          /\ \E b \in Slab : store[next[t]].slabs = Append(store[cur[t]].slabs, b)
    /\ pc[t] = "retire" =>
          /\ cur[t] # stripes /\ cur[t] \notin retired
          /\ \A u \in Thread \ {t} : ~Retires(u, cur[t])

OwnedSlabs == slabs = UNION {Owned(store[s]) : s \in Storage}

Structure ==
    /\ Types
    /\ \A s \in Storage : StorageOf(s)
    /\ Published
    /\ \A t \in Thread : PrivateOf(t)
    /\ \A t \in Thread : ThreadOf(t)
    /\ OwnedSlabs

\* What the counter holds, by index.
InCells == IF stripes = Null THEN [i \in Nat |-> 0] ELSE Counts(stripes)

Limit == Pow2[MaxLevel]
Balance == live => added = base + SumBelow(InCells, Limit) + discarded

\* Where add and reset are, and not value.
Adding == {"base_read", "base_cas", "hz_load", "hz_set", "hz_check", "install", "install_cas",
           "read", "cas", "expand", "grow", "retire"}

\* A call of value that has read the cells below idx[t].
InValue(t) == pc[t] \in {"v_load", "v_set", "v_check", "v_sum"}
Summed(t) == pc[t] = "return" \/ (pc[t] = "clear" /\ op[t] = "value")
Reached(t) == IF pc[t] = "v_sum" THEN Size(cur[t]) ELSE Limit
ReadingOf(t) ==
    /\ InValue(t) => sum[t] <= base + SumBelow(InCells, idx[t]) + discarded
    /\ InValue(t) /\ resets = 0 =>
          low[t] + SumBelow(InCells, idx[t]) <= sum[t] + SumBelow(InCells, Reached(t))
    /\ Summed(t) => sum[t] <= added
    /\ Summed(t) /\ resets = 0 => low[t] <= sum[t]
    /\ InValue(t) => op[t] = "value"
    /\ pc[t] \in {"zero", "hz_check", "hz_set", "hz_load"} /\ op[t] = "reset" => resets # 0
    /\ pc[t] = "zero" => op[t] = "reset"
    /\ pc[t] \in Adding => op[t] # "value" /\ (op[t] = "reset" => pc[t] \in {"hz_load", "hz_set", "hz_check"})

Counting ==
    /\ Balance
    /\ resets = 0 => discarded = 0
    /\ \A t \in Thread : ReadingOf(t)

\* A first installer never loses the race to grow while the storage it finds
\* can still be outgrown
InstallerLoses(t) == GrowFailed(t) /\ ~load[t] /\ Len(store[stripes].slabs) < MaxLevel

-----------------------------------------------------------------------------
(* What each action does *)

\* No other thread's variables change.
Others(t) ==
    \A u \in Thread : u # t =>
        /\ pc'[u] = pc[u] /\ op'[u] = op[u] /\ hazard'[u] = hazard[u]
        /\ cur'[u] = cur[u] /\ next'[u] = next[u] /\ load'[u] = load[u]
        /\ idx'[u] = idx[u] /\ sum'[u] = sum[u] /\ low'[u] = low[u]

HeapKept == stripes' = stripes /\ store' = store /\ slabs' = slabs /\ retired' = retired /\ live' = live
TotalsKept == base' = base /\ added' = added /\ discarded' = discarded /\ resets' = resets
ReadKept(t) == sum'[t] = sum[t] /\ low'[t] = low[t]

\* One lemma per action: the values it leaves and those it keeps.

\* AddBegin.
LEMMA AddBeginDoes ==
    ASSUME Types, NEW t \in Thread, AddBegin(t)
    PROVE  /\ live /\ pc[t] = "idle"
           /\ cur'[t] = stripes /\ op'[t] = "add"
           /\ pc'[t] = IF stripes = Null THEN "base_read" ELSE "hz_load"
           /\ hazard'[t] = hazard[t] /\ next'[t] = next[t] /\ load'[t] = load[t]
           /\ idx'[t] = idx[t]
           /\ Others(t) /\ HeapKept /\ cells' = cells /\ TotalsKept /\ ReadKept(t)
BY DEF AddBegin, Types, TotalTypes, HeapTypes, ThreadTypes, shared, protect, locals, total,
   calls, Goto, Others, HeapKept, TotalsKept, ReadKept

\* BaseRead.
LEMMA BaseReadDoes ==
    ASSUME Types, NEW t \in Thread, BaseRead(t)
    PROVE  /\ pc[t] = "base_read" /\ pc'[t] = "base_cas"
           /\ op'[t] = op[t] /\ hazard'[t] = hazard[t] /\ cur'[t] = cur[t]
           /\ next'[t] = next[t] /\ load'[t] = load[t] /\ idx'[t] = idx[t]
           /\ Others(t) /\ HeapKept /\ cells' = cells /\ TotalsKept /\ ReadKept(t)
BY DEF BaseRead, Types, TotalTypes, HeapTypes, ThreadTypes, shared, protect, locals, total,
   calls, Goto, Others, HeapKept, TotalsKept, ReadKept

\* BaseCas.
LEMMA BaseCasDoes ==
    ASSUME Types, NEW t \in Thread, BaseCas(t)
    PROVE  /\ pc[t] = "base_cas"
           /\ \/ pc'[t] = "idle" /\ op'[t] = op[t] /\ base' = base + 1 /\ added' = added + 1
              \/ pc'[t] = "install" /\ op'[t] = "addSlow" /\ base' = base /\ added' = added
           /\ discarded' = discarded /\ resets' = resets
           /\ hazard'[t] = hazard[t] /\ cur'[t] = cur[t] /\ next'[t] = next[t]
           /\ load'[t] = load[t] /\ idx'[t] = idx[t]
           /\ Others(t) /\ HeapKept /\ cells' = cells /\ ReadKept(t)
BY DEF BaseCas, Types, TotalTypes, HeapTypes, ThreadTypes, shared, protect, locals, total,
   calls, Goto, Others, HeapKept, TotalsKept, ReadKept

\* HzLoad.
LEMMA HzLoadDoes ==
    ASSUME Types, NEW t \in Thread, HzLoad(t)
    PROVE  /\ pc[t] = "hz_load" /\ pc'[t] = "hz_set" /\ cur'[t] = stripes
           /\ op'[t] = op[t] /\ hazard'[t] = hazard[t] /\ next'[t] = next[t]
           /\ load'[t] = load[t] /\ idx'[t] = idx[t]
           /\ Others(t) /\ HeapKept /\ cells' = cells /\ TotalsKept /\ ReadKept(t)
BY DEF HzLoad, Types, TotalTypes, HeapTypes, ThreadTypes, shared, protect, locals, total,
   calls, Goto, Others, HeapKept, TotalsKept, ReadKept

\* HzSet.
LEMMA HzSetDoes ==
    ASSUME Types, NEW t \in Thread, HzSet(t)
    PROVE  /\ pc[t] = "hz_set" /\ pc'[t] = "hz_check" /\ hazard'[t] = cur[t]
           /\ op'[t] = op[t] /\ cur'[t] = cur[t] /\ next'[t] = next[t] /\ load'[t] = load[t]
           /\ idx'[t] = idx[t]
           /\ Others(t) /\ HeapKept /\ cells' = cells /\ TotalsKept /\ ReadKept(t)
BY DEF HzSet, Types, TotalTypes, HeapTypes, ThreadTypes, shared, protect, locals, total,
   calls, Goto, Others, HeapKept, TotalsKept, ReadKept

\* HzCheck.
LEMMA HzCheckDoes ==
    ASSUME Types, NEW t \in Thread, HzCheck(t)
    PROVE  /\ pc[t] = "hz_check"
           /\ pc'[t] = IF stripes # cur[t] THEN "hz_load"
                       ELSE IF op[t] # "reset" THEN "read"
                       ELSE IF cur[t] = Null THEN "idle" ELSE "zero"
           /\ op'[t] = op[t] /\ hazard'[t] = hazard[t] /\ cur'[t] = cur[t]
           /\ next'[t] = next[t] /\ load'[t] = load[t] /\ idx'[t] = idx[t]
           /\ Others(t) /\ HeapKept /\ cells' = cells /\ TotalsKept /\ ReadKept(t)
BY DEF HzCheck, Types, TotalTypes, HeapTypes, ThreadTypes, shared, protect, locals, total,
   calls, Goto, Others, HeapKept, TotalsKept, ReadKept

\* Read.
LEMMA ReadDoes ==
    ASSUME Types, NEW t \in Thread, Read(t)
    PROVE  /\ pc[t] = "read" /\ pc'[t] = "cas"
           /\ \E h \in HashCode : idx'[t] = h % Size(cur[t])
           /\ op'[t] = op[t] /\ hazard'[t] = hazard[t] /\ cur'[t] = cur[t]
           /\ next'[t] = next[t] /\ load'[t] = load[t]
           /\ Others(t) /\ HeapKept /\ cells' = cells /\ TotalsKept /\ ReadKept(t)
BY DEF Read, Types, TotalTypes, HeapTypes, ThreadTypes, shared, protect, locals, total,
   calls, Goto, Others, HeapKept, TotalsKept, ReadKept

\* CasDone.
LEMMA CasDoneDoes ==
    ASSUME Types, NEW t \in Thread, CasDone(t)
    PROVE  /\ pc[t] = "cas" /\ pc'[t] = "clear" /\ idx'[t] = 0
           /\ Get(cur[t], idx[t]) = expected[t] /\ Put(cur[t], idx[t], expected[t] + 1)
           /\ base' = base /\ added' = added + 1 /\ discarded' = discarded /\ resets' = resets
           /\ op'[t] = op[t] /\ hazard'[t] = hazard[t] /\ cur'[t] = cur[t]
           /\ next'[t] = next[t] /\ load'[t] = load[t]
           /\ Others(t) /\ HeapKept /\ ReadKept(t)
BY DEF CasDone, Types, TotalTypes, HeapTypes, ThreadTypes, shared, protect, locals, total,
   calls, Goto, Others, HeapKept, TotalsKept, ReadKept

\* CasFailed.
LEMMA CasFailedDoes ==
    ASSUME Types, NEW t \in Thread, CasFailed(t)
    PROVE  /\ pc[t] = "cas" /\ op'[t] = "addSlow" /\ idx'[t] = 0
           /\ \/ pc'[t] = "expand" /\ Len(store[cur[t]].slabs) < MaxLevel
              \/ pc'[t] = IF load[t] THEN "hz_load" ELSE "read"
           /\ hazard'[t] = hazard[t] /\ cur'[t] = cur[t] /\ next'[t] = next[t]
           /\ load'[t] = load[t]
           /\ Others(t) /\ HeapKept /\ cells' = cells /\ TotalsKept /\ ReadKept(t)
BY DEF CasFailed, Again, Types, TotalTypes, HeapTypes, ThreadTypes, shared, protect, locals,
   total, calls, Goto, Others, HeapKept, TotalsKept, ReadKept

\* GrowDone.
LEMMA GrowDoneDoes ==
    ASSUME Types, NEW t \in Thread, GrowDone(t)
    PROVE  /\ pc[t] = "grow" /\ pc'[t] = "retire" /\ next'[t] = Null
           /\ stripes = cur[t] /\ stripes' = next[t]
           /\ store' = store /\ slabs' = slabs /\ retired' = retired /\ live' = live
           /\ op'[t] = op[t] /\ hazard'[t] = hazard[t] /\ cur'[t] = cur[t]
           /\ load'[t] = load[t] /\ idx'[t] = idx[t]
           /\ Others(t) /\ cells' = cells /\ TotalsKept /\ ReadKept(t)
BY DEF GrowDone, Types, TotalTypes, HeapTypes, ThreadTypes, shared, protect, locals, total,
   calls, Goto, Others, HeapKept, TotalsKept, ReadKept

\* GrowFailed.
LEMMA GrowFailedDoes ==
    ASSUME Types, NEW t \in Thread, GrowFailed(t)
    PROVE  /\ pc[t] = "grow" /\ cur'[t] = stripes /\ next'[t] = Null
           /\ stripes # cur[t] /\ stripes' = stripes
           /\ pc'[t] = IF load[t] THEN "hz_load" ELSE "read"
           /\ slabs' = slabs \ Owned(Disavow(store[next[t]]))
           /\ store' = [store EXCEPT ![next[t]] = NoStorage]
           /\ retired' = retired /\ live' = live
           /\ op'[t] = op[t] /\ hazard'[t] = hazard[t] /\ load'[t] = load[t] /\ idx'[t] = idx[t]
           /\ Others(t) /\ cells' = cells /\ TotalsKept /\ ReadKept(t)
BY DEF GrowFailed, Again, Destruct, Types, TotalTypes, HeapTypes, ThreadTypes, shared,
   protect, locals, total, calls, Goto, Others, HeapKept, TotalsKept, ReadKept

\* RetireCur.
LEMMA RetireCurDoes ==
    ASSUME Types, NEW t \in Thread, RetireCur(t)
    PROVE  /\ pc[t] = "retire"
           /\ pc'[t] = IF load[t] THEN "hz_load" ELSE "read"
           /\ store' = [store EXCEPT ![cur[t]] = DisavowAll(store[cur[t]])]
           /\ retired' = retired \cup {cur[t]}
           /\ stripes' = stripes /\ slabs' = slabs /\ live' = live
           /\ op'[t] = op[t] /\ hazard'[t] = hazard[t] /\ cur'[t] = cur[t]
           /\ next'[t] = next[t] /\ load'[t] = load[t] /\ idx'[t] = idx[t]
           /\ Others(t) /\ cells' = cells /\ TotalsKept /\ ReadKept(t)
BY DEF RetireCur, Again, Types, TotalTypes, HeapTypes, ThreadTypes, shared, protect, locals,
   total, calls, Goto, Others, HeapKept, TotalsKept, ReadKept

\* Clear.
LEMMA ClearDoes ==
    ASSUME Types, NEW t \in Thread, Clear(t)
    PROVE  /\ pc[t] = "clear" /\ pc'[t] = IF op[t] = "value" THEN "return" ELSE "idle"
           /\ hazard'[t] = Null /\ cur'[t] = Null /\ load'[t] = TRUE
           /\ op'[t] = op[t] /\ next'[t] = next[t] /\ idx'[t] = idx[t]
           /\ Others(t) /\ HeapKept /\ cells' = cells /\ TotalsKept /\ ReadKept(t)
BY DEF Clear, Types, TotalTypes, HeapTypes, ThreadTypes, shared, protect, locals, total,
   calls, Goto, Others, HeapKept, TotalsKept, ReadKept

\* ValueBegin.
LEMMA ValueBeginDoes ==
    ASSUME Types, NEW t \in Thread, ValueBegin(t)
    PROVE  /\ live /\ pc[t] = "idle" /\ pc'[t] = "v_load" /\ op'[t] = "value"
           /\ sum'[t] = base /\ low'[t] = added
           /\ hazard'[t] = hazard[t] /\ cur'[t] = cur[t] /\ next'[t] = next[t]
           /\ load'[t] = load[t] /\ idx'[t] = idx[t]
           /\ Others(t) /\ HeapKept /\ cells' = cells /\ TotalsKept
BY DEF ValueBegin, Types, TotalTypes, HeapTypes, ThreadTypes, shared, protect, locals,
   total, calls, Goto, Others, HeapKept, TotalsKept, ReadKept

\* ValueLoad.
LEMMA ValueLoadDoes ==
    ASSUME Types, NEW t \in Thread, ValueLoad(t)
    PROVE  /\ pc[t] = "v_load" /\ cur'[t] = stripes
           /\ pc'[t] = IF stripes = Null THEN "return" ELSE "v_set"
           /\ op'[t] = op[t] /\ hazard'[t] = hazard[t] /\ next'[t] = next[t]
           /\ load'[t] = load[t] /\ idx'[t] = idx[t]
           /\ Others(t) /\ HeapKept /\ cells' = cells /\ TotalsKept /\ ReadKept(t)
BY DEF ValueLoad, Types, TotalTypes, HeapTypes, ThreadTypes, shared, protect, locals, total,
   calls, Goto, Others, HeapKept, TotalsKept, ReadKept

\* ValueSet.
LEMMA ValueSetDoes ==
    ASSUME Types, NEW t \in Thread, ValueSet(t)
    PROVE  /\ pc[t] = "v_set" /\ pc'[t] = "v_check" /\ hazard'[t] = cur[t]
           /\ op'[t] = op[t] /\ cur'[t] = cur[t] /\ next'[t] = next[t] /\ load'[t] = load[t]
           /\ idx'[t] = idx[t]
           /\ Others(t) /\ HeapKept /\ cells' = cells /\ TotalsKept /\ ReadKept(t)
BY DEF ValueSet, Types, TotalTypes, HeapTypes, ThreadTypes, shared, protect, locals, total,
   calls, Goto, Others, HeapKept, TotalsKept, ReadKept

\* ValueCheck.
LEMMA ValueCheckDoes ==
    ASSUME Types, NEW t \in Thread, ValueCheck(t)
    PROVE  /\ pc[t] = "v_check" /\ pc'[t] = IF stripes = cur[t] THEN "v_sum" ELSE "v_load"
           /\ op'[t] = op[t] /\ hazard'[t] = hazard[t] /\ cur'[t] = cur[t]
           /\ next'[t] = next[t] /\ load'[t] = load[t] /\ idx'[t] = idx[t]
           /\ Others(t) /\ HeapKept /\ cells' = cells /\ TotalsKept /\ ReadKept(t)
BY DEF ValueCheck, Types, TotalTypes, HeapTypes, ThreadTypes, shared, protect, locals,
   total, calls, Goto, Others, HeapKept, TotalsKept, ReadKept

\* ValueSum.
LEMMA ValueSumDoes ==
    ASSUME Types, NEW t \in Thread, ValueSum(t)
    PROVE  /\ pc[t] = "v_sum" /\ sum'[t] = sum[t] + Get(cur[t], idx[t]) /\ low'[t] = low[t]
           /\ idx'[t] = (idx[t] + 1) % Size(cur[t])
           /\ pc'[t] = IF idx[t] = Size(cur[t]) - 1 THEN "clear" ELSE "v_sum"
           /\ op'[t] = op[t] /\ hazard'[t] = hazard[t] /\ cur'[t] = cur[t]
           /\ next'[t] = next[t] /\ load'[t] = load[t]
           /\ Others(t) /\ HeapKept /\ cells' = cells /\ TotalsKept
BY DEF ValueSum, Types, TotalTypes, HeapTypes, ThreadTypes, shared, protect, locals, total,
   calls, Goto, Others, HeapKept, TotalsKept, ReadKept

\* ValueReturn.
LEMMA ValueReturnDoes ==
    ASSUME Types, NEW t \in Thread, ValueReturn(t)
    PROVE  /\ pc[t] = "return" /\ pc'[t] = "idle"
           /\ op'[t] = op[t] /\ hazard'[t] = hazard[t] /\ cur'[t] = cur[t]
           /\ next'[t] = next[t] /\ load'[t] = load[t] /\ idx'[t] = idx[t]
           /\ Others(t) /\ HeapKept /\ cells' = cells /\ TotalsKept
BY DEF ValueReturn, Types, TotalTypes, HeapTypes, ThreadTypes, shared, protect, locals,
   total, calls, Goto, Others, HeapKept, TotalsKept, ReadKept

\* ResetBase.
LEMMA ResetBaseDoes ==
    ASSUME Types, NEW t \in Thread, ResetBase(t)
    PROVE  /\ live /\ pc[t] = "idle" /\ pc'[t] = "hz_load" /\ op'[t] = "reset"
           /\ base' = 0 /\ discarded' = discarded + base /\ added' = added
           /\ resets' = resets + 1
           /\ hazard'[t] = hazard[t] /\ cur'[t] = cur[t] /\ next'[t] = next[t]
           /\ load'[t] = load[t] /\ idx'[t] = idx[t]
           /\ Others(t) /\ HeapKept /\ cells' = cells /\ ReadKept(t)
BY DEF ResetBase, Types, TotalTypes, HeapTypes, ThreadTypes, shared, protect, locals, total,
   calls, Goto, Others, HeapKept, TotalsKept, ReadKept

\* ResetCell.
LEMMA ResetCellDoes ==
    ASSUME Types, NEW t \in Thread, ResetCell(t)
    PROVE  /\ pc[t] = "zero" /\ Put(cur[t], idx[t], 0)
           /\ base' = base /\ discarded' = discarded + Get(cur[t], idx[t]) /\ added' = added
           /\ resets' = resets
           /\ idx'[t] = (idx[t] + 1) % Size(cur[t])
           /\ pc'[t] = IF idx[t] = Size(cur[t]) - 1 THEN "clear" ELSE "zero"
           /\ op'[t] = op[t] /\ hazard'[t] = hazard[t] /\ cur'[t] = cur[t]
           /\ next'[t] = next[t] /\ load'[t] = load[t]
           /\ Others(t) /\ HeapKept /\ ReadKept(t)
BY DEF ResetCell, Types, TotalTypes, HeapTypes, ThreadTypes, shared, protect, locals, total,
   calls, Goto, Others, HeapKept, TotalsKept, ReadKept

\* A new storage at s: the slabs q and a new one, b.
New(s, q, b) ==
    /\ store[s].slabs = << >>
    /\ b \notin slabs
    /\ slabs' = slabs \cup {b}
    /\ cells' = [cells EXCEPT ![b] = Empty]
    /\ store' = [store EXCEPT ![s] = [slabs |-> Append(q, b), owner |-> TRUE, clean |-> TRUE]]

\* Construct finds a free slab.
LEMMA ConstructDoes ==
    ASSUME HeapTypes, NEW s \in Storage, NEW q, Construct(s, q)
    PROVE  \E b \in Slab : New(s, q, b)
<1> DEFINE b == CHOOSE x \in Slab : x \notin slabs
<1>1. b \in Slab /\ b \notin slabs
    BY DEF Construct, HeapTypes
<1>2. slabs' = slabs \cup {b} /\ cells' = [cells EXCEPT ![b] = Empty]
    BY DEF Construct
<1>3. store' = [store EXCEPT ![s] = [slabs |-> Append(q, b), owner |-> TRUE, clean |-> TRUE]]
    BY DEF Construct
<1>4. store[s].slabs = << >>
    BY DEF Construct, Allocated
<1> HIDE DEF b
<1>5. New(s, q, b)
    BY <1>1, <1>2, <1>3, <1>4 DEF New
<1> QED  BY <1>1, <1>5

\* InstallNew.
LEMMA InstallNewDoes ==
    ASSUME Types, NEW t \in Thread, InstallNew(t)
    PROVE  /\ pc[t] = "install" /\ pc'[t] = "install_cas"
           /\ \E s \in Storage, b \in Slab : New(s, << >>, b) /\ cur'[t] = s /\ hazard'[t] = s
           /\ stripes' = stripes /\ retired' = retired /\ live' = live
           /\ op'[t] = op[t] /\ next'[t] = next[t] /\ load'[t] = load[t] /\ idx'[t] = idx[t]
           /\ Others(t) /\ TotalsKept /\ ReadKept(t)
<1>1. PICK s \in Storage : /\ Construct(s, << >>)
                           /\ cur' = [cur EXCEPT ![t] = s]
                           /\ hazard' = [hazard EXCEPT ![t] = s]
    BY DEF InstallNew
<1>2. PICK b \in Slab : New(s, << >>, b)
    BY <1>1, ConstructDoes DEF Types
<1>3. cur'[t] = s /\ hazard'[t] = s
    BY <1>1 DEF Types, ThreadTypes
<1>4. /\ pc[t] = "install" /\ pc'[t] = "install_cas"
      /\ stripes' = stripes /\ retired' = retired /\ live' = live
      /\ op'[t] = op[t] /\ next'[t] = next[t] /\ load'[t] = load[t] /\ idx'[t] = idx[t]
      /\ TotalsKept /\ ReadKept(t)
    BY DEF InstallNew, Goto, total, calls, TotalsKept, ReadKept, Types, ThreadTypes
<1>5. Others(t)
    BY <1>1 DEF InstallNew, Goto, Others, Types, ThreadTypes
<1> QED  BY <1>2, <1>3, <1>4, <1>5

\* ExpandCur.
LEMMA ExpandCurDoes ==
    ASSUME Types, NEW t \in Thread, ExpandCur(t)
    PROVE  /\ pc[t] = "expand" /\ pc'[t] = "grow"
           /\ \E s \in Storage, b \in Slab : New(s, store[cur[t]].slabs, b) /\ next'[t] = s
           /\ stripes' = stripes /\ retired' = retired /\ live' = live
           /\ op'[t] = op[t] /\ cur'[t] = cur[t] /\ hazard'[t] = hazard[t] /\ load'[t] = load[t]
           /\ idx'[t] = idx[t]
           /\ Others(t) /\ TotalsKept /\ ReadKept(t)
<1>1. PICK s \in Storage : /\ Construct(s, store[cur[t]].slabs)
                           /\ next' = [next EXCEPT ![t] = s]
    BY DEF ExpandCur
<1>2. PICK b \in Slab : New(s, store[cur[t]].slabs, b)
    BY <1>1, ConstructDoes DEF Types
<1>3. next'[t] = s
    BY <1>1 DEF Types, ThreadTypes
<1>4. /\ pc[t] = "expand" /\ pc'[t] = "grow"
      /\ stripes' = stripes /\ retired' = retired /\ live' = live
      /\ op'[t] = op[t] /\ cur'[t] = cur[t] /\ hazard'[t] = hazard[t] /\ load'[t] = load[t]
      /\ idx'[t] = idx[t]
      /\ TotalsKept /\ ReadKept(t)
    BY DEF ExpandCur, Goto, protect, total, calls, TotalsKept, ReadKept, Types, ThreadTypes
<1>5. Others(t)
    BY <1>1 DEF ExpandCur, Goto, protect, Others, Types, ThreadTypes
<1> QED  BY <1>2, <1>3, <1>4, <1>5

\* InstallCas, won or lost.
LEMMA InstallCasDoes ==
    ASSUME Types, NEW t \in Thread, InstallCas(t)
    PROVE  /\ pc[t] = "install_cas"
           /\ \/ /\ stripes = Null /\ stripes' = cur[t]
                 /\ load'[t] = FALSE /\ pc'[t] = "read"
                 /\ store' = store /\ slabs' = slabs
              \/ /\ stripes # Null /\ stripes' = stripes
                 /\ load'[t] = load[t] /\ pc'[t] = IF load[t] THEN "hz_load" ELSE "read"
                 /\ slabs' = slabs \ Owned(store[cur[t]])
                 /\ store' = [store EXCEPT ![cur[t]] = NoStorage]
           /\ retired' = retired /\ live' = live
           /\ op'[t] = op[t] /\ hazard'[t] = hazard[t] /\ cur'[t] = cur[t] /\ next'[t] = next[t]
           /\ idx'[t] = idx[t]
           /\ Others(t) /\ cells' = cells /\ TotalsKept /\ ReadKept(t)
<1>1. CASE stripes = Null
    BY <1>1 DEF InstallCas, Again, protect, total, calls, Goto, Others, TotalsKept, ReadKept,
                Types, ThreadTypes
<1>2. CASE stripes # Null
    BY <1>2
       DEF InstallCas, Again, Destruct, protect, total, calls, Goto, Others, TotalsKept,
           ReadKept,
                Types, ThreadTypes
<1> QED  BY <1>1, <1>2

\* The variables of the threads are kept.
ThreadsKept ==
    /\ pc' = pc /\ op' = op /\ cur' = cur /\ next' = next /\ load' = load
    /\ idx' = idx /\ sum' = sum /\ low' = low

\* Destroy.
LEMMA DestroyDoes ==
    ASSUME Types, Destroy
    PROVE  /\ live /\ live' = FALSE
           /\ \A t \in Thread : pc[t] = "idle"
           /\ \/ stripes = Null /\ slabs' = slabs /\ store' = store
              \/ /\ stripes # Null
                 /\ slabs' = slabs \ Owned(store[stripes])
                 /\ store' = [store EXCEPT ![stripes] = NoStorage]
           /\ stripes' = Null /\ retired' = retired /\ cells' = cells
           /\ ThreadsKept /\ hazard' = hazard /\ TotalsKept
BY DEF Destroy, Destruct, protect, locals, total, calls, ThreadsKept, TotalsKept

\* Reclaim.
LEMMA ReclaimDoes ==
    ASSUME Types, NEW s \in Storage, Reclaim(s)
    PROVE  /\ s \in retired /\ \A t \in Thread : hazard[t] # s
           /\ slabs' = slabs \ Owned(store[s])
           /\ store' = [store EXCEPT ![s] = NoStorage]
           /\ retired' = retired \ {s}
           /\ stripes' = stripes /\ live' = live /\ cells' = cells
           /\ ThreadsKept /\ hazard' = hazard /\ TotalsKept
BY DEF Reclaim, Destruct, locals, total, calls, ThreadsKept, TotalsKept

-----------------------------------------------------------------------------
(* Types *)

\* Every storage has a size.
LEMMA SizeType ==
    ASSUME HeapTypes, NEW s \in Storage
    PROVE  Len(store[s].slabs) \in Nat /\ Size(s) \in Nat \ {0}
<1>1. Len(store[s].slabs) \in Nat
    BY DEF HeapTypes, Record
<1> QED  BY <1>1, Pow2Type DEF Size

\* An element of a storage has a place in one of its slabs.
LEMMA PlaceOf ==
    ASSUME HeapTypes, NEW s \in Storage, store[s].slabs # << >>, Len(store[s].slabs) <= MaxLevel,
           NEW i \in Nat, i < Size(s)
    PROVE  /\ SlabNo(i) \in 1..Len(store[s].slabs)
           /\ SlabOf(s, i) \in Slab
           /\ Offset(i) \in 0..Width
           /\ i < Pow2[MaxLevel]
           /\ Get(s, i) \in Nat
<1>1. PICK q \in Seq(Slab) : q = store[s].slabs
    BY DEF HeapTypes, Record
<1>2. Len(q) \in 1..MaxLevel /\ MaxLevel \in Nat /\ Len(q) \in Nat
    BY <1>1, LimitAssumption
<1>3. i < Pow2[Len(q)]
    BY <1>1 DEF Size
<1>4. SlabNo(i) \in 1..Len(q)
    BY <1>2, <1>3, SlabNoIs
<1>5. i < Pow2[MaxLevel]
    <2>1. Pow2[Len(q)] <= Pow2[MaxLevel]
        BY <1>2, SizeMono
    <2> QED  BY <2>1, <1>2, <1>3, Pow2Type
<1>6. Offset(i) \in 0..Width
    BY <1>5, OffsetType
<1>7. SlabOf(s, i) \in Slab
    BY <1>1, <1>4 DEF SlabOf
<1> QED  BY <1>1, <1>4, <1>5, <1>6, <1>7 DEF Get, HeapTypes

\* The storage a thread works on exists.
LEMMA HeldIs ==
    ASSUME Structure, NEW t \in Thread,
           pc[t] \in {"read", "cas", "expand", "grow", "retire", "v_sum", "zero"}
    PROVE  /\ cur[t] \in Storage /\ store[cur[t]].slabs # << >>
           /\ Len(store[cur[t]].slabs) <= MaxLevel
           /\ stripes \in Storage
           /\ pc[t] \in {"cas", "v_sum", "zero"} => idx[t] < Size(cur[t])
<1>1. ThreadOf(t)
    BY DEF Structure
<1>2. Held(t)
    BY <1>1 DEF ThreadOf
<1>3. cur[t] \in Storage /\ store[cur[t]].slabs # << >>
    BY <1>2 DEF Held, Allocated
<1>4. Len(store[cur[t]].slabs) <= MaxLevel
    BY <1>3 DEF Structure, StorageOf
<1>5. stripes \in Storage
    BY <1>2 DEF Held, Structure, Types, HeapTypes
<1>6. pc[t] \in {"cas", "v_sum", "zero"} => idx[t] < Size(cur[t])
    BY <1>1 DEF ThreadOf
<1> QED  BY <1>3, <1>4, <1>5, <1>6

\* The remainder of a division is smaller than the divisor.
LEMMA ModRange == \A h \in Nat, n \in Nat \ {0} : h % n \in Nat /\ h % n < n
OBVIOUS

\* What disavow and disavow_all leave.
LEMMA DisavowIs ==
    ASSUME NEW r \in Record
    PROVE  /\ Disavow(r) \in Record /\ Disavow(r).slabs = r.slabs
           /\ ~Disavow(r).owner /\ Disavow(r).clean = r.clean
           /\ DisavowAll(r) \in Record /\ DisavowAll(r).slabs = r.slabs
           /\ ~DisavowAll(r).owner /\ ~DisavowAll(r).clean
<1>1. /\ Disavow(r) \in Record /\ Disavow(r).slabs = r.slabs
      /\ Disavow(r).owner = FALSE /\ Disavow(r).clean = r.clean
    BY DEF Disavow, Record
<1>2. PICK d \in Record : d = Disavow(r) /\ d.slabs = r.slabs /\ d.owner = FALSE
    BY <1>1
<1>3. DisavowAll(r) = [d EXCEPT !.clean = FALSE]
    BY <1>2 DEF DisavowAll
<1>4. PICK e : e = [d EXCEPT !.clean = FALSE]
    OBVIOUS
<1>5. e \in Record /\ e.slabs = d.slabs /\ e.owner = d.owner /\ e.clean = FALSE
    BY <1>4 DEF Record
<1>6. DisavowAll(r) = e
    BY <1>3, <1>4
<1> QED  BY <1>1, <1>2, <1>5, <1>6

\* The record of a storage that is gone and of a new one.
LEMMA RecordTypes ==
    /\ NoStorage \in Record
    /\ \A q \in Seq(Slab), b \in Slab :
          [slabs |-> Append(q, b), owner |-> TRUE, clean |-> TRUE] \in Record
BY DEF NoStorage, Record

\* A new slab is all zeros.
LEMMA EmptyType == Empty \in [0..Width -> Nat]
BY DEF Empty

\* Every step of a thread keeps the types.
LEMMA ThreadTypesStep ==
    ASSUME Structure, NEW t \in Thread, Step(t) \/ AddBegin(t) \/ ValueBegin(t) \/ ResetBase(t)
    PROVE  Types'
<1> USE DEF Label, Op
<1>0. Types
    BY DEF Structure
<1>1. CASE AddBegin(t)
    <2>1. TotalTypes' /\ HeapTypes'
        BY <1>0, <1>1
           DEF AddBegin, Types, TotalTypes, HeapTypes, Goto, shared, protect, total, calls
    <2>2. ThreadTypes'
        BY <1>0, <1>1
           DEF AddBegin, Types, TotalTypes, HeapTypes, ThreadTypes, Goto, shared, protect,
               locals, calls
    <2> QED  BY <2>1, <2>2 DEF Types
<1>2. CASE BaseRead(t)
    <2>1. TotalTypes' /\ HeapTypes'
        BY <1>0, <1>2
           DEF BaseRead, Types, TotalTypes, HeapTypes, Goto, shared, protect, total, calls
    <2>2. ThreadTypes'
        BY <1>0, <1>2
           DEF BaseRead, Types, TotalTypes, HeapTypes, ThreadTypes, Goto, shared, protect,
               locals, calls
    <2> QED  BY <2>1, <2>2 DEF Types
<1>3. CASE BaseCas(t)
    <2>1. TotalTypes' /\ HeapTypes'
        BY <1>0, <1>3
           DEF BaseCas, Types, TotalTypes, HeapTypes, Goto, shared, protect, total, calls
    <2>2. ThreadTypes'
        BY <1>0, <1>3
           DEF BaseCas, Types, TotalTypes, HeapTypes, ThreadTypes, Goto, shared, protect,
               locals, calls
    <2> QED  BY <2>1, <2>2 DEF Types
<1>4. CASE HzLoad(t)
    <2>1. TotalTypes' /\ HeapTypes'
        BY <1>0, <1>4
           DEF HzLoad, Types, TotalTypes, HeapTypes, Goto, shared, protect, total, calls
    <2>2. ThreadTypes'
        BY <1>0, <1>4
           DEF HzLoad, Types, TotalTypes, HeapTypes, ThreadTypes, Goto, shared, protect,
               locals, calls
    <2> QED  BY <2>1, <2>2 DEF Types
<1>5. CASE HzSet(t)
    <2>1. TotalTypes' /\ HeapTypes'
        BY <1>0, <1>5
           DEF HzSet, Types, TotalTypes, HeapTypes, Goto, shared, protect, total, calls
    <2>2. ThreadTypes'
        BY <1>0, <1>5
           DEF HzSet, Types, TotalTypes, HeapTypes, ThreadTypes, Goto, shared, protect,
               locals, calls
    <2> QED  BY <2>1, <2>2 DEF Types
<1>6. CASE HzCheck(t)
    <2>1. TotalTypes' /\ HeapTypes'
        BY <1>0, <1>6
           DEF HzCheck, Types, TotalTypes, HeapTypes, Goto, shared, protect, total, calls
    <2>2. ThreadTypes'
        BY <1>0, <1>6
           DEF HzCheck, Types, TotalTypes, HeapTypes, ThreadTypes, Goto, shared, protect,
               locals, calls
    <2> QED  BY <2>1, <2>2 DEF Types
<1>7. CASE CasFailed(t)
    <2>1. TotalTypes' /\ HeapTypes'
        BY <1>0, <1>7
           DEF CasFailed, Types, TotalTypes, HeapTypes, Goto, shared, protect, total, calls
    <2>2. ThreadTypes'
        BY <1>0, <1>7
           DEF CasFailed, Again, Types, TotalTypes, HeapTypes, ThreadTypes, Goto, shared,
               protect, locals, calls
    <2> QED  BY <2>1, <2>2 DEF Types
<1>8. CASE GrowDone(t)
    <2>1. TotalTypes' /\ HeapTypes'
        BY <1>0, <1>8
           DEF GrowDone, Types, TotalTypes, HeapTypes, ThreadTypes, Goto, shared, protect,
               total, calls
    <2>2. ThreadTypes'
        BY <1>0, <1>8
           DEF GrowDone, Types, TotalTypes, HeapTypes, ThreadTypes, Goto, shared, protect,
               locals, calls
    <2> QED  BY <2>1, <2>2 DEF Types
<1>9. CASE Clear(t)
    <2>1. TotalTypes' /\ HeapTypes'
        BY <1>0, <1>9
           DEF Clear, Types, TotalTypes, HeapTypes, Goto, shared, protect, total, calls
    <2>2. ThreadTypes'
        BY <1>0, <1>9
           DEF Clear, Types, TotalTypes, HeapTypes, ThreadTypes, Goto, shared, protect,
               locals, calls
    <2> QED  BY <2>1, <2>2 DEF Types
<1>10. CASE ValueBegin(t)
    <2>1. TotalTypes' /\ HeapTypes'
        BY <1>0, <1>10
           DEF ValueBegin, Types, TotalTypes, HeapTypes, Goto, shared, protect, total, calls
    <2>2. ThreadTypes'
        BY <1>0, <1>10
           DEF ValueBegin, Types, TotalTypes, HeapTypes, ThreadTypes, Goto, shared, protect,
               locals, calls
    <2> QED  BY <2>1, <2>2 DEF Types
<1>11. CASE ValueLoad(t)
    <2>1. TotalTypes' /\ HeapTypes'
        BY <1>0, <1>11
           DEF ValueLoad, Types, TotalTypes, HeapTypes, Goto, shared, protect, total, calls
    <2>2. ThreadTypes'
        BY <1>0, <1>11
           DEF ValueLoad, Types, TotalTypes, HeapTypes, ThreadTypes, Goto, shared, protect,
               locals, calls
    <2> QED  BY <2>1, <2>2 DEF Types
<1>12. CASE ValueSet(t)
    <2>1. TotalTypes' /\ HeapTypes'
        BY <1>0, <1>12
           DEF ValueSet, Types, TotalTypes, HeapTypes, Goto, shared, protect, total, calls
    <2>2. ThreadTypes'
        BY <1>0, <1>12
           DEF ValueSet, Types, TotalTypes, HeapTypes, ThreadTypes, Goto, shared, protect,
               locals, calls
    <2> QED  BY <2>1, <2>2 DEF Types
<1>13. CASE ValueCheck(t)
    <2>1. TotalTypes' /\ HeapTypes'
        BY <1>0, <1>13
           DEF ValueCheck, Types, TotalTypes, HeapTypes, Goto, shared, protect, total, calls
    <2>2. ThreadTypes'
        BY <1>0, <1>13
           DEF ValueCheck, Types, TotalTypes, HeapTypes, ThreadTypes, Goto, shared, protect,
               locals, calls
    <2> QED  BY <2>1, <2>2 DEF Types
<1>14. CASE ValueReturn(t)
    <2>1. TotalTypes' /\ HeapTypes'
        BY <1>0, <1>14
           DEF ValueReturn, Types, TotalTypes, HeapTypes, Goto, shared, protect, total,
               calls
    <2>2. ThreadTypes'
        BY <1>0, <1>14
           DEF ValueReturn, Types, TotalTypes, HeapTypes, ThreadTypes, Goto, shared,
               protect, locals, calls
    <2> QED  BY <2>1, <2>2 DEF Types
<1>15. CASE ResetBase(t)
    <2>1. TotalTypes' /\ HeapTypes'
        BY <1>0, <1>15
           DEF ResetBase, Types, TotalTypes, HeapTypes, Goto, shared, protect, total, calls
    <2>2. ThreadTypes'
        BY <1>0, <1>15
           DEF ResetBase, Types, TotalTypes, HeapTypes, ThreadTypes, Goto, shared, protect,
               locals, calls
    <2> QED  BY <2>1, <2>2 DEF Types
<1>16. CASE Read(t)
    <2>1. pc[t] = "read"
        BY <1>16 DEF Read
    <2>2. /\ cur[t] \in Storage /\ store[cur[t]].slabs # << >>
          /\ Len(store[cur[t]].slabs) <= MaxLevel
        BY <2>1, HeldIs
    <2>3. PICK h \in HashCode :
             /\ idx' = [idx EXCEPT ![t] = h % Size(cur[t])]
             /\ expected' = [expected EXCEPT ![t] = Get(cur[t], h % Size(cur[t]))]
        BY <1>16 DEF Read
    <2>4. h % Size(cur[t]) \in Nat /\ h % Size(cur[t]) < Size(cur[t])
        BY <1>0, <2>2, SizeType, ModRange, HashAssumption DEF Types
    <2>5. Get(cur[t], h % Size(cur[t])) \in Nat
        BY <1>0, <2>2, <2>4, PlaceOf DEF Types
    <2>6. idx' \in [Thread -> Nat] /\ expected' \in [Thread -> Nat]
        BY <1>0, <2>3, <2>4, <2>5 DEF Types, ThreadTypes
    <2>7. TotalTypes' /\ HeapTypes'
        BY <1>0, <1>16
           DEF Read, Types, TotalTypes, HeapTypes, Goto, shared, protect, total, calls
    <2>8. ThreadTypes'
        BY <1>0, <1>16, <2>6 DEF Read, Types, ThreadTypes, Goto, shared, protect, calls
    <2> QED  BY <2>7, <2>8 DEF Types
<1>17. CASE CasDone(t)
    <2>1. expected[t] + 1 \in Nat
        BY <1>0 DEF Types, ThreadTypes
    <2>2. cells' \in [Slab -> [0..Width -> Nat]]
        <3>1. PICK x, y, v : v \in Nat /\ cells' = [cells EXCEPT ![x][y] = v]
            BY <2>1, <1>17 DEF CasDone, Put
        <3> QED  BY <1>0, <3>1 DEF Types, HeapTypes
    <2>3. TotalTypes' /\ HeapTypes'
        BY <1>0, <2>2, <1>17
           DEF CasDone, Types, TotalTypes, HeapTypes, Goto, protect, total, calls
    <2>4. ThreadTypes'
        BY <1>0, <1>17 DEF CasDone, Types, ThreadTypes, Goto, protect, locals, calls
    <2> QED  BY <2>3, <2>4 DEF Types
<1>18. CASE RetireCur(t)
    <2>1. cur[t] \in Storage
        BY HeldIs, <1>18 DEF RetireCur
    <2>2. store' \in [Storage -> Record]
        <3>1. DisavowAll(store[cur[t]]) \in Record
            BY <1>0, <2>1, DisavowIs DEF Types, HeapTypes
        <3> QED  BY <1>0, <1>18, <3>1 DEF RetireCur, Types, HeapTypes
    <2>3. TotalTypes' /\ HeapTypes'
        BY <1>0, <2>1, <2>2, <1>18 DEF RetireCur, Types, TotalTypes, HeapTypes, total, calls
    <2>4. ThreadTypes'
        BY <1>0, <1>18 DEF RetireCur, Again, Types, ThreadTypes, Goto, locals, calls
    <2> QED  BY <2>3, <2>4 DEF Types
<1>19. CASE GrowFailed(t)
    <2>1. store' \in [Storage -> Record] /\ slabs' \in SUBSET Slab
        BY <1>0, <1>19, RecordTypes DEF GrowFailed, Destruct, Types, HeapTypes
    <2>2. TotalTypes' /\ HeapTypes'
        BY <1>0, <2>1, <1>19 DEF GrowFailed, Types, TotalTypes, HeapTypes, protect, total, calls
    <2>3. ThreadTypes'
        BY <1>0, <1>19
           DEF GrowFailed, Again, Types, HeapTypes, ThreadTypes, Goto, protect, calls
    <2> QED  BY <2>2, <2>3 DEF Types
<1>20. CASE InstallCas(t)
    <2>1. store' \in [Storage -> Record] /\ slabs' \in SUBSET Slab
        BY <1>0, <1>20, RecordTypes DEF InstallCas, Destruct, Types, HeapTypes
    <2>2. TotalTypes' /\ HeapTypes'
        BY <1>0, <2>1, <1>20
           DEF InstallCas, Types, TotalTypes, HeapTypes, ThreadTypes, protect, total, calls
    <2>3. ThreadTypes'
        BY <1>0, <1>20 DEF InstallCas, Again, Types, ThreadTypes, Goto, protect, calls
    <2> QED  BY <2>2, <2>3 DEF Types
<1>21. CASE InstallNew(t)
    <2>1. PICK s \in Storage, b \in Slab : New(s, << >>, b)
        BY <1>0, <1>21, InstallNewDoes
    <2>2. << >> \in Seq(Slab)
        BY SMT
    <2>3. store' \in [Storage -> Record]
        <3>1. [slabs |-> Append(<< >>, b), owner |-> TRUE, clean |-> TRUE] \in Record
            BY <2>2, RecordTypes
        <3> QED  BY <1>0, <2>1, <3>1 DEF New, Types, HeapTypes
    <2>4. cells' \in [Slab -> [0..Width -> Nat]] /\ slabs' \in SUBSET Slab
        BY <1>0, <2>1, EmptyType DEF New, Types, HeapTypes
    <2>5. TotalTypes' /\ HeapTypes'
        BY <1>0, <2>3, <2>4, <1>21
           DEF InstallNew, Types, TotalTypes, HeapTypes, protect, total, calls
    <2>6. ThreadTypes'
        BY <1>0, <1>21 DEF InstallNew, Types, ThreadTypes, Goto, protect, calls
    <2> QED  BY <2>5, <2>6 DEF Types
<1>22. CASE ExpandCur(t)
    <2>1. PICK s \in Storage, b \in Slab : New(s, store[cur[t]].slabs, b)
        BY <1>0, <1>22, ExpandCurDoes
    <2>2. store[cur[t]].slabs \in Seq(Slab)
        BY <1>0, <1>22, HeldIs DEF ExpandCur, Types, HeapTypes, Record
    <2>3. store' \in [Storage -> Record]
        <3>1. [slabs |-> Append(store[cur[t]].slabs, b), owner |-> TRUE, clean |-> TRUE] \in Record
            BY <2>2, RecordTypes
        <3> QED  BY <1>0, <2>1, <3>1 DEF New, Types, HeapTypes
    <2>4. cells' \in [Slab -> [0..Width -> Nat]] /\ slabs' \in SUBSET Slab
        BY <1>0, <2>1, EmptyType DEF New, Types, HeapTypes
    <2>5. TotalTypes' /\ HeapTypes'
        BY <1>0, <2>3, <2>4, <1>22
           DEF ExpandCur, Types, TotalTypes, HeapTypes, protect, total, calls
    <2>6. ThreadTypes'
        BY <1>0, <1>22 DEF ExpandCur, Types, ThreadTypes, Goto, protect, calls
    <2> QED  BY <2>5, <2>6 DEF Types
<1>23. CASE ValueSum(t)
    <2>1. pc[t] = "v_sum"
        BY <1>23 DEF ValueSum
    <2>2. /\ cur[t] \in Storage /\ store[cur[t]].slabs # << >>
          /\ Len(store[cur[t]].slabs) <= MaxLevel /\ idx[t] < Size(cur[t])
        BY <2>1, HeldIs
    <2>3. idx[t] \in Nat /\ Get(cur[t], idx[t]) \in Nat
        BY <1>0, <2>2, PlaceOf DEF Types, ThreadTypes
    <2>4. (idx[t] + 1) % Size(cur[t]) \in Nat
        BY <1>0, <2>2, <2>3, SizeType, ModRange DEF Types
    <2>5. TotalTypes' /\ HeapTypes'
        BY <1>0, <1>23 DEF ValueSum, Types, TotalTypes, HeapTypes, shared, protect, total, calls
    <2>6. ThreadTypes'
        BY <1>0, <1>23, <2>3, <2>4 DEF ValueSum, Types, ThreadTypes, Goto, protect, calls
    <2> QED  BY <2>5, <2>6 DEF Types
<1>24. CASE ResetCell(t)
    <2>1. pc[t] = "zero"
        BY <1>24 DEF ResetCell
    <2>2. /\ cur[t] \in Storage /\ store[cur[t]].slabs # << >>
          /\ Len(store[cur[t]].slabs) <= MaxLevel /\ idx[t] < Size(cur[t])
        BY <2>1, HeldIs
    <2>3. idx[t] \in Nat /\ Get(cur[t], idx[t]) \in Nat
        BY <1>0, <2>2, PlaceOf DEF Types, ThreadTypes
    <2>4. (idx[t] + 1) % Size(cur[t]) \in Nat
        BY <1>0, <2>2, <2>3, SizeType, ModRange DEF Types
    <2>5. cells' \in [Slab -> [0..Width -> Nat]]
        <3>1. PICK x, y, v : v \in Nat /\ cells' = [cells EXCEPT ![x][y] = v]
            BY <1>24 DEF ResetCell, Put
        <3> QED  BY <1>0, <3>1 DEF Types, HeapTypes
    <2>6. TotalTypes' /\ HeapTypes'
        BY <1>0, <2>3, <2>5, <1>24 DEF ResetCell, Types, TotalTypes, HeapTypes, protect, calls
    <2>7. ThreadTypes'
        BY <1>0, <1>24, <2>4 DEF ResetCell, Types, ThreadTypes, Goto, protect, calls
    <2> QED  BY <2>6, <2>7 DEF Types
<1> QED  BY <1>1, <1>2, <1>3, <1>4, <1>5, <1>6, <1>7, <1>8, <1>9, <1>10, <1>11, <1>12,
            <1>13, <1>14, <1>15, <1>16, <1>17, <1>18, <1>19, <1>20, <1>21, <1>22, <1>23,
            <1>24
            DEF Step, AddStep, ValueStep

\* Destroying the counter and reclaiming storages keep the types.
LEMMA HeapTypesStep ==
    ASSUME Types, Destroy \/ \E s \in Storage : Reclaim(s)
    PROVE  Types'
<1>1. CASE Destroy
    <2>1. store' \in [Storage -> Record] /\ slabs' \in SUBSET Slab
        BY <1>1, RecordTypes DEF Destroy, Destruct, Types, HeapTypes
    <2>2. TotalTypes' /\ HeapTypes' /\ ThreadTypes'
        BY <1>1, <2>1
           DEF Destroy, Types, TotalTypes, HeapTypes, ThreadTypes, protect, locals, total,
               calls
    <2> QED  BY <2>2 DEF Types
<1>2. CASE \E s \in Storage : Reclaim(s)
    <2>0. PICK s \in Storage : Reclaim(s)
        BY <1>2
    <2>1. store' \in [Storage -> Record] /\ slabs' \in SUBSET Slab
        BY <2>0, RecordTypes DEF Reclaim, Destruct, Types, HeapTypes
    <2>2. TotalTypes' /\ HeapTypes' /\ ThreadTypes'
        BY <2>0, <2>1
           DEF Reclaim, Types, TotalTypes, HeapTypes, ThreadTypes, locals, total, calls
    <2> QED  BY <2>2 DEF Types
<1> QED  BY <1>1, <1>2

-----------------------------------------------------------------------------
(* Steps that leave the storages alone *)

\* The same storages are private, and the same ones are about to be retired.
RolesKept == \A u \in Thread : Mine(u)' = Mine(u) /\ \A s : Retires(u, s)' <=> Retires(u, s)

\* Thread t is not between making a storage and publishing or dropping it.
Plain(label) == label \notin {"install_cas", "grow", "retire"}

\* A step of t that constructs, publishes and retires nothing keeps the roles.
LEMMA RolesStay ==
    ASSUME NEW t \in Thread, Others(t), Plain(pc[t]), Plain(pc'[t])
    PROVE  RolesKept
<1> SUFFICES ASSUME NEW u \in Thread
             PROVE  Mine(u)' = Mine(u) /\ \A s : Retires(u, s)' <=> Retires(u, s)
    BY DEF RolesKept
<1>1. CASE u = t
    BY <1>1 DEF Plain, Mine, Retires
<1>2. CASE u # t
    BY <1>2 DEF Others, Mine, Retires
<1> QED  BY <1>1, <1>2

\* The storages are as they were.
LEMMA HeapStays ==
    ASSUME Structure, RolesKept, HeapKept
    PROVE  /\ \A s \in Storage : StorageOf(s)'
           /\ Published'
           /\ OwnedSlabs'
<1>1. \A s \in Storage : Private(s)' <=> Private(s)
    BY DEF RolesKept, Private
<1>2. \A s \in Storage : StorageOf(s)'
    BY <1>1 DEF Structure, StorageOf, RolesKept, HeapKept
<1>3. OwnedSlabs'
    BY DEF Structure, OwnedSlabs, HeapKept
<1>4. stripes # Null => live /\ Allocated(stripes) /\ store[stripes].owner /\ ~Private(stripes)
    BY DEF Structure, Published
<1>5. (stripes # Null => live /\ Allocated(stripes) /\ store[stripes].owner /\ ~Private(stripes))'
    BY <1>4 DEF HeapKept, Allocated, Private, RolesKept
<1>6. ASSUME NEW s \in Storage, live'
      PROVE  Grown(s)'
    BY <1>1, <1>6 DEF Structure, Published, Grown, Allocated, HeapKept
<1>7. Published'
    BY <1>5, <1>6 DEF Published
<1> QED  BY <1>2, <1>3, <1>7

\* The new slabs of private storages stay zero.
FreshKept ==
    \A u \in Thread : Mine(u) # Null =>
        LET q == store[Mine(u)].slabs IN cells'[q[Len(q)]] = cells[q[Len(q)]]

\* Private storages are as they were.
LEMMA PrivateStays ==
    ASSUME Structure, RolesKept, HeapKept, FreshKept
    PROVE  \A u \in Thread : PrivateOf(u)'
<1> SUFFICES ASSUME NEW u \in Thread
             PROVE  PrivateOf(u)'
    OBVIOUS
<1>1. PrivateOf(u)
    BY DEF Structure
<1>2. Mine(u)' = Mine(u) /\ \A v \in Thread : Mine(v)' = Mine(v)
    BY DEF RolesKept
<1>3. store' = store
    BY DEF HeapKept
<1>4. CASE Mine(u) = Null
    BY <1>2, <1>4 DEF PrivateOf
<1>5. CASE Mine(u) # Null
    <2>1. PICK m : m = Mine(u)
        OBVIOUS
    <2>2. cells'[store[m].slabs[Len(store[m].slabs)]] = Empty
        BY <1>1, <1>5, <2>1 DEF FreshKept, PrivateOf
    <2> QED  BY <1>1, <1>2, <1>3, <1>5, <2>1, <2>2 DEF PrivateOf
<1> QED  BY <1>4, <1>5

\* The other threads are where they were.
LEMMA OthersStay ==
    ASSUME Structure, NEW t \in Thread, Others(t), RolesKept, HeapKept, NEW u \in Thread, u # t
    PROVE  ThreadOf(u)'
<1>1. ThreadOf(u)
    BY DEF Structure
<1>2. /\ pc'[u] = pc[u] /\ op'[u] = op[u] /\ hazard'[u] = hazard[u] /\ cur'[u] = cur[u]
      /\ next'[u] = next[u] /\ load'[u] = load[u] /\ idx'[u] = idx[u]
    BY DEF Others
<1>3. stripes' = stripes /\ store' = store /\ retired' = retired /\ live' = live
    BY DEF HeapKept
<1>4. Mine(u)' = Mine(u)
    BY DEF RolesKept
<1>5. Held(u) => Held(u)'
    BY <1>2, <1>3 DEF Held, Allocated, Private, RolesKept
<1>6. \A v \in Thread \ {u} : ~Retires(v, cur[u]) => ~Retires(v, cur[u])'
    <2> SUFFICES ASSUME NEW v \in Thread \ {u}, ~Retires(v, cur[u])
                 PROVE  ~Retires(v, cur[u])'
        OBVIOUS
    <2>1. CASE v = t
        BY <2>1, <1>2 DEF RolesKept, Retires
    <2>2. CASE v # t
        BY <2>2, <1>2 DEF Others, Retires
    <2> QED  BY <2>1, <2>2
<1>7. Size(cur[u])' = Size(cur[u])
    BY <1>2, <1>3 DEF Size
<1> QED  BY <1>1, <1>2, <1>3, <1>4, <1>5, <1>6, <1>7 DEF ThreadOf

\* What t holds it still holds.
LEMMA HeldStays ==
    ASSUME NEW t \in Thread, RolesKept, HeapKept, cur'[t] = cur[t], hazard'[t] = hazard[t], Held(t)
    PROVE  Held(t)'
BY DEF Held, Allocated, Private, RolesKept, HeapKept

\* The current storage with a hazard on it is held.
LEMMA HeldCurrent ==
    ASSUME Structure, NEW t \in Thread, RolesKept, HeapKept,
           stripes # Null, cur'[t] = stripes, hazard'[t] = stripes
    PROVE  Held(t)'
<1>1. Allocated(stripes) /\ ~Private(stripes)
    BY DEF Structure, Published
<1> QED  BY <1>1 DEF Held, Allocated, Private, RolesKept, HeapKept

\* No storage is the new slab's owner but the private one, so a write through a
\* held storage misses it.
LEMMA WriteFresh ==
    ASSUME Structure, NEW t \in Thread, pc[t] \in {"cas", "zero"}, NEW v,
           Put(cur[t], idx[t], v)
    PROVE  FreshKept
<1> SUFFICES ASSUME NEW u \in Thread, Mine(u) # Null
             PROVE  LET q == store[Mine(u)].slabs IN cells'[q[Len(q)]] = cells[q[Len(q)]]
    BY DEF FreshKept
<1>1. /\ cur[t] \in Storage /\ store[cur[t]].slabs # << >>
      /\ Len(store[cur[t]].slabs) <= MaxLevel /\ idx[t] < Size(cur[t]) /\ idx[t] \in Nat
    BY HeldIs DEF Structure, Types, ThreadTypes
<1>2. SlabNo(idx[t]) \in 1..Len(store[cur[t]].slabs)
    BY <1>1, PlaceOf DEF Structure, Types
<1>3. Held(t)
    BY DEF Structure, ThreadOf
<1>4. cur[t] # Mine(u)
    BY <1>3 DEF Held, Private
<1>5. PICK m : m = Mine(u)
    OBVIOUS
<1>6. PICK b : b = store[m].slabs[Len(store[m].slabs)]
    OBVIOUS
<1>7. SlabOf(cur[t], idx[t]) # b
    BY <1>1, <1>2, <1>4, <1>5, <1>6 DEF Structure, PrivateOf, SlabOf
<1>8. PICK x, y : x # b /\ cells' = [cells EXCEPT ![x][y] = v]
    BY <1>7 DEF Put
<1>9. cells'[b] = cells[b]
    <2>1. cells \in [Slab -> [0..Width -> Nat]]
        BY DEF Structure, Types, HeapTypes
    <2>2. CASE b \in Slab
        BY <2>1, <2>2, <1>8
    <2>3. CASE b \notin Slab
        <3>1. Mine(u) \in Storage
            BY DEF Mine, Structure, Types, ThreadTypes
        <3>2. store[m].slabs \in Seq(Slab) /\ store[m].slabs # << >>
            BY <3>1, <1>5 DEF Structure, Types, HeapTypes, Record, PrivateOf
        <3> QED  BY <3>2, <1>6, <2>3
    <2> QED  BY <2>2, <2>3
<1> QED  BY <1>5, <1>6, <1>9

\* A step of t that leaves the storages alone keeps the invariant when it does
\* so for t itself.
LEMMA PlainStep ==
    ASSUME Structure, NEW t \in Thread, Types', Others(t), HeapKept, FreshKept,
           Plain(pc[t]), Plain(pc'[t]), ThreadOf(t)'
    PROVE  Structure'
<1>1. RolesKept
    BY RolesStay
<1>2. (\A s \in Storage : StorageOf(s)') /\ Published' /\ OwnedSlabs'
    BY <1>1, HeapStays
<1>3. \A u \in Thread : PrivateOf(u)'
    BY <1>1, PrivateStays
<1>4. \A u \in Thread : ThreadOf(u)'
    BY <1>1, OthersStay
<1> QED  BY <1>2, <1>3, <1>4 DEF Structure

\* The next index of a loop over all elements.
LEMMA NextIndex ==
    \A i, n \in Nat : i < n => (i + 1) % n = IF i = n - 1 THEN 0 ELSE i + 1
<1> SUFFICES ASSUME NEW i \in Nat, NEW n \in Nat, i < n
             PROVE  (i + 1) % n = IF i = n - 1 THEN 0 ELSE i + 1
    OBVIOUS
<1>1. \A h \in Nat, m \in Nat \ {0} : h < m => h % m = h
    OBVIOUS
<1>2. \A m \in Nat \ {0} : m % m = 0
    OBVIOUS
<1>3. CASE i = n - 1
    BY <1>2, <1>3
<1>4. CASE i # n - 1
    BY <1>1, <1>4
<1> QED  BY <1>3, <1>4

\* Reading, checking and writing through storages keeps the invariant.
LEMMA PlainSteps ==
    ASSUME Structure, NEW t \in Thread, Types',
           \/ AddBegin(t) \/ BaseRead(t) \/ BaseCas(t) \/ HzLoad(t) \/ HzSet(t) \/ HzCheck(t)
           \/ Read(t) \/ CasDone(t) \/ CasFailed(t) \/ Clear(t)
           \/ ValueBegin(t) \/ ValueStep(t) \/ ResetBase(t) \/ ResetCell(t)
    PROVE  Structure'
<1>0. Types /\ ThreadOf(t)
    BY DEF Structure
<1>a. cells' = cells => FreshKept
    BY DEF FreshKept
<1>1. CASE AddBegin(t)
    <2>1. Others(t) /\ HeapKept /\ Plain(pc[t]) /\ Plain(pc'[t]) /\ live
        BY <1>1, <1>0, AddBeginDoes DEF Plain, ThreadOf
    <2>2. FreshKept
        BY <1>1, AddBeginDoes, <1>0, <1>a
    <2>3. RolesKept
        BY <2>1, RolesStay
    <2>4. ThreadOf(t)'
        BY <1>1, <1>0, <2>1, AddBeginDoes DEF ThreadOf, Mine, Plain, HeapKept
    <2> QED  BY <2>1, <2>2, <2>4, PlainStep
<1>2. CASE BaseRead(t)
    <2>1. Others(t) /\ HeapKept /\ Plain(pc[t]) /\ Plain(pc'[t]) /\ live
        BY <1>2, <1>0, BaseReadDoes DEF Plain, ThreadOf
    <2>2. FreshKept
        BY <1>2, BaseReadDoes, <1>0, <1>a
    <2>3. RolesKept
        BY <2>1, RolesStay
    <2>4. ThreadOf(t)'
        BY <1>2, <1>0, <2>1, BaseReadDoes DEF ThreadOf, Mine, Plain, HeapKept
    <2> QED  BY <2>1, <2>2, <2>4, PlainStep
<1>3. CASE BaseCas(t)
    <2>1. Others(t) /\ HeapKept /\ Plain(pc[t]) /\ Plain(pc'[t]) /\ live
        BY <1>3, <1>0, BaseCasDoes DEF Plain, ThreadOf
    <2>2. FreshKept
        BY <1>3, BaseCasDoes, <1>0, <1>a
    <2>3. RolesKept
        BY <2>1, RolesStay
    <2>4. ThreadOf(t)'
        BY <1>3, <1>0, <2>1, BaseCasDoes DEF ThreadOf, Mine, Plain, HeapKept
    <2> QED  BY <2>1, <2>2, <2>4, PlainStep
<1>4. CASE HzLoad(t)
    <2>1. Others(t) /\ HeapKept /\ Plain(pc[t]) /\ Plain(pc'[t]) /\ live
        BY <1>4, <1>0, HzLoadDoes DEF Plain, ThreadOf
    <2>2. FreshKept
        BY <1>4, HzLoadDoes, <1>0, <1>a
    <2>3. RolesKept
        BY <2>1, RolesStay
    <2>4. ThreadOf(t)'
        BY <1>4, <1>0, <2>1, HzLoadDoes DEF ThreadOf, Mine, Plain, HeapKept
    <2> QED  BY <2>1, <2>2, <2>4, PlainStep
<1>5. CASE HzSet(t)
    <2>1. Others(t) /\ HeapKept /\ Plain(pc[t]) /\ Plain(pc'[t]) /\ live
        BY <1>5, <1>0, HzSetDoes DEF Plain, ThreadOf
    <2>2. FreshKept
        BY <1>5, HzSetDoes, <1>0, <1>a
    <2>3. RolesKept
        BY <2>1, RolesStay
    <2>4. ThreadOf(t)'
        BY <1>5, <1>0, <2>1, HzSetDoes DEF ThreadOf, Mine, Plain, HeapKept
    <2> QED  BY <2>1, <2>2, <2>4, PlainStep
<1>6. CASE HzCheck(t)
    <2>1. Others(t) /\ HeapKept /\ Plain(pc[t]) /\ Plain(pc'[t]) /\ live
        BY <1>6, <1>0, HzCheckDoes DEF Plain, ThreadOf
    <2>2. FreshKept
        BY <1>6, HzCheckDoes, <1>0, <1>a
    <2>3. RolesKept
        BY <2>1, RolesStay
    <2>4. pc'[t] \in {"read", "v_sum", "zero"} => Held(t)'
        BY <1>6, <1>0, <2>1, <2>3, HzCheckDoes, HeldCurrent DEF ThreadOf
    <2>5. pc'[t] \in {"v_sum", "zero"} => 0 < Size(cur[t])'
        <3>1. Size(cur[t])' = Size(cur[t]) /\ cur'[t] = cur[t]
            BY <1>6, <1>0, <2>1, HzCheckDoes DEF Size, HeapKept
        <3>2. pc'[t] \in {"v_sum", "zero"} => cur[t] \in Storage
            BY <2>4, <3>1 DEF Held, Allocated
        <3>3. cur[t] \in Storage => Size(cur[t]) \in Nat \ {0}
            BY <1>0, SizeType DEF Types
        <3> QED  BY <3>1, <3>2, <3>3
    <2>6. ThreadOf(t)'
        BY <1>6, <1>0, <2>1, <2>4, <2>5, HzCheckDoes DEF ThreadOf, Mine, Plain, HeapKept
    <2> QED  BY <2>1, <2>2, <2>6, PlainStep
<1>7. CASE Read(t)
    <2>1. Others(t) /\ HeapKept /\ Plain(pc[t]) /\ Plain(pc'[t]) /\ live
        BY <1>7, <1>0, ReadDoes DEF Plain, ThreadOf
    <2>2. FreshKept
        BY <1>7, ReadDoes, <1>0, <1>a
    <2>3. RolesKept
        BY <2>1, RolesStay
    <2>4. Held(t)'
        BY <1>7, <1>0, <2>1, <2>3, ReadDoes, HeldStays DEF ThreadOf
    <2>5. PICK h \in HashCode : idx'[t] = h % Size(cur[t])
        BY <1>7, <1>0, ReadDoes
    <2>6. cur[t] \in Storage
        BY <1>7, HeldIs DEF Read
    <2>7. idx'[t] < Size(cur[t])
        BY <1>0, <2>5, <2>6, SizeType, ModRange, HashAssumption DEF Types
    <2>8. Size(cur[t])' = Size(cur[t])
        BY <1>7, <1>0, <2>1, ReadDoes DEF Size, HeapKept
    <2>9. ThreadOf(t)'
        BY <1>7, <1>0, <2>1, <2>4, <2>7, <2>8, ReadDoes DEF ThreadOf, Mine, Plain, HeapKept
    <2> QED  BY <2>1, <2>2, <2>9, PlainStep
<1>8. CASE CasDone(t)
    <2>1. Others(t) /\ HeapKept /\ Plain(pc[t]) /\ Plain(pc'[t]) /\ live
        BY <1>8, <1>0, CasDoneDoes DEF Plain, ThreadOf
    <2>2. FreshKept
        BY <1>8, CasDoneDoes, <1>0, WriteFresh
    <2>3. RolesKept
        BY <2>1, RolesStay
    <2>4. Held(t)'
        BY <1>8, <1>0, <2>1, <2>3, CasDoneDoes, HeldStays DEF ThreadOf
    <2>5. ThreadOf(t)'
        BY <1>8, <1>0, <2>1, <2>4, CasDoneDoes DEF ThreadOf, Mine, Plain, HeapKept
    <2> QED  BY <2>1, <2>2, <2>5, PlainStep
<1>9. CASE CasFailed(t)
    <2>1. Others(t) /\ HeapKept /\ Plain(pc[t]) /\ Plain(pc'[t]) /\ live
        BY <1>9, <1>0, CasFailedDoes DEF Plain, ThreadOf
    <2>2. FreshKept
        BY <1>9, CasFailedDoes, <1>0, <1>a
    <2>3. RolesKept
        BY <2>1, RolesStay
    <2>4. Held(t)'
        BY <1>9, <1>0, <2>1, <2>3, CasFailedDoes, HeldStays DEF ThreadOf
    <2>5. pc'[t] = "expand" => /\ Len(store[cur[t]].slabs) < MaxLevel
                                /\ hazard[t] = cur[t]
        <3>1. Held(t) /\ (pc'[t] = "expand" => Len(store[cur[t]].slabs) < MaxLevel)
            BY <1>9, <1>0, CasFailedDoes DEF ThreadOf
        <3>2. Len(store[cur[t]].slabs) = MaxLevel => ~(Len(store[cur[t]].slabs) < MaxLevel)
            BY LimitAssumption
        <3> QED  BY <3>1, <3>2 DEF Held
    <2>6. ThreadOf(t)'
        BY <1>9, <1>0, <2>1, <2>4, <2>5, CasFailedDoes DEF ThreadOf, Mine, Plain, HeapKept, Held
    <2> QED  BY <2>1, <2>2, <2>6, PlainStep
<1>10. CASE Clear(t)
    <2>1. Others(t) /\ HeapKept /\ Plain(pc[t]) /\ Plain(pc'[t]) /\ live
        BY <1>10, <1>0, ClearDoes DEF Plain, ThreadOf
    <2>2. FreshKept
        BY <1>10, ClearDoes, <1>0, <1>a
    <2>3. RolesKept
        BY <2>1, RolesStay
    <2>4. ThreadOf(t)'
        BY <1>10, <1>0, <2>1, ClearDoes DEF ThreadOf, Mine, Plain, HeapKept
    <2> QED  BY <2>1, <2>2, <2>4, PlainStep
<1>11. CASE ValueBegin(t)
    <2>1. Others(t) /\ HeapKept /\ Plain(pc[t]) /\ Plain(pc'[t]) /\ live
        BY <1>11, <1>0, ValueBeginDoes DEF Plain, ThreadOf
    <2>2. FreshKept
        BY <1>11, ValueBeginDoes, <1>0, <1>a
    <2>3. RolesKept
        BY <2>1, RolesStay
    <2>4. ThreadOf(t)'
        BY <1>11, <1>0, <2>1, ValueBeginDoes DEF ThreadOf, Mine, Plain, HeapKept
    <2> QED  BY <2>1, <2>2, <2>4, PlainStep
<1>12. CASE ValueLoad(t)
    <2>1. Others(t) /\ HeapKept /\ Plain(pc[t]) /\ Plain(pc'[t]) /\ live
        BY <1>12, <1>0, ValueLoadDoes DEF Plain, ThreadOf
    <2>2. FreshKept
        BY <1>12, ValueLoadDoes, <1>0, <1>a
    <2>3. RolesKept
        BY <2>1, RolesStay
    <2>4. ThreadOf(t)'
        BY <1>12, <1>0, <2>1, ValueLoadDoes DEF ThreadOf, Mine, Plain, HeapKept
    <2> QED  BY <2>1, <2>2, <2>4, PlainStep
<1>13. CASE ValueSet(t)
    <2>1. Others(t) /\ HeapKept /\ Plain(pc[t]) /\ Plain(pc'[t]) /\ live
        BY <1>13, <1>0, ValueSetDoes DEF Plain, ThreadOf
    <2>2. FreshKept
        BY <1>13, ValueSetDoes, <1>0, <1>a
    <2>3. RolesKept
        BY <2>1, RolesStay
    <2>4. ThreadOf(t)'
        BY <1>13, <1>0, <2>1, ValueSetDoes DEF ThreadOf, Mine, Plain, HeapKept
    <2> QED  BY <2>1, <2>2, <2>4, PlainStep
<1>14. CASE ValueCheck(t)
    <2>1. Others(t) /\ HeapKept /\ Plain(pc[t]) /\ Plain(pc'[t]) /\ live
        BY <1>14, <1>0, ValueCheckDoes DEF Plain, ThreadOf
    <2>2. FreshKept
        BY <1>14, ValueCheckDoes, <1>0, <1>a
    <2>3. RolesKept
        BY <2>1, RolesStay
    <2>4. pc'[t] \in {"read", "v_sum", "zero"} => Held(t)'
        BY <1>14, <1>0, <2>1, <2>3, ValueCheckDoes, HeldCurrent DEF ThreadOf
    <2>5. pc'[t] \in {"v_sum", "zero"} => 0 < Size(cur[t])'
        <3>1. Size(cur[t])' = Size(cur[t]) /\ cur'[t] = cur[t]
            BY <1>14, <1>0, <2>1, ValueCheckDoes DEF Size, HeapKept
        <3>2. pc'[t] \in {"v_sum", "zero"} => cur[t] \in Storage
            BY <2>4, <3>1 DEF Held, Allocated
        <3>3. cur[t] \in Storage => Size(cur[t]) \in Nat \ {0}
            BY <1>0, SizeType DEF Types
        <3> QED  BY <3>1, <3>2, <3>3
    <2>6. ThreadOf(t)'
        BY <1>14, <1>0, <2>1, <2>4, <2>5, ValueCheckDoes DEF ThreadOf, Mine, Plain, HeapKept
    <2> QED  BY <2>1, <2>2, <2>6, PlainStep
<1>15. CASE ValueSum(t)
    <2>1. Others(t) /\ HeapKept /\ Plain(pc[t]) /\ Plain(pc'[t]) /\ live
        BY <1>15, <1>0, ValueSumDoes DEF Plain, ThreadOf
    <2>2. FreshKept
        BY <1>15, ValueSumDoes, <1>0, <1>a
    <2>3. RolesKept
        BY <2>1, RolesStay
    <2>4. Held(t)'
        BY <1>15, <1>0, <2>1, <2>3, ValueSumDoes, HeldStays DEF ThreadOf
    <2>5. cur[t] \in Storage /\ idx[t] < Size(cur[t]) /\ idx[t] \in Nat
        BY <1>15, HeldIs DEF ValueSum, Structure, Types, ThreadTypes
    <2>6. Size(cur[t]) \in Nat \ {0}
        BY <1>0, <2>5, SizeType DEF Types
    <2>7. idx'[t] = IF idx[t] = Size(cur[t]) - 1 THEN 0 ELSE idx[t] + 1
        <3>1. idx'[t] = (idx[t] + 1) % Size(cur[t])
            BY <1>15, <1>0, ValueSumDoes
        <3> QED  BY <3>1, <2>5, <2>6, NextIndex
    <2>8. Size(cur[t])' = Size(cur[t])
        BY <1>15, <1>0, <2>1, ValueSumDoes DEF Size, HeapKept
    <2>9. ThreadOf(t)'
        BY <1>15, <1>0, <2>1, <2>4, <2>5, <2>6, <2>7, <2>8, ValueSumDoes
           DEF ThreadOf, Mine, Plain, HeapKept
    <2> QED  BY <2>1, <2>2, <2>9, PlainStep
<1>16. CASE ValueReturn(t)
    <2>1. Others(t) /\ HeapKept /\ Plain(pc[t]) /\ Plain(pc'[t]) /\ live
        BY <1>16, <1>0, ValueReturnDoes DEF Plain, ThreadOf
    <2>2. FreshKept
        BY <1>16, ValueReturnDoes, <1>0, <1>a
    <2>3. RolesKept
        BY <2>1, RolesStay
    <2>4. ThreadOf(t)'
        BY <1>16, <1>0, <2>1, ValueReturnDoes DEF ThreadOf, Mine, Plain, HeapKept
    <2> QED  BY <2>1, <2>2, <2>4, PlainStep
<1>17. CASE ResetBase(t)
    <2>1. Others(t) /\ HeapKept /\ Plain(pc[t]) /\ Plain(pc'[t]) /\ live
        BY <1>17, <1>0, ResetBaseDoes DEF Plain, ThreadOf
    <2>2. FreshKept
        BY <1>17, ResetBaseDoes, <1>0, <1>a
    <2>3. RolesKept
        BY <2>1, RolesStay
    <2>4. ThreadOf(t)'
        BY <1>17, <1>0, <2>1, ResetBaseDoes DEF ThreadOf, Mine, Plain, HeapKept
    <2> QED  BY <2>1, <2>2, <2>4, PlainStep
<1>18. CASE ResetCell(t)
    <2>1. Others(t) /\ HeapKept /\ Plain(pc[t]) /\ Plain(pc'[t]) /\ live
        BY <1>18, <1>0, ResetCellDoes DEF Plain, ThreadOf
    <2>2. FreshKept
        BY <1>18, ResetCellDoes, <1>0, WriteFresh
    <2>3. RolesKept
        BY <2>1, RolesStay
    <2>4. Held(t)'
        BY <1>18, <1>0, <2>1, <2>3, ResetCellDoes, HeldStays DEF ThreadOf
    <2>5. cur[t] \in Storage /\ idx[t] < Size(cur[t]) /\ idx[t] \in Nat
        BY <1>18, HeldIs DEF ResetCell, Structure, Types, ThreadTypes
    <2>6. Size(cur[t]) \in Nat \ {0}
        BY <1>0, <2>5, SizeType DEF Types
    <2>7. idx'[t] = IF idx[t] = Size(cur[t]) - 1 THEN 0 ELSE idx[t] + 1
        <3>1. idx'[t] = (idx[t] + 1) % Size(cur[t])
            BY <1>18, <1>0, ResetCellDoes
        <3> QED  BY <3>1, <2>5, <2>6, NextIndex
    <2>8. Size(cur[t])' = Size(cur[t])
        BY <1>18, <1>0, <2>1, ResetCellDoes DEF Size, HeapKept
    <2>9. ThreadOf(t)'
        BY <1>18, <1>0, <2>1, <2>4, <2>5, <2>6, <2>7, <2>8, ResetCellDoes
           DEF ThreadOf, Mine, Plain, HeapKept
    <2> QED  BY <2>1, <2>2, <2>9, PlainStep
<1> QED  BY <1>1, <1>2, <1>3, <1>4, <1>5, <1>6, <1>7, <1>8, <1>9, <1>10, <1>11, <1>12,
            <1>13, <1>14, <1>15, <1>16, <1>17, <1>18
            DEF ValueStep

-----------------------------------------------------------------------------
(* Constructing a storage *)

\* Where a thread has a storage to work on.
AtWork == {"read", "cas", "expand", "grow", "retire", "v_sum", "zero"}

\* Another thread keeps its part of the invariant when the storages it has are
\* not touched.
LEMMA OtherThread ==
    ASSUME NEW u \in Thread, ThreadOf(u),
           pc'[u] = pc[u] /\ op'[u] = op[u] /\ hazard'[u] = hazard[u] /\ cur'[u] = cur[u],
           next'[u] = next[u] /\ load'[u] = load[u] /\ idx'[u] = idx[u],
           live' = live, Mine(u)' = Mine(u),
           stripes # Null => stripes' # Null,
           Held(u) /\ pc[u] \in AtWork => Held(u)',
           pc[u] \in AtWork \cup {"install_cas"} => store'[cur[u]].slabs = store[cur[u]].slabs,
           pc[u] = "grow" => store'[next[u]].slabs = store[next[u]].slabs,
           pc[u] = "retire" => /\ cur[u] # stripes' /\ cur[u] \notin retired'
                               /\ \A v \in Thread \ {u} : ~Retires(v, cur[u])'
    PROVE  ThreadOf(u)'
<1>1. pc[u] \in {"cas", "v_sum", "zero"} => Size(cur[u])' = Size(cur[u])
    BY DEF Size, AtWork
<1>2. /\ (~live => pc[u] = "idle")'
      /\ (pc[u] # "grow" => next[u] = Null)'
      /\ (pc[u] \notin {"read", "cas", "expand", "grow", "retire", "clear"} => load[u])'
      /\ (pc[u] \notin {"cas", "v_sum", "zero"} => idx[u] = 0)'
      /\ (pc[u] \in {"hz_check", "v_check", "install_cas"} => hazard[u] = cur[u])'
      /\ (pc[u] \in {"v_set", "v_check"} => cur[u] # Null)'
      /\ (pc[u] \in {"hz_load", "hz_set", "hz_check"} /\ op[u] # "reset" => stripes # Null)'
    BY DEF ThreadOf
<1>3. /\ (pc[u] \in AtWork => Held(u))'
      /\ (pc[u] \in {"cas", "v_sum", "zero"} => idx[u] < Size(cur[u]))'
    BY <1>1 DEF ThreadOf, AtWork
<1>4. (pc[u] \in {"expand", "grow", "retire"} =>
          Len(store[cur[u]].slabs) < MaxLevel /\ hazard[u] = cur[u])'
    BY DEF ThreadOf, AtWork
<1>5. (pc[u] = "install_cas" => Mine(u) # Null /\ Len(store[cur[u]].slabs) = 1)'
    BY DEF ThreadOf
<1>6. (pc[u] = "grow" => /\ Mine(u) # Null
                         /\ \E b \in Slab : store[next[u]].slabs = Append(store[cur[u]].slabs, b))'
    BY DEF ThreadOf, AtWork
<1>7. (pc[u] = "retire" => /\ cur[u] # stripes /\ cur[u] \notin retired
                           /\ \A v \in Thread \ {u} : ~Retires(v, cur[u]))'
    BY DEF ThreadOf
<1> QED  BY <1>2, <1>3, <1>4, <1>5, <1>6, <1>7 DEF ThreadOf, AtWork

\* The threads other than t are where they were.
LEMMA OthersRetire ==
    ASSUME NEW t \in Thread, Others(t), NEW u \in Thread, u # t, ThreadOf(u), pc[u] = "retire",
           pc'[t] # "retire"
    PROVE  \A v \in Thread \ {u} : ~Retires(v, cur[u])'
<1> SUFFICES ASSUME NEW v \in Thread \ {u}
             PROVE  ~Retires(v, cur[u])'
    OBVIOUS
<1>1. ~Retires(v, cur[u]) /\ cur'[u] = cur[u]
    BY DEF ThreadOf, Others
<1>2. CASE v = t
    BY <1>1, <1>2 DEF Retires
<1>3. CASE v # t
    BY <1>1, <1>3 DEF Retires, Others
<1> QED  BY <1>2, <1>3

\* A storage and its slabs come into being for t: q is empty, or the slabs of a
\* storage that t works on.
NewFor(t, s, q, b) ==
    /\ New(s, q, b) /\ Others(t) /\ live
    /\ stripes' = stripes /\ retired' = retired /\ live' = live
    /\ Mine(t) = Null /\ Mine(t)' = s
    /\ pc[t] # "retire" /\ pc'[t] # "retire"
    /\ Len(q) < MaxLevel
    /\ q = << >> \/ \E x \in Storage : q = store[x].slabs /\ ~Private(x)

\* What is so when a storage is constructed: the address was free, the slab is
\* in no storage.
LEMMA NewIs ==
    ASSUME Structure, Types', NEW t \in Thread, NEW s \in Storage, NEW b \in Slab,
           NEW q \in Seq(Slab), NewFor(t, s, q, b)
    PROVE  /\ store[s].slabs = << >> /\ ~store[s].owner /\ ~store[s].clean
           /\ s # stripes /\ s \notin retired
           /\ \A u \in Thread : Mine(u) # s
           /\ \A u \in Thread : u # t => Mine(u)' = Mine(u)
           /\ \A u \in Thread : \A x : Retires(u, x)' <=> Retires(u, x)
           /\ \A u \in Thread : pc[u] \in AtWork => cur[u] # s
           /\ \A x \in Storage : x # s => store'[x] = store[x]
           /\ store'[s].slabs = Append(q, b) /\ store'[s].owner /\ store'[s].clean
           /\ \A l \in 1..Len(q) : q[l] \in slabs
           /\ \A x \in Storage : \A l \in 1..Len(store[x].slabs) : store[x].slabs[l] # b
<1>1. store[s].slabs = << >>
    BY DEF NewFor, New
<1>2. StorageOf(s)
    BY DEF Structure
<1>3. ~store[s].owner /\ ~store[s].clean /\ s \notin retired
    <2>1. store[s].clean = store[s].owner /\ store[s].owner \in BOOLEAN
        BY <1>2 DEF StorageOf, Structure, Types, HeapTypes, Record
    <2>2. ~store[s].owner /\ s \notin retired
        BY <1>1, <1>2 DEF StorageOf
    <2> QED  BY <2>1, <2>2
<1>4. s # stripes
    BY <1>1, NullAssumption DEF Structure, Published, Allocated
<1>5. \A u \in Thread : Mine(u) # s
    BY <1>1, NullAssumption DEF Structure, PrivateOf
<1>6. \A u \in Thread : u # t => Mine(u)' = Mine(u)
    BY DEF NewFor, Others, Mine
<1>7. \A u \in Thread : \A x : Retires(u, x)' <=> Retires(u, x)
    BY DEF NewFor, Others, Retires
<1>8. \A u \in Thread : pc[u] \in AtWork => cur[u] # s
    BY <1>1, HeldIs DEF AtWork
<1>9. \A x \in Storage : x # s => store'[x] = store[x]
    BY DEF NewFor, New, Structure, Types, HeapTypes
<1>10. store'[s] = [slabs |-> Append(q, b), owner |-> TRUE, clean |-> TRUE]
    BY DEF NewFor, New, Structure, Types, HeapTypes
<1>11. \A x \in Storage : \A l \in 1..Len(store[x].slabs) : store[x].slabs[l] \in slabs
    BY DEF Structure, StorageOf, NewFor
<1>12. \A l \in 1..Len(q) : q[l] \in slabs
    <2>1. CASE q = << >>
        BY <2>1
    <2>2. CASE \E x \in Storage : q = store[x].slabs /\ ~Private(x)
        BY <2>2, <1>11
    <2> QED  BY <2>1, <2>2 DEF NewFor
<1>13. b \notin slabs
    BY DEF NewFor, New
<1>14. store'[s].slabs = Append(q, b) /\ store'[s].owner /\ store'[s].clean
    BY <1>10
<1>15. \A x \in Storage : \A l \in 1..Len(store[x].slabs) : store[x].slabs[l] # b
    BY <1>11, <1>13
<1> QED  BY <1>1, <1>3, <1>4, <1>5, <1>6, <1>7, <1>8, <1>9, <1>12, <1>14, <1>15

\* The storages after a construction.
LEMMA NewStorages ==
    ASSUME Structure, Types', NEW t \in Thread, NEW s \in Storage, NEW b \in Slab,
           NEW q \in Seq(Slab), NewFor(t, s, q, b)
    PROVE  \A x \in Storage : StorageOf(x)'
<1> SUFFICES ASSUME NEW x \in Storage
             PROVE  StorageOf(x)'
    OBVIOUS
<1>0. slabs' = slabs \cup {b} /\ stripes' = stripes /\ retired' = retired /\ live' = live /\ b \notin slabs
    BY DEF NewFor, New
<1>1. CASE x # s
    <2>1. Private(x)' <=> Private(x)
        BY <1>1, NewIs, NullAssumption DEF Private, NewFor
    <2>2. store'[x] = store[x] /\ \A u \in Thread : Retires(u, x)' <=> Retires(u, x)
        BY <1>1, NewIs
    <2> QED  BY <1>0, <2>1, <2>2 DEF Structure, StorageOf
<1>2. CASE x = s
    <2>1. Private(s)'
        BY DEF Private, NewFor
    <2>2. /\ store'[s].slabs = Append(q, b) /\ store'[s].owner /\ store'[s].clean
          /\ s \notin retired /\ \A l \in 1..Len(q) : q[l] \in slabs
        BY NewIs
    <2>3. PICK p \in Seq(Slab) : p = Append(q, b)
        BY AppendProperties
    <2>4. Len(p) = Len(q) + 1 /\ p[Len(q) + 1] = b /\ \A l \in 1..Len(q) : p[l] = q[l]
        BY <2>3
    <2>5. Len(p) <= MaxLevel /\ p # << >>
        BY <2>4, LimitAssumption DEF NewFor
    <2>6. \A l \in 1..Len(p) : p[l] \in slabs'
        BY <1>0, <2>2, <2>4
    <2>7. \A i, j \in 1..Len(q) : q[i] = q[j] => i = j
        <3>1. CASE q = << >>
            BY <3>1
        <3>2. CASE \E y \in Storage : q = store[y].slabs /\ ~Private(y)
            BY <3>2 DEF Structure, StorageOf
        <3> QED  BY <3>1, <3>2 DEF NewFor
    <2>8. \A i, j \in 1..Len(p) : p[i] = p[j] => i = j
        <3> SUFFICES ASSUME NEW i \in 1..Len(p), NEW j \in 1..Len(p), p[i] = p[j]
                     PROVE  i = j
            OBVIOUS
        <3>1. CASE i \in 1..Len(q) /\ j \in 1..Len(q)
            BY <3>1, <2>4, <2>7
        <3>2. CASE i = Len(q) + 1 /\ j \in 1..Len(q)
            BY <3>2, <2>2, <2>4, <1>0
        <3>3. CASE j = Len(q) + 1 /\ i \in 1..Len(q)
            BY <3>3, <2>2, <2>4, <1>0
        <3>4. CASE i = Len(q) + 1 /\ j = Len(q) + 1
            BY <3>4
        <3> QED  BY <2>4, <3>1, <3>2, <3>3, <3>4
    <2>9. store'[s].slabs = p /\ store'[s].clean = store'[s].owner
        <3>1. store'[s] \in Record
            BY DEF Types, HeapTypes
        <3> QED  BY <2>2, <2>3, <3>1 DEF Record
    <2>10. StorageOf(s)'
        BY <1>0, <2>1, <2>2, <2>5, <2>6, <2>8, <2>9 DEF StorageOf
    <2> QED  BY <1>2, <2>10
<1> QED  BY <1>1, <1>2

\* The published storages after a construction are those before it.
LEMMA NewPublished ==
    ASSUME Structure, Types', NEW t \in Thread, NEW s \in Storage, NEW b \in Slab,
           NEW q \in Seq(Slab), NewFor(t, s, q, b)
    PROVE  Published'
<1>0. stripes' = stripes /\ live' = live /\ live
    BY DEF NewFor
<1>1. \A x \in Storage : x # s => (Private(x)' <=> Private(x)) /\ store'[x] = store[x]
    BY NewIs, NullAssumption DEF Private, NewFor
<1>2. Private(s)'
    BY DEF Private, NewFor
<1>3. stripes # Null => stripes \in Storage /\ stripes # s
    BY NewIs DEF Structure, Types, HeapTypes
<1>4. (stripes # Null => live /\ Allocated(stripes) /\ store[stripes].owner /\ ~Private(stripes))'
    <2> SUFFICES ASSUME stripes # Null
                 PROVE  (live /\ Allocated(stripes) /\ store[stripes].owner /\ ~Private(stripes))'
        BY <1>0
    <2>1. PICK c \in Storage : c = stripes /\ c # s
        BY <1>3
    <2>2. live /\ Allocated(c) /\ store[c].owner /\ ~Private(c)
        BY <2>1 DEF Structure, Published
    <2>3. ~Private(c)' /\ store'[c] = store[c]
        BY <2>1, <2>2, <1>1
    <2> QED  BY <1>0, <2>1, <2>2, <2>3 DEF Allocated, Private
<1>5. ASSUME NEW x \in Storage
      PROVE  Grown(x)'
    <2> SUFFICES ASSUME Allocated(x)', ~Private(x)'
                 PROVE  Grown(x)'
        BY DEF Grown
    <2>1. x # s /\ ~Private(x) /\ Allocated(x)
        BY <1>1, <1>2 DEF Allocated
    <2>2. Grown(x)
        BY <1>0 DEF Structure, Published
    <2>3. stripes # Null /\ store'[stripes] = store[stripes] /\ store'[x] = store[x]
        BY <1>1, <1>3, <2>1, <2>2 DEF Grown
    <2> QED  BY <1>0, <2>1, <2>2, <2>3 DEF Grown
<1> QED  BY <1>4, <1>5 DEF Published

\* The private storages after a construction.
LEMMA NewPrivate ==
    ASSUME Structure, Types', NEW t \in Thread, NEW s \in Storage, NEW b \in Slab,
           NEW q \in Seq(Slab), NewFor(t, s, q, b)
    PROVE  \A u \in Thread : PrivateOf(u)'
<1> SUFFICES ASSUME NEW u \in Thread, Mine(u)' # Null
             PROVE  PrivateOf(u)'
    BY DEF PrivateOf
<1>0. cells' = [cells EXCEPT ![b] = Empty] /\ cells \in [Slab -> [0..Width -> Nat]] /\ b \notin slabs
    BY DEF NewFor, New, Structure, Types, HeapTypes
<1>1. /\ \A v \in Thread : Mine(v) # s
      /\ \A v \in Thread : v # t => Mine(v)' = Mine(v)
      /\ \A x \in Storage : x # s => store'[x] = store[x]
      /\ store'[s].slabs = Append(q, b) /\ store'[s].owner
      /\ \A l \in 1..Len(q) : q[l] \in slabs
      /\ \A x \in Storage : \A l \in 1..Len(store[x].slabs) : store[x].slabs[l] # b
    BY NewIs
<1>2. PICK p : p = Append(q, b)
    OBVIOUS
<1>3. p \in Seq(Slab) /\ Len(p) = Len(q) + 1 /\ p[Len(q) + 1] = b /\ p # << >>
      /\ \A l \in 1..Len(q) : p[l] = q[l]
    BY <1>2, AppendProperties
<1>4. CASE u = t
    <2>1. Mine(t)' = s
        BY DEF NewFor
    <2>2. p[Len(p)] = b
        BY <1>3
    <2>3. cells'[b] = Empty
        BY <1>0
    <2>4. \A x \in Storage \ {s} : \A l \in 1..Len(store'[x].slabs) : store'[x].slabs[l] # b
        BY <1>1
    <2>5. \A v \in Thread \ {t} : Mine(v)' # s
        BY <1>1
    <2>6. store'[s].slabs = p
        BY <1>1, <1>2
    <2> QED  BY <1>1, <1>3, <1>4, <2>1, <2>2, <2>3, <2>4, <2>5, <2>6 DEF PrivateOf
<1>5. CASE u # t
    <2>1. PICK m : m = Mine(u)
        OBVIOUS
    <2>2. Mine(u)' = m /\ m # Null /\ m # s
        BY <1>1, <1>5, <2>1
    <2>3. m \in Storage
        BY <2>1, <2>2 DEF Mine, Structure, Types, ThreadTypes
    <2>4. PICK r \in Seq(Slab) : r = store[m].slabs
        BY <2>3 DEF Structure, Types, HeapTypes, Record
    <2>5. /\ r # << >> /\ store[m].owner
          /\ \A x \in Storage \ {m} : \A l \in 1..Len(store[x].slabs) : store[x].slabs[l] # r[Len(r)]
          /\ cells[r[Len(r)]] = Empty
          /\ \A v \in Thread \ {u} : Mine(v) # m
        BY <2>1, <2>2, <2>4 DEF Structure, PrivateOf
    <2>6. r[Len(r)] # b /\ r[Len(r)] \in Slab
        BY <1>1, <2>3, <2>4, <2>5
    <2>7. cells'[r[Len(r)]] = Empty
        BY <1>0, <2>5, <2>6
    <2>8. \A v \in Thread \ {u} : Mine(v)' # m
        BY <1>1, <2>2, <2>5 DEF NewFor
    <2>9. \A l \in 1..Len(q) : q[l] # r[Len(r)]
        <3>1. CASE q = << >>
            BY <3>1
        <3>2. CASE \E x \in Storage : q = store[x].slabs /\ ~Private(x)
            <4>1. PICK x \in Storage : q = store[x].slabs /\ ~Private(x)
                BY <3>2
            <4>2. x # m
                BY <4>1, <2>1 DEF Private
            <4> QED  BY <4>1, <4>2, <2>5
        <3> QED  BY <3>1, <3>2 DEF NewFor
    <2>10. \A l \in 1..Len(p) : p[l] # r[Len(r)]
        BY <1>3, <2>6, <2>9
    <2>11. \A x \in Storage \ {m} : \A l \in 1..Len(store'[x].slabs) : store'[x].slabs[l] # r[Len(r)]
        <3> SUFFICES ASSUME NEW x \in Storage \ {m}
                     PROVE  \A l \in 1..Len(store'[x].slabs) : store'[x].slabs[l] # r[Len(r)]
            OBVIOUS
        <3>1. CASE x = s
            BY <3>1, <1>1, <1>2, <2>10
        <3>2. CASE x # s
            BY <3>2, <1>1, <2>5
        <3> QED  BY <3>1, <3>2
    <2>12. store'[m] = store[m]
        BY <1>1, <2>2, <2>3
    <2> QED  BY <2>2, <2>4, <2>5, <2>7, <2>8, <2>11, <2>12 DEF PrivateOf
<1> QED  BY <1>4, <1>5

\* What a storage deletes are slabs of its own.
LEMMA OwnedIs ==
    ASSUME NEW r \in Record
    PROVE  /\ r.owner => Owned(r) = {r.slabs[l] : l \in 1..Len(r.slabs)}
           /\ ~r.owner /\ ~r.clean => Owned(r) = {}
           /\ Owned(r) \subseteq {r.slabs[l] : l \in 1..Len(r.slabs)}
<1>1. r.slabs \in Seq(Slab)
    BY DEF Record
<1>2. CASE r.owner
    BY <1>2 DEF Owned
<1>3. CASE ~r.owner /\ r.clean /\ r.slabs # << >>
    <2>1. Len(r.slabs) \in 1..Len(r.slabs)
        BY <1>1, <1>3
    <2>2. Owned(r) = {r.slabs[Len(r.slabs)]}
        BY <1>3 DEF Owned
    <2> QED  BY <1>3, <2>1, <2>2
<1>4. CASE ~r.owner /\ ~(r.clean /\ r.slabs # << >>)
    <2>1. Owned(r) = {}
        BY <1>4 DEF Owned
    <2> QED  BY <1>4, <2>1
<1> QED  BY <1>2, <1>3, <1>4

\* The slabs after a construction.
LEMMA NewOwned ==
    ASSUME Structure, Types', NEW t \in Thread, NEW s \in Storage, NEW b \in Slab,
           NEW q \in Seq(Slab), NewFor(t, s, q, b)
    PROVE  OwnedSlabs'
<1>0. slabs' = slabs \cup {b} /\ slabs = UNION {Owned(store[x]) : x \in Storage}
    BY DEF NewFor, New, Structure, OwnedSlabs
<1>1. /\ ~store[s].owner /\ ~store[s].clean
      /\ \A x \in Storage : x # s => store'[x] = store[x]
      /\ store'[s].slabs = Append(q, b) /\ store'[s].owner
      /\ \A l \in 1..Len(q) : q[l] \in slabs
    BY NewIs
<1>2. store[s] \in Record /\ store'[s] \in Record
    BY DEF Structure, Types, HeapTypes
<1>3. Owned(store[s]) = {}
    BY <1>1, <1>2, OwnedIs
<1>4. Owned(store'[s]) = {store'[s].slabs[l] : l \in 1..Len(store'[s].slabs)}
    BY <1>1, <1>2, OwnedIs
<1>5. PICK p : p = Append(q, b)
    OBVIOUS
<1>6. Len(p) = Len(q) + 1 /\ p[Len(q) + 1] = b /\ \A l \in 1..Len(q) : p[l] = q[l]
    BY <1>5, AppendProperties
<1>7. Owned(store'[s]) = {p[l] : l \in 1..Len(p)}
    BY <1>1, <1>4, <1>5
<1>8. b \in Owned(store'[s]) /\ Owned(store'[s]) \subseteq slabs \cup {b}
    <2>1. Len(q) + 1 \in 1..Len(p)
        BY <1>6
    <2> QED  BY <1>1, <1>6, <1>7, <2>1
<1>9. \A x \in Storage : x # s => Owned(store'[x]) = Owned(store[x])
    BY <1>1
<1>10. UNION {Owned(store'[x]) : x \in Storage} = slabs \cup {b}
    BY <1>0, <1>3, <1>8, <1>9
<1>11. OwnedSlabs' <=> slabs' = UNION {Owned(store'[x]) : x \in Storage}
    BY DEF OwnedSlabs, Owned
<1> QED  BY <1>0, <1>10, <1>11

\* The other threads after a construction.
LEMMA NewThreads ==
    ASSUME Structure, Types', NEW t \in Thread, NEW s \in Storage, NEW b \in Slab,
           NEW q \in Seq(Slab), NewFor(t, s, q, b), NEW u \in Thread, u # t
    PROVE  ThreadOf(u)'
<1>1. /\ \A v \in Thread : Mine(v) # s
      /\ \A v \in Thread : v # t => Mine(v)' = Mine(v)
      /\ \A v \in Thread : pc[v] \in AtWork => cur[v] # s
      /\ \A x \in Storage : x # s => store'[x] = store[x]
    BY NewIs
<1>2. Others(t) /\ stripes' = stripes /\ retired' = retired /\ live' = live /\ pc'[t] # "retire"
    BY DEF NewFor
<1>3. ThreadOf(u)
    BY DEF Structure
<1>4. /\ pc'[u] = pc[u] /\ op'[u] = op[u] /\ hazard'[u] = hazard[u] /\ cur'[u] = cur[u]
      /\ next'[u] = next[u] /\ load'[u] = load[u] /\ idx'[u] = idx[u]
    BY <1>2 DEF Others
<1>5. pc[u] \in AtWork => cur[u] \in Storage /\ stripes \in Storage
    BY HeldIs DEF AtWork
<1>6. pc[u] \in AtWork => store'[cur[u]] = store[cur[u]]
    BY <1>1, <1>5
<1>7. Held(u) /\ pc[u] \in AtWork => Held(u)'
    <2> SUFFICES ASSUME Held(u), pc[u] \in AtWork
                 PROVE  Held(u)'
        OBVIOUS
    <2>1. \A v \in Thread : Mine(v)' # cur[u]
        BY <1>1 DEF Held, Private, NewFor
    <2>2. store'[stripes] = store[stripes]
        BY <1>1, <1>5, NewIs
    <2> QED  BY <1>2, <1>4, <1>6, <2>1, <2>2 DEF Held, Allocated, Private
<1>8. pc[u] = "install_cas" => store'[cur[u]] = store[cur[u]]
    <2> SUFFICES ASSUME pc[u] = "install_cas"
                 PROVE  store'[cur[u]] = store[cur[u]]
        OBVIOUS
    <2>1. cur[u] = Mine(u) /\ Mine(u) # Null
        BY <1>3 DEF ThreadOf, Mine
    <2>2. cur[u] \in Storage
        BY <2>1 DEF Structure, Types, ThreadTypes
    <2> QED  BY <1>1, <2>1, <2>2
<1>9. pc[u] = "grow" => store'[next[u]] = store[next[u]]
    <2> SUFFICES ASSUME pc[u] = "grow"
                 PROVE  store'[next[u]] = store[next[u]]
        OBVIOUS
    <2>1. next[u] = Mine(u) /\ Mine(u) # Null
        BY <1>3 DEF ThreadOf, Mine
    <2>2. next[u] \in Storage
        BY <2>1 DEF Structure, Types, ThreadTypes
    <2> QED  BY <1>1, <2>1, <2>2
<1>10. pc[u] = "retire" => /\ cur[u] # stripes' /\ cur[u] \notin retired'
                           /\ \A v \in Thread \ {u} : ~Retires(v, cur[u])'
    BY <1>2, <1>3, OthersRetire DEF ThreadOf
<1>11. Mine(u)' = Mine(u)
    BY <1>1
<1>12. pc[u] \in AtWork \cup {"install_cas"} => store'[cur[u]].slabs = store[cur[u]].slabs
    BY <1>6, <1>8
<1> QED  BY <1>2, <1>3, <1>4, <1>7, <1>9, <1>10, <1>11, <1>12, OtherThread

\* A construction keeps the invariant when it does so for t itself.
LEMMA NewStep ==
    ASSUME Structure, Types', NEW t \in Thread, NEW s \in Storage, NEW b \in Slab,
           NEW q \in Seq(Slab), NewFor(t, s, q, b), ThreadOf(t)'
    PROVE  Structure'
<1>1. \A u \in Thread : ThreadOf(u)'
    BY NewThreads
<1> QED  BY <1>1, NewStorages, NewPublished, NewPrivate, NewOwned DEF Structure

\* Constructing the first storage keeps the invariant.
LEMMA InstallNewStep ==
    ASSUME Structure, Types', NEW t \in Thread, InstallNew(t)
    PROVE  Structure'
<1>0. Types /\ ThreadOf(t)
    BY DEF Structure
<1>1. PICK s \in Storage, b \in Slab : New(s, << >>, b) /\ cur'[t] = s /\ hazard'[t] = s
    BY <1>0, InstallNewDoes
<1>2. PICK q \in Seq(Slab) : q = << >> /\ Len(q) = 0 /\ Len(q) < MaxLevel
    <2>1. << >> \in Seq(Slab) /\ Len(<< >>) = 0
        BY EmptySeq
    <2>2. 0 < MaxLevel
        BY LimitAssumption
    <2> QED  BY <2>1, <2>2
<1>3. NewFor(t, s, q, b)
    <2>1. /\ Others(t) /\ live /\ stripes' = stripes /\ retired' = retired /\ live' = live
          /\ pc[t] # "retire" /\ pc'[t] # "retire"
        BY <1>0, InstallNewDoes DEF ThreadOf
    <2>2. Mine(t) = Null /\ Mine(t)' = s
        BY <1>0, <1>1, InstallNewDoes DEF Mine
    <2> QED  BY <1>1, <1>2, <2>1, <2>2 DEF NewFor
<1>4. store'[s].slabs = Append(q, b)
    BY <1>3, NewIs
<1>5. Len(store'[s].slabs) = 1
    BY <1>2, <1>4, AppendProperties
<1>6. ThreadOf(t)'
    BY <1>0, <1>1, <1>5, InstallNewDoes, NullAssumption DEF ThreadOf, Mine
<1> QED  BY <1>3, <1>6, NewStep

\* Constructing a larger storage keeps the invariant.
LEMMA ExpandCurStep ==
    ASSUME Structure, Types', NEW t \in Thread, ExpandCur(t)
    PROVE  Structure'
<1>0. Types /\ ThreadOf(t)
    BY DEF Structure
<1>1. PICK s \in Storage, b \in Slab : New(s, store[cur[t]].slabs, b) /\ next'[t] = s
    BY <1>0, ExpandCurDoes
<1>2. pc[t] = "expand" /\ Held(t) /\ Len(store[cur[t]].slabs) < MaxLevel /\ hazard[t] = cur[t]
    BY <1>0, ExpandCurDoes DEF ThreadOf
<1>3. cur[t] \in Storage /\ ~Private(cur[t])
    BY <1>2 DEF Held, Allocated
<1>4. PICK q \in Seq(Slab) : q = store[cur[t]].slabs
    BY <1>0, <1>3 DEF Types, HeapTypes, Record
<1>5. NewFor(t, s, q, b)
    <2>1. /\ Others(t) /\ live /\ stripes' = stripes /\ retired' = retired /\ live' = live
          /\ pc[t] # "retire" /\ pc'[t] # "retire"
        BY <1>0, ExpandCurDoes DEF ThreadOf
    <2>2. Mine(t) = Null /\ Mine(t)' = s
        BY <1>0, <1>1, ExpandCurDoes DEF Mine
    <2>3. \E x \in Storage : q = store[x].slabs /\ ~Private(x)
        BY <1>3, <1>4
    <2> QED  BY <1>1, <1>2, <1>4, <2>1, <2>2, <2>3 DEF NewFor
<1>6. /\ store'[s].slabs = Append(q, b) /\ cur[t] # s /\ stripes # s
      /\ \A x \in Storage : x # s => store'[x] = store[x]
    BY <1>2, <1>5, NewIs DEF AtWork
<1>7. cur'[t] = cur[t] /\ hazard'[t] = hazard[t] /\ stripes' = stripes /\ pc'[t] = "grow"
    BY <1>0, ExpandCurDoes
<1>8. Held(t)'
    <2>1. \A v \in Thread : Mine(v)' # cur[t]
        BY <1>3, <1>5, <1>6, NewIs DEF Private, NewFor
    <2> QED  BY <1>2, <1>3, <1>6, <1>7, <2>1 DEF Held, Allocated, Private
<1>9. ThreadOf(t)'
    <2>1. store'[cur[t]] = store[cur[t]] /\ Mine(t)' # Null
        BY <1>3, <1>5, <1>6, NullAssumption DEF NewFor
    <2> QED  BY <1>0, <1>1, <1>2, <1>4, <1>6, <1>7, <1>8, <2>1, ExpandCurDoes DEF ThreadOf
<1> QED  BY <1>5, <1>9, NewStep

-----------------------------------------------------------------------------
(* Deleting a storage: one that lost a race, or a retired one *)

\* The storage at s goes, and with it the slabs B, which no other storage has;
\* the others it would delete belong to the current storage too.
GoneFor(s, B) ==
    /\ store' = [store EXCEPT ![s] = NoStorage]
    /\ slabs' = slabs \ B /\ cells' = cells
    /\ stripes' = stripes /\ live' = live /\ s # stripes
    /\ retired' = retired \ {s}
    /\ \A u \in Thread : Mine(u)' = IF Mine(u) = s THEN Null ELSE Mine(u)
    /\ \A u \in Thread : \A x : Retires(u, x)' <=> Retires(u, x)
    /\ \A u \in Thread : ~Retires(u, s)
    /\ \A x \in Storage : x # s => \A l \in 1..Len(store[x].slabs) : store[x].slabs[l] \notin B
    /\ \A y \in Owned(store[s]) : y \in B \/ (stripes # Null /\ y \in Owned(store[stripes]))

\* What remains when a storage goes.
LEMMA GoneIs ==
    ASSUME Structure, NEW s \in Storage, NEW B, GoneFor(s, B)
    PROVE  /\ \A x \in Storage : x # s => store'[x] = store[x]
           /\ store'[s] = NoStorage
           /\ \A x \in Storage : x # s => (Private(x)' <=> Private(x))
           /\ ~Private(s)'
<1>1. \A x \in Storage : x # s => store'[x] = store[x]
    BY DEF GoneFor, Structure, Types, HeapTypes
<1>2. store'[s] = NoStorage
    BY DEF GoneFor, Structure, Types, HeapTypes
<1>3. \A x \in Storage : x # s => (Private(x)' <=> Private(x))
    BY NullAssumption DEF GoneFor, Private
<1>4. ~Private(s)'
    BY NullAssumption DEF GoneFor, Private
<1> QED  BY <1>1, <1>2, <1>3, <1>4

\* The storages after one is deleted.
LEMMA GoneStorages ==
    ASSUME Structure, Types', NEW s \in Storage, NEW B, GoneFor(s, B)
    PROVE  \A x \in Storage : StorageOf(x)'
<1> SUFFICES ASSUME NEW x \in Storage
             PROVE  StorageOf(x)'
    OBVIOUS
<1>0. slabs' = slabs \ B /\ stripes' = stripes /\ retired' = retired \ {s} /\ live' = live
    BY DEF GoneFor
<1>1. CASE x # s
    <2>1. (Private(x)' <=> Private(x)) /\ store'[x] = store[x]
        BY <1>1, GoneIs
    <2>2. \A u \in Thread : Retires(u, x)' <=> Retires(u, x)
        BY DEF GoneFor
    <2>3. \A l \in 1..Len(store[x].slabs) : store[x].slabs[l] \notin B
        BY <1>1 DEF GoneFor
    <2> QED  BY <1>0, <2>1, <2>2, <2>3 DEF Structure, StorageOf
<1>2. CASE x = s
    <2>1. store'[s] = NoStorage
        BY GoneIs
    <2>2. NoStorage.slabs = << >> /\ Len(NoStorage.slabs) = 0 /\ ~NoStorage.owner /\ ~NoStorage.clean
          /\ NoStorage.clean = NoStorage.owner
        BY DEF NoStorage
    <2>3. 0 <= MaxLevel
        BY LimitAssumption
    <2> QED  BY <1>0, <1>2, <2>1, <2>2, <2>3 DEF StorageOf
<1> QED  BY <1>1, <1>2

\* The published storages after one is deleted.
LEMMA GonePublished ==
    ASSUME Structure, Types', NEW s \in Storage, NEW B, GoneFor(s, B)
    PROVE  Published'
<1>0. stripes' = stripes /\ live' = live /\ s # stripes
    BY DEF GoneFor
<1>1. \A x \in Storage : x # s => (Private(x)' <=> Private(x)) /\ store'[x] = store[x]
    BY GoneIs
<1>2. store'[s].slabs = << >>
    BY GoneIs DEF NoStorage
<1>3. stripes # Null => stripes \in Storage
    BY DEF Structure, Types, HeapTypes
<1>4. (stripes # Null => live /\ Allocated(stripes) /\ store[stripes].owner /\ ~Private(stripes))'
    <2> SUFFICES ASSUME stripes # Null
                 PROVE  (live /\ Allocated(stripes) /\ store[stripes].owner /\ ~Private(stripes))'
        BY <1>0
    <2>1. PICK c \in Storage : c = stripes /\ c # s
        BY <1>0, <1>3
    <2>2. live /\ Allocated(c) /\ store[c].owner /\ ~Private(c)
        BY <2>1 DEF Structure, Published
    <2>3. ~Private(c)' /\ store'[c] = store[c]
        BY <2>1, <2>2, <1>1
    <2> QED  BY <1>0, <2>1, <2>2, <2>3 DEF Allocated, Private
<1>5. ASSUME NEW x \in Storage, live
      PROVE  Grown(x)'
    <2> SUFFICES ASSUME Allocated(x)', ~Private(x)'
                 PROVE  Grown(x)'
        BY DEF Grown
    <2>1. x # s /\ ~Private(x) /\ Allocated(x)
        BY <1>1, <1>2 DEF Allocated
    <2>2. Grown(x)
        BY <1>5 DEF Structure, Published
    <2>3. stripes # Null /\ store'[stripes] = store[stripes] /\ store'[x] = store[x]
        BY <1>0, <1>1, <1>3, <2>1, <2>2 DEF Grown
    <2> QED  BY <1>0, <2>1, <2>2, <2>3 DEF Grown
<1> QED  BY <1>0, <1>4, <1>5 DEF Published

\* The private storages after one is deleted.
LEMMA GonePrivate ==
    ASSUME Structure, Types', NEW s \in Storage, NEW B, GoneFor(s, B)
    PROVE  \A u \in Thread : PrivateOf(u)'
<1> SUFFICES ASSUME NEW u \in Thread, Mine(u)' # Null
             PROVE  PrivateOf(u)'
    BY DEF PrivateOf
<1>1. \A x \in Storage : x # s => store'[x] = store[x]
    BY GoneIs
<1>2. store'[s].slabs = << >> /\ Len(store'[s].slabs) = 0
    BY GoneIs DEF NoStorage
<1>3. PICK m : m = Mine(u)
    OBVIOUS
<1>4. Mine(u)' = m /\ m # Null /\ m # s
    BY <1>3 DEF GoneFor
<1>5. m \in Storage
    BY <1>3, <1>4 DEF Mine, Structure, Types, ThreadTypes
<1>6. PICK r : r = store[m].slabs
    OBVIOUS
<1>7. /\ r # << >> /\ store[m].owner
      /\ \A x \in Storage \ {m} : \A l \in 1..Len(store[x].slabs) : store[x].slabs[l] # r[Len(r)]
      /\ cells[r[Len(r)]] = Empty
      /\ \A v \in Thread \ {u} : Mine(v) # m
    BY <1>3, <1>4, <1>6 DEF Structure, PrivateOf
<1>8. \A x \in Storage \ {m} : \A l \in 1..Len(store'[x].slabs) : store'[x].slabs[l] # r[Len(r)]
    <2> SUFFICES ASSUME NEW x \in Storage \ {m}
                 PROVE  \A l \in 1..Len(store'[x].slabs) : store'[x].slabs[l] # r[Len(r)]
        OBVIOUS
    <2>1. CASE x = s
        BY <2>1, <1>2
    <2>2. CASE x # s
        BY <2>2, <1>1, <1>7
    <2> QED  BY <2>1, <2>2
<1>9. \A v \in Thread \ {u} : Mine(v)' # m
    BY <1>4, <1>7 DEF GoneFor
<1>10. store'[m] = store[m] /\ cells' = cells
    BY <1>1, <1>4, <1>5 DEF GoneFor
<1> QED  BY <1>4, <1>6, <1>7, <1>8, <1>9, <1>10 DEF PrivateOf

\* The slabs after a storage is deleted.
LEMMA GoneOwned ==
    ASSUME Structure, Types', NEW s \in Storage, NEW B, GoneFor(s, B)
    PROVE  OwnedSlabs'
<1>0. slabs' = slabs \ B /\ slabs = UNION {Owned(store[x]) : x \in Storage}
    BY DEF GoneFor, Structure, OwnedSlabs
<1>1. \A x \in Storage : x # s => Owned(store'[x]) = Owned(store[x])
    BY GoneIs
<1>2. Owned(store'[s]) = {}
    BY GoneIs DEF NoStorage, Owned
<1>3. \A x \in Storage : x # s => \A y \in Owned(store[x]) : y \notin B
    <2> SUFFICES ASSUME NEW x \in Storage, x # s, NEW y \in Owned(store[x])
                 PROVE  y \notin B
        OBVIOUS
    <2>1. store[x] \in Record
        BY DEF Structure, Types, HeapTypes
    <2>2. PICK l \in 1..Len(store[x].slabs) : y = store[x].slabs[l]
        BY <2>1, OwnedIs
    <2> QED  BY <2>2 DEF GoneFor
<1>4. \A y \in Owned(store[s]) : y \in B \/ \E x \in Storage : x # s /\ y \in Owned(store[x])
    <2>1. stripes # Null => stripes \in Storage /\ stripes # s
        BY DEF Structure, Types, HeapTypes, GoneFor
    <2> QED  BY <2>1 DEF GoneFor
<1>5. UNION {Owned(store'[x]) : x \in Storage} = slabs \ B
    <2>1. ASSUME NEW y, y \in UNION {Owned(store'[x]) : x \in Storage}
          PROVE  y \in slabs \ B
        BY <1>0, <1>1, <1>2, <1>3, <2>1
    <2>2. ASSUME NEW y, y \in slabs \ B
          PROVE  y \in UNION {Owned(store'[x]) : x \in Storage}
        <3>1. PICK x \in Storage : x # s /\ y \in Owned(store[x])
            BY <1>0, <1>4, <2>2
        <3> QED  BY <1>1, <3>1
    <2> QED  BY <2>1, <2>2
<1>6. OwnedSlabs' <=> slabs' = UNION {Owned(store'[x]) : x \in Storage}
    BY DEF OwnedSlabs, Owned
<1> QED  BY <1>0, <1>5, <1>6

\* A thread that does not have the storage is not affected.
LEMMA GoneThread ==
    ASSUME Structure, Types', NEW s \in Storage, NEW B, GoneFor(s, B), NEW u \in Thread,
           Mine(u) # s, pc[u] \in AtWork => cur[u] # s,
           pc'[u] = pc[u] /\ op'[u] = op[u] /\ hazard'[u] = hazard[u] /\ cur'[u] = cur[u],
           next'[u] = next[u] /\ load'[u] = load[u] /\ idx'[u] = idx[u]
    PROVE  ThreadOf(u)'
<1>1. \A x \in Storage : x # s => (Private(x)' <=> Private(x)) /\ store'[x] = store[x]
    BY GoneIs
<1>2. stripes' = stripes /\ retired' = retired \ {s} /\ live' = live /\ s # stripes
    BY DEF GoneFor
<1>3. ThreadOf(u)
    BY DEF Structure
<1>4. pc[u] \in AtWork => cur[u] \in Storage /\ stripes \in Storage
    BY HeldIs DEF AtWork
<1>5. pc[u] \in AtWork => store'[cur[u]] = store[cur[u]]
    BY <1>1, <1>4
<1>6. Held(u) /\ pc[u] \in AtWork => Held(u)'
    <2> SUFFICES ASSUME Held(u), pc[u] \in AtWork
                 PROVE  Held(u)'
        OBVIOUS
    <2>1. PICK c \in Storage : c = cur[u] /\ c # s
        BY <1>4
    <2>2. ~Private(c)'
        BY <1>1, <2>1 DEF Held
    <2>3. store'[stripes] = store[stripes]
        BY <1>1, <1>2, <1>4
    <2> QED  BY <1>2, <1>5, <2>1, <2>2, <2>3 DEF Held, Allocated, Private
<1>7. pc[u] = "install_cas" => store'[cur[u]] = store[cur[u]]
    <2> SUFFICES ASSUME pc[u] = "install_cas"
                 PROVE  store'[cur[u]] = store[cur[u]]
        OBVIOUS
    <2>1. cur[u] = Mine(u) /\ Mine(u) # Null
        BY <1>3 DEF ThreadOf, Mine
    <2>2. cur[u] \in Storage
        BY <2>1 DEF Structure, Types, ThreadTypes
    <2> QED  BY <1>1, <2>1, <2>2
<1>8. pc[u] = "grow" => store'[next[u]] = store[next[u]]
    <2> SUFFICES ASSUME pc[u] = "grow"
                 PROVE  store'[next[u]] = store[next[u]]
        OBVIOUS
    <2>1. next[u] = Mine(u) /\ Mine(u) # Null
        BY <1>3 DEF ThreadOf, Mine
    <2>2. next[u] \in Storage
        BY <2>1 DEF Structure, Types, ThreadTypes
    <2> QED  BY <1>1, <2>1, <2>2
<1>9. pc[u] = "retire" => /\ cur[u] # stripes' /\ cur[u] \notin retired'
                          /\ \A v \in Thread \ {u} : ~Retires(v, cur[u])'
    <2> SUFFICES ASSUME pc[u] = "retire"
                 PROVE  /\ cur[u] # stripes' /\ cur[u] \notin retired'
                        /\ \A v \in Thread \ {u} : ~Retires(v, cur[u])'
        OBVIOUS
    <2>1. cur[u] # stripes' /\ cur[u] \notin retired'
        BY <1>2, <1>3 DEF ThreadOf
    <2>2. PICK c : c = cur[u]
        OBVIOUS
    <2>3. \A v \in Thread \ {u} : ~Retires(v, c)'
        BY <1>3, <2>2 DEF ThreadOf, GoneFor
    <2> QED  BY <2>1, <2>2, <2>3 DEF Retires
<1>10. Mine(u)' = Mine(u)
    BY DEF GoneFor
<1>11. pc[u] \in AtWork \cup {"install_cas"} => store'[cur[u]].slabs = store[cur[u]].slabs
    BY <1>5, <1>7
<1> QED  BY <1>2, <1>3, <1>6, <1>8, <1>9, <1>10, <1>11, OtherThread

\* Reclaiming a retired storage keeps the invariant.
LEMMA ReclaimStep ==
    ASSUME Structure, Types', NEW s \in Storage, Reclaim(s)
    PROVE  Structure'
<1>0. Types
    BY DEF Structure
<1>1. /\ s \in retired /\ \A u \in Thread : hazard[u] # s
      /\ slabs' = slabs \ Owned(store[s])
      /\ store' = [store EXCEPT ![s] = NoStorage] /\ retired' = retired \ {s}
      /\ stripes' = stripes /\ live' = live /\ cells' = cells
      /\ ThreadsKept /\ hazard' = hazard
    BY <1>0, ReclaimDoes
<1>2. ~store[s].owner /\ s # stripes /\ ~Private(s) /\ store[s].clean = store[s].owner
    BY <1>1 DEF Structure, StorageOf
<1>3. Owned(store[s]) = {}
    <2>1. store[s] \in Record
        BY <1>0 DEF Types, HeapTypes
    <2>2. ~store[s].owner /\ ~store[s].clean
        BY <1>2
    <2> QED  BY <2>1, <2>2, OwnedIs
<1>4. \A u \in Thread : Mine(u) # s
    BY <1>2 DEF Private
<1>5. \A u \in Thread : ~Retires(u, s)
    BY <1>1 DEF Structure, ThreadOf, Retires
<1>6. GoneFor(s, {})
    <2>1. \A u \in Thread : Mine(u)' = IF Mine(u) = s THEN Null ELSE Mine(u)
        BY <1>1, <1>4 DEF Mine, ThreadsKept
    <2>2. \A u \in Thread : \A x : Retires(u, x)' <=> Retires(u, x)
        BY <1>1 DEF Retires, ThreadsKept
    <2>3. slabs' = slabs \ {}
        BY <1>1, <1>3
    <2> QED  BY <1>1, <1>2, <1>3, <1>5, <2>1, <2>2, <2>3 DEF GoneFor
<1>7. \A u \in Thread : ThreadOf(u)'
    <2> SUFFICES ASSUME NEW u \in Thread
                 PROVE  ThreadOf(u)'
        OBVIOUS
    <2>1. pc[u] \in AtWork => cur[u] # s
        BY <1>1, <1>2 DEF Structure, ThreadOf, Held, AtWork
    <2>2. /\ pc'[u] = pc[u] /\ op'[u] = op[u] /\ hazard'[u] = hazard[u] /\ cur'[u] = cur[u]
          /\ next'[u] = next[u] /\ load'[u] = load[u] /\ idx'[u] = idx[u]
        BY <1>1 DEF ThreadsKept
    <2> QED  BY <1>4, <1>6, <2>1, <2>2, GoneThread
<1> QED  BY <1>6, <1>7, GoneStorages, GonePublished, GonePrivate, GoneOwned DEF Structure

\* A thread drops the storage it made: its newest slab goes with it.
Drops(t, s, b) ==
    /\ Mine(t) = s /\ Mine(t)' = Null /\ Others(t)
    /\ stripes # Null /\ stripes' = stripes /\ retired' = retired /\ live' = live
    /\ cells' = cells
    /\ b = store[s].slabs[Len(store[s].slabs)]
    /\ \A l \in 1..Len(store[s].slabs) :
          store[s].slabs[l] = b \/ store[s].slabs[l] \in Owned(store[stripes])
    /\ store' = [store EXCEPT ![s] = NoStorage] /\ slabs' = slabs \ {b}
    /\ pc[t] # "retire" /\ pc'[t] # "retire"

\* A dropped storage is nobody else's.
LEMMA DropIs ==
    ASSUME Structure, NEW t \in Thread, NEW s \in Storage, NEW b, Drops(t, s, b)
    PROVE  /\ GoneFor(s, {b})
           /\ \A u \in Thread : u # t => Mine(u) # s
           /\ \A u \in Thread : pc[u] \in AtWork => cur[u] # s
<1>0. PrivateOf(t) /\ s # Null
    BY NullAssumption DEF Structure
<1>a. Mine(t) = s /\ Others(t) /\ pc[t] # "retire" /\ pc'[t] # "retire" /\ stripes # Null
    BY DEF Drops
<1>1. \A u \in Thread : u # t => Mine(u) # s
    BY <1>0, <1>a DEF PrivateOf
<1>2. \A u \in Thread : pc[u] \in AtWork => cur[u] # s
    BY <1>a DEF Structure, ThreadOf, Held, Private, AtWork
<1>3. \A u \in Thread : Mine(u)' = IF Mine(u) = s THEN Null ELSE Mine(u)
    BY <1>1 DEF Drops, Others, Mine
<1>4. \A u \in Thread : \A x : Retires(u, x)' <=> Retires(u, x)
    BY <1>a DEF Others, Retires
<1>5. \A u \in Thread : ~Retires(u, s)
    BY <1>2 DEF Retires, AtWork
<1>6. s # stripes /\ s \notin retired
    BY <1>a DEF Structure, Published, StorageOf, Private
<1>7. \A x \in Storage : x # s => \A l \in 1..Len(store[x].slabs) : store[x].slabs[l] \notin {b}
    BY <1>0, <1>a DEF PrivateOf, Drops
<1>8. \A y \in Owned(store[s]) : y \in {b} \/ (stripes # Null /\ y \in Owned(store[stripes]))
    <2>1. store[s] \in Record
        BY DEF Structure, Types, HeapTypes
    <2> QED  BY <2>1, OwnedIs DEF Drops
<1>9. retired' = retired \ {s}
    BY <1>6 DEF Drops
<1> QED  BY <1>1, <1>2, <1>3, <1>4, <1>5, <1>6, <1>7, <1>8, <1>9 DEF GoneFor, Drops

\* Dropping a storage keeps the invariant when it does so for t itself.
LEMMA DropStep ==
    ASSUME Structure, Types', NEW t \in Thread, NEW s \in Storage, NEW b, GoneFor(s, {b}), Others(t),
           \A u \in Thread : u # t => Mine(u) # s,
           \A u \in Thread : pc[u] \in AtWork => cur[u] # s,
           ThreadOf(t)'
    PROVE  Structure'
<1>1. \A u \in Thread : ThreadOf(u)'
    <2> SUFFICES ASSUME NEW u \in Thread, u # t
                 PROVE  ThreadOf(u)'
        OBVIOUS
    <2>1. /\ pc'[u] = pc[u] /\ op'[u] = op[u] /\ hazard'[u] = hazard[u] /\ cur'[u] = cur[u]
          /\ next'[u] = next[u] /\ load'[u] = load[u] /\ idx'[u] = idx[u]
        BY DEF Others
    <2>2. Mine(u) # s /\ (pc[u] \in AtWork => cur[u] # s)
        OBVIOUS
    <2> QED  BY <2>1, <2>2, GoneThread
<1> QED  BY <1>1, GoneStorages, GonePublished, GonePrivate, GoneOwned DEF Structure

\* The installer that comes second keeps the invariant.
LEMMA InstallLostStep ==
    ASSUME Structure, Types', NEW t \in Thread, InstallCas(t), stripes # Null
    PROVE  Structure'
<1>0. Types /\ ThreadOf(t) /\ PrivateOf(t)
    BY DEF Structure
<1>1. /\ pc[t] = "install_cas" /\ stripes' = stripes
      /\ load'[t] = load[t] /\ pc'[t] = IF load[t] THEN "hz_load" ELSE "read"
      /\ slabs' = slabs \ Owned(store[cur[t]])
      /\ store' = [store EXCEPT ![cur[t]] = NoStorage]
      /\ retired' = retired /\ live' = live
      /\ op'[t] = op[t] /\ hazard'[t] = hazard[t] /\ cur'[t] = cur[t] /\ next'[t] = next[t]
      /\ idx'[t] = idx[t] /\ Others(t) /\ cells' = cells
    BY <1>0, InstallCasDoes
<1>2. load[t] /\ pc'[t] = "hz_load"
    BY <1>0, <1>1 DEF ThreadOf
<1>3. cur[t] = Mine(t) /\ Mine(t) # Null /\ Len(store[cur[t]].slabs) = 1
    BY <1>0, <1>1 DEF ThreadOf, Mine
<1>4. PICK s \in Storage : s = cur[t]
    BY <1>0, <1>3 DEF Types, ThreadTypes
<1>5. PICK b : b = store[s].slabs[Len(store[s].slabs)]
    OBVIOUS
<1>6. \A l \in 1..Len(store[s].slabs) :
         store[s].slabs[l] = b \/ store[s].slabs[l] \in Owned(store[stripes])
    BY <1>3, <1>4, <1>5
<1>7. Owned(store[s]) = {b}
    <2>1. store[s] \in Record /\ store[s].owner
        BY <1>0, <1>3, <1>4 DEF Types, HeapTypes, PrivateOf
    <2>2. Owned(store[s]) = {store[s].slabs[l] : l \in 1..Len(store[s].slabs)}
        BY <2>1, OwnedIs
    <2> QED  BY <1>3, <1>4, <1>5, <2>2
<1>8. slabs' = slabs \ {b} /\ store' = [store EXCEPT ![s] = NoStorage] /\ Mine(t) = s
    BY <1>1, <1>3, <1>4, <1>7
<1>9. Mine(t)' = Null /\ pc[t] # "retire" /\ pc'[t] # "retire"
    BY <1>1, <1>2 DEF Mine
<1>10. /\ GoneFor(s, {b})
       /\ \A u \in Thread : u # t => Mine(u) # s
       /\ \A u \in Thread : pc[u] \in AtWork => cur[u] # s
    <2>1. Drops(t, s, b)
        BY <1>1, <1>5, <1>6, <1>8, <1>9 DEF Drops
    <2> QED  BY <2>1, DropIs
<1>11. ThreadOf(t)'
    BY <1>0, <1>1, <1>2 DEF ThreadOf
<1> QED  BY <1>1, <1>10, <1>11, DropStep

\* A thread that loses the race to grow keeps the invariant, unless it is the
\* first installer and what it finds can still be outgrown.
LEMMA GrowFailedStep ==
    ASSUME Structure, Types', NEW t \in Thread, GrowFailed(t), ~InstallerLoses(t)
    PROVE  Structure'
<1>0. Types /\ ThreadOf(t) /\ PrivateOf(t)
    BY DEF Structure
<1>1. /\ pc[t] = "grow" /\ cur'[t] = stripes /\ next'[t] = Null
      /\ stripes # cur[t] /\ stripes' = stripes
      /\ pc'[t] = IF load[t] THEN "hz_load" ELSE "read"
      /\ slabs' = slabs \ Owned(Disavow(store[next[t]]))
      /\ store' = [store EXCEPT ![next[t]] = NoStorage]
      /\ retired' = retired /\ live' = live /\ cells' = cells
      /\ op'[t] = op[t] /\ hazard'[t] = hazard[t] /\ load'[t] = load[t] /\ idx'[t] = idx[t]
      /\ Others(t)
    BY <1>0, GrowFailedDoes
<1>2. /\ next[t] = Mine(t) /\ Mine(t) # Null /\ Held(t)
      /\ \E b \in Slab : store[next[t]].slabs = Append(store[cur[t]].slabs, b)
    BY <1>0, <1>1 DEF ThreadOf, Mine
<1>3. PICK s \in Storage : s = next[t]
    BY <1>0, <1>2 DEF Types, ThreadTypes
<1>4. PICK c \in Storage : c = cur[t]
    BY <1>2 DEF Held, Allocated
<1>5. PICK a \in Storage : a = stripes
    BY <1>0, <1>2 DEF Held, Types, HeapTypes
<1>6. store[s] \in Record /\ store[c] \in Record /\ store[a] \in Record
    BY <1>0 DEF Types, HeapTypes
<1>7. PICK q \in Seq(Slab) : q = store[c].slabs
    BY <1>6 DEF Record
<1>8. PICK b \in Slab : store[s].slabs = Append(q, b)
    BY <1>2, <1>3, <1>4, <1>7
<1>9. PICK p \in Seq(Slab) : /\ p = store[s].slabs /\ Len(p) = Len(q) + 1 /\ p[Len(p)] = b
                             /\ p # << >> /\ \A l \in 1..Len(q) : p[l] = q[l]
    <2>1. PICK p : p = Append(q, b)
        OBVIOUS
    <2>2. /\ p \in Seq(Slab) /\ Len(p) = Len(q) + 1 /\ p[Len(q) + 1] = b
          /\ p # << >> /\ \A l \in 1..Len(q) : p[l] = q[l]
        BY <2>1, AppendProperties
    <2> QED  BY <1>8, <2>1, <2>2
<1>10. Owned(Disavow(store[s])) = {b}
    <2>1. store[s].clean = TRUE
        BY <1>0, <1>2, <1>3, <1>6 DEF PrivateOf, Structure, StorageOf, Record
    <2>2. /\ ~Disavow(store[s]).owner /\ Disavow(store[s]).clean
          /\ Disavow(store[s]).slabs = p
        BY <1>6, <1>9, <2>1, DisavowIs
    <2> QED  BY <1>9, <2>2 DEF Owned
<1>11. \A l \in 1..Len(q) : q[l] \in Owned(store[a])
    <2>1. Allocated(c) /\ ~Private(c) /\ Allocated(a) /\ store[a].owner /\ live
        BY <1>2, <1>4, <1>5 DEF Held, Structure, Published
    <2>2. Grown(c)
        BY <2>1 DEF Structure, Published
    <2>3. Prefix(q, store[a].slabs)
        BY <1>5, <1>7, <2>1, <2>2 DEF Grown
    <2>4. Owned(store[a]) = {store[a].slabs[l] : l \in 1..Len(store[a].slabs)}
        BY <1>6, <2>1, OwnedIs
    <2>5. PICK r \in Seq(Slab) : r = store[a].slabs
        BY <1>6 DEF Record
    <2> QED  BY <2>3, <2>4, <2>5 DEF Prefix
<1>12. \A l \in 1..Len(store[s].slabs) :
          store[s].slabs[l] = b \/ store[s].slabs[l] \in Owned(store[stripes])
    BY <1>5, <1>9, <1>11
<1>13. /\ slabs' = slabs \ {b} /\ store' = [store EXCEPT ![s] = NoStorage] /\ Mine(t) = s
       /\ b = store[s].slabs[Len(store[s].slabs)] /\ stripes # Null
    BY <1>1, <1>2, <1>3, <1>9, <1>10 DEF Held
<1>14. Mine(t)' = Null /\ pc[t] # "retire" /\ pc'[t] # "retire"
    BY <1>1 DEF Mine
<1>15. /\ GoneFor(s, {b})
       /\ \A u \in Thread : u # t => Mine(u) # s
       /\ \A u \in Thread : pc[u] \in AtWork => cur[u] # s
    <2>1. Drops(t, s, b)
        BY <1>1, <1>12, <1>13, <1>14 DEF Drops
    <2> QED  BY <2>1, DropIs
<1>16. pc'[t] = "read" => Held(t)'
    <2> SUFFICES ASSUME pc'[t] = "read"
                 PROVE  Held(t)'
        OBVIOUS
    <2>1. ~load[t]
        BY <1>1
    <2>2. ~(Len(store[a].slabs) < MaxLevel)
        BY <1>5, <2>1 DEF InstallerLoses
    <2>3. Len(store[a].slabs) <= MaxLevel /\ Len(store[a].slabs) \in Nat /\ MaxLevel \in Nat
        BY <1>0, LimitAssumption, SizeType DEF Structure, StorageOf, Types
    <2>4. Len(store[a].slabs) = MaxLevel
        BY <2>2, <2>3
    <2>5. Allocated(a) /\ ~Private(a) /\ a # s
        BY <1>5, <1>13 DEF Structure, Published, Private
    <2>6. ~Private(a)' /\ store'[a] = store[a]
        BY <1>15, <2>5, GoneIs
    <2> QED  BY <1>1, <1>5, <1>13, <2>4, <2>5, <2>6 DEF Held, Allocated, Private
<1>17. ThreadOf(t)'
    BY <1>0, <1>1, <1>13, <1>16 DEF ThreadOf
<1> QED  BY <1>1, <1>15, <1>17, DropStep

-----------------------------------------------------------------------------
(* Publishing a storage *)

\* The storage that t made takes the place of o, which t retires next.
PublishFor(t, s, o) ==
    /\ Mine(t) = s /\ Mine(t)' = Null /\ Others(t)
    /\ stripes = o /\ stripes' = s /\ store' = store /\ slabs' = slabs /\ cells' = cells
    /\ retired' = retired /\ live' = live
    /\ pc[t] \notin {"retire", "idle"}
    /\ \A x : Retires(t, x)' <=> (o # Null /\ x = o)
    /\ o # Null => /\ Len(store[o].slabs) < MaxLevel
                   /\ \E b \in Slab : store[s].slabs = Append(store[o].slabs, b)

\* What is so when a storage is published.
LEMMA PublishIs ==
    ASSUME Structure, NEW t \in Thread, NEW s \in Storage, NEW o, PublishFor(t, s, o)
    PROVE  /\ live /\ Allocated(s) /\ store[s].owner
           /\ s # o /\ s \notin retired /\ s # Null
           /\ o # Null => o \in Storage
           /\ \A u \in Thread : u # t => Mine(u) # s /\ Mine(u)' = Mine(u)
           /\ \A x \in Storage : x # s => (Private(x)' <=> Private(x))
           /\ ~Private(s)' /\ Private(s)
           /\ \A u \in Thread : u # t => \A x : Retires(u, x)' <=> Retires(u, x)
           /\ \A x : ~Retires(t, x)
<1>0. PrivateOf(t) /\ s # Null /\ ThreadOf(t) /\ Private(s) /\ Mine(t) = s
    BY NullAssumption DEF Structure, PublishFor, Private
<1>1. live
    BY <1>0 DEF PublishFor, ThreadOf, Structure, Types, TotalTypes
<1>2. store[s].slabs # << >> /\ store[s].owner
    BY <1>0 DEF PrivateOf
<1>3. \A u \in Thread : u # t => Mine(u) # s
    BY <1>0 DEF PrivateOf
<1>4. \A u \in Thread : u # t => Mine(u)' = Mine(u)
    BY DEF PublishFor, Others, Mine
<1>5. \A x \in Storage : x # s => (Private(x)' <=> Private(x))
    BY <1>0, <1>4, NullAssumption DEF Private, PublishFor
<1>6. ~Private(s)'
    BY <1>0, <1>3, <1>4 DEF Private, PublishFor
<1>7. s \notin retired
    BY <1>0 DEF Structure, StorageOf
<1>8. s # o
    BY <1>0 DEF PublishFor, Structure, Published
<1>9. o # Null => o \in Storage
    BY DEF PublishFor, Structure, Types, HeapTypes
<1>10. \A u \in Thread : u # t => \A x : Retires(u, x)' <=> Retires(u, x)
    BY DEF PublishFor, Others, Retires
<1>11. \A x : ~Retires(t, x)
    BY DEF PublishFor, Retires
<1> QED  BY <1>0, <1>1, <1>2, <1>3, <1>4, <1>5, <1>6, <1>7, <1>8, <1>9, <1>10, <1>11
            DEF Allocated

\* The storages after one is published.
LEMMA PublishStorages ==
    ASSUME Structure, NEW t \in Thread, NEW s \in Storage, NEW o, PublishFor(t, s, o)
    PROVE  \A x \in Storage : StorageOf(x)'
<1> SUFFICES ASSUME NEW x \in Storage
             PROVE  StorageOf(x)'
    OBVIOUS
<1>0. slabs' = slabs /\ stripes = o /\ stripes' = s /\ retired' = retired /\ live' = live /\ store' = store
    BY DEF PublishFor
<1>1. StorageOf(x)
    BY DEF Structure
<1>2. store[x].owner => (x = stripes \/ Private(x) \/ \E u \in Thread : Retires(u, x))'
    <2> SUFFICES ASSUME store[x].owner, x # s
                 PROVE  Private(x)' \/ \E u \in Thread : Retires(u, x)'
        BY <1>0
    <2>1. CASE Private(x)
        BY <2>1, PublishIs
    <2>2. CASE x = o
        <3>1. o # Null
            BY <2>2, NullAssumption
        <3>2. Retires(t, x)'
            BY <2>2, <3>1 DEF PublishFor
        <3> QED  BY <3>2
    <2>3. ASSUME NEW u \in Thread, Retires(u, x)
          PROVE  \E v \in Thread : Retires(v, x)'
        <3>1. u # t
            BY <2>3, PublishIs
        <3> QED  BY <2>3, <3>1, PublishIs
    <2> QED  BY <1>0, <1>1, <2>1, <2>2, <2>3 DEF StorageOf
<1>3. x \in retired => x # s /\ ~Private(x)'
    BY <1>1, PublishIs DEF StorageOf
<1> QED  BY <1>0, <1>1, <1>2, <1>3 DEF StorageOf

\* The published storages after one is published.
LEMMA PublishPublished ==
    ASSUME Structure, NEW t \in Thread, NEW s \in Storage, NEW o, PublishFor(t, s, o)
    PROVE  Published'
<1>0. slabs' = slabs /\ stripes = o /\ stripes' = s /\ live' = live /\ store' = store
    BY DEF PublishFor
<1>1. live /\ Allocated(s) /\ store[s].owner /\ ~Private(s)' /\ s # Null
    BY PublishIs
<1>2. PICK p \in Seq(Slab) : p = store[s].slabs
    BY DEF Structure, Types, HeapTypes, Record
<1>3. ASSUME NEW x \in Storage, Allocated(x)', ~Private(x)', x # s
      PROVE  (Prefix(store[x].slabs, store[s].slabs) /\ Len(store[x].slabs) < Len(store[s].slabs))
    <2>1. Allocated(x) /\ ~Private(x)
        BY <1>0, <1>3, PublishIs DEF Allocated
    <2>2. Grown(x)
        BY <1>1 DEF Structure, Published
    <2>3. o # Null /\ Prefix(store[x].slabs, store[o].slabs) /\ o \in Storage
        BY <1>0, <2>1, <2>2, PublishIs DEF Grown
    <2>4. PICK q \in Seq(Slab) : q = store[o].slabs
        BY <2>3 DEF Structure, Types, HeapTypes, Record
    <2>5. PICK r \in Seq(Slab) : r = store[x].slabs
        BY DEF Structure, Types, HeapTypes, Record
    <2>6. PICK b \in Slab : p = Append(q, b)
        BY <1>2, <2>3, <2>4 DEF PublishFor
    <2>7. Len(p) = Len(q) + 1 /\ \A l \in 1..Len(q) : p[l] = q[l]
        BY <2>6, AppendProperties
    <2>8. Len(q) \in Nat /\ Len(r) \in Nat /\ Len(p) \in Nat
        BY LenProperties
    <2>9. Len(r) <= Len(q) /\ \A l \in 1..Len(r) : r[l] = q[l]
        BY <2>3, <2>4, <2>5 DEF Prefix
    <2>10. Len(r) < Len(p) /\ \A l \in 1..Len(r) : r[l] = p[l]
        BY <2>7, <2>8, <2>9
    <2> QED  BY <1>2, <2>5, <2>8, <2>10 DEF Prefix
<1>4. Prefix(store[s].slabs, store[s].slabs)
    <2>1. Len(p) \in Nat
        BY LenProperties
    <2> QED  BY <1>2, <2>1 DEF Prefix
<1>5. ASSUME NEW x \in Storage
      PROVE  Grown(x)'
    <2> SUFFICES ASSUME Allocated(x)', ~Private(x)'
                 PROVE  Grown(x)'
        BY DEF Grown
    <2>1. CASE x = s
        BY <1>0, <1>1, <1>4, <2>1 DEF Grown, Prefix
    <2>2. CASE x # s
        BY <1>0, <1>1, <1>3, <2>2 DEF Grown, Prefix
    <2> QED  BY <2>1, <2>2
<1> QED  BY <1>0, <1>1, <1>5 DEF Published, Allocated, Private

\* The other threads after a storage is published.
LEMMA PublishThreads ==
    ASSUME Structure, NEW t \in Thread, NEW s \in Storage, NEW o, PublishFor(t, s, o),
           NEW u \in Thread, u # t
    PROVE  ThreadOf(u)'
<1>0. slabs' = slabs /\ stripes = o /\ stripes' = s /\ retired' = retired /\ live' = live /\ store' = store
      /\ s # Null
    BY NullAssumption DEF PublishFor
<1>1. /\ pc'[u] = pc[u] /\ op'[u] = op[u] /\ hazard'[u] = hazard[u] /\ cur'[u] = cur[u]
      /\ next'[u] = next[u] /\ load'[u] = load[u] /\ idx'[u] = idx[u]
    BY DEF PublishFor, Others
<1>2. ThreadOf(u) /\ Mine(u)' = Mine(u)
    BY PublishIs DEF Structure
<1>3. Held(u) => cur[u] \in Storage /\ cur[u] # s
    BY PublishIs DEF Held, Allocated
<1>4. Held(u) /\ pc[u] \in AtWork => Held(u)'
    <2> SUFFICES ASSUME Held(u)
                 PROVE  Held(u)'
        OBVIOUS
    <2>1. PICK c \in Storage : c = cur[u] /\ c # s
        BY <1>3
    <2>2. ~Private(c)'
        BY <2>1, PublishIs DEF Held
    <2>3. hazard[u] = cur[u]
        <3>1. o # Null
            BY <1>0 DEF Held
        <3>2. Len(store[o].slabs) \in Nat /\ MaxLevel \in Nat /\ Len(store[o].slabs) < MaxLevel
            BY <3>1, LimitAssumption, PublishIs, SizeType DEF PublishFor, Structure, Types
        <3> QED  BY <1>0, <3>2 DEF Held
    <2> QED  BY <1>0, <1>1, <2>1, <2>2, <2>3 DEF Held, Allocated, Private
<1>5. pc[u] = "retire" => /\ cur[u] # stripes' /\ cur[u] \notin retired'
                          /\ \A v \in Thread \ {u} : ~Retires(v, cur[u])'
    <2> SUFFICES ASSUME pc[u] = "retire"
                 PROVE  /\ cur[u] # stripes' /\ cur[u] \notin retired'
                        /\ \A v \in Thread \ {u} : ~Retires(v, cur[u])'
        OBVIOUS
    <2>1. Held(u) /\ cur[u] # stripes /\ cur[u] \notin retired
        BY <1>2 DEF ThreadOf
    <2>2. PICK c : c = cur[u]
        OBVIOUS
    <2>3. \A v \in Thread \ {u} : ~Retires(v, c)
        BY <1>2, <2>2 DEF ThreadOf
    <2>4. ASSUME NEW v \in Thread \ {u}
          PROVE  ~Retires(v, c)'
        <3>1. CASE v = t
            BY <1>0, <2>1, <2>2, <3>1 DEF PublishFor
        <3>2. CASE v # t
            BY <2>3, <3>2, PublishIs
        <3> QED  BY <3>1, <3>2
    <2>5. cur'[u] = c
        BY <1>1, <2>2
    <2> QED  BY <1>0, <1>1, <1>3, <2>1, <2>2, <2>4, <2>5 DEF Retires
<1> QED  BY <1>0, <1>1, <1>2, <1>4, <1>5, OtherThread

\* Publishing a storage keeps the invariant when it does so for t itself.
LEMMA PublishStep ==
    ASSUME Structure, Types', NEW t \in Thread, NEW s \in Storage, NEW o, PublishFor(t, s, o),
           ThreadOf(t)'
    PROVE  Structure'
<1>0. slabs' = slabs /\ cells' = cells /\ store' = store
    BY DEF PublishFor
<1>1. \A u \in Thread : ThreadOf(u)'
    BY PublishThreads
<1>2. \A u \in Thread : PrivateOf(u)'
    <2> SUFFICES ASSUME NEW u \in Thread, Mine(u)' # Null
                 PROVE  PrivateOf(u)'
        BY DEF PrivateOf
    <2>1. u # t
        BY DEF PublishFor
    <2>2. PICK m : m = Mine(u) /\ m = Mine(u)' /\ m # Null
        BY <2>1, PublishIs
    <2>3. PrivateOf(u)
        BY DEF Structure
    <2>4. \A v \in Thread \ {u} : Mine(v)' # m
        <3> SUFFICES ASSUME NEW v \in Thread \ {u}
                     PROVE  Mine(v)' # m
            OBVIOUS
        <3>1. CASE v = t
            BY <2>2, <3>1 DEF PublishFor
        <3>2. CASE v # t
            BY <2>2, <2>3, <3>2, PublishIs DEF PrivateOf
        <3> QED  BY <3>1, <3>2
    <2>5. /\ store[m].slabs # << >> /\ store[m].owner
          /\ \A x \in Storage \ {m} : \A l \in 1..Len(store[x].slabs) :
                store[x].slabs[l] # store[m].slabs[Len(store[m].slabs)]
          /\ cells[store[m].slabs[Len(store[m].slabs)]] = Empty
        BY <2>2, <2>3 DEF PrivateOf
    <2> QED  BY <1>0, <2>2, <2>4, <2>5 DEF PrivateOf
<1>3. OwnedSlabs'
    BY <1>0 DEF OwnedSlabs, Structure
<1> QED  BY <1>1, <1>2, <1>3, PublishStorages, PublishPublished DEF Structure

\* The installer that comes first publishes the storage it made.
LEMMA InstallPublishes ==
    ASSUME Structure, NEW t \in Thread, InstallCas(t), stripes = Null
    PROVE  \E s \in Storage : s = cur[t] /\ Len(store[s].slabs) = 1 /\ PublishFor(t, s, Null)
<1>0. Types /\ ThreadOf(t)
    BY DEF Structure
<1>1. /\ pc[t] = "install_cas" /\ stripes' = cur[t] /\ pc'[t] = "read"
      /\ store' = store /\ slabs' = slabs /\ cells' = cells
      /\ retired' = retired /\ live' = live /\ Others(t)
    BY <1>0, InstallCasDoes
<1>2. cur[t] = Mine(t) /\ Mine(t) # Null /\ Len(store[cur[t]].slabs) = 1
    BY <1>0, <1>1 DEF ThreadOf, Mine
<1>3. PICK s \in Storage : s = cur[t]
    BY <1>0, <1>2 DEF Types, ThreadTypes
<1>4. Mine(t)' = Null /\ \A x : ~Retires(t, x)'
    BY <1>1 DEF Mine, Retires
<1>5. PublishFor(t, s, Null)
    BY <1>1, <1>2, <1>3, <1>4 DEF PublishFor
<1> QED  BY <1>2, <1>3, <1>5

\* The first storage is published.
LEMMA InstallWonStep ==
    ASSUME Structure, Types', NEW t \in Thread, InstallCas(t), stripes = Null
    PROVE  Structure'
<1>0. Types /\ ThreadOf(t)
    BY DEF Structure
<1>1. /\ pc[t] = "install_cas" /\ stripes' = cur[t]
      /\ load'[t] = FALSE /\ pc'[t] = "read"
      /\ store' = store /\ live' = live
      /\ op'[t] = op[t] /\ hazard'[t] = hazard[t] /\ cur'[t] = cur[t] /\ next'[t] = next[t]
      /\ idx'[t] = idx[t]
    BY <1>0, InstallCasDoes
<1>2. PICK s \in Storage : s = cur[t] /\ PublishFor(t, s, Null)
    BY InstallPublishes
<1>3. Held(t)'
    <2>1. Allocated(s) /\ ~Private(s)' /\ s # Null
        BY <1>2, PublishIs
    <2>2. hazard[t] = cur[t]
        BY <1>0, <1>1 DEF ThreadOf
    <2> QED  BY <1>1, <1>2, <2>1, <2>2 DEF Held, Allocated, Private
<1>4. ThreadOf(t)'
    BY <1>0, <1>1, <1>3 DEF ThreadOf
<1> QED  BY <1>2, <1>4, PublishStep

\* The thread that grows the storage publishes the one it made.
LEMMA GrowPublishes ==
    ASSUME Structure, NEW t \in Thread, GrowDone(t)
    PROVE  \E s, o \in Storage : s = next[t] /\ o = stripes /\ PublishFor(t, s, o)
<1>0. Types /\ ThreadOf(t)
    BY DEF Structure
<1>1. /\ pc[t] = "grow" /\ pc'[t] = "retire"
      /\ stripes = cur[t] /\ stripes' = next[t] /\ cur'[t] = cur[t]
      /\ store' = store /\ slabs' = slabs /\ retired' = retired /\ live' = live
      /\ cells' = cells
      /\ Others(t)
    BY <1>0, GrowDoneDoes
<1>2. /\ next[t] = Mine(t) /\ Mine(t) # Null /\ Held(t)
      /\ \E b \in Slab : store[next[t]].slabs = Append(store[cur[t]].slabs, b)
      /\ Len(store[cur[t]].slabs) < MaxLevel
    BY <1>0, <1>1 DEF ThreadOf, Mine
<1>3. PICK s \in Storage : s = next[t]
    BY <1>0, <1>2 DEF Types, ThreadTypes
<1>4. PICK o \in Storage : o = stripes
    BY <1>0, <1>2 DEF Held, Types, HeapTypes
<1>5. Mine(t)' = Null /\ \A x : Retires(t, x)' <=> x = o
    BY <1>1, <1>4 DEF Mine, Retires
<1>6. PublishFor(t, s, o)
    <2>1. o # Null
        BY NullAssumption
    <2> QED  BY <1>1, <1>2, <1>3, <1>4, <1>5, <2>1 DEF PublishFor
<1> QED  BY <1>3, <1>4, <1>6

\* The grown storage is published.
LEMMA GrowDoneStep ==
    ASSUME Structure, Types', NEW t \in Thread, GrowDone(t)
    PROVE  Structure'
<1>0. Types /\ ThreadOf(t)
    BY DEF Structure
<1>1. /\ pc[t] = "grow" /\ pc'[t] = "retire" /\ next'[t] = Null
      /\ stripes = cur[t] /\ stripes' = next[t]
      /\ store' = store /\ retired' = retired /\ live' = live
      /\ op'[t] = op[t] /\ hazard'[t] = hazard[t] /\ cur'[t] = cur[t] /\ load'[t] = load[t]
      /\ idx'[t] = idx[t]
    BY <1>0, GrowDoneDoes
<1>2. Held(t) /\ hazard[t] = cur[t] /\ Len(store[cur[t]].slabs) < MaxLevel
    BY <1>0, <1>1 DEF ThreadOf
<1>3. PICK s \in Storage, o \in Storage : s = next[t] /\ o = stripes /\ PublishFor(t, s, o)
    BY GrowPublishes
<1>4. s # o /\ s # Null /\ ~Private(o) /\ Allocated(o) /\ o \notin retired
    BY <1>1, <1>2, <1>3, PublishIs DEF Held, Structure, StorageOf
<1>5. ~Private(o)'
    BY <1>3, <1>4, PublishIs
<1>6. Held(t)'
    BY <1>1, <1>2, <1>3, <1>4, <1>5 DEF Held, Allocated, Private
<1>7. \A u \in Thread \ {t} : ~Retires(u, o)'
    <2> SUFFICES ASSUME NEW u \in Thread \ {t}, Retires(u, o)'
                 PROVE  FALSE
        OBVIOUS
    <2>1. Retires(u, o)
        BY <1>3, PublishIs
    <2>2. ThreadOf(u)
        BY DEF Structure
    <2> QED  BY <1>3, <2>1, <2>2 DEF ThreadOf, Retires
<1>8. cur'[t] = o /\ stripes' = s
    BY <1>1, <1>3
<1>9. (\A u \in Thread \ {t} : ~Retires(u, cur[t]))'
    BY <1>7, <1>8 DEF Retires
<1>10. ThreadOf(t)'
    BY <1>0, <1>1, <1>2, <1>4, <1>6, <1>8, <1>9 DEF ThreadOf
<1> QED  BY <1>3, <1>10, PublishStep

-----------------------------------------------------------------------------
(* Retiring a storage, and the destructor *)

\* Retiring the outgrown storage keeps the invariant: the slabs it gives up
\* belong to the current storage.
LEMMA RetireCurStep ==
    ASSUME Structure, Types', NEW t \in Thread, RetireCur(t)
    PROVE  Structure'
<1>0. Types /\ ThreadOf(t)
    BY DEF Structure
<1>1. /\ pc[t] = "retire" /\ pc'[t] = IF load[t] THEN "hz_load" ELSE "read"
      /\ store' = [store EXCEPT ![cur[t]] = DisavowAll(store[cur[t]])]
      /\ retired' = retired \cup {cur[t]}
      /\ stripes' = stripes /\ slabs' = slabs /\ live' = live /\ cells' = cells
      /\ op'[t] = op[t] /\ hazard'[t] = hazard[t] /\ cur'[t] = cur[t] /\ next'[t] = next[t]
      /\ load'[t] = load[t] /\ idx'[t] = idx[t] /\ Others(t)
    BY <1>0, RetireCurDoes
<1>2. Held(t) /\ hazard[t] = cur[t] /\ cur[t] # stripes
    BY <1>0, <1>1 DEF ThreadOf
<1>3. PICK c \in Storage : c = cur[t]
    BY <1>2 DEF Held, Allocated
<1>4. Allocated(c) /\ ~Private(c) /\ c # stripes /\ stripes # Null /\ stripes \in Storage
    BY <1>0, <1>2, <1>3 DEF Held, Types, HeapTypes
<1>5. \A u \in Thread \ {t} : ~Retires(u, c)
    BY <1>0, <1>1, <1>3 DEF ThreadOf
<1>6. \A x \in Storage : x # c => store'[x] = store[x]
    BY <1>0, <1>1, <1>3 DEF Types, HeapTypes
<1>7. store'[c].slabs = store[c].slabs /\ ~store'[c].owner /\ ~store'[c].clean
      /\ store'[c].clean = store'[c].owner
    <2>1. store[c] \in Record /\ store'[c] = DisavowAll(store[c])
        BY <1>0, <1>1, <1>3 DEF Types, HeapTypes
    <2>2. store'[c] \in Record
        BY DEF Types, HeapTypes
    <2>3. store'[c].owner \in BOOLEAN /\ store'[c].clean \in BOOLEAN
        BY <2>2 DEF Record
    <2> QED  BY <2>1, <2>3, DisavowIs
<1>8. \A x \in Storage : store'[x].slabs = store[x].slabs
    BY <1>6, <1>7
<1>9. pc'[t] \in {"hz_load", "read"} /\ Mine(t) = Null /\ Mine(t)' = Null
    BY <1>1 DEF Mine
<1>10. \A u \in Thread : Mine(u)' = Mine(u)
    BY <1>1, <1>9 DEF Others, Mine
<1>11. \A x : Private(x)' <=> Private(x)
    BY <1>10 DEF Private
<1>12. \A u \in Thread : \A x : Retires(u, x)' <=> (u # t /\ Retires(u, x))
    BY <1>1, <1>9 DEF Others, Retires
<1>13. \A x : Retires(t, x) <=> x = c
    BY <1>1, <1>3 DEF Retires
<1>14. \A x \in Storage : StorageOf(x)'
    <2> SUFFICES ASSUME NEW x \in Storage
                 PROVE  StorageOf(x)'
        OBVIOUS
    <2>0. StorageOf(x) /\ slabs' = slabs /\ stripes' = stripes /\ live' = live
        BY <1>1 DEF Structure
    <2>1. CASE x # c
        <3>1. store'[x] = store[x] /\ (Private(x)' <=> Private(x)) /\ (x \in retired' <=> x \in retired)
            BY <1>1, <1>3, <1>6, <1>11, <2>1
        <3>2. ASSUME NEW u \in Thread, Retires(u, x)
              PROVE  \E v \in Thread : Retires(v, x)'
            BY <1>12, <1>13, <2>1, <3>2
        <3> QED  BY <2>0, <3>1, <3>2 DEF StorageOf
    <2>2. CASE x = c
        <3>1. store[c].slabs # << >>
            BY <1>4 DEF Allocated
        <3> QED  BY <1>4, <1>7, <1>11, <2>0, <2>2, <3>1 DEF StorageOf
    <2> QED  BY <2>1, <2>2
<1>15. Published'
    <2>1. PICK a \in Storage : a = stripes /\ a # c
        BY <1>4
    <2>2. live /\ Allocated(a) /\ store[a].owner /\ ~Private(a) /\ \A x \in Storage : Grown(x)
        BY <1>4, <2>1 DEF Structure, Published
    <2>3. (live /\ Allocated(stripes) /\ store[stripes].owner /\ ~Private(stripes))'
        <3>1. store'[a] = store[a] /\ ~Private(a)' /\ stripes' = a /\ live' = live
            BY <1>1, <1>6, <1>11, <2>1, <2>2
        <3> QED  BY <2>2, <3>1 DEF Allocated, Private
    <2>4. ASSUME NEW x \in Storage
          PROVE  Grown(x)'
        <3>1. Grown(x) /\ (Private(x)' <=> Private(x)) /\ store'[x].slabs = store[x].slabs
            BY <1>8, <1>11, <2>2
        <3>2. stripes' = stripes /\ store'[stripes].slabs = store[stripes].slabs
            BY <1>1, <1>4, <1>8
        <3> QED  BY <3>1, <3>2 DEF Grown, Prefix, Allocated
    <2> QED  BY <2>3, <2>4 DEF Published
<1>16. \A u \in Thread : PrivateOf(u)'
    <2> SUFFICES ASSUME NEW u \in Thread, Mine(u)' # Null
                 PROVE  PrivateOf(u)'
        BY DEF PrivateOf
    <2>1. PICK m : m = Mine(u) /\ m = Mine(u)' /\ m # Null
        BY <1>10
    <2>2. PrivateOf(u)
        BY DEF Structure
    <2>3. m \in Storage /\ m # c
        <3>1. m \in Storage
            BY <1>0, <2>1 DEF Mine, Types, ThreadTypes
        <3> QED  BY <1>4, <2>1, <3>1 DEF Private
    <2>4. \A v \in Thread \ {u} : Mine(v)' # m
        BY <1>10, <2>1, <2>2 DEF PrivateOf
    <2>5. /\ store[m].slabs # << >> /\ store[m].owner
          /\ \A x \in Storage \ {m} : \A l \in 1..Len(store[x].slabs) :
                store[x].slabs[l] # store[m].slabs[Len(store[m].slabs)]
          /\ cells[store[m].slabs[Len(store[m].slabs)]] = Empty
        BY <2>1, <2>2 DEF PrivateOf
    <2>6. \A x \in Storage \ {m} : \A l \in 1..Len(store'[x].slabs) :
             store'[x].slabs[l] # store'[m].slabs[Len(store'[m].slabs)]
        BY <1>8, <2>3, <2>5
    <2>7. store'[m] = store[m] /\ cells' = cells
        BY <1>1, <1>6, <2>3
    <2> QED  BY <2>1, <2>4, <2>5, <2>6, <2>7 DEF PrivateOf
<1>17. OwnedSlabs'
    <2>1. PICK a \in Storage : a = stripes /\ a # c
        BY <1>4
    <2>2. Owned(store[c]) \subseteq Owned(store[a])
        <3>1. store[c] \in Record /\ store[a] \in Record
            BY <1>0 DEF Types, HeapTypes
        <3>2. live /\ store[a].owner /\ Grown(c)
            BY <1>4, <2>1 DEF Structure, Published
        <3>3. Prefix(store[c].slabs, store[a].slabs)
            BY <1>4, <2>1, <3>2 DEF Grown
        <3>4. PICK r \in Seq(Slab) : r = store[a].slabs
            BY <3>1 DEF Record
        <3>5. PICK q \in Seq(Slab) : q = store[c].slabs
            BY <3>1 DEF Record
        <3>6. Len(q) \in Nat /\ Len(r) \in Nat /\ Len(q) <= Len(r) /\ \A l \in 1..Len(q) : q[l] = r[l]
            BY <3>3, <3>4, <3>5, LenProperties DEF Prefix
        <3>7. Owned(store[a]) = {r[l] : l \in 1..Len(r)} /\ Owned(store[c]) \subseteq {q[l] : l \in 1..Len(q)}
            BY <3>1, <3>2, <3>4, <3>5, OwnedIs
        <3> QED  BY <3>6, <3>7
    <2>3. Owned(store'[c]) = {}
        <3>1. store'[c] \in Record
            BY DEF Types, HeapTypes
        <3> QED  BY <1>7, <3>1, OwnedIs
    <2>4. \A x \in Storage : x # c => Owned(store'[x]) = Owned(store[x])
        BY <1>6
    <2>5. UNION {Owned(store'[x]) : x \in Storage} = UNION {Owned(store[x]) : x \in Storage}
        BY <2>1, <2>2, <2>3, <2>4
    <2>6. slabs = UNION {Owned(store[x]) : x \in Storage} /\ slabs' = slabs
        BY <1>1 DEF Structure, OwnedSlabs
    <2>7. OwnedSlabs' <=> slabs' = UNION {Owned(store'[x]) : x \in Storage}
        BY DEF OwnedSlabs, Owned
    <2> QED  BY <2>5, <2>6, <2>7
<1>18. ASSUME NEW u \in Thread, u # t
       PROVE  ThreadOf(u)'
    <2>1. /\ pc'[u] = pc[u] /\ op'[u] = op[u] /\ hazard'[u] = hazard[u] /\ cur'[u] = cur[u]
          /\ next'[u] = next[u] /\ load'[u] = load[u] /\ idx'[u] = idx[u]
        BY <1>1, <1>18 DEF Others
    <2>2. ThreadOf(u) /\ Mine(u)' = Mine(u) /\ Types
        BY <1>0, <1>10 DEF Structure
    <2>3. Held(u) /\ pc[u] \in AtWork => Held(u)'
        <3> SUFFICES ASSUME Held(u)
                     PROVE  Held(u)'
            OBVIOUS
        <3>1. PICK d \in Storage : d = cur[u]
            BY DEF Held, Allocated
        <3>2. ~Private(d)' /\ store'[d].slabs = store[d].slabs /\ store'[stripes].slabs = store[stripes].slabs
            BY <1>4, <1>8, <1>11, <3>1 DEF Held
        <3> QED  BY <1>1, <2>1, <3>1, <3>2 DEF Held, Allocated, Private
    <2>4. pc[u] \in AtWork \cup {"install_cas"} => store'[cur[u]].slabs = store[cur[u]].slabs
        <3>1. pc[u] \in AtWork \cup {"install_cas"} => cur[u] \in Storage
            BY <2>2 DEF ThreadOf, Held, Allocated, AtWork, Mine, Types, ThreadTypes
        <3> QED  BY <1>8, <3>1
    <2>5. pc[u] = "grow" => store'[next[u]].slabs = store[next[u]].slabs
        <3>1. pc[u] = "grow" => next[u] \in Storage
            BY <2>2 DEF ThreadOf, Mine, Types, ThreadTypes
        <3> QED  BY <1>8, <3>1
    <2>6. pc[u] = "retire" => /\ cur[u] # stripes' /\ cur[u] \notin retired'
                              /\ \A v \in Thread \ {u} : ~Retires(v, cur[u])'
        <3> SUFFICES ASSUME pc[u] = "retire"
                     PROVE  /\ cur[u] # stripes' /\ cur[u] \notin retired'
                            /\ \A v \in Thread \ {u} : ~Retires(v, cur[u])'
            OBVIOUS
        <3>1. cur[u] # stripes' /\ cur[u] \notin retired
            BY <1>1, <2>2 DEF ThreadOf
        <3>2. cur[u] # c
            BY <1>5, <1>18 DEF Retires
        <3>3. \A v \in Thread \ {u} : ~Retires(v, cur[u])'
            <4>1. pc'[t] # "retire"
                BY <1>9
            <4> QED  BY <1>1, <1>18, <2>2, <4>1, OthersRetire
        <3> QED  BY <1>1, <1>3, <3>1, <3>2, <3>3
    <2> QED  BY <1>1, <2>1, <2>2, <2>3, <2>4, <2>5, <2>6, OtherThread
<1>19. Held(t)'
    <2>1. ~Private(c)' /\ store'[c].slabs = store[c].slabs
        BY <1>4, <1>8, <1>11
    <2> QED  BY <1>1, <1>2, <1>3, <1>4, <2>1 DEF Held, Allocated, Private
<1>20. ThreadOf(t)'
    <2>1. pc'[t] = "hz_load" => load'[t]
        BY <1>1
    <2> QED  BY <1>0, <1>1, <1>4, <1>9, <1>19, <2>1 DEF ThreadOf
<1> QED  BY <1>14, <1>15, <1>16, <1>17, <1>18, <1>20 DEF Structure

\* The destructor keeps the invariant: no slab is left but those in use by
\* no storage, that is none.
LEMMA DestroyStep ==
    ASSUME Structure, Types', Destroy
    PROVE  Structure'
<1>0. Types
    BY DEF Structure
<1>1. /\ live /\ live' = FALSE /\ \A t \in Thread : pc[t] = "idle"
      /\ stripes' = Null /\ retired' = retired /\ cells' = cells
      /\ ThreadsKept /\ hazard' = hazard
    BY <1>0, DestroyDoes
<1>2. \/ stripes = Null /\ slabs' = slabs /\ store' = store
      \/ /\ stripes # Null
         /\ slabs' = slabs \ Owned(store[stripes])
         /\ store' = [store EXCEPT ![stripes] = NoStorage]
    BY <1>0, DestroyDoes
<1>3. \A t \in Thread : Mine(t) = Null /\ Mine(t)' = Null
    BY <1>1 DEF Mine, ThreadsKept
<1>4. \A t \in Thread : \A x : ~Retires(t, x) /\ ~Retires(t, x)'
    BY <1>1 DEF Retires, ThreadsKept
<1>5. \A x \in Storage : ~Private(x) /\ ~Private(x)'
    BY <1>3, NullAssumption DEF Private
<1>6. \A x \in Storage : x # stripes => store'[x] = store[x] /\ ~store[x].owner /\ ~store[x].clean
    <2> SUFFICES ASSUME NEW x \in Storage, x # stripes
                 PROVE  store'[x] = store[x] /\ ~store[x].owner /\ ~store[x].clean
        OBVIOUS
    <2>1. StorageOf(x) /\ store[x].owner \in BOOLEAN /\ store[x].clean \in BOOLEAN
        BY <1>0 DEF Structure, Types, HeapTypes, Record
    <2>2. ~store[x].owner /\ ~store[x].clean
        BY <1>4, <1>5, <2>1 DEF StorageOf
    <2>3. store'[x] = store[x]
        BY <1>0, <1>2 DEF Types, HeapTypes
    <2> QED  BY <2>2, <2>3
<1>7. stripes # Null => store'[stripes] = NoStorage /\ stripes \in Storage
    BY <1>0, <1>2 DEF Types, HeapTypes
<1>8. \A x \in Storage : StorageOf(x)'
    <2> SUFFICES ASSUME NEW x \in Storage
                 PROVE  StorageOf(x)'
        OBVIOUS
    <2>0. StorageOf(x) /\ live' = FALSE /\ stripes' = Null /\ retired' = retired /\ x # Null
        BY <1>1, NullAssumption DEF Structure
    <2>1. CASE x # stripes
        BY <1>5, <1>6, <2>0, <2>1 DEF StorageOf
    <2>2. CASE x = stripes
        <3>1. store'[x] = NoStorage /\ x \notin retired
            BY <1>7, <2>0, <2>2 DEF StorageOf
        <3>2. NoStorage.slabs = << >> /\ Len(NoStorage.slabs) = 0 /\ ~NoStorage.owner /\ ~NoStorage.clean
              /\ NoStorage.clean = NoStorage.owner
            BY DEF NoStorage
        <3>3. 0 <= MaxLevel
            BY LimitAssumption
        <3> QED  BY <2>0, <3>1, <3>2, <3>3 DEF StorageOf
    <2> QED  BY <2>1, <2>2
<1>9. Published'
    BY <1>1 DEF Published
<1>10. \A t \in Thread : PrivateOf(t)'
    BY <1>3 DEF PrivateOf
<1>11. \A t \in Thread : ThreadOf(t)'
    <2> SUFFICES ASSUME NEW t \in Thread
                 PROVE  ThreadOf(t)'
        OBVIOUS
    <2>1. ThreadOf(t) /\ pc[t] = "idle" /\ pc'[t] = pc[t] /\ next'[t] = next[t] /\ load'[t] = load[t]
          /\ idx'[t] = idx[t]
        BY <1>1 DEF ThreadsKept, Structure
    <2> QED  BY <2>1 DEF ThreadOf
<1>12. OwnedSlabs'
    <2>1. \A x \in Storage : x # stripes => Owned(store[x]) = {}
        <3> SUFFICES ASSUME NEW x \in Storage, x # stripes
                     PROVE  Owned(store[x]) = {}
            OBVIOUS
        <3>1. store[x] \in Record /\ ~store[x].owner /\ ~store[x].clean
            BY <1>0, <1>6 DEF Types, HeapTypes
        <3> QED  BY <3>1, OwnedIs
    <2>2. \A x \in Storage : Owned(store'[x]) = {}
        <3> SUFFICES ASSUME NEW x \in Storage
                     PROVE  Owned(store'[x]) = {}
            OBVIOUS
        <3>1. CASE x # stripes
            BY <1>6, <2>1, <3>1
        <3>2. CASE x = stripes
            BY <1>7, <3>2, NullAssumption DEF NoStorage, Owned
        <3> QED  BY <3>1, <3>2
    <2>3. slabs = UNION {Owned(store[x]) : x \in Storage}
        BY DEF Structure, OwnedSlabs
    <2>4. slabs' = {}
        BY <1>2, <1>7, <2>1, <2>3, NullAssumption
    <2>5. UNION {Owned(store'[x]) : x \in Storage} = {}
        BY <2>2
    <2>6. OwnedSlabs' <=> slabs' = UNION {Owned(store'[x]) : x \in Storage}
        BY DEF OwnedSlabs, Owned
    <2> QED  BY <2>4, <2>5, <2>6
<1> QED  BY <1>8, <1>9, <1>10, <1>11, <1>12 DEF Structure

-----------------------------------------------------------------------------
(* The invariant holds *)

\* The constructors: the invariant holds of a new counter.
LEMMA InitStructure ==
    ASSUME Init
    PROVE  Structure
<1>1. PICK s \in Storage, q \in Injection(1..InitLevel, Slab) :
         /\ slabs = Range(q)
         /\ stripes = IF InitLevel = 0 THEN Null ELSE s
         /\ store = [x \in Storage |-> IF x = stripes
                                       THEN [slabs |-> q, owner |-> TRUE, clean |-> TRUE]
                                       ELSE NoStorage]
    BY Zenon DEF Init
<1>2. q \in [1..InitLevel -> Slab] /\ \A i, j \in 1..InitLevel : q[i] = q[j] => i = j
    BY DEF Injection, IsInjective
<1>3. InitLevel \in Nat /\ InitLevel <= MaxLevel /\ MaxLevel \in Nat
    BY LimitAssumption
<1>4. q \in Seq(Slab) /\ Len(q) = InitLevel
    BY <1>2, <1>3
<1>5. PICK r : r = [slabs |-> q, owner |-> TRUE, clean |-> TRUE]
    OBVIOUS
<1>6. r \in Record /\ r.slabs = q /\ r.owner = TRUE /\ r.clean = TRUE
    BY <1>4, <1>5 DEF Record
<1>7. /\ NoStorage.slabs = << >> /\ Len(NoStorage.slabs) = 0 /\ NoStorage.owner = FALSE
      /\ NoStorage.clean = FALSE /\ NoStorage \in Record
    BY RecordTypes DEF NoStorage
<1>8. \A x \in Storage : store[x] = IF x = stripes THEN r ELSE NoStorage
    BY <1>1, <1>5
<1>9. stripes # Null => stripes = s /\ InitLevel # 0 /\ q # << >>
    <2>1. q = << >> => Len(q) = 0
        BY <1>4
    <2> QED  BY <1>1, <1>4, <2>1
<1>10. slabs = {q[l] : l \in 1..Len(q)}
    BY <1>1, <1>2, <1>4 DEF Range
<1>11. Types
    <2>1. TotalTypes
        BY DEF Init, TotalTypes
    <2>2. HeapTypes
        <3>1. store \in [Storage -> Record]
            BY <1>1, <1>5, <1>6, <1>7
        <3>2. cells \in [Slab -> [0..Width -> Nat]]
            BY EmptyType DEF Init
        <3>3. slabs \in SUBSET Slab
            BY <1>2, <1>4, <1>10
        <3>4. stripes \in Storage \cup {Null}
            BY <1>1
        <3>5. retired \in SUBSET Storage
            BY DEF Init
        <3> QED  BY <3>1, <3>2, <3>3, <3>4, <3>5 DEF HeapTypes
    <2>3. ThreadTypes
        BY DEF Init, ThreadTypes, Label, Op
    <2> QED  BY <2>1, <2>2, <2>3 DEF Types
<1>12. \A t \in Thread : pc[t] = "idle" /\ next[t] = Null /\ load[t] = TRUE /\ idx[t] = 0
    BY DEF Init
<1>13. \A t \in Thread : Mine(t) = Null
    BY <1>12 DEF Mine
<1>14. \A x \in Storage : ~Private(x)
    BY <1>13, NullAssumption DEF Private
<1>15. live = TRUE /\ retired = {}
    BY DEF Init
<1>16. \A x \in Storage : StorageOf(x)
    <2> SUFFICES ASSUME NEW x \in Storage
                 PROVE  StorageOf(x)
        OBVIOUS
    <2>1. CASE x = stripes
        <3>1. store[x] = r
            BY <1>8, <2>1
        <3>2. q # << >>
            BY <1>9, <2>1, NullAssumption
        <3>3. \A l \in 1..Len(q) : q[l] \in slabs
            BY <1>10
        <3>4. r.clean = r.owner /\ r.slabs = q
            BY <1>6
        <3>5. Len(q) <= MaxLevel /\ \A i, j \in 1..Len(q) : q[i] = q[j] => i = j
            BY <1>2, <1>3, <1>4
        <3>6. x \notin retired
            BY <1>15
        <3> QED  BY <2>1, <3>1, <3>2, <3>3, <3>4, <3>5, <3>6 DEF StorageOf
    <2>2. CASE x # stripes
        <3>1. store[x] = NoStorage
            BY <1>8, <2>2
        <3>2. NoStorage.clean = NoStorage.owner /\ ~NoStorage.owner
            BY <1>7
        <3>3. NoStorage.slabs = << >> /\ Len(NoStorage.slabs) = 0 /\ 0 <= MaxLevel
            BY <1>3, <1>7
        <3>4. x \notin retired
            BY <1>15
        <3> QED  BY <3>1, <3>2, <3>3, <3>4 DEF StorageOf
    <2> QED  BY <2>1, <2>2
<1>17. Published
    <2>1. stripes # Null => live /\ Allocated(stripes) /\ store[stripes].owner /\ ~Private(stripes)
        BY <1>6, <1>8, <1>9, <1>14, <1>15 DEF Allocated
    <2>2. ASSUME NEW x \in Storage, Allocated(x)
          PROVE  Grown(x)
        <3>1. x = stripes /\ stripes # Null
            BY <1>7, <1>8, <2>2, NullAssumption DEF Allocated
        <3>2. Prefix(store[x].slabs, store[x].slabs)
            <4>1. store[x].slabs = q /\ Len(q) \in Nat
                BY <1>3, <1>4, <1>6, <1>8, <3>1
            <4> QED  BY <4>1 DEF Prefix
        <3> QED  BY <3>1, <3>2 DEF Grown
    <2> QED  BY <2>1, <2>2 DEF Published, Grown
<1>18. \A t \in Thread : PrivateOf(t)
    BY <1>13 DEF PrivateOf
<1>19. \A t \in Thread : ThreadOf(t)
    BY <1>12, <1>15 DEF ThreadOf
<1>20. OwnedSlabs
    <2>1. \A x \in Storage : x # stripes => Owned(store[x]) = {}
        BY <1>7, <1>8, OwnedIs
    <2>2. \A x \in Storage : x = stripes => Owned(store[x]) = {q[l] : l \in 1..Len(q)}
        BY <1>6, <1>8, OwnedIs
    <2>3. CASE stripes # Null
        BY ZenonT(60), <1>9, <1>10, <2>1, <2>2, <2>3 DEF OwnedSlabs
    <2>4. CASE stripes = Null
        <3>1. InitLevel = 0
            BY <1>1, <2>4, NullAssumption
        <3>2. slabs = {}
            BY <1>4, <1>10, <3>1
        <3> QED  BY <2>1, <2>4, <3>2, NullAssumption DEF OwnedSlabs
    <2> QED  BY <2>3, <2>4
<1> QED  BY <1>11, <1>16, <1>17, <1>18, <1>19, <1>20 DEF Structure

\* Steps that change nothing keep the invariant.
LEMMA StutterStructure ==
    ASSUME Structure, UNCHANGED vars
    PROVE  Structure'
<1>1. /\ UNCHANGED <<base, stripes, store, cells, slabs, hazard, retired, live, pc, op>>
      /\ UNCHANGED <<cur, next, load, contended, idx, expected, sum, low>>
      /\ UNCHANGED <<added, discarded, adds, reads, resets>>
    BY DEF vars, shared, protect, locals, total, calls
<1>2. Types'
    BY <1>1 DEF Structure, Types, TotalTypes, HeapTypes, ThreadTypes
<1>3. RolesKept
    BY <1>1 DEF RolesKept, Mine, Retires
<1>4. HeapKept /\ FreshKept
    BY <1>1 DEF HeapKept, FreshKept
<1>5. \A u \in Thread : ThreadOf(u)'
    <2> SUFFICES ASSUME NEW u \in Thread
                 PROVE  ThreadOf(u)'
        OBVIOUS
    <2>1. ThreadOf(u)
        BY DEF Structure
    <2> QED  BY <1>1, <2>1 DEF ThreadOf, Held, Allocated, Private, Mine, Retires, Size
<1> QED  BY <1>2, <1>3, <1>4, <1>5, HeapStays, PrivateStays DEF Structure

\* Every step keeps the invariant, unless a first installer loses a race to
\* grow.
LEMMA StructureStep ==
    ASSUME Structure, [Next]_vars, \A t \in Thread : ~InstallerLoses(t)
    PROVE  Structure'
<1>1. ASSUME NEW t \in Thread, Step(t) \/ AddBegin(t) \/ ValueBegin(t) \/ ResetBase(t)
      PROVE  Structure'
    <2>1. Types'
        BY <1>1, ThreadTypesStep
    <2>2. CASE \/ AddBegin(t) \/ BaseRead(t) \/ BaseCas(t) \/ HzLoad(t) \/ HzSet(t) \/ HzCheck(t)
               \/ Read(t) \/ CasDone(t) \/ CasFailed(t) \/ Clear(t)
               \/ ValueBegin(t) \/ ValueStep(t) \/ ResetBase(t) \/ ResetCell(t)
        BY <2>1, <2>2, PlainSteps
    <2>3. CASE InstallNew(t)
        BY <2>1, <2>3, InstallNewStep
    <2>4. CASE InstallCas(t)
        BY <2>1, <2>4, InstallWonStep, InstallLostStep
    <2>5. CASE ExpandCur(t)
        BY <2>1, <2>5, ExpandCurStep
    <2>6. CASE GrowDone(t)
        BY <2>1, <2>6, GrowDoneStep
    <2>7. CASE GrowFailed(t)
        BY <2>1, <2>7, GrowFailedStep
    <2>8. CASE RetireCur(t)
        BY <2>1, <2>8, RetireCurStep
    <2> QED  BY <1>1, <2>2, <2>3, <2>4, <2>5, <2>6, <2>7, <2>8 DEF Step, AddStep
<1>2. ASSUME Destroy
      PROVE  Structure'
    <2>1. Types'
        BY <1>2, HeapTypesStep DEF Structure
    <2> QED  BY <1>2, <2>1, DestroyStep
<1>3. ASSUME NEW s \in Storage, Reclaim(s)
      PROVE  Structure'
    <2>1. Types'
        BY <1>3, HeapTypesStep DEF Structure
    <2> QED  BY <1>3, <2>1, ReclaimStep
<1>4. ASSUME UNCHANGED vars
      PROVE  Structure'
    BY <1>4, StutterStructure
<1> QED  BY <1>1, <1>2, <1>3, <1>4 DEF Next, Finished

\* What the invariant says of the storages in use.
LEMMA StructureIsSafe ==
    ASSUME Structure
    PROVE  CurIsAllocated /\ SlabsOwned
<1>1. CurIsAllocated
    <2> SUFFICES ASSUME NEW t \in Thread, Uses(t)
                 PROVE  /\ Allocated(cur[t])
                        /\ \A l \in 1..Len(store[cur[t]].slabs) : store[cur[t]].slabs[l] \in slabs
        BY DEF CurIsAllocated
    <2>1. ThreadOf(t) /\ Held(t)
        BY DEF Uses, Structure, ThreadOf
    <2>2. live
        BY <2>1 DEF Held, Structure, Published
    <2>3. PICK c \in Storage : c = cur[t] /\ StorageOf(c)
        BY <2>1 DEF Held, Allocated, Structure
    <2> QED  BY <2>1, <2>2, <2>3 DEF Held, StorageOf
<1>2. TypeOK
    <2>1. retired \subseteq {s \in Storage : Allocated(s)}
        BY DEF Structure, StorageOf, Types, HeapTypes, Allocated
    <2>2. \A s \in Storage : Len(store[s].slabs) <= MaxLevel
        BY DEF Structure, StorageOf
    <2>3. ASSUME NEW t \in Thread, Allocated(cur[t])
          PROVE  idx[t] < Size(cur[t])
        <3>1. ThreadOf(t) /\ Size(cur[t]) \in Nat \ {0}
            BY <2>3, SizeType DEF Structure, Types, Allocated
        <3>2. CASE pc[t] \in {"cas", "v_sum", "zero"}
            BY <3>1, <3>2 DEF ThreadOf
        <3>3. CASE pc[t] \notin {"cas", "v_sum", "zero"}
            BY <3>1, <3>3 DEF ThreadOf
        <3> QED  BY <3>2, <3>3
    <2> QED  BY <2>1, <2>2, <2>3
                DEF TypeOK, Structure, Types, TotalTypes, HeapTypes, ThreadTypes
<1>3. slabs = UNION {Owned(store[s]) : s \in Storage}
    BY DEF Structure, OwnedSlabs
<1> QED  BY <1>1, <1>2, <1>3 DEF SlabsOwned

\* A counter that starts with a storage never installs a first one.
Installed ==
    InitLevel # 0 =>
        /\ live => stripes # Null
        /\ \A t \in Thread : load[t] /\ pc[t] \notin {"base_read", "base_cas", "install", "install_cas"}

\* Every step keeps this.
LEMMA InstalledStep ==
    ASSUME Structure, Installed, [Next]_vars
    PROVE  Installed'
<1> SUFFICES ASSUME InitLevel # 0
             PROVE  /\ live' => stripes' # Null
                    /\ \A t \in Thread : load'[t] /\ pc'[t] \notin {"base_read", "base_cas", "install", "install_cas"}
    BY DEF Installed
<1>0. /\ live => stripes # Null
      /\ \A t \in Thread : load[t] /\ pc[t] \notin {"base_read", "base_cas", "install", "install_cas"}
    BY DEF Installed
<1>1. Types
    BY DEF Structure
<1>2. ASSUME NEW t \in Thread, Others(t), live' = live, stripes # Null => stripes' # Null,
             load'[t], pc'[t] \notin {"base_read", "base_cas", "install", "install_cas"}
      PROVE  /\ live' => stripes' # Null
             /\ \A u \in Thread : load'[u] /\ pc'[u] \notin {"base_read", "base_cas", "install", "install_cas"}
    BY <1>0, <1>2 DEF Others
<1>3. ASSUME NEW t \in Thread, Step(t) \/ AddBegin(t) \/ ValueBegin(t) \/ ResetBase(t)
      PROVE  /\ Others(t) /\ live' = live /\ (stripes # Null => stripes' # Null)
             /\ load'[t] /\ pc'[t] \notin {"base_read", "base_cas", "install", "install_cas"}
    <2>0. load[t] /\ pc[t] \notin {"base_read", "base_cas", "install", "install_cas"}
        BY <1>0
    <2>1. CASE AddBegin(t)
        BY <1>0, <1>1, <2>0, <2>1, AddBeginDoes DEF HeapKept
    <2>2. CASE BaseRead(t) \/ BaseCas(t) \/ InstallNew(t) \/ InstallCas(t)
        BY <1>1, <2>0, <2>2, BaseReadDoes, BaseCasDoes, InstallNewDoes, InstallCasDoes
    <2>3. CASE HzLoad(t) \/ HzSet(t) \/ HzCheck(t)
        BY <1>1, <2>0, <2>3, HzLoadDoes, HzSetDoes, HzCheckDoes DEF HeapKept
    <2>4. CASE Read(t) \/ CasDone(t) \/ CasFailed(t)
        BY <1>1, <2>0, <2>4, ReadDoes, CasDoneDoes, CasFailedDoes DEF HeapKept
    <2>5. CASE ExpandCur(t)
        BY <1>1, <2>0, <2>5, ExpandCurDoes
    <2>6. CASE GrowDone(t)
        <3>1. next[t] # Null
            BY <1>1, <2>6, GrowDoneDoes DEF Structure, ThreadOf, Mine
        <3> QED  BY <1>1, <2>0, <2>6, <3>1, GrowDoneDoes
    <2>7. CASE GrowFailed(t) \/ RetireCur(t)
        BY <1>1, <2>0, <2>7, GrowFailedDoes, RetireCurDoes
    <2>8. CASE Clear(t)
        BY <1>1, <2>0, <2>8, ClearDoes DEF HeapKept
    <2>9. CASE ValueBegin(t) \/ ValueLoad(t) \/ ValueSet(t)
        BY <1>1, <2>0, <2>9, ValueBeginDoes, ValueLoadDoes, ValueSetDoes DEF HeapKept
    <2>10. CASE ValueCheck(t) \/ ValueSum(t) \/ ValueReturn(t)
        BY <1>1, <2>0, <2>10, ValueCheckDoes, ValueSumDoes, ValueReturnDoes DEF HeapKept
    <2>11. CASE ResetBase(t) \/ ResetCell(t)
        BY <1>1, <2>0, <2>11, ResetBaseDoes, ResetCellDoes DEF HeapKept
    <2> QED  BY <1>3, <2>1, <2>2, <2>3, <2>4, <2>5, <2>6, <2>7, <2>8, <2>9, <2>10, <2>11
             DEF Step, AddStep, ValueStep
<1>4. CASE Destroy
    BY <1>0, <1>1, <1>4, DestroyDoes DEF ThreadsKept
<1>5. ASSUME NEW s \in Storage, Reclaim(s)
      PROVE  Installed'
    BY <1>0, <1>1, <1>5, ReclaimDoes DEF ThreadsKept, Installed
<1>6. CASE UNCHANGED vars
    BY <1>0, <1>6 DEF vars, shared, locals
<1> QED  BY <1>2, <1>3, <1>4, <1>5, <1>6 DEF Next, Finished, Installed

\* A counter that starts with a storage, or whose storages have one or two
\* slabs, has no installer that loses.
LEMMA NoInstallerLoses ==
    ASSUME InitLevel # 0 \/ MaxLevel <= 2, Structure, Installed, NEW t \in Thread
    PROVE  ~InstallerLoses(t)
<1> SUFFICES ASSUME GrowFailed(t), ~load[t], Len(store[stripes].slabs) < MaxLevel
             PROVE  FALSE
    BY DEF InstallerLoses
<1>0. Types /\ ThreadOf(t)
    BY DEF Structure
<1>1. MaxLevel <= 2
    BY DEF Installed
<1>2. pc[t] = "grow" /\ stripes # cur[t]
    BY <1>0, GrowFailedDoes
<1>3. Held(t)
    BY <1>0, <1>2 DEF ThreadOf
<1>4. PICK c \in Storage : c = cur[t] /\ Allocated(c) /\ ~Private(c)
    BY <1>3 DEF Held, Allocated
<1>5. PICK a \in Storage : a = stripes /\ a # c
    BY <1>0, <1>2, <1>3, <1>4 DEF Held, Types, HeapTypes
<1>6. live /\ Grown(c)
    BY <1>3, <1>4 DEF Held, Structure, Published
<1>7. Len(store[c].slabs) < Len(store[a].slabs)
    BY <1>4, <1>5, <1>6 DEF Grown
<1>8. PICK q \in Seq(Slab) : q = store[c].slabs /\ q # << >>
    BY <1>0, <1>4 DEF Types, HeapTypes, Record, Allocated
<1>9. PICK p \in Seq(Slab) : p = store[a].slabs
    BY <1>0 DEF Types, HeapTypes, Record
<1>10. Len(q) \in Nat /\ Len(q) # 0 /\ Len(p) \in Nat
    BY <1>8, <1>9, LenProperties, EmptySeq
<1>11. Len(q) < Len(p) /\ Len(p) < MaxLevel /\ MaxLevel \in Nat
    BY <1>5, <1>7, <1>8, <1>9, LimitAssumption
<1> QED  BY <1>1, <1>10, <1>11

\* Installed holds of a new counter.
LEMMA InitInstalled ==
    ASSUME Init
    PROVE  Installed
<1>1. PICK s \in Storage, q \in Injection(1..InitLevel, Slab) : stripes = IF InitLevel = 0 THEN Null ELSE s
    BY Zenon DEF Init
<1> QED  BY <1>1, NullAssumption DEF Init, Installed

\* The one exception: a first installer never loses the race to grow while
\* what it finds can still be outgrown.
InstallersWin == [][\A t \in Thread : ~InstallerLoses(t)]_vars

\* The structure of the storages survives every interleaving but that one.
LEMMA StructureInvariance == Spec /\ InstallersWin => []Structure
<1>1. Init => Structure
    BY InitStructure
<1>2. Structure /\ [Next]_vars /\ [\A t \in Thread : ~InstallerLoses(t)]_vars => Structure'
    <2> SUFFICES ASSUME Structure, [Next]_vars, [\A t \in Thread : ~InstallerLoses(t)]_vars
                 PROVE  Structure'
        OBVIOUS
    <2>1. CASE UNCHANGED vars
        BY <2>1, StutterStructure
    <2>2. CASE \A t \in Thread : ~InstallerLoses(t)
        BY <2>2, StructureStep
    <2> QED  BY <2>1, <2>2
<1> QED  BY <1>1, <1>2, PTL DEF Spec, InstallersWin

\* Under either condition there is no exception.
LEMMA InstalledInvariance ==
    ASSUME InitLevel # 0 \/ MaxLevel <= 2
    PROVE  Spec => [](Structure /\ Installed)
<1>1. Init => Structure /\ Installed
    BY InitStructure, InitInstalled
<1>2. Structure /\ Installed /\ [Next]_vars => (Structure /\ Installed)'
    BY StructureStep, InstalledStep, NoInstallerLoses
<1> QED  BY <1>1, <1>2, PTL DEF Spec

\* A storage that add, value or reset works on is never freed under it, nor are
\* the slabs it reaches through it, in any interleaving in which no first
\* installer loses a race to grow (cur then keeps no hazard: the finding of the
\* run S64_install).
THEOREM StorageStaysAllocated == Spec /\ InstallersWin => []CurIsAllocated
<1>1. Structure => CurIsAllocated
    BY StructureIsSafe
<1> QED  BY <1>1, StructureInvariance, PTL

\* disavow and disavow_all hand the slabs over: each allocated slab has exactly
\* the storages that would delete it, under the same condition.
THEOREM SlabsStayOwned == Spec /\ InstallersWin => []SlabsOwned
<1>1. Structure => SlabsOwned
    BY StructureIsSafe
<1> QED  BY <1>1, StructureInvariance, PTL

\* Striped64(k) and a counter of at most two slabs are safe without condition.
THEOREM SizedCounterIsSafe ==
    ASSUME InitLevel # 0 \/ MaxLevel <= 2
    PROVE  Spec => []CurIsAllocated /\ []SlabsOwned
<1>1. Structure /\ Installed => CurIsAllocated /\ SlabsOwned
    BY StructureIsSafe
<1> QED  BY <1>1, InstalledInvariance, PTL

-----------------------------------------------------------------------------
(* What the cells hold *)

\* The counts by index: those of the current storage, and zero from its size on.
LEMMA InCellsIs ==
    ASSUME Structure
    PROVE  /\ InCells \in [Nat -> Nat]
           /\ Limit \in Nat
           /\ stripes = Null => \A i \in Nat : InCells[i] = 0
           /\ stripes # Null => /\ stripes \in Storage /\ Size(stripes) \in Nat /\ Size(stripes) <= Limit
                                /\ \A i \in Nat : i < Size(stripes) => InCells[i] = Get(stripes, i)
                                /\ \A i \in Nat : i >= Size(stripes) => InCells[i] = 0
<1>0. Types /\ HeapTypes
    BY DEF Structure, Types
<1>1. Limit \in Nat
    BY LimitAssumption, Pow2Type DEF Limit
<1>2. CASE stripes = Null
    BY <1>1, <1>2 DEF InCells
<1>3. CASE stripes # Null
    <2>1. PICK s \in Storage : s = stripes
        BY <1>0, <1>3 DEF HeapTypes
    <2>2. store[s].slabs # << >> /\ Len(store[s].slabs) <= MaxLevel
        BY <1>3, <2>1 DEF Structure, Published, Allocated, StorageOf
    <2>3. Len(store[s].slabs) \in Nat /\ Size(s) \in Nat \ {0}
        BY <1>0, SizeType
    <2>4. Size(s) <= Limit
        BY <2>2, <2>3, SizeMono, LimitAssumption DEF Size, Limit
    <2>5. \A i \in Nat : i < Size(s) => Get(s, i) \in Nat
        BY <1>0, <2>2, PlaceOf
    <2>6. InCells = Counts(s)
        BY <1>3, <2>1 DEF InCells
    <2>7. \A i \in Nat : Counts(s)[i] = IF i < Size(s) THEN Get(s, i) ELSE 0
        BY DEF Counts
    <2>8. Counts(s) \in [Nat -> Nat]
        BY <2>5 DEF Counts
    <2> QED  BY SMTT(40), <1>1, <1>3, <2>1, <2>3, <2>4, <2>6, <2>7, <2>8
<1> QED  BY <1>2, <1>3

\* An element of a storage in use is the same element of the current one.
LEMMA SamePlace ==
    ASSUME Structure, NEW t \in Thread, pc[t] \in AtWork, NEW i \in Nat, i < Size(cur[t])
    PROVE  /\ i < Size(stripes) /\ SlabOf(cur[t], i) = SlabOf(stripes, i)
           /\ Get(cur[t], i) = InCells[i]
           /\ stripes # Null /\ Size(cur[t]) \in Nat /\ Size(cur[t]) <= Limit
<1>0. HeapTypes /\ ThreadOf(t)
    BY DEF Structure, Types
<1>1. Held(t)
    BY <1>0 DEF ThreadOf, AtWork
<1>2. PICK c \in Storage : c = cur[t] /\ Allocated(c) /\ ~Private(c)
    BY <1>1 DEF Held, Allocated
<1>3. PICK a \in Storage : a = stripes /\ stripes # Null
    BY <1>0, <1>1 DEF Held, HeapTypes
<1>4. live /\ Grown(c)
    BY <1>3 DEF Structure, Published
<1>5. Prefix(store[c].slabs, store[a].slabs)
    BY <1>2, <1>3, <1>4 DEF Grown
<1>6. Len(store[c].slabs) <= MaxLevel /\ Len(store[a].slabs) <= MaxLevel
    BY DEF Structure, StorageOf
<1>7. Len(store[c].slabs) \in Nat /\ Len(store[a].slabs) \in Nat /\ Size(c) \in Nat /\ Size(a) \in Nat
    BY <1>0, SizeType
<1>8. Size(c) <= Size(a)
    BY <1>5, <1>7, SizeMono DEF Prefix, Size
<1>9. SlabNo(i) \in 1..Len(store[c].slabs)
    BY <1>0, <1>2, <1>6, PlaceOf DEF Allocated
<1>10. SlabOf(c, i) = SlabOf(a, i)
    BY <1>5, <1>9 DEF SlabOf, Prefix
<1>11. Get(c, i) = Get(a, i)
    BY <1>10 DEF Get
<1>12. i < Size(a)
    BY <1>2, <1>7, <1>8
<1>13. Size(c) <= Limit
    BY <1>6, <1>7, SizeMono, LimitAssumption DEF Size, Limit
<1> QED  BY <1>2, <1>3, <1>7, <1>10, <1>11, <1>12, <1>13, InCellsIs

\* The counts are the same while the current storage and its slabs are.
LEMMA InCellsStay ==
    ASSUME Structure, Structure', stripes' = stripes,
           stripes # Null => /\ store'[stripes].slabs = store[stripes].slabs
                             /\ \A l \in 1..Len(store[stripes].slabs) :
                                   cells'[store[stripes].slabs[l]] = cells[store[stripes].slabs[l]]
    PROVE  InCells' = InCells
<1>1. InCells \in [Nat -> Nat]
    BY InCellsIs
<1>2. CASE stripes = Null
    BY <1>2 DEF InCells
<1>3. CASE stripes # Null
    <2>0. HeapTypes
        BY DEF Structure, Types
    <2>1. PICK s \in Storage : s = stripes /\ s = stripes'
        BY <1>3, <2>0 DEF HeapTypes
    <2>2. store[s].slabs # << >> /\ Len(store[s].slabs) <= MaxLevel
        BY <1>3, <2>1 DEF Structure, Published, Allocated, StorageOf
    <2>3. Size(s)' = Size(s) /\ store'[s].slabs = store[s].slabs
        BY <1>3, <2>1 DEF Size
    <2>4. ASSUME NEW i \in Nat, i < Size(s)
          PROVE  Get(s, i)' = Get(s, i)
        <3>1. SlabNo(i) \in 1..Len(store[s].slabs)
            BY <2>0, <2>2, <2>4, PlaceOf
        <3>2. SlabOf(s, i)' = SlabOf(s, i)
            BY <2>3 DEF SlabOf
        <3>3. cells'[SlabOf(s, i)] = cells[SlabOf(s, i)]
            BY <1>3, <2>1, <3>1 DEF SlabOf
        <3> QED  BY <3>2, <3>3 DEF Get
    <2>5. \A i \in Nat : (IF i < Size(s) THEN Get(s, i) ELSE 0)' = IF i < Size(s) THEN Get(s, i) ELSE 0
        BY <2>3, <2>4
    <2>6. Counts(s)' = Counts(s)
        BY <2>5 DEF Counts
    <2>7. InCells = Counts(s) /\ InCells' = Counts(s)'
        BY <1>3, <2>1, NullAssumption DEF InCells, Counts, Get, SlabOf, Size
    <2> QED  BY <2>6, <2>7
<1> QED  BY <1>2, <1>3

\* Publishing a storage leaves the counts as they are: its new slab is empty.
LEMMA InCellsPublish ==
    ASSUME Structure, Structure', NEW t \in Thread, NEW s \in Storage, NEW o, PublishFor(t, s, o),
           o = Null => Len(store[s].slabs) = 1
    PROVE  InCells' = InCells
<1>0. HeapTypes /\ stripes = o /\ stripes' = s /\ store' = store /\ cells' = cells /\ s # Null /\ Mine(t) = s
    BY NullAssumption DEF PublishFor, Structure, Types
<1>1. PrivateOf(t) /\ Len(store[s].slabs) <= MaxLevel
    BY DEF Structure, StorageOf
<1>2. PICK p \in Seq(Slab) : p = store[s].slabs /\ p # << >> /\ cells[p[Len(p)]] = Empty
    BY <1>0, <1>1 DEF PrivateOf, HeapTypes, Record
<1>3. Len(p) \in Nat /\ Len(p) # 0 /\ Len(p) <= MaxLevel
    BY <1>1, <1>2, LenProperties, EmptySeq
<1>4. ASSUME NEW i \in Nat, i < Size(s)
      PROVE  /\ Get(s, i)' = Get(s, i) /\ SlabNo(i) \in 1..Len(p) /\ SlabOf(s, i) = p[SlabNo(i)]
             /\ SlabNo(i) = Len(p) => Get(s, i) = 0
    <2>1. SlabNo(i) \in 1..Len(p) /\ Offset(i) \in 0..Width
        BY <1>0, <1>1, <1>2, <1>4, PlaceOf
    <2>2. Get(s, i)' = Get(s, i)
        BY <1>0 DEF Get, SlabOf
    <2>3. SlabOf(s, i) = p[SlabNo(i)]
        BY <1>2 DEF SlabOf
    <2>4. SlabNo(i) = Len(p) => Get(s, i) = 0
        <3>1. Empty[Offset(i)] = 0
            BY <2>1 DEF Empty
        <3>2. SlabNo(i) = Len(p) => cells[SlabOf(s, i)] = Empty
            BY <1>2, <2>3
        <3> QED  BY <3>1, <3>2 DEF Get
    <2> QED  BY <2>1, <2>2, <2>3, <2>4
<1>5. Size(s)' = Size(s) /\ Size(s) \in Nat
    BY <1>0, SizeType DEF Size
<1>6. \A i \in Nat : InCells'[i] = IF i < Size(s) THEN Get(s, i) ELSE 0
    <2>1. InCells' = Counts(s)'
        BY <1>0 DEF InCells, Counts, Get, SlabOf, Size
    <2>2. Counts(s)' = [i \in Nat |-> IF i < Size(s)' THEN Get(s, i)' ELSE 0]
        BY DEF Counts
    <2> QED  BY <1>4, <1>5, <2>1, <2>2
<1>7. InCells \in [Nat -> Nat] /\ InCells' \in [Nat -> Nat]
    <2>1. InCells \in [Nat -> Nat]
        BY InCellsIs
    <2>2. \A i \in Nat : i < Size(s) => Get(s, i) \in Nat
        BY <1>0, <1>1, <1>2, PlaceOf
    <2>3. InCells' = [i \in Nat |-> IF i < Size(s) THEN Get(s, i) ELSE 0]
        <3>1. InCells' = Counts(s)'
            BY <1>0 DEF InCells, Counts, Get, SlabOf, Size
        <3>2. Counts(s)' = [i \in Nat |-> IF i < Size(s)' THEN Get(s, i)' ELSE 0]
            BY DEF Counts
        <3> QED  BY <1>4, <1>5, <3>1, <3>2
    <2> QED  BY <2>1, <2>2, <2>3
<1>8. ASSUME NEW i \in Nat
      PROVE  InCells'[i] = InCells[i]
    <2>1. CASE o = Null
        <3>1. Len(p) = 1 /\ InCells[i] = 0
            BY <1>0, <1>2, <2>1, InCellsIs
        <3>2. i < Size(s) => SlabNo(i) = Len(p)
            BY <1>4, <3>1
        <3> QED  BY <1>4, <1>6, <3>1, <3>2
    <2>2. CASE o # Null
        <3>1. o \in Storage
            BY <2>2, PublishIs
        <3>2. PICK q \in Seq(Slab) : q = store[o].slabs
            BY <1>0, <3>1 DEF HeapTypes, Record
        <3>3. PICK b \in Slab : p = Append(q, b)
            BY <1>2, <2>2, <3>2 DEF PublishFor
        <3>4. Len(p) = Len(q) + 1 /\ Len(q) \in Nat /\ \A l \in 1..Len(q) : p[l] = q[l]
            BY <3>3, AppendProperties, LenProperties
        <3>5. Size(o) = Pow2[Len(q)] /\ Size(s) = Pow2[Len(p)] /\ Size(o) \in Nat
            BY <1>0, <1>2, <3>1, <3>2, SizeType DEF Size
        <3>6. Size(o) <= Size(s)
            BY <1>3, <3>4, <3>5, SizeMono
        <3>7. (i < Size(o) => InCells[i] = Get(o, i)) /\ (i >= Size(o) => InCells[i] = 0)
            <4>1. stripes # Null /\ stripes = o
                BY <1>0, <2>2
            <4>2. (i < Size(stripes) => InCells[i] = Get(stripes, i)) /\ (i >= Size(stripes) => InCells[i] = 0)
                BY <4>1, InCellsIs
            <4> QED  BY <4>1, <4>2
        <3>8. CASE i < Size(o)
            <4>1. i < Size(s) /\ InCells[i] = Get(o, i)
                <5>1. i < Size(s)
                    BY <1>5, <3>5, <3>6, <3>8
                <5> QED  BY <3>8, <3>7, <5>1
            <4>2. q # << >> /\ Len(q) <= MaxLevel
                BY <1>0, <2>2, <3>2 DEF Structure, Published, Allocated, StorageOf
            <4>3. SlabNo(i) \in 1..Len(q)
                BY <1>0, <3>1, <3>2, <3>8, <4>2, PlaceOf
            <4>4. SlabOf(s, i) = SlabOf(o, i)
                BY <1>2, <3>2, <3>4, <4>3 DEF SlabOf
            <4> QED  BY <1>6, <4>1, <4>4 DEF Get
        <3>9. CASE ~(i < Size(o))
            <4>1. InCells[i] = 0
                BY <3>5, <3>9, <3>7
            <4>2. ASSUME i < Size(s)
                  PROVE  SlabNo(i) = Len(p)
                <5>1. i < Pow2[Len(p)] /\ Len(p) \in 1..MaxLevel
                    BY <1>3, <3>5, <4>2, LimitAssumption
                <5>2. SlabNo(i) \in 1..Len(p) /\ i < Pow2[SlabNo(i)]
                    BY <5>1, SlabNoIs
                <5>3. SlabNo(i) <= Len(q) => Pow2[SlabNo(i)] <= Pow2[Len(q)]
                    BY <3>4, <5>2, SizeMono
                <5>4. Pow2[SlabNo(i)] \in Nat /\ Pow2[Len(q)] \in Nat
                    BY <3>4, <5>2, Pow2Type
                <5> QED  BY <3>4, <3>5, <3>9, <5>2, <5>3, <5>4
            <4> QED  BY <1>4, <1>6, <4>1, <4>2
        <3> QED  BY <3>8, <3>9
    <2> QED  BY <2>1, <2>2
<1> QED  BY <1>7, <1>8

\* A write through a storage in use changes one count and no other.
LEMMA InCellsWrite ==
    ASSUME Structure, Structure', NEW t \in Thread, pc[t] \in {"cas", "zero"}, HeapKept, NEW v \in Nat,
           Put(cur[t], idx[t], v)
    PROVE  /\ InCells'[idx[t]] = v
           /\ \A k \in Nat : k # idx[t] => InCells'[k] = InCells[k]
           /\ idx[t] \in Nat
<1>0. Types /\ HeapTypes /\ ThreadOf(t) /\ stripes' = stripes /\ store' = store
    BY DEF Structure, Types, HeapKept
<1>1. PICK i \in Nat : i = idx[t]
    BY <1>0 DEF Types, ThreadTypes
<1>2. i < Size(cur[t])
    BY <1>0, <1>1 DEF ThreadOf
<1>3. /\ i < Size(stripes) /\ SlabOf(cur[t], i) = SlabOf(stripes, i) /\ stripes # Null
    BY <1>1, <1>2, SamePlace DEF AtWork
<1>4. PICK s \in Storage : s = stripes /\ StorageOf(s) /\ store[s].slabs # << >>
    BY <1>0, <1>3 DEF HeapTypes, Structure, Published, Allocated
<1>5. Len(store[s].slabs) <= MaxLevel
    BY <1>4 DEF StorageOf
<1>6. cells' = [cells EXCEPT ![SlabOf(s, i)][Offset(i)] = v]
    BY <1>1, <1>3, <1>4 DEF Put
<1>7. SlabOf(s, i) \in Slab /\ Offset(i) \in 0..Width /\ SlabNo(i) \in 1..Len(store[s].slabs)
      /\ i < Pow2[MaxLevel]
    BY <1>0, <1>3, <1>4, <1>5, PlaceOf
<1>8. Size(s)' = Size(s) /\ Size(s) \in Nat /\ \A k : SlabOf(s, k)' = SlabOf(s, k)
    BY <1>0, SizeType DEF Size, SlabOf
<1>9. \A k \in Nat : k < Size(s) => InCells[k] = Get(s, k) /\ InCells'[k] = Get(s, k)'
    <2>1. \A k \in Nat : k < Size(s) => InCells[k] = Get(s, k)
        BY <1>3, <1>4, InCellsIs
    <2>2. InCells' = Counts(s)'
        BY <1>0, <1>3, <1>4 DEF InCells, Counts, Get, SlabOf, Size
    <2>3. Counts(s)' = [k \in Nat |-> IF k < Size(s)' THEN Get(s, k)' ELSE 0]
        BY DEF Counts
    <2> QED  BY <1>8, <2>1, <2>2, <2>3
<1>10. \A k \in Nat : ~(k < Size(s)) => InCells[k] = 0 /\ InCells'[k] = 0
    <2>1. \A k \in Nat : k >= Size(s) => InCells[k] = 0
        BY <1>3, <1>4, InCellsIs
    <2>2. InCells' = Counts(s)'
        BY <1>0, <1>3, <1>4 DEF InCells, Counts, Get, SlabOf, Size
    <2>3. Counts(s)' = [k \in Nat |-> IF k < Size(s)' THEN Get(s, k)' ELSE 0]
        BY DEF Counts
    <2> QED  BY <1>8, <2>1, <2>2, <2>3
<1>11. Get(s, i)' = v
    <2>1. cells'[SlabOf(s, i)][Offset(i)] = v
        BY <1>0, <1>6, <1>7 DEF HeapTypes
    <2> QED  BY <1>8, <2>1 DEF Get
<1>12. ASSUME NEW k \in Nat, k < Size(s), k # i
       PROVE  Get(s, k)' = Get(s, k)
    <2>1. SlabOf(s, k) \in Slab /\ Offset(k) \in 0..Width /\ SlabNo(k) \in 1..Len(store[s].slabs)
          /\ k < Pow2[MaxLevel]
        BY <1>0, <1>4, <1>5, <1>12, PlaceOf
    <2>2. SlabNo(k) # SlabNo(i) \/ Offset(k) # Offset(i)
        BY <1>7, <1>12, <2>1, PlaceUnique
    <2>3. SlabOf(s, k) = SlabOf(s, i) => SlabNo(k) = SlabNo(i)
        BY <1>4, <1>7, <2>1 DEF StorageOf, SlabOf
    <2>4. SlabOf(s, k) # SlabOf(s, i) \/ Offset(k) # Offset(i)
        BY <2>2, <2>3
    <2>5. cells'[SlabOf(s, k)][Offset(k)] = cells[SlabOf(s, k)][Offset(k)]
        BY <1>0, <1>6, <1>7, <2>1, <2>4 DEF HeapTypes
    <2> QED  BY <1>8, <2>5 DEF Get
<1>13. \A k \in Nat : k # i => InCells'[k] = InCells[k]
    BY <1>8, <1>9, <1>10, <1>12
<1>14. InCells'[i] = v
    BY <1>3, <1>4, <1>9, <1>11
<1> QED  BY <1>1, <1>13, <1>14

-----------------------------------------------------------------------------
(* The totals *)

\* What a step may do to the totals: nothing that a sum in progress would miss
\* or count twice.
Progress ==
    /\ Balance'
    /\ (resets = 0 => discarded = 0)'
    /\ added <= added'
    /\ resets # 0 => resets' # 0
    /\ \A n \in Nat : base + SumBelow(InCells, n) + discarded <= base' + SumBelow(InCells', n) + discarded'
    /\ resets' = 0 => \A m, n \in Nat : m <= n =>
          SumBelow(InCells, n) + SumBelow(InCells', m) <= SumBelow(InCells', n) + SumBelow(InCells, m)

\* A step that leaves the totals and the cells.
LEMMA SameProgress ==
    ASSUME Structure, Counting, TotalsKept, live' => live, InCells' = InCells
    PROVE  Progress
<1>1. PICK f \in [Nat -> Nat] : f = InCells /\ f = InCells'
    BY InCellsIs
<1>2. \A n \in Nat : SumBelow(f, n) \in Nat
    BY SumType
<1>3. Limit \in Nat /\ base \in Nat /\ discarded \in Nat /\ added \in Nat
    BY InCellsIs DEF Structure, Types, TotalTypes
<1>4. Balance'
    BY <1>1 DEF Balance, Counting, TotalsKept
<1>5. (resets = 0 => discarded = 0)'
    BY DEF Counting, TotalsKept
<1>6. \A n \in Nat : base + SumBelow(InCells, n) + discarded <= base' + SumBelow(InCells', n) + discarded'
    BY <1>1, <1>2, <1>3 DEF TotalsKept
<1>7. \A m, n \in Nat : m <= n =>
          SumBelow(InCells, n) + SumBelow(InCells', m) <= SumBelow(InCells', n) + SumBelow(InCells, m)
    BY <1>1, <1>2
<1>8. added <= added' /\ (resets # 0 => resets' # 0)
    BY <1>3 DEF TotalsKept
<1> QED  BY <1>4, <1>5, <1>6, <1>7, <1>8 DEF Progress

\* An add to base_.
LEMMA BaseProgress ==
    ASSUME Structure, Counting, InCells' = InCells, live' = live,
           base' = base + 1 /\ added' = added + 1 /\ discarded' = discarded /\ resets' = resets
    PROVE  Progress
<1>1. PICK f \in [Nat -> Nat] : f = InCells /\ f = InCells'
    BY InCellsIs
<1>2. \A n \in Nat : SumBelow(f, n) \in Nat
    BY SumType
<1>3. Limit \in Nat /\ base \in Nat /\ discarded \in Nat /\ added \in Nat
    BY InCellsIs DEF Structure, Types, TotalTypes
<1>4. Balance'
    <2>1. live => added = base + SumBelow(f, Limit) + discarded
        BY <1>1 DEF Counting, Balance
    <2>2. live' => added' = base' + SumBelow(f, Limit) + discarded'
        BY <1>2, <1>3, <2>1
    <2> QED  BY <1>1, <2>2 DEF Balance
<1>5. (resets = 0 => discarded = 0)'
    BY DEF Counting
<1>6. \A n \in Nat : base + SumBelow(InCells, n) + discarded <= base' + SumBelow(InCells', n) + discarded'
    BY <1>1, <1>2, <1>3
<1>7. \A m, n \in Nat : m <= n =>
          SumBelow(InCells, n) + SumBelow(InCells', m) <= SumBelow(InCells', n) + SumBelow(InCells, m)
    BY <1>1, <1>2
<1>8. added <= added' /\ (resets # 0 => resets' # 0)
    BY <1>3
<1> QED  BY <1>4, <1>5, <1>6, <1>7, <1>8 DEF Progress

\* The first step of reset.
LEMMA ResetBaseProgress ==
    ASSUME Structure, Counting, InCells' = InCells, live' = live,
           base' = 0 /\ discarded' = discarded + base /\ added' = added /\ resets' = resets + 1
    PROVE  Progress
<1>1. PICK f \in [Nat -> Nat] : f = InCells /\ f = InCells'
    BY InCellsIs
<1>2. \A n \in Nat : SumBelow(f, n) \in Nat
    BY SumType
<1>3. Limit \in Nat /\ base \in Nat /\ discarded \in Nat /\ added \in Nat /\ resets \in Nat
    BY InCellsIs DEF Structure, Types, TotalTypes
<1>4. Balance'
    <2>1. live => added = base + SumBelow(f, Limit) + discarded
        BY <1>1 DEF Counting, Balance
    <2>2. live' => added' = base' + SumBelow(f, Limit) + discarded'
        BY <1>2, <1>3, <2>1
    <2> QED  BY <1>1, <2>2 DEF Balance
<1>5. resets' # 0
    BY <1>3
<1>6. \A n \in Nat : base + SumBelow(InCells, n) + discarded <= base' + SumBelow(InCells', n) + discarded'
    BY <1>1, <1>2, <1>3
<1>7. added <= added'
    BY <1>3
<1> QED  BY <1>4, <1>5, <1>6, <1>7 DEF Progress

\* One cell changes from InCells[i] to v, which added or discarded account for.
LEMMA CellProgress ==
    ASSUME Structure, Structure', Counting, live' = live, base' = base, resets' = resets,
           NEW i \in Nat, NEW v \in Nat, i < Limit, InCells'[i] = v,
           \A k \in Nat : k # i => InCells'[k] = InCells[k],
           \/ v = InCells[i] + 1 /\ added' = added + 1 /\ discarded' = discarded
           \/ v = 0 /\ added' = added /\ discarded' = discarded + InCells[i] /\ resets # 0
    PROVE  Progress
<1>1. PICK f \in [Nat -> Nat] : f = InCells
    BY InCellsIs
<1>2. InCells' \in [Nat -> Nat]
    <2>1. (Structure => InCells \in [Nat -> Nat])'
        BY InCellsIs, PTL
    <2> QED  BY <2>1
<1>3. PICK h \in [Nat -> Nat] : h = InCells'
    BY <1>2
<1>4. \A n \in Nat : SumBelow(f, n) \in Nat /\ SumBelow(h, n) \in Nat
    BY SumType
<1>5. Limit \in Nat /\ base \in Nat /\ discarded \in Nat /\ added \in Nat /\ f[i] \in Nat
    BY InCellsIs DEF Structure, Types, TotalTypes
<1>6. \A k \in Nat : k # i => h[k] = f[k]
    BY <1>1, <1>3
<1>7. \A n \in Nat : SumBelow(h, n) = IF i < n THEN SumBelow(f, n) + h[i] - f[i] ELSE SumBelow(f, n)
    BY <1>6, SumUpdate
<1>8. h[i] = v
    BY <1>3
<1>9. Balance'
    <2>1. live => added = base + SumBelow(f, Limit) + discarded
        BY <1>1 DEF Counting, Balance
    <2>2. SumBelow(h, Limit) = SumBelow(f, Limit) + v - f[i]
        BY <1>5, <1>7, <1>8
    <2>3. live' => added' = base' + SumBelow(h, Limit) + discarded'
        BY <1>1, <1>4, <1>5, <2>1, <2>2
    <2> QED  BY <1>3, <2>3 DEF Balance
<1>10. (resets = 0 => discarded = 0)'
    BY DEF Counting
<1>11. \A n \in Nat : base + SumBelow(f, n) + discarded <= base' + SumBelow(h, n) + discarded'
    <2> SUFFICES ASSUME NEW n \in Nat
                 PROVE  base + SumBelow(f, n) + discarded <= base' + SumBelow(h, n) + discarded'
        OBVIOUS
    <2>1. SumBelow(h, n) = IF i < n THEN SumBelow(f, n) + v - f[i] ELSE SumBelow(f, n)
        BY <1>7, <1>8
    <2>2. \/ v = f[i] + 1 /\ discarded' = discarded
          \/ v = 0 /\ discarded' = discarded + f[i]
        BY <1>1
    <2>3. SumBelow(f, n) \in Nat
        BY <1>4
    <2> QED  BY <1>5, <2>1, <2>2, <2>3
<1>12. resets' = 0 => \A m, n \in Nat : m <= n =>
          SumBelow(f, n) + SumBelow(h, m) <= SumBelow(h, n) + SumBelow(f, m)
    <2> SUFFICES ASSUME resets' = 0, NEW m \in Nat, NEW n \in Nat, m <= n
                 PROVE  SumBelow(f, n) + SumBelow(h, m) <= SumBelow(h, n) + SumBelow(f, m)
        OBVIOUS
    <2>1. v = f[i] + 1
        BY <1>1
    <2>2. SumBelow(h, n) = IF i < n THEN SumBelow(f, n) + 1 ELSE SumBelow(f, n)
        BY <1>4, <1>5, <1>7, <1>8, <2>1
    <2>3. SumBelow(h, m) = IF i < m THEN SumBelow(f, m) + 1 ELSE SumBelow(f, m)
        BY <1>4, <1>5, <1>7, <1>8, <2>1
    <2> QED  BY <1>4, <2>2, <2>3
<1>13. added <= added' /\ (resets # 0 => resets' # 0)
    BY <1>5
<1> QED  BY <1>1, <1>3, <1>9, <1>10, <1>11, <1>12, <1>13 DEF Progress

\* How far a call of value reads.
LEMMA ReachedIs ==
    ASSUME Structure, NEW u \in Thread
    PROVE  /\ Reached(u) \in Nat /\ Reached(u) <= Limit /\ Limit \in Nat
           /\ InValue(u) => idx[u] \in Nat /\ idx[u] <= Reached(u)
<1>0. ThreadOf(u) /\ HeapTypes /\ idx[u] \in Nat /\ Limit \in Nat
    BY InCellsIs DEF Structure, Types, ThreadTypes
<1>1. CASE pc[u] = "v_sum"
    <2>1. cur[u] \in Storage /\ Len(store[cur[u]].slabs) <= MaxLevel /\ idx[u] < Size(cur[u])
        BY <1>1, HeldIs
    <2>2. Len(store[cur[u]].slabs) \in Nat /\ Size(cur[u]) \in Nat
        BY <1>0, <2>1, SizeType
    <2>3. Size(cur[u]) <= Limit
        BY <2>1, <2>2, SizeMono, LimitAssumption DEF Size, Limit
    <2>4. Reached(u) = Size(cur[u])
        BY <1>1 DEF Reached
    <2> QED  BY <1>0, <2>1, <2>2, <2>3, <2>4
<1>2. CASE pc[u] # "v_sum"
    <2>1. Reached(u) = Limit
        BY <1>2 DEF Reached
    <2>2. InValue(u) => idx[u] = 0
        BY <1>0, <1>2 DEF ThreadOf, InValue
    <2> QED  BY <1>0, <2>1, <2>2
<1> QED  BY <1>1, <1>2

\* A thread that does not move keeps its part of the totals.
LEMMA ReadingStays ==
    ASSUME Structure, Structure', Counting, Progress, NEW u \in Thread,
           pc'[u] = pc[u] /\ op'[u] = op[u] /\ idx'[u] = idx[u] /\ sum'[u] = sum[u] /\ low'[u] = low[u],
           Reached(u)' = Reached(u)
    PROVE  ReadingOf(u)'
<1>0. ReadingOf(u) /\ Balance'
    BY DEF Counting, Progress
<1>1. InCells \in [Nat -> Nat] /\ InCells' \in [Nat -> Nat]
    <2>1. (Structure => InCells \in [Nat -> Nat])'
        BY InCellsIs, PTL
    <2> QED  BY <2>1, InCellsIs
<1>2. PICK f \in [Nat -> Nat] : f = InCells
    BY <1>1
<1>3. PICK h \in [Nat -> Nat] : h = InCells'
    BY <1>1
<1>4. \A n \in Nat : SumBelow(f, n) \in Nat /\ SumBelow(h, n) \in Nat
    BY SumType
<1>5. PICK r \in Nat : r = Reached(u) /\ r = Reached(u)'
    BY ReachedIs
<1>6. PICK i \in Nat : i = idx[u] /\ i = idx'[u] /\ (InValue(u) => i <= r)
    <2>1. idx[u] \in Nat
        BY DEF Structure, Types, ThreadTypes
    <2> QED  BY <1>5, <2>1, ReachedIs
<1>7. /\ base \in Nat /\ added \in Nat /\ discarded \in Nat /\ sum[u] \in Nat /\ low[u] \in Nat
      /\ base' \in Nat /\ added' \in Nat /\ discarded' \in Nat
    BY DEF Structure, Types, TotalTypes, ThreadTypes
<1>8. (InValue(u)' <=> InValue(u)) /\ (Summed(u)' <=> Summed(u))
    BY DEF InValue, Summed
<1>9. base + SumBelow(f, i) + discarded <= base' + SumBelow(h, i) + discarded'
    BY <1>2, <1>3 DEF Progress
<1>10. InValue(u) => sum[u] <= base + SumBelow(f, i) + discarded
    BY <1>0, <1>2, <1>6 DEF ReadingOf
<1>11. InValue(u) => sum[u] <= base' + SumBelow(h, i) + discarded'
    BY <1>4, <1>7, <1>9, <1>10
<1>12. resets' = 0 => resets = 0
    BY DEF Progress
<1>13. InValue(u) /\ resets' = 0 => low[u] + SumBelow(h, i) <= sum[u] + SumBelow(h, r)
    <2> SUFFICES ASSUME InValue(u), resets' = 0
                 PROVE  low[u] + SumBelow(h, i) <= sum[u] + SumBelow(h, r)
        OBVIOUS
    <2>1. low[u] + SumBelow(f, i) <= sum[u] + SumBelow(f, r)
        BY <1>0, <1>2, <1>5, <1>6, <1>12 DEF ReadingOf
    <2>2. SumBelow(f, r) + SumBelow(h, i) <= SumBelow(h, r) + SumBelow(f, i)
        BY <1>2, <1>3, <1>6 DEF Progress
    <2> QED  BY <1>4, <1>7, <2>1, <2>2
<1>14. Summed(u) => sum[u] <= added'
    BY <1>0, <1>7 DEF ReadingOf, Progress
<1>15. Summed(u) /\ resets' = 0 => low[u] <= sum[u]
    BY <1>0, <1>12 DEF ReadingOf
<1>16. /\ (InValue(u) => op[u] = "value")'
       /\ (pc[u] \in {"zero", "hz_check", "hz_set", "hz_load"} /\ op[u] = "reset" => resets # 0)'
       /\ (pc[u] = "zero" => op[u] = "reset")'
       /\ (pc[u] \in Adding => op[u] # "value" /\ (op[u] = "reset" => pc[u] \in {"hz_load", "hz_set", "hz_check"}))'
    BY <1>0, <1>8, <1>12 DEF ReadingOf
<1>17. (InValue(u) => sum[u] <= base + SumBelow(InCells, idx[u]) + discarded)'
    BY <1>3, <1>6, <1>8, <1>11
<1>18. (InValue(u) /\ resets = 0 =>
          low[u] + SumBelow(InCells, idx[u]) <= sum[u] + SumBelow(InCells, Reached(u)))'
    BY <1>3, <1>5, <1>6, <1>8, <1>13
<1>19. (Summed(u) => sum[u] <= added)' /\ (Summed(u) /\ resets = 0 => low[u] <= sum[u])'
    BY <1>8, <1>14, <1>15
<1> QED  BY <1>16, <1>17, <1>18, <1>19 DEF ReadingOf

\* The storage that value reads is allocated.
LEMMA ReadsAllocated ==
    \A v \in Thread : Structure /\ pc[v] = "v_sum" => store[cur[v]].slabs # << >>
BY HeldIs

\* The storage that another thread reads keeps its size.
LEMMA ReachedStays ==
    ASSUME Structure, Structure', NEW u \in Thread, pc'[u] = pc[u], cur'[u] = cur[u],
           \A x \in Storage : store[x].slabs # << >> => \/ store'[x].slabs = store[x].slabs
                                                        \/ store'[x].slabs = << >>
    PROVE  Reached(u)' = Reached(u)
<1>1. CASE pc[u] = "v_sum"
    <2>1. cur[u] \in Storage /\ store[cur[u]].slabs # << >>
        BY <1>1, HeldIs
    <2>2. (\A v \in Thread : Structure /\ pc[v] = "v_sum" => store[cur[v]].slabs # << >>)'
        BY ReadsAllocated, PTL
    <2>3. store'[cur[u]].slabs = store[cur[u]].slabs
        BY <1>1, <2>1, <2>2
    <2>4. Size(cur[u])' = Size(cur[u])
        BY <2>3 DEF Size
    <2> QED  BY <1>1, <2>4 DEF Reached
<1>2. CASE pc[u] # "v_sum"
    BY <1>2 DEF Reached, Limit
<1> QED  BY <1>1, <1>2

\* A step of t keeps the totals when it does so for t itself.
LEMMA CountingStep ==
    ASSUME Structure, Structure', Counting, Progress, NEW t \in Thread, Others(t), ReadingOf(t)',
           \A x \in Storage : store[x].slabs # << >> => \/ store'[x].slabs = store[x].slabs
                                                        \/ store'[x].slabs = << >>
    PROVE  Counting'
<1>1. \A u \in Thread : ReadingOf(u)'
    <2> SUFFICES ASSUME NEW u \in Thread, u # t
                 PROVE  ReadingOf(u)'
        OBVIOUS
    <2>1. pc'[u] = pc[u] /\ op'[u] = op[u] /\ idx'[u] = idx[u] /\ sum'[u] = sum[u] /\ low'[u] = low[u]
          /\ cur'[u] = cur[u]
        BY DEF Others
    <2>2. Reached(u)' = Reached(u)
        BY <2>1, ReachedStays
    <2> QED  BY <2>1, <2>2, ReadingStays
<1> QED  BY <1>1 DEF Counting, Progress

\* A thread outside value has no sum to account for.
LEMMA QuietReading ==
    ASSUME NEW t \in Thread, ~InValue(t)', ~Summed(t)',
           pc'[t] \in {"zero", "hz_check", "hz_set", "hz_load"} /\ op'[t] = "reset" => resets' # 0,
           pc'[t] = "zero" => op'[t] = "reset",
           pc'[t] \in Adding => /\ op'[t] # "value"
                                /\ op'[t] = "reset" => pc'[t] \in {"hz_load", "hz_set", "hz_check"}
    PROVE  ReadingOf(t)'
BY DEF ReadingOf

\* A step that leaves the storages and the cells leaves the counts.
LEMMA HeapKeptCells ==
    ASSUME Structure, Structure', HeapKept, cells' = cells
    PROVE  InCells' = InCells
BY InCellsStay DEF HeapKept

\* Steps of add and reset that leave the totals and the storages.
LEMMA QuietSteps ==
    ASSUME Structure, Structure', Counting, NEW t \in Thread,
           \/ AddBegin(t) \/ BaseRead(t) \/ HzLoad(t) \/ HzSet(t) \/ HzCheck(t)
           \/ Read(t) \/ CasFailed(t) \/ ValueReturn(t)
    PROVE  Counting'
<1>0. Types /\ ReadingOf(t)
    BY DEF Structure, Counting
<1>1. /\ pc[t] \in {"idle", "base_read", "hz_load", "hz_set", "hz_check", "read", "cas", "return"}
      /\ \/ pc'[t] = "idle"
         \/ /\ pc'[t] \in Adding /\ op'[t] # "value"
            /\ op'[t] = "reset" => pc'[t] \in {"hz_load", "hz_set", "hz_check"}
         \/ pc'[t] = "zero" /\ op'[t] = "reset" /\ op[t] = "reset" /\ pc[t] = "hz_check"
      /\ pc'[t] \in {"hz_check", "hz_set", "hz_load"} /\ op'[t] = "reset" =>
            pc[t] \in {"hz_check", "hz_set", "hz_load"} /\ op[t] = "reset"
      /\ Others(t) /\ HeapKept /\ cells' = cells /\ TotalsKept
    <2>0. pc[t] \in Adding => /\ op[t] # "value"
                              /\ op[t] = "reset" => pc[t] \in {"hz_load", "hz_set", "hz_check"}
        BY <1>0 DEF ReadingOf
    <2>1. CASE AddBegin(t)
        BY <1>0, <2>1, AddBeginDoes DEF Adding
    <2>2. CASE BaseRead(t)
        BY <1>0, <2>0, <2>2, BaseReadDoes DEF Adding
    <2>3. CASE HzLoad(t) \/ HzSet(t)
        BY <1>0, <2>0, <2>3, HzLoadDoes, HzSetDoes DEF Adding
    <2>4. CASE HzCheck(t)
        BY <1>0, <2>0, <2>4, HzCheckDoes DEF Adding
    <2>5. CASE Read(t)
        BY <1>0, <2>0, <2>5, ReadDoes DEF Adding
    <2>6. CASE CasFailed(t)
        BY <1>0, <2>0, <2>6, CasFailedDoes DEF Adding
    <2>7. CASE ValueReturn(t)
        BY <1>0, <2>7, ValueReturnDoes DEF Adding
    <2> QED  BY <2>1, <2>2, <2>3, <2>4, <2>5, <2>6, <2>7
<1>2. ReadingOf(t)'
    <2>1. ~InValue(t)' /\ ~Summed(t)'
        BY <1>1 DEF InValue, Summed, Adding
    <2>2. pc'[t] \in {"zero", "hz_check", "hz_set", "hz_load"} /\ op'[t] = "reset" => resets' # 0
        BY <1>0, <1>1 DEF ReadingOf, Adding, TotalsKept
    <2>3. /\ pc'[t] = "zero" => op'[t] = "reset"
          /\ pc'[t] \in Adding => /\ op'[t] # "value"
                                  /\ op'[t] = "reset" => pc'[t] \in {"hz_load", "hz_set", "hz_check"}
        BY <1>1 DEF Adding
    <2> QED  BY <2>1, <2>2, <2>3, QuietReading
<1>3. Progress
    <2>1. InCells' = InCells
        BY <1>1, HeapKeptCells
    <2> QED  BY <1>1, <2>1, SameProgress DEF HeapKept
<1>4. store' = store
    BY <1>1 DEF HeapKept
<1> QED  BY <1>1, <1>2, <1>3, <1>4, CountingStep

\* The end of a call: of value, with its sum; of add or reset, without.
LEMMA ClearCounts ==
    ASSUME Structure, Structure', Counting, NEW t \in Thread, Clear(t)
    PROVE  Counting'
<1>0. Types /\ ReadingOf(t)
    BY DEF Structure, Counting
<1>1. /\ pc[t] = "clear" /\ pc'[t] = IF op[t] = "value" THEN "return" ELSE "idle"
      /\ op'[t] = op[t] /\ Others(t) /\ HeapKept /\ cells' = cells /\ TotalsKept
      /\ sum'[t] = sum[t] /\ low'[t] = low[t]
    BY <1>0, ClearDoes DEF ReadKept
<1>2. Progress
    <2>1. InCells' = InCells
        BY <1>1, HeapKeptCells
    <2> QED  BY <1>1, <2>1, SameProgress DEF HeapKept
<1>3. ReadingOf(t)'
    <2>1. CASE op[t] = "value"
        <3>1. Summed(t) /\ ~InValue(t)' /\ added' = added /\ resets' = resets
            BY <1>1, <2>1 DEF Summed, InValue, TotalsKept
        <3>2. sum'[t] <= added' /\ (resets' = 0 => low'[t] <= sum'[t])
            BY <1>0, <1>1, <3>1 DEF ReadingOf
        <3> QED  BY <1>1, <2>1, <3>1, <3>2 DEF ReadingOf, Adding
    <2>2. CASE op[t] # "value"
        BY <1>1, <2>2, QuietReading DEF InValue, Summed, Adding
    <2> QED  BY <2>1, <2>2
<1>4. store' = store
    BY <1>1 DEF HeapKept
<1> QED  BY <1>1, <1>2, <1>3, <1>4, CountingStep

\* The compare-exchange on base_.
LEMMA BaseCasCounts ==
    ASSUME Structure, Structure', Counting, NEW t \in Thread, BaseCas(t)
    PROVE  Counting'
<1>0. Types /\ ReadingOf(t)
    BY DEF Structure, Counting
<1>1. /\ pc[t] = "base_cas"
      /\ \/ pc'[t] = "idle" /\ op'[t] = op[t] /\ base' = base + 1 /\ added' = added + 1
         \/ pc'[t] = "install" /\ op'[t] = "addSlow" /\ base' = base /\ added' = added
      /\ discarded' = discarded /\ resets' = resets
      /\ Others(t) /\ HeapKept /\ cells' = cells
    BY <1>0, BaseCasDoes
<1>2. Progress
    <2>1. InCells' = InCells /\ live' = live
        BY <1>1, HeapKeptCells DEF HeapKept
    <2> QED  BY <1>1, <2>1, SameProgress, BaseProgress DEF TotalsKept
<1>3. ReadingOf(t)'
    BY <1>1, QuietReading DEF InValue, Summed, Adding
<1>4. store' = store
    BY <1>1 DEF HeapKept
<1> QED  BY <1>1, <1>2, <1>3, <1>4, CountingStep

\* The compare-exchange on a cell, and the store of zero.
LEMMA CellCounts ==
    ASSUME Structure, Structure', Counting, NEW t \in Thread, CasDone(t) \/ ResetCell(t)
    PROVE  Counting'
<1>0. Types /\ ReadingOf(t)
    BY DEF Structure, Counting
<1>1. /\ pc[t] \in {"cas", "zero"} /\ Others(t) /\ HeapKept /\ base' = base /\ resets' = resets
      /\ op'[t] = op[t]
    BY <1>0, CasDoneDoes, ResetCellDoes
<1>2. PICK i \in Nat : i = idx[t] /\ i < Size(cur[t])
    BY <1>0, <1>1 DEF Types, ThreadTypes, Structure, ThreadOf
<1>3. i < Limit /\ Get(cur[t], i) = InCells[i] /\ InCells[i] \in Nat
    <2>1. Get(cur[t], i) = InCells[i] /\ Size(cur[t]) \in Nat /\ Size(cur[t]) <= Limit
        BY <1>1, <1>2, SamePlace DEF AtWork
    <2>2. Limit \in Nat /\ InCells[i] \in Nat
        BY InCellsIs
    <2> QED  BY <1>2, <2>1, <2>2
<1>4. PICK v \in Nat : /\ Put(cur[t], i, v)
                       /\ \/ v = InCells[i] + 1 /\ added' = added + 1 /\ discarded' = discarded
                          \/ v = 0 /\ added' = added /\ discarded' = discarded + InCells[i] /\ resets # 0
    <2>1. CASE CasDone(t)
        <3>1. /\ Get(cur[t], idx[t]) = expected[t] /\ Put(cur[t], idx[t], expected[t] + 1)
              /\ added' = added + 1 /\ discarded' = discarded
            BY <1>0, <2>1, CasDoneDoes
        <3>2. PICK v \in Nat : v = expected[t] + 1
            BY <1>0 DEF Types, ThreadTypes
        <3>3. Put(cur[t], i, v) /\ v = InCells[i] + 1
            BY <1>2, <1>3, <3>1, <3>2
        <3> QED  BY <3>1, <3>3
    <2>2. CASE ResetCell(t)
        <3>1. /\ pc[t] = "zero" /\ Put(cur[t], idx[t], 0)
              /\ discarded' = discarded + Get(cur[t], idx[t]) /\ added' = added
            BY <1>0, <2>2, ResetCellDoes
        <3>2. resets # 0
            BY <1>0, <3>1 DEF ReadingOf
        <3> QED  BY <1>2, <1>3, <3>1, <3>2
    <2> QED  BY <2>1, <2>2
<1>5. InCells'[i] = v /\ \A k \in Nat : k # i => InCells'[k] = InCells[k]
    <2>1. Put(cur[t], idx[t], v)
        BY <1>2, <1>4
    <2> QED  BY <1>1, <1>2, <2>1, InCellsWrite
<1>6. Progress
    <2>1. live' = live
        BY <1>1 DEF HeapKept
    <2> QED  BY <1>1, <1>3, <1>4, <1>5, <2>1, CellProgress
<1>7. ReadingOf(t)'
    <2>1. CASE CasDone(t)
        <3>1. pc[t] = "cas" /\ pc'[t] = "clear" /\ op[t] # "value"
            BY <1>0, <2>1, CasDoneDoes DEF ReadingOf, Adding
        <3> QED  BY <1>1, <3>1, QuietReading DEF InValue, Summed, Adding
    <2>2. CASE ResetCell(t)
        <3>1. pc[t] = "zero" /\ pc'[t] \in {"clear", "zero"} /\ op[t] = "reset" /\ resets # 0
            BY <1>0, <2>2, ResetCellDoes DEF ReadingOf
        <3> QED  BY <1>1, <3>1, QuietReading DEF InValue, Summed, Adding
    <2> QED  BY <2>1, <2>2
<1>8. store' = store
    BY <1>1 DEF HeapKept
<1> QED  BY <1>1, <1>6, <1>7, <1>8, CountingStep

\* The first step of reset.
LEMMA ResetBaseCounts ==
    ASSUME Structure, Structure', Counting, NEW t \in Thread, ResetBase(t)
    PROVE  Counting'
<1>0. Types
    BY DEF Structure
<1>1. /\ pc'[t] = "hz_load" /\ op'[t] = "reset"
      /\ base' = 0 /\ discarded' = discarded + base /\ added' = added /\ resets' = resets + 1
      /\ Others(t) /\ HeapKept /\ cells' = cells
    BY <1>0, ResetBaseDoes
<1>2. Progress
    <2>1. InCells' = InCells /\ live' = live
        BY <1>1, HeapKeptCells DEF HeapKept
    <2> QED  BY <1>1, <2>1, ResetBaseProgress
<1>3. ReadingOf(t)'
    <2>1. resets' # 0
        BY <1>0, <1>1 DEF Types, TotalTypes
    <2> QED  BY <1>1, <2>1, QuietReading DEF InValue, Summed, Adding
<1>4. store' = store
    BY <1>1 DEF HeapKept
<1> QED  BY <1>1, <1>2, <1>3, <1>4, CountingStep

\* Constructing a storage leaves the counts: its slab was free.
LEMMA InCellsNew ==
    ASSUME Structure, Structure', NEW s \in Storage, NEW q, NEW b \in Slab, New(s, q, b), stripes' = stripes
    PROVE  /\ InCells' = InCells
           /\ \A x \in Storage : store[x].slabs # << >> => store'[x].slabs = store[x].slabs
<1>0. HeapTypes
    BY DEF Structure, Types
<1>1. store[s].slabs = << >> /\ \A x \in Storage : x # s => store'[x] = store[x]
    BY <1>0 DEF New, HeapTypes
<1>2. ASSUME stripes # Null
      PROVE  /\ store'[stripes].slabs = store[stripes].slabs
             /\ \A l \in 1..Len(store[stripes].slabs) :
                   cells'[store[stripes].slabs[l]] = cells[store[stripes].slabs[l]]
    <2>1. PICK a \in Storage : a = stripes
        BY <1>0, <1>2 DEF HeapTypes
    <2>2. live /\ a # s /\ StorageOf(a)
        BY <1>1, <1>2, <2>1 DEF Structure, Published, Allocated
    <2>3. \A l \in 1..Len(store[a].slabs) : store[a].slabs[l] \in slabs
        BY <2>2 DEF StorageOf
    <2>4. \A x \in slabs : cells'[x] = cells[x]
        BY <1>0 DEF New, HeapTypes
    <2> QED  BY <1>1, <2>1, <2>2, <2>3, <2>4
<1>3. InCells' = InCells
    BY <1>2, InCellsStay
<1> QED  BY <1>1, <1>3

\* Deleting a storage that is not the current one leaves the counts.
LEMMA InCellsGone ==
    ASSUME Structure, Structure', NEW s \in Storage, s # stripes, stripes' = stripes, cells' = cells,
           store' = [store EXCEPT ![s] = NoStorage]
    PROVE  /\ InCells' = InCells
           /\ \A x \in Storage : store'[x].slabs = store[x].slabs \/ store'[x].slabs = << >>
<1>0. HeapTypes
    BY DEF Structure, Types
<1>1. \A x \in Storage : store'[x] = IF x = s THEN NoStorage ELSE store[x]
    BY <1>0 DEF HeapTypes
<1>2. stripes # Null => store'[stripes] = store[stripes]
    BY <1>0, <1>1 DEF HeapTypes
<1>3. InCells' = InCells
    BY <1>2, InCellsStay
<1> QED  BY <1>1, <1>3 DEF NoStorage

\* The steps that construct, publish, drop and retire storages leave the counts.
LEMMA StorageCells ==
    ASSUME Structure, Structure', NEW t \in Thread,
           InstallNew(t) \/ InstallCas(t) \/ ExpandCur(t) \/ GrowDone(t) \/ GrowFailed(t) \/ RetireCur(t)
    PROVE  /\ InCells' = InCells
           /\ \A x \in Storage : store[x].slabs # << >> => \/ store'[x].slabs = store[x].slabs
                                                           \/ store'[x].slabs = << >>
<1>0. Types /\ ThreadOf(t) /\ HeapTypes
    BY DEF Structure, Types
<1>1. CASE InstallNew(t)
    BY <1>0, <1>1, InstallNewDoes, InCellsNew
<1>2. CASE ExpandCur(t)
    BY <1>0, <1>2, ExpandCurDoes, InCellsNew
<1>3. CASE InstallCas(t) /\ stripes = Null
    <2>1. PICK s \in Storage : Len(store[s].slabs) = 1 /\ PublishFor(t, s, Null)
        BY <1>3, InstallPublishes
    <2>2. InCells' = InCells
        BY <2>1, InCellsPublish
    <2>3. store' = store
        BY <2>1 DEF PublishFor
    <2> QED  BY <2>2, <2>3
<1>4. CASE InstallCas(t) /\ stripes # Null
    <2>1. /\ pc[t] = "install_cas" /\ stripes' = stripes /\ cells' = cells
          /\ store' = [store EXCEPT ![cur[t]] = NoStorage]
        BY <1>0, <1>4, InstallCasDoes
    <2>2. cur[t] = Mine(t) /\ Mine(t) # Null
        BY <1>0, <2>1 DEF ThreadOf, Mine
    <2>3. PICK s \in Storage : s = cur[t]
        BY <1>0, <2>2 DEF Types, ThreadTypes
    <2>4. s # stripes
        BY <2>2, <2>3 DEF Structure, Published, Private
    <2> QED  BY <2>1, <2>3, <2>4, InCellsGone
<1>5. CASE GrowDone(t)
    <2>1. PICK s \in Storage, o \in Storage : PublishFor(t, s, o)
        BY <1>5, GrowPublishes
    <2>2. InCells' = InCells
        BY <2>1, InCellsPublish, NullAssumption
    <2>3. store' = store
        BY <2>1 DEF PublishFor
    <2> QED  BY <2>2, <2>3
<1>6. CASE GrowFailed(t)
    <2>1. /\ pc[t] = "grow" /\ stripes' = stripes /\ cells' = cells
          /\ store' = [store EXCEPT ![next[t]] = NoStorage]
        BY <1>0, <1>6, GrowFailedDoes
    <2>2. next[t] = Mine(t) /\ Mine(t) # Null
        BY <1>0, <2>1 DEF ThreadOf, Mine
    <2>3. PICK s \in Storage : s = next[t]
        BY <1>0, <2>2 DEF Types, ThreadTypes
    <2>4. s # stripes
        BY <2>2, <2>3, NullAssumption DEF Structure, Published, Private
    <2> QED  BY <2>1, <2>3, <2>4, InCellsGone
<1>7. CASE RetireCur(t)
    <2>1. /\ pc[t] = "retire" /\ stripes' = stripes /\ cells' = cells
          /\ store' = [store EXCEPT ![cur[t]] = DisavowAll(store[cur[t]])]
        BY <1>0, <1>7, RetireCurDoes
    <2>2. PICK c \in Storage : c = cur[t]
        BY <2>1, HeldIs
    <2>3. store[c] \in Record
        BY <1>0 DEF HeapTypes
    <2>4. \A x \in Storage : store'[x].slabs = store[x].slabs
        BY <1>0, <2>1, <2>2, <2>3, DisavowIs DEF HeapTypes
    <2>5. stripes # Null => store'[stripes].slabs = store[stripes].slabs
        BY <1>0, <2>4 DEF HeapTypes
    <2>6. InCells' = InCells
        BY <2>1, <2>5, InCellsStay
    <2> QED  BY <2>4, <2>6
<1> QED  BY <1>1, <1>2, <1>3, <1>4, <1>5, <1>6, <1>7

\* They keep the totals.
LEMMA StorageCounts ==
    ASSUME Structure, Structure', Counting, NEW t \in Thread,
           InstallNew(t) \/ InstallCas(t) \/ ExpandCur(t) \/ GrowDone(t) \/ GrowFailed(t) \/ RetireCur(t)
    PROVE  Counting'
<1>0. Types /\ ReadingOf(t)
    BY DEF Structure, Counting
<1>1. /\ pc[t] \in {"install", "install_cas", "expand", "grow", "retire"}
      /\ pc'[t] \in {"install_cas", "grow", "retire", "hz_load", "read"}
      /\ op'[t] = op[t] /\ Others(t) /\ TotalsKept /\ live' = live
    BY ZenonT(60), <1>0, InstallNewDoes, InstallCasDoes, ExpandCurDoes, GrowDoneDoes, GrowFailedDoes,
       RetireCurDoes
<1>2. op[t] # "value" /\ op[t] # "reset"
    BY <1>0, <1>1 DEF ReadingOf, Adding
<1>3. ReadingOf(t)'
    BY <1>1, <1>2, QuietReading DEF InValue, Summed, Adding
<1>4. /\ InCells' = InCells
      /\ \A x \in Storage : store[x].slabs # << >> => \/ store'[x].slabs = store[x].slabs
                                                      \/ store'[x].slabs = << >>
    BY StorageCells
<1>5. Progress
    BY <1>1, <1>4, SameProgress
<1> QED  BY <1>1, <1>3, <1>4, <1>5, CountingStep

\* The steps of value that leave the heap and the totals: it is enough that
\* the sum in hand is accounted for.
LEMMA ValueReads ==
    ASSUME Structure, Structure', Counting, NEW t \in Thread, Others(t), HeapKept, cells' = cells, TotalsKept,
           ReadingOf(t)'
    PROVE  Counting'
<1>1. InCells' = InCells
    BY HeapKeptCells
<1>2. Progress
    BY <1>1, SameProgress DEF HeapKept
<1> QED  BY <1>2, CountingStep DEF HeapKept

\* What ReadingOf asks of a thread that goes on reading.
LEMMA StillReading ==
    ASSUME NEW t \in Thread, InValue(t)', op'[t] = "value",
           sum'[t] <= base' + SumBelow(InCells', idx'[t]) + discarded',
           resets' = 0 => low'[t] + SumBelow(InCells', idx'[t]) <= sum'[t] + SumBelow(InCells', Reached(t)')
    PROVE  ReadingOf(t)'
<1>1. ~Summed(t)' /\ pc'[t] \notin Adding /\ pc'[t] \notin {"zero", "hz_check", "hz_set", "hz_load"}
    BY DEF InValue, Summed, Adding
<1> QED  BY <1>1 DEF ReadingOf

\* The start of value: the sum is what base_ holds.
LEMMA ValueBeginCounts ==
    ASSUME Structure, Structure', Counting, NEW t \in Thread, ValueBegin(t)
    PROVE  Counting'
<1>0. Types /\ ThreadOf(t)
    BY DEF Structure
<1>1. /\ live /\ pc[t] = "idle" /\ pc'[t] = "v_load" /\ op'[t] = "value"
      /\ sum'[t] = base /\ low'[t] = added /\ idx'[t] = idx[t]
      /\ Others(t) /\ HeapKept /\ cells' = cells /\ TotalsKept
    BY <1>0, ValueBeginDoes
<1>2. idx'[t] = 0
    BY <1>0, <1>1 DEF ThreadOf
<1>3. PICK f \in [Nat -> Nat] : f = InCells /\ f = InCells'
    BY <1>1, InCellsIs, HeapKeptCells
<1>4. SumBelow(f, 0) = 0 /\ \A n \in Nat : SumBelow(f, n) \in Nat
    BY SumSteps, SumType
<1>5. Limit \in Nat /\ base \in Nat /\ discarded \in Nat /\ added \in Nat
    BY <1>0, InCellsIs DEF Types, TotalTypes
<1>6. Reached(t)' = Limit
    BY <1>1 DEF Reached, Limit
<1>7. added = base + SumBelow(f, Limit) + discarded /\ (resets = 0 => discarded = 0)
    BY <1>1, <1>3 DEF Counting, Balance
<1>8. base <= base + SumBelow(f, 0) + discarded
    BY <1>4, <1>5
<1>9. resets = 0 => added + SumBelow(f, 0) <= base + SumBelow(f, Limit)
    BY <1>4, <1>5, <1>7
<1>10. ReadingOf(t)'
    <2>1. sum'[t] <= base' + SumBelow(InCells', idx'[t]) + discarded'
        BY <1>1, <1>2, <1>3, <1>8 DEF TotalsKept
    <2>2. resets' = 0 => low'[t] + SumBelow(InCells', idx'[t]) <= sum'[t] + SumBelow(InCells', Reached(t)')
        BY <1>1, <1>2, <1>3, <1>6, <1>9 DEF TotalsKept
    <2>3. InValue(t)'
        BY <1>1 DEF InValue
    <2> QED  BY <1>1, <2>1, <2>2, <2>3, StillReading
<1> QED  BY <1>1, <1>10, ValueReads

\* value looks for the storage: the sum stays what it was.  Without a storage
\* it is all there is.
LEMMA ValueSeeksCounts ==
    ASSUME Structure, Structure', Counting, NEW t \in Thread, ValueLoad(t) \/ ValueSet(t) \/ ValueCheck(t)
    PROVE  Counting'
<1>0. Types /\ ThreadOf(t) /\ ReadingOf(t)
    BY DEF Structure, Counting
<1>1. /\ pc[t] \in {"v_load", "v_set", "v_check"} /\ op'[t] = op[t] /\ idx'[t] = idx[t]
      /\ pc'[t] \in {"v_load", "v_set", "v_check", "v_sum", "return"}
      /\ pc'[t] = "return" => stripes = Null
      /\ pc'[t] = "v_sum" => cur'[t] = stripes
      /\ sum'[t] = sum[t] /\ low'[t] = low[t]
      /\ Others(t) /\ HeapKept /\ cells' = cells /\ TotalsKept
    BY <1>0, ValueLoadDoes, ValueSetDoes, ValueCheckDoes DEF ReadKept
<1>2. idx[t] = 0 /\ InValue(t) /\ live /\ op[t] = "value" /\ Reached(t) = Limit
    BY <1>0, <1>1 DEF ThreadOf, InValue, ReadingOf, Reached, Types, TotalTypes
<1>3. PICK f \in [Nat -> Nat] : f = InCells /\ f = InCells'
    BY <1>1, InCellsIs, HeapKeptCells
<1>4. SumBelow(f, 0) = 0 /\ \A n \in Nat : SumBelow(f, n) \in Nat
    BY SumSteps, SumType
<1>5. /\ Limit \in Nat /\ base \in Nat /\ discarded \in Nat /\ added \in Nat
      /\ sum[t] \in Nat /\ low[t] \in Nat
    BY <1>0, InCellsIs DEF Types, TotalTypes, ThreadTypes
<1>6. /\ sum[t] <= base + SumBelow(f, 0) + discarded
      /\ resets = 0 => low[t] + SumBelow(f, 0) <= sum[t] + SumBelow(f, Limit)
    BY <1>0, <1>2, <1>3 DEF ReadingOf
<1>7. added = base + SumBelow(f, Limit) + discarded
    BY <1>2, <1>3 DEF Counting, Balance
<1>8. CASE pc'[t] = "return"
    <2>1. \A k \in Nat : k >= 0 => f[k] = 0
        BY <1>1, <1>3, <1>8, InCellsIs
    <2>2. SumBelow(f, Limit) = SumBelow(f, 0)
        BY <1>5, <2>1, SumTail
    <2>3. sum[t] <= added /\ (resets = 0 => low[t] <= sum[t])
        BY <1>4, <1>5, <1>6, <1>7, <2>2
    <2>4. ReadingOf(t)'
        BY <1>1, <1>8, <2>3 DEF ReadingOf, InValue, Summed, Adding, TotalsKept
    <2> QED  BY <1>1, <2>4, ValueReads
<1>9. CASE pc'[t] # "return"
    <2>1. SumBelow(f, Reached(t)') = SumBelow(f, Limit)
        <3>1. CASE pc'[t] = "v_sum"
            <4>1. stripes # Null
                <5>1. Held(t)'
                    BY <3>1 DEF Structure, ThreadOf
                <5> QED  BY <1>1, <5>1 DEF Held, HeapKept
            <4>2. Reached(t)' = Size(stripes)
                BY <1>1, <3>1 DEF Reached, Size, HeapKept
            <4>3. PICK n \in Nat : n = Size(stripes) /\ n <= Limit
                BY <4>1, InCellsIs
            <4>4. \A k \in Nat : k >= n => f[k] = 0
                BY <1>3, <4>1, <4>3, InCellsIs
            <4>5. SumBelow(f, Limit) = SumBelow(f, n)
                BY <1>5, <4>3, <4>4, SumTail
            <4> QED  BY <4>2, <4>3, <4>5
        <3>2. CASE pc'[t] # "v_sum"
            BY <3>2 DEF Reached, Limit
        <3> QED  BY <3>1, <3>2
    <2>2. sum'[t] <= base' + SumBelow(InCells', idx'[t]) + discarded'
        BY <1>1, <1>2, <1>3, <1>6 DEF TotalsKept
    <2>3. resets' = 0 => low'[t] + SumBelow(InCells', idx'[t]) <= sum'[t] + SumBelow(InCells', Reached(t)')
        BY <1>1, <1>2, <1>3, <1>6, <2>1 DEF TotalsKept
    <2>4. InValue(t)' /\ op'[t] = "value"
        BY <1>1, <1>2, <1>9 DEF InValue
    <2>5. ReadingOf(t)'
        BY <2>2, <2>3, <2>4, StillReading
    <2> QED  BY <1>1, <2>5, ValueReads
<1> QED  BY <1>8, <1>9

\* value adds one cell to its sum.
LEMMA ValueSumCounts ==
    ASSUME Structure, Structure', Counting, NEW t \in Thread, ValueSum(t)
    PROVE  Counting'
<1>0. Types /\ ThreadOf(t) /\ ReadingOf(t)
    BY DEF Structure, Counting
<1>1. /\ pc[t] = "v_sum" /\ sum'[t] = sum[t] + Get(cur[t], idx[t]) /\ low'[t] = low[t]
      /\ idx'[t] = (idx[t] + 1) % Size(cur[t])
      /\ pc'[t] = IF idx[t] = Size(cur[t]) - 1 THEN "clear" ELSE "v_sum"
      /\ op'[t] = op[t] /\ cur'[t] = cur[t]
      /\ Others(t) /\ HeapKept /\ cells' = cells /\ TotalsKept
    BY <1>0, ValueSumDoes
<1>2. PICK i \in Nat : i = idx[t] /\ i < Size(cur[t])
    BY <1>0, <1>1 DEF Types, ThreadTypes, ThreadOf
<1>3. PICK f \in [Nat -> Nat] : f = InCells /\ f = InCells'
    BY <1>1, InCellsIs, HeapKeptCells
<1>4. PICK n \in Nat : n = Size(cur[t]) /\ n <= Limit /\ Get(cur[t], i) = f[i]
    BY <1>1, <1>2, <1>3, SamePlace DEF AtWork
<1>5. /\ SumBelow(f, i + 1) = SumBelow(f, i) + f[i]
      /\ \A k \in Nat : SumBelow(f, k) \in Nat
    BY SumSteps, SumType
<1>6. /\ Limit \in Nat /\ base \in Nat /\ discarded \in Nat /\ added \in Nat
      /\ sum[t] \in Nat /\ low[t] \in Nat /\ f[i] \in Nat
    BY <1>0, InCellsIs DEF Types, TotalTypes, ThreadTypes
<1>7. InValue(t) /\ live /\ op[t] = "value" /\ Reached(t) = n
    BY <1>0, <1>1, <1>4 DEF ThreadOf, InValue, ReadingOf, Reached, Types, TotalTypes
<1>8. /\ sum[t] <= base + SumBelow(f, i) + discarded
      /\ resets = 0 => low[t] + SumBelow(f, i) <= sum[t] + SumBelow(f, n)
    BY <1>0, <1>2, <1>3, <1>7 DEF ReadingOf
<1>9. added = base + SumBelow(f, Limit) + discarded
    BY <1>3, <1>7 DEF Counting, Balance
<1>10. idx'[t] = IF i = n - 1 THEN 0 ELSE i + 1
    BY <1>1, <1>2, <1>4, NextIndex
<1>11. sum'[t] = sum[t] + f[i]
    BY <1>1, <1>2, <1>4
<1>12. /\ sum[t] + f[i] <= base + SumBelow(f, i + 1) + discarded
       /\ resets = 0 => low[t] + SumBelow(f, i + 1) <= sum[t] + f[i] + SumBelow(f, n)
    BY <1>5, <1>6, <1>8
<1>13. CASE i = n - 1
    <2>1. i + 1 = n
        BY <1>13
    <2>2. SumBelow(f, n) <= SumBelow(f, Limit)
        BY <1>4, <1>6, SumMono
    <2>3. sum[t] + f[i] <= added /\ (resets = 0 => low[t] <= sum[t] + f[i])
        BY <1>5, <1>6, <1>9, <1>12, <2>1, <2>2
    <2>4. pc'[t] = "clear"
        BY <1>1, <1>2, <1>4, <1>13
    <2>5. ReadingOf(t)'
        BY <1>1, <1>7, <1>11, <2>3, <2>4 DEF ReadingOf, InValue, Summed, Adding, TotalsKept
    <2> QED  BY <1>1, <2>5, ValueReads
<1>14. CASE i # n - 1
    <2>1. pc'[t] = "v_sum" /\ idx'[t] = i + 1
        BY <1>1, <1>2, <1>4, <1>10, <1>14
    <2>2. Reached(t)' = n
        BY <1>1, <1>4, <2>1 DEF Reached, Size, HeapKept
    <2>3. sum'[t] <= base' + SumBelow(InCells', idx'[t]) + discarded'
        BY <1>1, <1>3, <1>11, <1>12, <2>1 DEF TotalsKept
    <2>4. resets' = 0 => low'[t] + SumBelow(InCells', idx'[t]) <= sum'[t] + SumBelow(InCells', Reached(t)')
        BY <1>1, <1>3, <1>11, <1>12, <2>1, <2>2 DEF TotalsKept
    <2>5. InValue(t)' /\ op'[t] = "value"
        BY <1>1, <1>7, <2>1 DEF InValue
    <2>6. ReadingOf(t)'
        BY <2>3, <2>4, <2>5, StillReading
    <2> QED  BY <1>1, <2>6, ValueReads
<1> QED  BY <1>13, <1>14

\* The destructor leaves no call that reads.
LEMMA DestroyCounts ==
    ASSUME Structure, Counting, Destroy
    PROVE  Counting'
<1>0. Types
    BY DEF Structure
<1>1. /\ live' = FALSE /\ \A t \in Thread : pc'[t] = "idle"
      /\ discarded' = discarded /\ resets' = resets
    BY <1>0, DestroyDoes DEF ThreadsKept, TotalsKept
<1>2. \A t \in Thread : ReadingOf(t)'
    BY <1>1, QuietReading DEF InValue, Summed, Adding
<1>3. Balance'
    BY <1>1 DEF Balance
<1> QED  BY <1>1, <1>2, <1>3 DEF Counting

\* Deleting a retired storage takes nothing from the totals.
LEMMA ReclaimCounts ==
    ASSUME Structure, Structure', Counting, NEW s \in Storage, Reclaim(s)
    PROVE  Counting'
<1>0. Types
    BY DEF Structure
<1>1. /\ s \in retired /\ store' = [store EXCEPT ![s] = NoStorage]
      /\ stripes' = stripes /\ live' = live /\ cells' = cells /\ ThreadsKept /\ TotalsKept
    BY <1>0, ReclaimDoes
<1>2. s # stripes
    BY <1>1 DEF Structure, StorageOf
<1>3. /\ InCells' = InCells
      /\ \A x \in Storage : store'[x].slabs = store[x].slabs \/ store'[x].slabs = << >>
    BY <1>1, <1>2, InCellsGone
<1>4. Progress
    BY <1>1, <1>3, SameProgress
<1>5. \A u \in Thread : ReadingOf(u)'
    <2> SUFFICES ASSUME NEW u \in Thread
                 PROVE  ReadingOf(u)'
        OBVIOUS
    <2>1. /\ pc'[u] = pc[u] /\ op'[u] = op[u] /\ idx'[u] = idx[u] /\ sum'[u] = sum[u] /\ low'[u] = low[u]
          /\ cur'[u] = cur[u]
        BY <1>1 DEF ThreadsKept
    <2>2. Reached(u)' = Reached(u)
        BY <1>3, <2>1, ReachedStays
    <2> QED  BY <1>4, <2>1, <2>2, ReadingStays
<1> QED  BY <1>4, <1>5 DEF Counting, Progress

\* Nothing has been added to a new counter.
LEMMA InitCounting ==
    ASSUME Init
    PROVE  Counting
<1>0. Structure
    BY InitStructure
<1>1. /\ base = 0 /\ added = 0 /\ discarded = 0 /\ cells = [b \in Slab |-> Empty]
      /\ \A t \in Thread : pc[t] = "idle"
    BY DEF Init
<1>2. PICK f \in [Nat -> Nat] : f = InCells
    BY <1>0, InCellsIs
<1>3. \A k \in Nat : f[k] = 0
    <2> SUFFICES ASSUME NEW k \in Nat
                 PROVE  f[k] = 0
        OBVIOUS
    <2>1. CASE stripes = Null
        BY <1>0, <1>2, <2>1, InCellsIs
    <2>2. CASE stripes # Null
        <3>1. PICK s \in Storage : s = stripes
            BY <1>0, <2>2, InCellsIs
        <3>2. store[s].slabs # << >> /\ Len(store[s].slabs) <= MaxLevel /\ HeapTypes
            BY <1>0, <2>2, <3>1 DEF Structure, Published, Allocated, StorageOf, Types
        <3>3. ASSUME k < Size(s)
              PROVE  Get(s, k) = 0
            <4>1. SlabOf(s, k) \in Slab /\ Offset(k) \in 0..Width
                BY <3>2, <3>3, PlaceOf
            <4>2. cells[SlabOf(s, k)] = Empty /\ Empty[Offset(k)] = 0
                BY <1>1, <4>1 DEF Empty
            <4> QED  BY <4>2 DEF Get
        <3>4. /\ k < Size(stripes) => InCells[k] = Get(stripes, k)
              /\ k >= Size(stripes) => InCells[k] = 0
              /\ Size(stripes) \in Nat
            BY <1>0, <2>2, InCellsIs
        <3> QED  BY <1>2, <3>1, <3>3, <3>4
    <2> QED  BY <2>1, <2>2
<1>4. Limit \in Nat
    BY <1>0, InCellsIs
<1>5. SumBelow(f, 0) = 0
    BY SumSteps
<1>6. SumBelow(f, Limit) = SumBelow(f, 0)
    BY <1>3, <1>4, SumTail
<1>7. Balance
    BY <1>1, <1>2, <1>5, <1>6 DEF Balance
<1>8. \A t \in Thread : ReadingOf(t)
    BY <1>1 DEF ReadingOf, InValue, Summed, Adding
<1> QED  BY <1>1, <1>7, <1>8 DEF Counting

\* Steps that change nothing.
LEMMA StutterCounting ==
    ASSUME Structure, Structure', Counting, UNCHANGED vars
    PROVE  Counting'
<1>1. /\ HeapKept /\ cells' = cells /\ TotalsKept /\ ThreadsKept
    BY DEF vars, shared, protect, locals, total, calls, HeapKept, TotalsKept, ThreadsKept
<1>2. InCells' = InCells
    BY <1>1, HeapKeptCells
<1>3. Progress
    BY <1>1, <1>2, SameProgress DEF HeapKept
<1>4. \A u \in Thread : ReadingOf(u)'
    <2> SUFFICES ASSUME NEW u \in Thread
                 PROVE  ReadingOf(u)'
        OBVIOUS
    <2>1. /\ pc'[u] = pc[u] /\ op'[u] = op[u] /\ idx'[u] = idx[u] /\ sum'[u] = sum[u] /\ low'[u] = low[u]
          /\ cur'[u] = cur[u] /\ store' = store
        BY <1>1 DEF ThreadsKept, HeapKept
    <2>2. Reached(u)' = Reached(u)
        BY <2>1, ReachedStays
    <2> QED  BY <1>3, <2>1, <2>2, ReadingStays
<1> QED  BY <1>3, <1>4 DEF Counting, Progress

\* Every step keeps the totals as long as it keeps the structure.
LEMMA CountingKept ==
    ASSUME Structure, Structure', Counting, [Next]_vars
    PROVE  Counting'
<1>1. ASSUME NEW t \in Thread, Step(t) \/ AddBegin(t) \/ ValueBegin(t) \/ ResetBase(t)
      PROVE  Counting'
    <2>1. CASE \/ AddBegin(t) \/ BaseRead(t) \/ HzLoad(t) \/ HzSet(t) \/ HzCheck(t)
               \/ Read(t) \/ CasFailed(t) \/ ValueReturn(t)
        BY <2>1, QuietSteps
    <2>2. CASE InstallNew(t) \/ InstallCas(t) \/ ExpandCur(t) \/ GrowDone(t) \/ GrowFailed(t) \/ RetireCur(t)
        BY <2>2, StorageCounts
    <2>3. CASE BaseCas(t)
        BY <2>3, BaseCasCounts
    <2>4. CASE CasDone(t) \/ ResetCell(t)
        BY <2>4, CellCounts
    <2>5. CASE Clear(t)
        BY <2>5, ClearCounts
    <2>6. CASE ValueBegin(t)
        BY <2>6, ValueBeginCounts
    <2>7. CASE ValueLoad(t) \/ ValueSet(t) \/ ValueCheck(t)
        BY <2>7, ValueSeeksCounts
    <2>8. CASE ValueSum(t)
        BY <2>8, ValueSumCounts
    <2>9. CASE ResetBase(t)
        BY <2>9, ResetBaseCounts
    <2> QED  BY <1>1, <2>1, <2>2, <2>3, <2>4, <2>5, <2>6, <2>7, <2>8, <2>9
                DEF Step, AddStep, ValueStep
<1>2. ASSUME Destroy
      PROVE  Counting'
    BY <1>2, DestroyCounts
<1>3. ASSUME NEW s \in Storage, Reclaim(s)
      PROVE  Counting'
    BY <1>3, ReclaimCounts
<1>4. ASSUME UNCHANGED vars
      PROVE  Counting'
    BY <1>4, StutterCounting
<1> QED  BY <1>1, <1>2, <1>3, <1>4 DEF Next, Finished

\* What the totals say of the counter and of a call of value.
LEMMA CountingIsRight ==
    ASSUME Structure, Counting
    PROVE  Conservation /\ ValueInRange
<1>1. Conservation
    <2> SUFFICES ASSUME live
                 PROVE  added = base + (IF stripes = Null THEN 0 ELSE SumBelow(Counts(stripes), Size(stripes)))
                                 + discarded
        BY DEF Conservation
    <2>1. PICK f \in [Nat -> Nat] : f = InCells
        BY InCellsIs
    <2>2. added = base + SumBelow(f, Limit) + discarded
        BY <2>1 DEF Counting, Balance
    <2>3. Limit \in Nat
        BY InCellsIs
    <2>4. CASE stripes = Null
        <3>1. \A k \in Nat : k >= 0 => f[k] = 0
            BY <2>1, <2>4, InCellsIs
        <3>2. SumBelow(f, Limit) = SumBelow(f, 0) /\ SumBelow(f, 0) = 0
            BY <2>3, <3>1, SumTail, SumSteps
        <3> QED  BY <2>2, <2>4, <3>2
    <2>5. CASE stripes # Null
        <3>1. PICK n \in Nat : n = Size(stripes) /\ n <= Limit
            BY <2>5, InCellsIs
        <3>2. \A k \in Nat : k >= n => f[k] = 0
            BY <2>1, <2>5, <3>1, InCellsIs
        <3>3. SumBelow(f, Limit) = SumBelow(f, n)
            BY <2>3, <3>1, <3>2, SumTail
        <3>4. f = Counts(stripes)
            BY <2>1, <2>5 DEF InCells
        <3> QED  BY <2>2, <2>5, <3>1, <3>3, <3>4
    <2> QED  BY <2>4, <2>5
<1>2. ValueInRange
    <2> SUFFICES ASSUME NEW t \in Thread, pc[t] = "return"
                 PROVE  sum[t] <= added /\ (resets = 0 => sum[t] >= low[t])
        BY DEF ValueInRange
    <2>1. ReadingOf(t) /\ Summed(t) /\ sum[t] \in Nat /\ low[t] \in Nat
        BY DEF Counting, Summed, Structure, Types, ThreadTypes
    <2> QED  BY <2>1 DEF ReadingOf
<1> QED  BY <1>1, <1>2

\* Structure and totals together.
LEMMA CountingInvariance == Spec /\ InstallersWin => []Counting
<1>1. Init => Counting
    BY InitCounting
<1>2. Structure /\ Structure' /\ Counting /\ [Next]_vars => Counting'
    BY CountingKept
<1> QED  BY <1>1, <1>2, StructureInvariance, PTL DEF Spec

\* The same without the condition, for Striped64(k) or at most two slabs.
LEMMA SizedCountingInvariance ==
    ASSUME InitLevel # 0 \/ MaxLevel <= 2
    PROVE  Spec => []Counting
<1>1. Init => Counting
    BY InitCounting
<1>2. Structure /\ Structure' /\ Counting /\ [Next]_vars => Counting'
    BY CountingKept
<1> QED  BY <1>1, <1>2, InstalledInvariance, PTL DEF Spec

\* Nothing added is lost or counted twice while storages are installed, grown,
\* dropped, retired and reclaimed under the adds, in any interleaving in which
\* no first installer loses a race to grow.
THEOREM NothingIsLost == Spec /\ InstallersWin => []Conservation
<1>1. Structure /\ Counting => Conservation
    BY CountingIsRight
<1> QED  BY <1>1, StructureInvariance, CountingInvariance, PTL

\* What value returns lies between what had been added when it was called
\* (unless reset came between) and what has been added when it returns, under
\* the same condition.
THEOREM ValuesAreInRange == Spec /\ InstallersWin => []ValueInRange
<1>1. Structure /\ Counting => ValueInRange
    BY CountingIsRight
<1> QED  BY <1>1, StructureInvariance, CountingInvariance, PTL

\* Striped64(k), and a counter of at most two slabs, count right without
\* condition.
THEOREM SizedCounterIsRight ==
    ASSUME InitLevel # 0 \/ MaxLevel <= 2
    PROVE  Spec => []Conservation /\ []ValueInRange
<1>1. Structure /\ Counting => Conservation /\ ValueInRange
    BY CountingIsRight
<1> QED  BY <1>1, InstalledInvariance, SizedCountingInvariance, PTL
=============================================================================
