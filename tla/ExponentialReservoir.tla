------------------------ MODULE ExponentialReservoir ------------------------
(***************************************************************************)
(* The decaying reservoir of src/metrics/exponential_reservoir.{h,cc} with *)
(* the Histogram around it: update with the hourly rescale, snapshot and   *)
(* the destructor.                                                         *)
(*                                                                         *)
(* The map of a Data is the level-0 list of its skip list: the entries,    *)
(* which are <<priority, value>>, and those that were erased and are still *)
(* linked.  A find, an insert and the marking of an erase are one step     *)
(* each, as OrderedMap has them; values() and entries() walk node by node. *)
(* A node is known by its entry.  Priorities are kept on a logarithmic     *)
(* scale: exp(kAlpha * delta) / (1 - u) is delta plus a draw, and scaling  *)
(* by exp(-kAlpha * delta) subtracts delta; the order is the same.  The    *)
(* value an update records is the time of the update.  Data objects are    *)
(* reclaimed as SafeReclamation promises.                                  *)
(***************************************************************************)
EXTENDS Integers, Sequences, FiniteSets, FiniteSetsExt, Snapshot

CONSTANTS
    Thread,
    Data,           \* addresses of Data objects (reused)
    Null,           \* nullptr, and no owner of the mutex
    KSize,          \* kSize
    Period,         \* the rescaling period, an hour in the code
    Draw,           \* what -log(1 - u) may be
    MaxTime,        \* bound on the clock
    MaxUpdates,     \* bound on the updates of each thread
    MaxSnapshots    \* bound on the snapshots of each thread

ASSUME DataAssumption == Data # {} /\ Null \notin Data /\ Null \notin Thread
ASSUME ThreadAssumption == IsFiniteSet(Thread)
ASSUME SizeAssumption == KSize \in Nat \ {0} /\ Period \in Nat \ {0} /\ Draw \subseteq Nat
ASSUME TimeAssumption == MaxTime \in Nat

VARIABLES
    clock,      \* steady_clock
    data,       \* data_
    obj,        \* the Data objects: map, erased entries still linked, count and landmark
    nextScale,  \* next_scale_
    mutex,      \* rescale_snap_mutex_: its holder
    hazard,     \* the hazard slot of each thread
    th,         \* each thread's program counter and locals
    count,      \* Histogram::count_
    updates,    \* the updates each thread made
    snapshots,  \* the snapshots each thread made
    walk        \* values() or entries() of the thread that has the mutex

memory == <<data, obj, nextScale, mutex, hazard>>
calls == <<count, updates, snapshots>>
vars == <<clock, memory, th, calls, walk>>

NoData == [state |-> "free", map |-> {}, dead |-> {}, count |-> 0, landmark |-> 0]
Fresh(now) == [NoData EXCEPT !.state = "used", !.landmark = now]
Idle == [pc |-> "idle", now |-> 0, next |-> 0, d |-> Null, old |-> Null, todo |-> << >>,
         item |-> <<0, 0>>, first |-> 0, values |-> << >>]

\* The level-0 list.  Its head, whose key is below every priority: Key(), which
\* is also what firstKey returns of an empty list.
Bottom == -(MaxTime + 1)
HeadNode == <<Bottom, 0>>
PrioritiesOf(m) == {e[1] : e \in m}
Linked(o) == o.map \cup o.dead
FirstKey(m) == IF m = {} THEN Bottom ELSE Min(PrioritiesOf(m))
FirstOf(m) == {e \in m : \A f \in m : e[1] <= f[1]}
Beyond(o, e) == {f \in Linked(o) : f[1] > e[1]}
Alive(o, e) == e = HeadNode \/ e \in o.map

\* find(k) walks from the head to the first entry from k on: the erased ones it
\* meets.  It does not see those that are erased behind it, so it may meet only
\* those after an entry it has passed.  It unlinks the first one it meets, and
\* then stops there without a match.
Meets(o, k) ==
    {{e \in o.dead : e[1] > from /\ \A f \in o.map : f[1] < k \/ f[1] > e[1]} :
        from \in {Bottom} \cup {p \in PrioritiesOf(o.map) : p < k}}

\* The extractor of the thread that has the mutex: its prev, cur and ret.  Ghosts:
\* the entries that were in the map at its start and have not been erased, and
\* whether it has met an erased cur.
NoWalk == [d |-> Null, prev |-> HeadNode, cur |-> HeadNode, ret |-> << >>, stays |-> {}, reloaded |-> FALSE]
WalkOf(d) == [NoWalk EXCEPT !.d = d, !.stays = obj[d].map]

Goto(t, label) == th' = [th EXCEPT ![t].pc = label]

-----------------------------------------------------------------------------
(* update: the Data to work on *)

Tick ==
    /\ clock < MaxTime
    /\ clock' = clock + 1
    /\ UNCHANGED <<memory, th, calls, walk>>

\* count_.add(1) of Histogram::update, which comes first.
CountOne == count' = count + 1

Update(t) ==
    /\ th[t].pc = "idle"
    /\ data # Null
    /\ updates[t] < MaxUpdates[t]
    /\ updates' = [updates EXCEPT ![t] = @ + 1]
    /\ CountOne
    /\ th' = [th EXCEPT ![t] = [Idle EXCEPT !.pc = "scale", !.now = clock]]
    /\ UNCHANGED <<clock, memory, snapshots, walk>>

\* loadAndRescaleIfNeeded.
ReadScale(t) ==
    /\ th[t].pc = "scale"
    /\ th' = [th EXCEPT ![t] = IF @.now > nextScale THEN [@ EXCEPT !.pc = "rescale", !.next = nextScale]
                               ELSE [@ EXCEPT !.pc = "load"]]
    /\ UNCHANGED <<clock, memory, calls, walk>>

\* loadAndSetHazard(data_, 0).
LoadData(t) ==
    /\ th[t].pc = "load"
    /\ th' = [th EXCEPT ![t].d = data, ![t].pc = "set"]
    /\ UNCHANGED <<clock, memory, calls, walk>>

SetData(t) ==
    /\ th[t].pc = "set"
    /\ hazard' = [hazard EXCEPT ![t] = th[t].d]
    /\ Goto(t, "check")
    /\ UNCHANGED <<clock, data, obj, nextScale, mutex, calls, walk>>

\* Mutant: data_ is not loaded again.
Current_NoReload(t) == TRUE

Current(t) == data = th[t].d

CheckData(t) ==
    /\ th[t].pc = "check"
    /\ Goto(t, IF Current(t) THEN "count" ELSE "load")
    /\ UNCHANGED <<clock, memory, calls, walk>>

-----------------------------------------------------------------------------
(* rescale *)

\* Only the winner of the compare-exchange rescales.
RescaleCas(t) ==
    /\ th[t].pc = "rescale"
    /\ nextScale' = IF nextScale = th[t].next THEN nextScale + Period ELSE nextScale
    /\ th' = [th EXCEPT ![t].pc = IF nextScale = th[t].next THEN "lock" ELSE "load", ![t].next = 0]
    /\ UNCHANGED <<clock, data, obj, mutex, hazard, calls, walk>>

CanLock == mutex = Null

Lock(t) ==
    /\ th[t].pc \in {"lock", "snap_lock"}
    /\ CanLock
    /\ mutex' = t
    /\ Goto(t, IF th[t].pc = "lock" THEN "swap" ELSE "snap")
    /\ UNCHANGED <<clock, data, obj, nextScale, hazard, calls, walk>>

\* An empty Data with the new landmark replaces the current one.
Swap(t) ==
    /\ th[t].pc = "swap"
    /\ \E n \in Data :
          /\ obj[n].state = "free"
          /\ obj' = [obj EXCEPT ![n] = Fresh(th[t].now)]
          /\ hazard' = [hazard EXCEPT ![t] = n]
          /\ data' = n
          /\ th' = [th EXCEPT ![t].d = n, ![t].old = data, ![t].pc = "entries"]
    /\ walk' = WalkOf(data)
    /\ UNCHANGED <<clock, nextScale, mutex, calls>>

\* Mutant: the time since the new landmark, which is none.
Delta_New(r) == r.now - obj[r.d].landmark

Delta(r) == r.now - obj[r.old].landmark

\* What entries() returned with rescaled priorities, last first.
Rescaled(r) ==
    LET n == Len(walk.ret) IN
    [i \in 1..n |-> <<walk.ret[n + 1 - i][1] - Delta(r), walk.ret[n + 1 - i][2]>>]

\* Where a thread goes when an entry has been dealt with: the rescaler to the
\* next one, then to its own update; an update to its end.
After(r) ==
    [r EXCEPT !.item = <<0, 0>>, !.first = 0,
              !.pc = IF r.old = Null THEN "clear" ELSE IF r.todo = << >> THEN "unlock" ELSE "count"]

RetireOld(t) ==
    /\ th[t].pc = "retire"
    /\ obj' = [obj EXCEPT ![th[t].old].state = "retired"]
    /\ th' = [th EXCEPT ![t] = After([@ EXCEPT !.todo = Rescaled(th[t])])]
    /\ UNCHANGED <<clock, data, nextScale, mutex, hazard, calls, walk>>

Unlock(t) ==
    /\ th[t].pc \in {"unlock", "snap_unlock"}
    /\ mutex' = Null
    /\ th' = [th EXCEPT ![t] = IF @.pc = "unlock" THEN [@ EXCEPT !.old = Null, !.pc = "count"] ELSE Idle]
    /\ walk' = NoWalk
    /\ UNCHANGED <<clock, data, obj, nextScale, hazard, calls>>

-----------------------------------------------------------------------------
(* One entry into the map: an update's own, or one the rescaler reinserts *)

\* The Data whose count decides: the rescaler uses the old one's.
Counted(r) == IF r.old = Null THEN r.d ELSE r.old

\* count.fetch_add(1) < kSize.  The old Data may be deleted by now; then the
\* comparison has either outcome.
TakeCount(t) ==
    LET r == th[t]
        c == obj[Counted(r)]
    IN  /\ r.pc = "count"
        /\ \E u \in Draw :
              LET item == IF r.old = Null THEN <<r.now - obj[r.d].landmark + u, r.now>> ELSE Head(r.todo)
                  rest == IF r.old = Null THEN << >> ELSE Tail(r.todo)
              IN  \E room \in BOOLEAN :
                     /\ c.state # "free" => room = (c.count < KSize)
                     /\ th' = [th EXCEPT ![t].item = item, ![t].todo = rest, ![t].pc = IF room THEN "insert" ELSE "first"]
        /\ obj' = IF c.state = "free" THEN obj ELSE [obj EXCEPT ![Counted(r)].count = @ + 1]
        /\ UNCHANGED <<clock, data, nextScale, mutex, hazard, calls, walk>>

Map(t) == obj[th[t].d].map
MetBy(t, k) == Meets(obj[th[t].d], k)
Put(m, e) == IF e[1] \in PrioritiesOf(m) THEN m ELSE m \cup {e}
Unlink(t, met) == obj' = [obj EXCEPT ![th[t].d].dead = @ \ FirstOf(met)]

\* The find of an insert unlinks an erased entry and says that nothing follows:
\* where something does, the insert cannot link its node and searches again.
SearchAgain(t) ==
    /\ th[t].pc \in {"insert", "replace"}
    /\ \E met \in MetBy(t, th[t].item[1]) : met # {} /\ Unlink(t, met)
    /\ UNCHANGED <<clock, data, nextScale, mutex, hazard, th, calls, walk>>

InsertWithRoom(t) ==
    /\ th[t].pc = "insert"
    /\ {} \in MetBy(t, th[t].item[1])
    /\ obj' = [obj EXCEPT ![th[t].d].map = Put(@, th[t].item)]
    /\ th' = [th EXCEPT ![t] = After(@)]
    /\ UNCHANGED <<clock, data, nextScale, mutex, hazard, calls, walk>>

\* firstKey does not look whether the first node is marked.
ReadFirst(t) ==
    LET first == FirstKey(Linked(obj[th[t].d])) IN
    /\ th[t].pc = "first"
    /\ th' = [th EXCEPT ![t] = IF first < @.item[1] THEN [@ EXCEPT !.pc = "replace", !.first = first] ELSE After(@)]
    /\ UNCHANGED <<clock, memory, calls, walk>>

\* Mutant: room is made whether or not the entry went in.
MakesRoom_Always(m, e) == TRUE

\* Only an entry that went in makes the thread take one out.
MakesRoom(m, e) == e[1] \notin PrioritiesOf(m)

Replace(t) ==
    LET e == th[t].item IN
    /\ th[t].pc = "replace"
    /\ {} \in MetBy(t, e[1])
    /\ obj' = [obj EXCEPT ![th[t].d].map = Put(@, e)]
    /\ th' = [th EXCEPT ![t] = IF MakesRoom(Map(t), e) THEN [@ EXCEPT !.pc = "erase"] ELSE After(@)]
    /\ UNCHANGED <<clock, data, nextScale, mutex, hazard, calls, walk>>

\* Mutant: a failed erase is retried with the same key.
Missed_SameKey(r, o) == r

\* firstKey again after an erase that removed nothing.
Missed(r, o) == [r EXCEPT !.first = FirstKey(Linked(o))]

\* erase: its find stops behind an entry it unlinks and there is no match, or the
\* entry is marked, or there is none.
Miss(t) ==
    LET r == th[t]
        o == obj[r.d]
    IN  /\ r.pc = "erase"
        /\ \E met \in MetBy(t, r.first) :
              /\ met = {} => r.first \notin PrioritiesOf(o.map)
              /\ Unlink(t, met)
              /\ th' = [th EXCEPT ![t] = Missed(r, [o EXCEPT !.dead = @ \ FirstOf(met)])]
        /\ UNCHANGED <<clock, data, nextScale, mutex, hazard, calls, walk>>

Erase(t) ==
    LET r == th[t]
        hit == {e \in Map(t) : e[1] = r.first}
    IN  /\ r.pc = "erase"
        /\ {} \in MetBy(t, r.first)
        /\ hit # {}
        /\ obj' = [obj EXCEPT ![r.d].map = @ \ hit, ![r.d].dead = @ \cup hit]
        /\ walk' = [walk EXCEPT !.stays = IF r.d = walk.d THEN @ \ hit ELSE @]
        /\ Goto(t, "sweep")
        /\ UNCHANGED <<clock, data, nextScale, mutex, hazard, calls>>

\* The second find of erase unlinks the entry, or one before it.
Sweep(t) ==
    /\ th[t].pc = "sweep"
    /\ \E met \in MetBy(t, th[t].first) : Unlink(t, met)
    /\ th' = [th EXCEPT ![t] = After(@)]
    /\ UNCHANGED <<clock, data, nextScale, mutex, hazard, calls, walk>>

Clear(t) ==
    /\ th[t].pc = "clear"
    /\ hazard' = [hazard EXCEPT ![t] = Null]
    /\ th' = [th EXCEPT ![t] = Idle]
    /\ UNCHANGED <<clock, data, obj, nextScale, mutex, calls, walk>>

-----------------------------------------------------------------------------
(* The extractor of values() and entries() *)

Walked(t) == obj[Counted(th[t])]
Walks(t) == th[t].pc \in {"entries", "snap_values"}
WalkEnds(t) == Goto(t, IF th[t].pc = "entries" THEN "retire" ELSE "snap_sort")

\* cur is not marked: its next is cur now, and goes into ret.
Advance(t) ==
    LET beyond == Beyond(Walked(t), walk.cur) IN
    /\ Walks(t)
    /\ Alive(Walked(t), walk.cur)
    /\ \/ \E n \in FirstOf(beyond) :
             /\ walk' = [walk EXCEPT !.prev = walk.cur, !.cur = n, !.ret = Append(@, n)]
             /\ UNCHANGED th
       \/ beyond = {} /\ WalkEnds(t) /\ UNCHANGED walk
    /\ UNCHANGED <<clock, memory, calls>>

\* cur is marked: it is loaded again from prev, and the node found there, which
\* does not go into ret, is looked at next.
Reload(t) ==
    LET beyond == Beyond(Walked(t), walk.prev) IN
    /\ Walks(t)
    /\ ~Alive(Walked(t), walk.cur) /\ Alive(Walked(t), walk.prev)
    /\ \/ \E n \in FirstOf(beyond) :
             /\ walk' = [walk EXCEPT !.cur = n, !.reloaded = TRUE]
             /\ UNCHANGED th
       \/ beyond = {} /\ WalkEnds(t) /\ walk' = [walk EXCEPT !.reloaded = TRUE]
    /\ UNCHANGED <<clock, memory, calls>>

\* prev is marked too: the walk starts again from the head and keeps ret.
Restart(t) ==
    /\ Walks(t)
    /\ ~Alive(Walked(t), walk.cur) /\ ~Alive(Walked(t), walk.prev)
    /\ walk' = [walk EXCEPT !.prev = HeadNode, !.cur = HeadNode, !.reloaded = TRUE]
    /\ UNCHANGED <<clock, memory, th, calls>>

-----------------------------------------------------------------------------
(* snapshot, the destructor, reclamation *)

Snap(t) ==
    /\ th[t].pc = "idle"
    /\ data # Null
    /\ snapshots[t] < MaxSnapshots[t]
    /\ snapshots' = [snapshots EXCEPT ![t] = @ + 1]
    /\ Goto(t, "snap_lock")
    /\ UNCHANGED <<clock, memory, count, updates, walk>>

\* data_ is read without a hazard: the mutex keeps rescale out.
SnapLoad(t) ==
    /\ th[t].pc = "snap"
    /\ th' = [th EXCEPT ![t].d = data, ![t].pc = "snap_values"]
    /\ walk' = WalkOf(data)
    /\ UNCHANGED <<clock, memory, calls>>

SnapValues(t) ==
    /\ th[t].pc = "snap_sort"
    /\ \E vs \in Sorted([i \in 1..Len(walk.ret) |-> walk.ret[i][2]]) :
          th' = [th EXCEPT ![t].values = vs, ![t].pc = "snap_unlock"]
    /\ UNCHANGED <<clock, memory, calls, walk>>

Reclaim(d) ==
    /\ obj[d].state = "retired"
    /\ \A t \in Thread : hazard[t] # d
    /\ obj' = [obj EXCEPT ![d] = NoData]
    /\ UNCHANGED <<clock, data, nextScale, mutex, hazard, th, calls, walk>>

Destroy ==
    /\ data # Null
    /\ \A t \in Thread : th[t].pc = "idle"
    /\ obj' = [obj EXCEPT ![data].state = "retired"]
    /\ data' = Null
    /\ UNCHANGED <<clock, nextScale, mutex, hazard, th, calls, walk>>

Init ==
    /\ clock = 0
    /\ data = CHOOSE d \in Data : TRUE
    /\ obj = [d \in Data |-> IF d = data THEN Fresh(0) ELSE NoData]
    /\ nextScale = Period
    /\ mutex = Null
    /\ hazard = [t \in Thread |-> Null]
    /\ th = [t \in Thread |-> Idle]
    /\ count = 0
    /\ updates = [t \in Thread |-> 0]
    /\ snapshots = [t \in Thread |-> 0]
    /\ walk = NoWalk

Step(t) ==
    \/ ReadScale(t) \/ LoadData(t) \/ SetData(t) \/ CheckData(t)
    \/ RescaleCas(t) \/ Lock(t) \/ Swap(t) \/ RetireOld(t) \/ Unlock(t)
    \/ TakeCount(t) \/ SearchAgain(t) \/ InsertWithRoom(t) \/ ReadFirst(t) \/ Replace(t)
    \/ Miss(t) \/ Erase(t) \/ Sweep(t) \/ Clear(t)
    \/ Advance(t) \/ Reload(t) \/ Restart(t)
    \/ SnapLoad(t) \/ SnapValues(t)

Next ==
    \/ \E t \in Thread : Step(t) \/ Update(t) \/ Snap(t)
    \/ \E d \in Data : Reclaim(d)
    \/ Tick
    \/ Destroy

Spec == Init /\ [][Next]_vars

\* A thread in a call is scheduled again, and memory that may be freed is not
\* withheld from a thread that waits for it.
FairSpec == Spec /\ \A t \in Thread : WF_vars(Step(t)) /\ \A d \in Data : WF_vars(Reclaim(d))

-----------------------------------------------------------------------------

\* The variables stay in their types, and the mutex has the thread that is
\* between lock and unlock.
TypeOK ==
    /\ data \in Data \cup {Null}
    /\ \A d \in Data :
          /\ obj[d].state \in {"free", "used", "retired"}
          /\ obj[d].count \in Nat
          /\ \A e \in Linked(obj[d]) : e[1] > Bottom /\ e[2] \in 0..clock
    /\ hazard \in [Thread -> Data \cup {Null}]
    /\ \A t \in Thread : (mutex = t) <=> (th[t].old # Null \/ th[t].pc \in {"swap", "snap", "snap_values", "snap_sort", "snap_unlock"})

\* The Data whose map an update, the rescaler or a snapshot works on has not
\* been deleted, and a snapshot's is the current one all along its walk, though
\* snapshot sets no hazard and rescale swaps and retires Data objects.
UsedIsAllocated ==
    /\ TypeOK
    /\ \A t \in Thread :
          /\ th[t].pc \in {"count", "insert", "first", "replace", "erase", "sweep"} => obj[th[t].d].state # "free"
          /\ th[t].pc = "entries" => obj[th[t].old].state = "used"
          /\ th[t].pc = "snap_values" => th[t].d = data

Erasers(d) == {t \in Thread : th[t].pc = "erase" /\ th[t].d = d}

\* Every thread in the loop that makes room finds a key to erase: the map holds
\* at least as many entries as threads that must still take one out.
ErasersFindKeys == \A d \in Data : Cardinality(obj[d].map) >= Cardinality(Erasers(d))

\* "Drop it": the rescaler has retired the old Data and does not use it any
\* more once it is deleted.  Line 144 goes on counting in it.
CountsAllocated == \A t \in Thread : th[t].pc = "count" => obj[Counted(th[t])].state # "free"

\* "Keeping only the top K entries": a map has kSize entries, and those that
\* threads have put in and are about to take another out for.  A rescale counts
\* what it carries over in the old Data, so that the new one takes kSize more.
SizeBounded == \A d \in Data : Cardinality(obj[d].map) <= KSize + Cardinality(Erasers(d))

\* A reservoir that had entries has entries after a rescale, which reinserts
\* them.  A full one is emptied: its count is at kSize already, so each entry is
\* put in and, being the first, taken out.
RescaleKeeps ==
    \A t \in Thread : th[t].pc = "unlock" /\ walk.ret # << >> => obj[th[t].d].map # {}

\* Samples keep their weight through rescales: relative to the landmark of its
\* Data, a sample's priority is that of the time it was taken at, also when the
\* update read the clock long before it reached the Data.
WeightsKept ==
    \A d \in Data : \A e \in obj[d].map :
        e[1] + obj[d].landmark - e[2] \in Draw

Tiles == <<0, 500, 750, 950, 990, 999, 1000>>

\* Of the values of a snapshot: valueAt ascends from min() to max() over the
\* quantiles its accessors use, mean() lies between them, and the integer sum
\* behind stdev is below the true sum of squares by at most one per value.
Consistent(vs) ==
    LET n == Len(vs)
        squares == n * SumBelow([i \in Nat |-> At(vs)[i] * At(vs)[i]], n) - SumOf(vs) * SumOf(vs)
    IN  /\ ValueAt(vs, 0) = Scale * MinOf(vs) /\ ValueAt(vs, 1000) = Scale * MaxOf(vs)
        /\ \A i \in 1..6 : ValueAt(vs, Tiles[i]) <= ValueAt(vs, Tiles[i + 1])
        /\ MeanOf(vs) \in (Scale * MinOf(vs))..(Scale * MaxOf(vs))
        /\ n * VarSum(vs) <= squares /\ squares <= n * (VarSum(vs) + n)

\* ret has every entry that stayed in the map during the walk, and none twice:
\* it ascends, as the list does.
Whole ==
    /\ walk.stays \subseteq Range(walk.ret)
    /\ \A i, j \in DOMAIN walk.ret : i < j => walk.ret[i][1] < walk.ret[j][1]

\* "A weakly consistent snapshot of the values in the map": what stays in it is
\* returned once.  The extractor leaves out the node it reloads and keeps what it
\* has when it starts again.
WeaklyConsistent == \A t \in Thread : th[t].pc \in {"snap_sort", "retire"} => Whole

\* A snapshot whose walk met no erased entry is of the values of all the entries
\* that stayed in the map, each once, whatever else was put in and erased
\* meanwhile; and the statistics of every snapshot are consistent.
Statistics ==
    \A t \in Thread : th[t].pc = "snap_unlock" =>
        /\ ~walk.reloaded => Whole
        /\ Consistent(th[t].values)

\* A walk looks at an erased entry that is still linked, which it reloads from
\* prev until somebody unlinks it.
Spinning == \E t \in Thread : Walks(t) /\ walk.cur \in Walked(t).dead

\* Unless a walk reloads an erased entry for ever (ConcurrentSkipListMap's
\* ValuesReturn), every update and every snapshot returns: the loops that make
\* room end, walks end, and nobody waits for the mutex for ever.
CallsReturn == []<>~Spinning => \A t \in Thread : th[t].pc # "idle" ~> th[t].pc = "idle"
=============================================================================
