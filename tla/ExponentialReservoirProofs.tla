--------------------- MODULE ExponentialReservoirProofs ---------------------
(***************************************************************************)
(* Proofs about ExponentialReservoir, for any threads, any number of Data  *)
(* objects, any kSize, period and draws: first the invariant of the memory *)
(* and the maps, then the statistics of a sorted vector, then what a walk  *)
(* over the list has returned.                                             *)
(***************************************************************************)
EXTENDS ExponentialReservoir, SumsProofs, FiniteSetTheorems, SequenceTheorems, TLAPS

\* Where a thread works on the Data it has found, and where it may be a rescaler.
Using == {"entries", "retire", "count", "insert", "first", "replace", "erase", "sweep", "unlock", "clear"}
Rescaling == Using \ {"clear"}
Snapping == {"snap", "snap_values", "snap_sort", "snap_unlock"}
PCs == {"idle", "scale", "load", "set", "check", "rescale", "lock", "swap", "snap_lock"} \cup Snapping \cup Using

Fields == {"pc", "now", "next", "d", "old", "todo", "item", "first", "values"}

Entry == Int \X Nat
DataType == [state : {"free", "used", "retired"}, map : SUBSET Entry, dead : SUBSET Entry,
             count : Nat, landmark : Nat]
WalkType == [d : Data \cup {Null}, prev : Entry, cur : Entry, ret : Seq(Entry),
             stays : SUBSET Entry, reloaded : BOOLEAN]

TypesOf(t) ==
    /\ DOMAIN th[t] = Fields
    /\ th[t].pc \in PCs
    /\ th[t].now \in 0..clock
    /\ th[t].d \in Data \cup {Null}
    /\ th[t].old \in Data \cup {Null}
    /\ th[t].todo \in Seq(Entry)

Types ==
    /\ clock \in 0..MaxTime
    /\ data \in Data \cup {Null}
    /\ mutex \in Thread \cup {Null}
    /\ hazard \in [Thread -> Data \cup {Null}]
    /\ walk \in WalkType
    /\ obj \in [Data -> DataType]
    /\ DOMAIN th = Thread
    /\ \A t \in Thread : TypesOf(t)

\* The entries taken up to time c whose priority relative to landmark l is their draw.
Good(l, c) == {e \in Int \X (0..c) : e[1] + l - e[2] \in Draw}

\* The thread has the mutex.
Locks(t) == th[t].old # Null \/ th[t].pc \in {"swap"} \cup Snapping

\* The Data a thread uses is protected by its hazard.
ProtectedOf(t) ==
    /\ th[t].pc \in Using => hazard[t] = th[t].d /\ th[t].d # Null /\ obj[th[t].d].state # "free"
    /\ th[t].pc = "check" => hazard[t] = th[t].d

Protected == \A t \in Thread : ProtectedOf(t)

\* The mutex is held from lock to unlock, by a rescaler that has the current Data and
\* the one before it, or by a snapshot of the current one.
ExclusiveOf(t) ==
    /\ mutex = t <=> Locks(t)
    /\ th[t].pc # "idle" => data # Null
    /\ th[t].old # Null => th[t].pc \in Rescaling /\ th[t].d = data /\ th[t].old # data
    /\ th[t].pc \in {"entries", "retire"} => obj[th[t].old].state = "used"
    /\ th[t].pc \in {"entries", "retire", "unlock"} => th[t].old # Null
    /\ th[t].pc = "snap_values" => th[t].d = data

Exclusive == \A t \in Thread : ExclusiveOf(t)

Installed == data # Null => obj[data].state = "used"

\* The maps, and the entries on their way into one, hold good entries.
WeightsOf(t) ==
    /\ th[t].pc \in {"insert", "first", "replace"} => th[t].item \in Good(obj[th[t].d].landmark, clock)
    /\ th[t].old # Null => /\ obj[th[t].d].landmark = th[t].now
                           /\ th[t].pc = "count" => th[t].todo # << >>
                           /\ th[t].pc \notin {"entries", "retire"} =>
                                 \A i \in 1..Len(th[t].todo) : th[t].todo[i] \in Good(th[t].now, clock)
    /\ th[t].pc \in {"entries", "retire"} =>
          \A i \in 1..Len(walk.ret) : walk.ret[i] \in Good(obj[th[t].old].landmark, clock)

GoodMap(d) == obj[d].landmark \in 0..clock /\ Linked(obj[d]) \subseteq Good(obj[d].landmark, clock)

Weights ==
    /\ \A d \in Data : GoodMap(d)
    /\ \A t \in Thread : WeightsOf(t)

\* A list is finite and has a priority once; a Data that does not exist has none.
Keyed(m) == IsFiniteSet(m) /\ \A e, f \in m : e[1] = f[1] => e = f
Maps == \A d \in Data : Keyed(Linked(obj[d])) /\ (obj[d].state = "free" => obj[d].map = {})

Inv == Types /\ Protected /\ Exclusive /\ Installed /\ Weights /\ Maps /\ ErasersFindKeys

-----------------------------------------------------------------------------
(* What a step of a thread does; it leaves the other threads the same *)

Others(t) == \A u \in Thread \ {t} : th'[u] = th[u]
Frame(t) == Others(t) /\ DOMAIN th' = Thread /\ DOMAIN th'[t] = Fields

\* Where a thread goes when an entry has been dealt with.
AfterPC(r) == IF r.old = Null THEN "clear" ELSE IF r.todo = << >> THEN "unlock" ELSE "count"

\* The thread keeps its Data and its list.
Keeps(t) ==
    /\ th'[t].now = th[t].now /\ th'[t].d = th[t].d
    /\ th'[t].old = th[t].old /\ th'[t].todo = th[t].todo

\* The moves of a thread that keeps them.
Flow(t) ==
    \/ th[t].pc = "idle" /\ th'[t].pc = "snap_lock"
    \/ th[t].pc = "scale" /\ th'[t].pc \in {"rescale", "load"}
    \/ th[t].pc = "check" /\ th'[t].pc = "load"
    \/ th[t].pc = "check" /\ th'[t].pc = "count" /\ data = th[t].d
    \/ th[t].pc = "rescale" /\ th'[t].pc \in {"lock", "load"}
    \/ th[t].pc = "first" /\ th'[t].pc = "replace" /\ th'[t].item = th[t].item
    \/ th[t].pc \in {"first", "insert", "replace", "sweep"} /\ th'[t].pc = AfterPC(th[t])
    \/ th[t].pc = "replace" /\ th'[t].pc = "erase"
    \/ th[t].pc = "erase" /\ th'[t].pc \in {"erase", "sweep"}
    \/ th[t].pc \in {"insert", "replace"} /\ th'[t].pc = th[t].pc /\ th'[t].item = th[t].item
    \/ th[t].pc = "entries" /\ th'[t].pc \in {"entries", "retire"}
    \/ th[t].pc = "snap_values" /\ th'[t].pc \in {"snap_values", "snap_sort"}
    \/ th[t].pc = "snap_sort" /\ th'[t].pc = "snap_unlock"

\* It begins an update; it loads the current Data; it takes an entry.
Starts(t) ==
    /\ th[t].pc = "idle" /\ th'[t].pc = "scale" /\ data # Null
    /\ th'[t].now = clock /\ th'[t].d = Null /\ th'[t].old = Null /\ th'[t].todo = << >>
Loads(t) ==
    /\ <<th[t].pc, th'[t].pc>> \in {<<"load", "set">>, <<"snap", "snap_values">>}
    /\ th'[t].now = th[t].now /\ th'[t].d = data /\ th'[t].old = th[t].old /\ th'[t].todo = th[t].todo
Claims(t) ==
    /\ th[t].pc = "count" /\ th'[t].pc \in {"insert", "first"}
    /\ th'[t].now = th[t].now /\ th'[t].d = th[t].d /\ th'[t].old = th[t].old
    /\ th'[t].todo \in Seq(Entry)
    /\ th'[t].item \in Good(obj[th[t].d].landmark, clock)
    /\ th[t].old # Null => \A i \in 1..Len(th'[t].todo) : th'[t].todo[i] \in Good(th[t].now, clock)

\* A step that leaves the mutex, the hazards, data_ and the clock, and creates,
\* retires and deletes no Data.
Steady ==
    /\ UNCHANGED <<clock, data, mutex, hazard>>
    /\ \A d \in Data : obj'[d].state = obj[d].state /\ obj'[d].landmark = obj[d].landmark
Quiet(t) ==
    /\ Steady /\ Frame(t)
    /\ (Keeps(t) /\ Flow(t) /\ (th[t].pc = "idle" => data # Null)) \/ Starts(t) \/ Loads(t) \/ Claims(t)

\* Steps that touch no Data.
LEMMA LocalQuiet ==
    ASSUME Inv, NEW t \in Thread,
           Update(t) \/ Snap(t) \/ ReadScale(t) \/ LoadData(t) \/ CheckData(t) \/ RescaleCas(t)
             \/ ReadFirst(t) \/ SnapLoad(t) \/ SnapValues(t) \/ Advance(t) \/ Reload(t) \/ Restart(t)
    PROVE  Quiet(t) /\ obj' = obj /\ th[t].pc \notin {"insert", "replace", "erase", "sweep"}
  <1>0. Types /\ DOMAIN th = Thread /\ DOMAIN th[t] = Fields
    BY DEF Inv, Types, TypesOf
  <1>1. CASE Update(t)
    BY <1>0, <1>1 DEF Update, Idle, Fields, memory, Quiet, Steady, Frame, Others, Starts
  <1>2. CASE Snap(t)
    BY <1>0, <1>2 DEF Snap, Goto, Fields, memory, Quiet, Steady, Frame, Others, Keeps, Flow
  <1>3. CASE ReadScale(t)
    BY <1>0, <1>3 DEF ReadScale, Fields, memory, Quiet, Steady, Frame, Others, Keeps, Flow
  <1>4. CASE LoadData(t)
    BY <1>0, <1>4 DEF LoadData, Fields, memory, Quiet, Steady, Frame, Others, Loads
  <1>5. CASE CheckData(t)
    BY <1>0, <1>5 DEF CheckData, Current, Goto, Fields, memory, Quiet, Steady, Frame, Others, Keeps, Flow
  <1>6. CASE RescaleCas(t)
    BY <1>0, <1>6 DEF RescaleCas, Fields, memory, Quiet, Steady, Frame, Others, Keeps, Flow
  <1>7. CASE ReadFirst(t)
    <2> DEFINE k == FirstKey(Linked(obj[th[t].d]))
    <2>1. /\ th' = [th EXCEPT ![t] = [@ EXCEPT !.pc = "replace", !.first = k]] \/ th' = [th EXCEPT ![t] = After(@)]
          /\ th[t].pc = "first"
      BY <1>7 DEF ReadFirst
    <2> HIDE DEF k
    <2>2. Frame(t)
      BY <1>0, <2>1 DEF After, Fields, Frame, Others
    <2>3. Keeps(t) /\ Flow(t)
      <3>1. CASE th' = [th EXCEPT ![t] = [@ EXCEPT !.pc = "replace", !.first = k]]
        BY <1>0, <2>1, <3>1 DEF Fields, Keeps, Flow
      <3>2. CASE th' = [th EXCEPT ![t] = After(@)]
        BY <1>0, <2>1, <3>2 DEF After, AfterPC, Fields, Keeps, Flow
      <3> QED  BY <2>1, <3>1, <3>2
    <2> QED  BY <1>7, <2>2, <2>3 DEF ReadFirst, memory, Quiet, Steady
  <1>8. CASE SnapLoad(t)
    BY <1>0, <1>8 DEF SnapLoad, Fields, memory, Quiet, Steady, Frame, Others, Loads
  <1>9. CASE SnapValues(t)
    <2>1. PICK vs : th' = [th EXCEPT ![t].values = vs, ![t].pc = "snap_unlock"]
      BY <1>9 DEF SnapValues
    <2>2. UNCHANGED memory /\ clock' = clock /\ th[t].pc = "snap_sort"
      BY <1>9 DEF SnapValues
    <2> QED  BY <1>0, <2>1, <2>2 DEF Fields, memory, Quiet, Steady, Frame, Others, Keeps, Flow
  <1>10. CASE Advance(t)
    <2>1. th' = th \/ WalkEnds(t)
      BY <1>10 DEF Advance
    <2>2. UNCHANGED memory /\ clock' = clock /\ th[t].pc \in {"entries", "snap_values"}
      BY <1>10 DEF Advance, Walks
    <2> QED  BY <1>0, <2>1, <2>2 DEF WalkEnds, Goto, Fields, memory, Quiet, Steady, Frame, Others, Keeps, Flow
  <1>11. CASE Reload(t)
    <2>1. th' = th \/ WalkEnds(t)
      BY <1>11 DEF Reload
    <2>2. UNCHANGED memory /\ clock' = clock /\ th[t].pc \in {"entries", "snap_values"}
      BY <1>11 DEF Reload, Walks
    <2> QED  BY <1>0, <2>1, <2>2 DEF WalkEnds, Goto, Fields, memory, Quiet, Steady, Frame, Others, Keeps, Flow
  <1>12. CASE Restart(t)
    BY <1>0, <1>12 DEF Restart, Walks, Fields, memory, Quiet, Steady, Frame, Others, Keeps, Flow
  <1> QED  BY <1>1, <1>2, <1>3, <1>4, <1>5, <1>6, <1>7, <1>8, <1>9, <1>10, <1>11, <1>12

\* A find unlinks an erased entry; an entry goes in; an entry is erased.
Unlinks(t) == \E met : Unlink(t, met)
Puts(t) ==
    /\ {} \in MetBy(t, th[t].item[1])
    /\ obj' = [obj EXCEPT ![th[t].d].map = Put(@, th[t].item)]
Marks(t) ==
    LET hit == {e \in Map(t) : e[1] = th[t].first} IN
    /\ hit # {}
    /\ obj' = [obj EXCEPT ![th[t].d].map = @ \ hit, ![th[t].d].dead = @ \cup hit]

MapStep(t) == SearchAgain(t) \/ InsertWithRoom(t) \/ Replace(t) \/ Miss(t) \/ Erase(t) \/ Sweep(t)

\* What the steps on a list do to the thread and to the list.
LEMMA MapQuiet ==
    ASSUME Inv, NEW t \in Thread, MapStep(t)
    PROVE  /\ th[t].pc \in {"insert", "replace", "erase", "sweep"} /\ th[t].d \in Data
           /\ Quiet(t)
           /\ \/ Unlinks(t) /\ (th[t].pc = "erase" <=> th'[t].pc = "erase")
              \/ /\ Puts(t) /\ th[t].pc \in {"insert", "replace"}
                 /\ th'[t].pc = "erase" => th[t].item[1] \notin PrioritiesOf(obj[th[t].d].map)
              \/ Marks(t) /\ th[t].pc = "erase" /\ th'[t].pc = "sweep"
           /\ \A c \in Data \ {th[t].d} : obj'[c] = obj[c]
           /\ Erase(t) \/ walk' = walk
  <1>0. Types /\ DOMAIN th = Thread /\ DOMAIN th[t] = Fields /\ obj \in [Data -> DataType]
    BY DEF Inv, Types, TypesOf
  <1>1. th[t].pc \in {"insert", "replace", "erase", "sweep"}
    BY DEF MapStep, SearchAgain, InsertWithRoom, Replace, Miss, Erase, Sweep
  <1>2. th[t].d \in Data
    BY <1>1 DEF Inv, Protected, ProtectedOf, Using, Types, TypesOf
  <1>3. Unlinks(t) => \A c \in Data : /\ obj'[c].state = obj[c].state /\ obj'[c].landmark = obj[c].landmark
                                      /\ c # th[t].d => obj'[c] = obj[c]
    BY <1>0, <1>2 DEF Unlinks, Unlink, DataType
  <1>4. Puts(t) => \A c \in Data : /\ obj'[c].state = obj[c].state /\ obj'[c].landmark = obj[c].landmark
                                   /\ c # th[t].d => obj'[c] = obj[c]
    BY <1>0, <1>2 DEF Puts, DataType
  <1>5. Marks(t) => \A c \in Data : /\ obj'[c].state = obj[c].state /\ obj'[c].landmark = obj[c].landmark
                                    /\ c # th[t].d => obj'[c] = obj[c]
    BY <1>0, <1>2 DEF Marks, DataType
  <1>a. CASE SearchAgain(t)
    <2>1. Unlinks(t)
      BY <1>a DEF SearchAgain, Unlinks
    <2>2. Frame(t) /\ Keeps(t) /\ Flow(t) /\ th' = th
      BY <1>0, <1>a DEF SearchAgain, Frame, Others, Keeps, Flow
    <2> QED  BY <1>1, <1>2, <1>3, <1>a, <2>1, <2>2 DEF SearchAgain, Quiet, Steady
  <1>b. CASE InsertWithRoom(t)
    <2>1. Puts(t)
      BY <1>b DEF InsertWithRoom, Puts
    <2>2. Frame(t) /\ Keeps(t) /\ Flow(t) /\ th[t].pc = "insert" /\ th'[t].pc # "erase"
      BY <1>0, <1>b DEF InsertWithRoom, After, AfterPC, Fields, Frame, Others, Keeps, Flow
    <2> QED  BY <1>1, <1>2, <1>4, <1>b, <2>1, <2>2 DEF InsertWithRoom, Quiet, Steady
  <1>c. CASE Replace(t)
    <2>1. Puts(t)
      BY <1>c DEF Replace, Puts
    <2>2. th' = [th EXCEPT ![t].pc = "erase"] \/ th' = [th EXCEPT ![t] = After(@)]
      BY <1>0, <1>c DEF Replace
    <2>3. Frame(t) /\ Keeps(t) /\ Flow(t) /\ th[t].pc = "replace"
      BY <1>0, <1>c, <2>2 DEF Replace, After, AfterPC, Fields, Frame, Others, Keeps, Flow
    <2>4. th'[t].pc = "erase" => th[t].item[1] \notin PrioritiesOf(obj[th[t].d].map)
      BY <1>0, <1>c DEF Replace, MakesRoom, Map, After, Fields
    <2> QED  BY <1>1, <1>2, <1>4, <1>c, <2>1, <2>3, <2>4 DEF Replace, Quiet, Steady
  <1>d. CASE Miss(t)
    <2>1. Unlinks(t)
      BY <1>d DEF Miss, Unlinks
    <2>2. PICK k : th' = [th EXCEPT ![t] = [@ EXCEPT !.first = k]]
      BY <1>d DEF Miss, Missed
    <2>3. Frame(t) /\ Keeps(t) /\ Flow(t) /\ th[t].pc = "erase" /\ th'[t].pc = "erase"
      BY <1>0, <1>d, <2>2 DEF Miss, Fields, Frame, Others, Keeps, Flow
    <2> QED  BY <1>1, <1>2, <1>3, <1>d, <2>1, <2>3 DEF Miss, Quiet, Steady
  <1>e. CASE Erase(t)
    <2>1. Marks(t)
      BY <1>e DEF Erase, Marks
    <2>2. Frame(t) /\ Keeps(t) /\ Flow(t) /\ th'[t].pc = "sweep" /\ th[t].pc = "erase"
      BY <1>0, <1>e DEF Erase, Goto, Fields, Frame, Others, Keeps, Flow
    <2> QED  BY <1>1, <1>2, <1>5, <1>e, <2>1, <2>2 DEF Erase, Quiet, Steady
  <1>f. CASE Sweep(t)
    <2>1. Unlinks(t)
      BY <1>f DEF Sweep, Unlinks
    <2>2. Frame(t) /\ Keeps(t) /\ Flow(t) /\ th[t].pc # "erase" /\ th'[t].pc # "erase"
      BY <1>0, <1>f DEF Sweep, After, AfterPC, Fields, Frame, Others, Keeps, Flow
    <2> QED  BY <1>1, <1>2, <1>3, <1>f, <2>1, <2>2 DEF Sweep, Quiet, Steady
  <1> QED  BY <1>a, <1>b, <1>c, <1>d, <1>e, <1>f DEF MapStep

\* An update's own entry has the weight of its time.
LEMMA OwnGood ==
    ASSUME NEW c \in Nat, NEW l \in 0..c, NEW now \in 0..c, NEW u \in Draw
    PROVE  <<now - l + u, now>> \in Good(l, c)
  <1>1. u \in Nat
    BY SizeAssumption
  <1>2. now - l + u + l - now = u
    BY <1>1
  <1> QED  BY <1>1, <1>2 DEF Good

\* Counting an entry.
LEMMA TakeQuiet ==
    ASSUME Inv, NEW t \in Thread, TakeCount(t)
    PROVE  /\ Quiet(t) /\ walk' = walk
           /\ th[t].pc = "count" /\ th'[t].pc \in {"insert", "first"}
           /\ \E c \in Data : obj' = obj \/ obj' = [obj EXCEPT ![c].count = @ + 1]
  <1>0. /\ Types /\ DOMAIN th = Thread /\ DOMAIN th[t] = Fields /\ obj \in [Data -> DataType]
        /\ th[t].todo \in Seq(Entry) /\ th[t].now \in 0..clock /\ clock \in Nat /\ th[t].pc = "count"
    BY TimeAssumption DEF Inv, Types, TypesOf, TakeCount
  <1>1. th[t].d \in Data /\ Counted(th[t]) \in Data
    BY <1>0 DEF Inv, Protected, ProtectedOf, Using, Types, TypesOf, Counted
  <1>2. PICK u \in Draw, pc \in {"insert", "first"} :
          th' = [th EXCEPT ![t].item = IF th[t].old = Null THEN <<th[t].now - obj[th[t].d].landmark + u, th[t].now>>
                                       ELSE Head(th[t].todo),
                           ![t].todo = IF th[t].old = Null THEN << >> ELSE Tail(th[t].todo),
                           ![t].pc = pc]
    BY DEF TakeCount
  <1>3. Frame(t) /\ th'[t].pc \in {"insert", "first"}
        /\ th'[t].now = th[t].now /\ th'[t].d = th[t].d /\ th'[t].old = th[t].old
    BY <1>0, <1>2 DEF Frame, Others, Fields
  <1>4. /\ th'[t].item = IF th[t].old = Null THEN <<th[t].now - obj[th[t].d].landmark + u, th[t].now>> ELSE Head(th[t].todo)
        /\ th'[t].todo = IF th[t].old = Null THEN << >> ELSE Tail(th[t].todo)
    BY <1>0, <1>2 DEF Fields
  <1>5. ASSUME th[t].old = Null PROVE Claims(t)
    <2>1. obj[th[t].d].landmark \in 0..clock
      BY <1>1 DEF Inv, Weights, GoodMap
    <2>2. th'[t].item \in Good(obj[th[t].d].landmark, clock)
      BY <1>0, <1>4, <1>5, <2>1, OwnGood
    <2>3. th'[t].todo \in Seq(Entry)
      BY <1>4, <1>5
    <2> QED  BY <1>0, <1>3, <1>5, <2>2, <2>3 DEF Claims
  <1>6. ASSUME th[t].old # Null PROVE Claims(t)
    <2>1. /\ obj[th[t].d].landmark = th[t].now /\ th[t].todo # << >>
          /\ \A i \in 1..Len(th[t].todo) : th[t].todo[i] \in Good(th[t].now, clock)
      BY <1>0, <1>6 DEF Inv, Weights, WeightsOf
    <2>2. Head(th[t].todo) = th[t].todo[1] /\ 1 \in 1..Len(th[t].todo)
      BY <1>0, <2>1
    <2>3. /\ Tail(th[t].todo) \in Seq(Entry)
          /\ \A i \in 1..Len(Tail(th[t].todo)) : i + 1 \in 1..Len(th[t].todo) /\ Tail(th[t].todo)[i] = th[t].todo[i + 1]
      BY <1>0, <2>1
    <2>4. th'[t].item \in Good(obj[th[t].d].landmark, clock)
      BY <1>4, <1>6, <2>1, <2>2
    <2>5. th'[t].todo \in Seq(Entry) /\ \A i \in 1..Len(th'[t].todo) : th'[t].todo[i] \in Good(th[t].now, clock)
      BY <1>4, <1>6, <2>1, <2>3
    <2> QED  BY <1>0, <1>3, <2>4, <2>5 DEF Claims
  <1>7. obj' = obj \/ obj' = [obj EXCEPT ![Counted(th[t])].count = @ + 1]
    BY DEF TakeCount
  <1>8. \A d \in Data : obj'[d].state = obj[d].state /\ obj'[d].landmark = obj[d].landmark
    BY <1>0, <1>1, <1>7 DEF DataType
  <1>9. UNCHANGED <<clock, data, mutex, hazard, walk>>
    BY DEF TakeCount
  <1> QED  BY <1>0, <1>1, <1>3, <1>5, <1>6, <1>7, <1>8, <1>9 DEF Quiet, Steady

-----------------------------------------------------------------------------
(* Quiet steps keep the types, the hazards, the mutex and the weights *)

Fine(t) == TypesOf(t) /\ ProtectedOf(t) /\ ExclusiveOf(t)

\* Goodness does not depend on the clock.
LEMMA GoodLater ==
    ASSUME NEW l, NEW c \in Nat, NEW b \in Nat, c <= b
    PROVE  Good(l, c) \subseteq Good(l, b)
  BY DEF Good

\* A good entry is an entry, above the head of the list.
LEMMA GoodAbove ==
    ASSUME NEW c \in 0..MaxTime, NEW l \in 0..c, NEW e \in Good(l, c)
    PROVE  e \in Entry /\ e[1] > Bottom
  <1>1. e \in Int \X (0..c) /\ e[1] + l - e[2] \in Nat
    BY SizeAssumption DEF Good
  <1> QED  BY <1>1, TimeAssumption DEF Entry, Bottom

\* A quiet step leaves what holds of the other threads,
LEMMA QuietOthers ==
    ASSUME Inv, NEW t \in Thread, Quiet(t), NEW u \in Thread \ {t}
    PROVE  Fine(u)' /\ th'[u] = th[u]
  <1>1. th'[u] = th[u] /\ Fine(u)
    BY DEF Inv, Types, Protected, Exclusive, Fine, Quiet, Frame, Others
  <1>2. UNCHANGED <<clock, data, mutex, hazard>>
    BY DEF Quiet, Steady
  <1>3. th[u].d \in Data \cup {Null} /\ th[u].old \in Data \cup {Null} /\ Null \notin Data
    BY <1>1, DataAssumption DEF Fine, TypesOf
  <1>4. /\ th[u].d # Null => obj'[th[u].d].state = obj[th[u].d].state
        /\ th[u].old # Null => obj'[th[u].old].state = obj[th[u].old].state
    BY <1>3 DEF Quiet, Steady
  <1>5. TypesOf(u)'
    BY <1>1, <1>2 DEF Fine, TypesOf
  <1>6. ProtectedOf(u)'
    BY <1>1, <1>2, <1>4 DEF Fine, ProtectedOf
  <1>7. ExclusiveOf(u)'
    BY <1>1, <1>2, <1>4 DEF Fine, ExclusiveOf, Locks
  <1> QED  BY <1>1, <1>5, <1>6, <1>7 DEF Fine

\* and keeps it of the thread that moves.
LEMMA QuietMover ==
    ASSUME Inv, NEW t \in Thread, Quiet(t)
    PROVE  Fine(t)'
  <1>1. Fine(t) /\ DOMAIN th'[t] = Fields /\ clock \in Nat
    BY TimeAssumption DEF Inv, Types, Protected, Exclusive, Fine, Quiet, Frame
  <1>2. UNCHANGED <<clock, data, mutex, hazard>> /\ data \in Data \cup {Null}
    BY DEF Quiet, Steady, Inv, Types
  <1>3. th[t].d \in Data \cup {Null} /\ th[t].old \in Data \cup {Null} /\ Null \notin Data
    BY <1>1, DataAssumption DEF Fine, TypesOf
  <1>4. /\ th[t].d # Null => obj'[th[t].d].state = obj[th[t].d].state
        /\ th[t].old # Null => obj'[th[t].old].state = obj[th[t].old].state
        /\ data # Null => obj'[data].state = obj[data].state /\ obj[data].state = "used"
    BY <1>2, <1>3 DEF Quiet, Steady, Inv, Installed
  <1>5. AfterPC(th[t]) \in {"clear", "unlock", "count"} /\ (AfterPC(th[t]) = "clear" <=> th[t].old = Null)
    BY DEF AfterPC
  <1>6. ASSUME Keeps(t), Flow(t), th[t].pc = "idle" => data # Null
        PROVE  Fine(t)'
    <2>1. TypesOf(t)'
      BY <1>1, <1>2, <1>5, <1>6 DEF Fine, TypesOf, Keeps, Flow, PCs, Using, Snapping
    <2>2. ProtectedOf(t)'
      BY <1>1, <1>2, <1>3, <1>4, <1>5, <1>6 DEF Fine, ProtectedOf, ExclusiveOf, Keeps, Flow, Using
    <2>3. Locks(t)' <=> Locks(t)
      BY <1>1, <1>5, <1>6 DEF Fine, ExclusiveOf, Keeps, Flow, Locks, Using, Snapping, Rescaling
    <2>4. ExclusiveOf(t)'
      BY <1>1, <1>2, <1>3, <1>4, <1>5, <1>6, <2>3 DEF Fine, ExclusiveOf, Keeps, Flow, Using, Snapping, Rescaling
    <2> QED  BY <2>1, <2>2, <2>4 DEF Fine
  <1>7. ASSUME Starts(t) PROVE Fine(t)'
    <2>1. TypesOf(t)'
      BY <1>1, <1>2, <1>7 DEF Fine, TypesOf, Starts, PCs
    <2>2. ProtectedOf(t)' /\ ExclusiveOf(t)'
      BY <1>1, <1>2, <1>7 DEF Fine, ProtectedOf, ExclusiveOf, Starts, Using, Locks, Snapping, Rescaling
    <2> QED  BY <2>1, <2>2 DEF Fine
  <1>8. ASSUME Loads(t) PROVE Fine(t)'
    <2>0. \/ th[t].pc = "load" /\ th'[t].pc = "set"
          \/ th[t].pc = "snap" /\ th'[t].pc = "snap_values"
      BY <1>8 DEF Loads
    <2>1. TypesOf(t)'
      BY <1>1, <1>2, <1>8, <2>0 DEF Fine, TypesOf, Loads, PCs, Snapping
    <2>2. ProtectedOf(t)' /\ ExclusiveOf(t)'
      BY <1>1, <1>2, <1>8, <2>0 DEF Fine, ProtectedOf, ExclusiveOf, Loads, Using, Locks, Snapping, Rescaling
    <2> QED  BY <2>1, <2>2 DEF Fine
  <1>9. ASSUME Claims(t) PROVE Fine(t)'
    <2>1. TypesOf(t)'
      BY <1>1, <1>2, <1>9 DEF Fine, TypesOf, Claims, PCs, Using
    <2>2. ProtectedOf(t)' /\ ExclusiveOf(t)'
      BY <1>1, <1>2, <1>4, <1>9 DEF Fine, ProtectedOf, ExclusiveOf, Claims, Using, Locks, Snapping, Rescaling
    <2> QED  BY <2>1, <2>2 DEF Fine
  <1> QED  BY <1>6, <1>7, <1>8, <1>9 DEF Quiet

\* Together.
LEMMA QuietFine ==
    ASSUME Inv, NEW t \in Thread, Quiet(t)
    PROVE  /\ \A u \in Thread : Fine(u)'
           /\ DOMAIN th' = Thread /\ clock' = clock /\ Installed'
           /\ data' \in Data \cup {Null} /\ mutex' \in Thread \cup {Null} /\ hazard' \in [Thread -> Data \cup {Null}]
  <1>1. \A u \in Thread : Fine(u)'
    BY QuietOthers, QuietMover
  <1>2. Installed'
    BY DEF Inv, Types, Installed, Quiet, Steady
  <1> QED  BY <1>1, <1>2 DEF Inv, Types, Quiet, Steady, Frame

\* The weights, of a step that does not change the walk.
LEMMA QuietWeights ==
    ASSUME Inv, NEW t \in Thread, Quiet(t), walk'.ret = walk.ret \/ th[t].pc = "snap"
    PROVE  \A u \in Thread : WeightsOf(u)'
  <1>1. \A u \in Thread : WeightsOf(u) /\ Fine(u)
    BY DEF Inv, Weights, Types, Protected, Exclusive, Fine
  <1>2. clock' = clock /\ \A d \in Data : obj'[d].landmark = obj[d].landmark
    BY DEF Quiet, Steady
  <1>3. \A u \in Thread : /\ th[u].pc \in {"count", "insert", "first", "replace"} \/ th[u].old # Null => th[u].d \in Data
                          /\ th[u].pc \in {"entries", "retire"} => th[u].old \in Data
    BY <1>1, DataAssumption DEF Fine, TypesOf, ProtectedOf, ExclusiveOf, Using, Rescaling, Inv, Installed
  <1>4. \A u \in Thread : th[u].pc \in {"entries", "retire"} => walk'.ret = walk.ret
    BY <1>1, DataAssumption DEF Fine, ExclusiveOf, Locks, Snapping
  <1>5. ASSUME NEW u \in Thread \ {t} PROVE WeightsOf(u)'
    <2>1. th'[u] = th[u]
      BY QuietOthers
    <2> QED  BY <1>1, <1>2, <1>3, <1>4, <2>1 DEF WeightsOf
  <1>6. WeightsOf(t)'
    <2>1. CASE Starts(t)
      BY <2>1 DEF Starts, WeightsOf
    <2>2. CASE Loads(t)
      <3>1. th'[t].pc \in {"set", "snap_values"} /\ th'[t].old = th[t].old /\ th[t].old = Null
        BY <1>1, <2>2 DEF Loads, Fine, ExclusiveOf, Rescaling, Using
      <3> QED  BY <3>1 DEF WeightsOf
    <2>3. CASE Claims(t)
      BY <1>1, <1>2, <1>3, <2>3 DEF Claims, WeightsOf
    <2>4. CASE Keeps(t) /\ Flow(t)
      <3>1. AfterPC(th[t]) \in {"clear", "unlock", "count"} /\ (AfterPC(th[t]) = "count" => th[t].todo # << >>)
        BY DEF AfterPC
      <3>2. th[t].pc \in {"idle", "scale", "check", "rescale", "snap_values", "snap_sort"} => th[t].old = Null
        BY <1>1 DEF Fine, ExclusiveOf, Rescaling, Using
      <3> QED  BY <1>1, <1>2, <1>3, <1>4, <2>4, <3>1, <3>2 DEF Keeps, Flow, WeightsOf
    <2> QED  BY <2>1, <2>2, <2>3, <2>4 DEF Quiet
  <1> QED  BY <1>5, <1>6

-----------------------------------------------------------------------------
(* The lists *)

\* A find that meets no erased entry from k on has passed none with priority k.
LEMMA MeetsNone ==
    ASSUME NEW o \in DataType, NEW k \in Int, k > Bottom, {} \in Meets(o, k), k \notin PrioritiesOf(o.map)
    PROVE  \A e \in o.dead : e[1] # k
  <1>1. PICK from \in {Bottom} \cup {p \in PrioritiesOf(o.map) : p < k} :
           {} = {e \in o.dead : e[1] > from /\ \A f \in o.map : f[1] < k \/ f[1] > e[1]}
    BY DEF Meets
  <1>2. from < k
    BY <1>1
  <1>3. \A f \in o.map : f[1] \in Int /\ f[1] # k
    BY DEF PrioritiesOf, DataType, Entry
  <1> QED  BY <1>1, <1>2, <1>3

\* An entry whose priority is new keeps a list keyed.
LEMMA KeyedWith ==
    ASSUME NEW m, NEW e, Keyed(m), \A f \in m : f[1] # e[1]
    PROVE  Keyed(m \cup {e})
  <1>1. IsFiniteSet(m \cup {e})
    BY FS_AddElement DEF Keyed
  <1> QED  BY <1>1 DEF Keyed

\* A part of a keyed list is keyed.
LEMMA KeyedSubset ==
    ASSUME NEW m, NEW n, Keyed(m), n \subseteq m
    PROVE  Keyed(n)
  BY FS_Subset DEF Keyed

\* An erased entry that is unlinked.
LEMMA UnlinkList ==
    ASSUME Inv, NEW t \in Thread, th[t].d \in Data, Unlinks(t)
    PROVE  LET o == obj[th[t].d]
               n == obj'[th[t].d]
           IN  /\ obj' \in [Data -> DataType]
               /\ n.map = o.map /\ n.dead \subseteq o.dead
  <1> DEFINE d == th[t].d
  <1>0. obj \in [Data -> DataType] /\ d \in Data /\ obj[d] \in DataType
    BY DEF Inv, Types
  <1>1. PICK met : obj' = [obj EXCEPT ![d].dead = @ \ FirstOf(met)]
    BY DEF Unlinks, Unlink
  <1>2. [obj[d] EXCEPT !.dead = @ \ FirstOf(met)] \in DataType
    BY <1>0 DEF DataType
  <1>3. obj'[d] = [obj[d] EXCEPT !.dead = @ \ FirstOf(met)]
    BY <1>0, <1>1
  <1>4. obj' \in [Data -> DataType]
    BY <1>0, <1>1, <1>2
  <1> QED  BY <1>0, <1>3, <1>4 DEF DataType

\* An entry that goes in.
LEMMA PutList ==
    ASSUME Inv, NEW t \in Thread, th[t].d \in Data, th[t].pc \in {"insert", "replace"}, Puts(t)
    PROVE  LET o == obj[th[t].d]
               n == obj'[th[t].d]
               e == th[t].item
           IN  /\ obj' \in [Data -> DataType] /\ e \in Entry /\ e \in Good(o.landmark, clock)
               /\ n.map = Put(o.map, e) /\ n.dead = o.dead
               /\ e[1] \notin PrioritiesOf(o.map) => \A f \in Linked(o) : f[1] # e[1]
  <1> DEFINE d == th[t].d
             e == th[t].item
  <1>0. obj \in [Data -> DataType] /\ d \in Data /\ obj[d] \in DataType /\ clock \in 0..MaxTime
    BY DEF Inv, Types
  <1>1. e \in Good(obj[d].landmark, clock)
    BY DEF Inv, Weights, WeightsOf
  <1>2. e \in Entry /\ e[1] > Bottom /\ e[1] \in Int
    <2>1. obj[d].landmark \in 0..clock
      BY <1>0 DEF Inv, Weights, GoodMap
    <2>2. e \in Entry /\ e[1] > Bottom
      BY <1>0, <1>1, <2>1, GoodAbove
    <2> QED  BY <2>2 DEF Entry
  <1>3. obj' = [obj EXCEPT ![d].map = Put(@, e)]
    BY DEF Puts
  <1>4. Put(obj[d].map, e) \in SUBSET Entry
    BY <1>0, <1>2 DEF Put, DataType
  <1>5. [obj[d] EXCEPT !.map = Put(@, e)] \in DataType
    BY <1>0, <1>4 DEF DataType
  <1>6. obj'[d] = [obj[d] EXCEPT !.map = Put(@, e)]
    BY <1>0, <1>3
  <1>7. obj' \in [Data -> DataType]
    BY <1>0, <1>3, <1>5
  <1>8. obj'[d].map = Put(obj[d].map, e) /\ obj'[d].dead = obj[d].dead
    BY <1>0, <1>6 DEF DataType
  <1>9. ASSUME e[1] \notin PrioritiesOf(obj[d].map), NEW f \in Linked(obj[d])
        PROVE  f[1] # e[1]
    <2>1. f \in obj[d].map => f[1] # e[1]
      BY <1>9 DEF PrioritiesOf
    <2>2. {} \in Meets(obj[d], e[1])
      BY DEF Puts, MetBy
    <2>3. f \in obj[d].dead => f[1] # e[1]
      BY <1>0, <1>2, <1>9, <2>2, MeetsNone
    <2> QED  BY <1>9, <2>1, <2>3 DEF Linked
  <1> QED  BY <1>1, <1>2, <1>7, <1>8, <1>9

\* An entry that is erased stays linked.
LEMMA MarkList ==
    ASSUME Inv, NEW t \in Thread, th[t].d \in Data, Marks(t)
    PROVE  LET o == obj[th[t].d]
               n == obj'[th[t].d]
           IN  /\ obj' \in [Data -> DataType]
               /\ \E h \in o.map : n.map = o.map \ {h} /\ n.dead = o.dead \cup {h} /\ h[1] = th[t].first
               /\ Linked(n) = Linked(o)
  <1> DEFINE d == th[t].d
             hit == {e \in obj[d].map : e[1] = th[t].first}
  <1>0. obj \in [Data -> DataType] /\ d \in Data /\ obj[d] \in DataType
    BY DEF Inv, Types
  <1>1. hit # {} /\ obj' = [obj EXCEPT ![d].map = @ \ hit, ![d].dead = @ \cup hit]
    BY DEF Marks, Map
  <1>2. obj' = [obj EXCEPT ![d] = [obj[d] EXCEPT !.map = @ \ hit, !.dead = @ \cup hit]]
    BY <1>0, <1>1
  <1>3. [obj[d] EXCEPT !.map = @ \ hit, !.dead = @ \cup hit] \in DataType
    BY <1>0 DEF DataType
  <1>4. obj' \in [Data -> DataType] /\ obj'[d] = [obj[d] EXCEPT !.map = @ \ hit, !.dead = @ \cup hit]
    BY <1>0, <1>2, <1>3
  <1>5. obj'[d].map = obj[d].map \ hit /\ obj'[d].dead = obj[d].dead \cup hit
    BY <1>0, <1>4 DEF DataType
  <1>6. PICK h \in obj[d].map : h[1] = th[t].first
    BY <1>1
  <1>7. hit = {h}
    <2>1. Keyed(Linked(obj[d]))
      BY <1>0 DEF Inv, Maps
    <2> QED  BY <1>6, <2>1 DEF Keyed, Linked
  <1>8. Linked(obj'[d]) = Linked(obj[d])
    BY <1>5 DEF Linked
  <1> QED  BY <1>4, <1>5, <1>6, <1>7, <1>8

\* A step on a list keeps it keyed and good.
LEMMA ListStep ==
    ASSUME Inv, NEW t \in Thread, MapStep(t)
    PROVE  /\ obj' \in [Data -> DataType]
           /\ \A d \in Data : GoodMap(d)'
           /\ Maps'
  <1>d. PICK d \in Data : d = th[t].d
    BY MapQuiet
  <1> DEFINE o == obj[d]
             n == obj'[d]
  <1>0. /\ Quiet(t) /\ \A c \in Data \ {d} : obj'[c] = obj[c]
        /\ \/ Unlinks(t)
           \/ Puts(t) /\ th[t].pc \in {"insert", "replace"}
           \/ Marks(t)
    BY <1>d, MapQuiet
  <1>1. Keyed(Linked(o)) /\ GoodMap(d) /\ o.state # "free"
    BY <1>d, MapQuiet DEF Inv, Maps, Weights, Protected, ProtectedOf, Using
  <1>2. clock' = clock /\ n.landmark = o.landmark /\ n.state = o.state
    BY <1>0 DEF Quiet, Steady
  <1>3. obj' \in [Data -> DataType] /\ Keyed(Linked(n)) /\ Linked(n) \subseteq Good(o.landmark, clock)
    <2>1. CASE Unlinks(t)
      <3>1. obj' \in [Data -> DataType] /\ n.map = o.map /\ n.dead \subseteq o.dead
        BY <1>d, <1>0, <2>1, UnlinkList
      <3>2. Linked(n) \subseteq Linked(o)
        BY <3>1 DEF Linked
      <3> QED  BY <1>1, <3>1, <3>2, KeyedSubset DEF GoodMap
    <2>2. CASE Puts(t) /\ th[t].pc \in {"insert", "replace"}
      <3> DEFINE e == th[t].item
      <3>1. /\ obj' \in [Data -> DataType] /\ n.map = Put(o.map, e) /\ n.dead = o.dead
            /\ e \in Good(o.landmark, clock)
            /\ e[1] \notin PrioritiesOf(o.map) => \A f \in Linked(o) : f[1] # e[1]
        BY <1>d, <1>0, <2>2, PutList
      <3>2. CASE e[1] \in PrioritiesOf(o.map)
        <4>1. Linked(n) = Linked(o)
          BY <3>1, <3>2 DEF Linked, Put
        <4> QED  BY <1>1, <3>1, <4>1 DEF GoodMap
      <3>3. CASE e[1] \notin PrioritiesOf(o.map)
        <4>1. Linked(n) = Linked(o) \cup {e}
          BY <3>1, <3>3 DEF Linked, Put
        <4>2. Keyed(Linked(o) \cup {e})
          BY <1>1, <3>1, <3>3, KeyedWith
        <4> QED  BY <1>1, <3>1, <4>1, <4>2 DEF GoodMap
      <3> QED  BY <3>2, <3>3
    <2>3. CASE Marks(t)
      <3>1. obj' \in [Data -> DataType] /\ Linked(n) = Linked(o)
        BY <1>d, <1>0, <2>3, MarkList
      <3> QED  BY <1>1, <3>1 DEF GoodMap
    <2> QED  BY <1>d, <1>0, <2>1, <2>2, <2>3
  <1>4. GoodMap(d)'
    BY <1>1, <1>2, <1>3 DEF GoodMap
  <1>5. \A c \in Data : GoodMap(c)'
    <2>1. \A c \in Data \ {d} : GoodMap(c)'
      BY <1>0, <1>2 DEF GoodMap, Inv, Weights
    <2> QED  BY <1>4, <2>1
  <1>6. Maps'
    <2>1. \A c \in Data \ {d} : Keyed(Linked(obj'[c])) /\ (obj'[c].state = "free" => obj'[c].map = {})
      BY <1>0 DEF Inv, Maps
    <2>2. Keyed(Linked(n)) /\ n.state # "free"
      BY <1>1, <1>2, <1>3
    <2> QED  BY <2>1, <2>2 DEF Maps
  <1> QED  BY <1>3, <1>5, <1>6

-----------------------------------------------------------------------------
(* Who must erase finds something *)

\* The threads that erase can be counted,
LEMMA ErasersFinite ==
    ASSUME NEW d
    PROVE  IsFiniteSet(Erasers(d)) /\ Cardinality(Erasers(d)) \in Nat
  <1>1. Erasers(d) \subseteq Thread
    BY DEF Erasers
  <1> QED  BY <1>1, ThreadAssumption, FS_Subset, FS_CardinalityType

\* and so can a map.
LEMMA MapFinite ==
    ASSUME Inv, NEW d \in Data
    PROVE  IsFiniteSet(obj[d].map) /\ Cardinality(obj[d].map) \in Nat
  <1>1. IsFiniteSet(Linked(obj[d])) /\ obj[d].map \subseteq Linked(obj[d])
    BY DEF Inv, Maps, Keyed, Linked
  <1> QED  BY <1>1, FS_Subset, FS_CardinalityType

\* A thread that neither begins nor ends to erase.
LEMMA SameErasers ==
    ASSUME Types, NEW t \in Thread, Frame(t), th[t].pc = "erase" <=> th'[t].pc = "erase",
           th[t].pc = "erase" => th'[t].d = th[t].d
    PROVE  \A d : Erasers(d)' = Erasers(d)
  BY DEF Types, Frame, Others, Erasers

\* The steps on a list: an entry for one to take out, and one out for each that is done.
LEMMA MapFinds ==
    ASSUME Inv, NEW t \in Thread, MapStep(t)
    PROVE  ErasersFindKeys'
  <1>d. PICK d \in Data : d = th[t].d
    BY MapQuiet
  <1> DEFINE o == obj[d]
             n == obj'[d]
  <1>0. /\ Quiet(t) /\ \A c \in Data \ {d} : obj'[c] = obj[c]
        /\ th[t].pc \in {"insert", "replace", "erase", "sweep"}
        /\ \/ Unlinks(t) /\ (th[t].pc = "erase" <=> th'[t].pc = "erase")
           \/ /\ Puts(t) /\ th[t].pc \in {"insert", "replace"}
              /\ th'[t].pc = "erase" => th[t].item[1] \notin PrioritiesOf(o.map)
           \/ Marks(t) /\ th[t].pc = "erase" /\ th'[t].pc = "sweep"
    BY <1>d, MapQuiet
  <1>1. th'[t].d = d /\ Frame(t) /\ Types
    BY <1>d, <1>0 DEF Quiet, Starts, Loads, Claims, Keeps, Inv
  <1>2. \A c \in Data \ {d} : Erasers(c)' = Erasers(c)
    BY <1>d, <1>1 DEF Types, Frame, Others, Erasers
  <1>3. IsFiniteSet(o.map) /\ Cardinality(o.map) \in Nat /\ Cardinality(o.map) >= Cardinality(Erasers(d))
    BY MapFinite DEF Inv, ErasersFindKeys
  <1>4. IsFiniteSet(Erasers(d)) /\ Cardinality(Erasers(d)) \in Nat
    BY ErasersFinite
  <1>5. Cardinality(n.map) >= Cardinality(Erasers(d)')
    <2>1. CASE Unlinks(t) /\ (th[t].pc = "erase" <=> th'[t].pc = "erase")
      <3>1. n.map = o.map
        BY <1>d, <2>1, UnlinkList
      <3>2. Erasers(d)' = Erasers(d)
        BY <1>d, <1>1, <2>1, SameErasers
      <3> QED  BY <1>3, <3>1, <3>2
    <2>2. CASE /\ Puts(t) /\ th[t].pc \in {"insert", "replace"}
               /\ th'[t].pc = "erase" => th[t].item[1] \notin PrioritiesOf(o.map)
      <3> DEFINE e == th[t].item
      <3>1. n.map = Put(o.map, e)
        BY <1>d, <2>2, PutList
      <3>2. CASE e[1] \in PrioritiesOf(o.map)
        <4>1. n.map = o.map
          BY <3>1, <3>2 DEF Put
        <4>2. Erasers(d)' = Erasers(d)
          BY <1>d, <1>1, <2>2, <3>2, SameErasers
        <4> QED  BY <1>3, <4>1, <4>2
      <3>3. CASE e[1] \notin PrioritiesOf(o.map)
        <4>1. n.map = o.map \cup {e} /\ e \notin o.map
          BY <3>1, <3>3 DEF Put, PrioritiesOf
        <4>2. Cardinality(n.map) = Cardinality(o.map) + 1
          BY <1>3, <4>1, FS_AddElement
        <4>3. Erasers(d)' \subseteq Erasers(d) \cup {t}
          BY <1>1 DEF Types, Frame, Others, Erasers
        <4>4. Cardinality(Erasers(d)') <= Cardinality(Erasers(d)) + 1
          <5>1. IsFiniteSet(Erasers(d) \cup {t}) /\ Cardinality(Erasers(d) \cup {t}) <= Cardinality(Erasers(d)) + 1
            <6>1. t \in Erasers(d) => Erasers(d) \cup {t} = Erasers(d)
              OBVIOUS
            <6>2. t \notin Erasers(d) => IsFiniteSet(Erasers(d) \cup {t}) /\ Cardinality(Erasers(d) \cup {t}) = Cardinality(Erasers(d)) + 1
              BY <1>4, FS_AddElement
            <6> QED  BY <1>4, <6>1, <6>2
          <5>2. Cardinality(Erasers(d)') \in Nat /\ Cardinality(Erasers(d)') <= Cardinality(Erasers(d) \cup {t})
            BY <4>3, <5>1, FS_Subset, FS_CardinalityType
          <5>3. Cardinality(Erasers(d) \cup {t}) \in Nat
            BY <5>1, FS_CardinalityType
          <5> QED  BY <1>4, <5>1, <5>2, <5>3
        <4>5. Cardinality(Erasers(d)') \in Nat
          BY <4>3, <1>4, FS_AddElement, FS_Subset, FS_CardinalityType
        <4> QED  BY <1>3, <1>4, <4>2, <4>4, <4>5
      <3> QED  BY <3>2, <3>3
    <2>3. CASE Marks(t) /\ th[t].pc = "erase" /\ th'[t].pc = "sweep"
      <3>1. PICK h \in o.map : n.map = o.map \ {h}
        BY <1>d, <2>3, MarkList
      <3>2. Cardinality(n.map) = Cardinality(o.map) - 1
        BY <1>3, <3>1, FS_RemoveElement
      <3>3. t \in Erasers(d) /\ Erasers(d)' = Erasers(d) \ {t}
        BY <1>d, <1>1, <2>3 DEF Types, Frame, Others, Erasers
      <3>4. Cardinality(Erasers(d)') = Cardinality(Erasers(d)) - 1
        BY <1>4, <3>3, FS_RemoveElement
      <3> QED  BY <1>3, <1>4, <3>2, <3>4
    <2> QED  BY <1>0, <2>1, <2>2, <2>3
  <1>6. \A c \in Data \ {d} : Cardinality(obj'[c].map) >= Cardinality(Erasers(c)')
    BY <1>0, <1>2 DEF Inv, ErasersFindKeys
  <1> QED  BY <1>5, <1>6 DEF ErasersFindKeys

\* Where no map changes and nobody begins to erase.
LEMMA StillFinds ==
    ASSUME Inv, NEW t \in Thread, Frame(t), th[t].pc # "erase", th'[t].pc # "erase",
           \A d \in Data : obj'[d].map = obj[d].map
    PROVE  ErasersFindKeys'
  <1>1. \A d \in Data : Erasers(d)' = Erasers(d)
    BY SameErasers DEF Inv
  <1> QED  BY <1>1 DEF Inv, ErasersFindKeys

-----------------------------------------------------------------------------
(* The quiet steps, together *)

\* What a quiet step owes beside the rest.
LEMMA QuietInv ==
    ASSUME Inv, NEW t \in Thread, Quiet(t), walk' \in WalkType, obj' \in [Data -> DataType],
           \A d \in Data : GoodMap(d)', Maps', ErasersFindKeys', \A u \in Thread : WeightsOf(u)'
    PROVE  Inv'
  <1>1. /\ \A u \in Thread : Fine(u)'
        /\ DOMAIN th' = Thread /\ clock' = clock /\ Installed'
        /\ data' \in Data \cup {Null} /\ mutex' \in Thread \cup {Null} /\ hazard' \in [Thread -> Data \cup {Null}]
    BY QuietFine
  <1>2. Types'
    BY <1>1 DEF Inv, Types, Fine
  <1>3. Protected' /\ Exclusive'
    BY <1>1 DEF Fine, Protected, Exclusive
  <1> QED  BY <1>1, <1>2, <1>3 DEF Inv, Weights

\* The steps on a list keep the invariant.
LEMMA MapStepInv ==
    ASSUME Inv, NEW t \in Thread, MapStep(t)
    PROVE  Inv'
  <1>0. Quiet(t) /\ (Erase(t) \/ walk' = walk) /\ th[t].pc \in {"insert", "replace", "erase", "sweep"}
    BY MapQuiet
  <1>1. obj' \in [Data -> DataType] /\ (\A d \in Data : GoodMap(d)') /\ Maps'
    BY ListStep
  <1>2. ErasersFindKeys'
    BY MapFinds
  <1>3. walk \in WalkType
    BY DEF Inv, Types
  <1>4. walk' \in WalkType /\ walk'.ret = walk.ret
    <2>1. CASE walk' = walk
      BY <1>3, <2>1
    <2>2. CASE Erase(t)
      <3>1. PICK s \in SUBSET walk.stays : walk' = [walk EXCEPT !.stays = s]
        <4> DEFINE hit == {e \in Map(t) : e[1] = th[t].first}
        <4>1. walk' = [walk EXCEPT !.stays = IF th[t].d = walk.d THEN @ \ hit ELSE @]
          BY <2>2 DEF Erase
        <4>2. (IF th[t].d = walk.d THEN walk.stays \ hit ELSE walk.stays) \in SUBSET walk.stays
          OBVIOUS
        <4> QED  BY <4>1, <4>2
      <3> QED  BY <1>3, <3>1 DEF WalkType
    <2> QED  BY <1>0, <2>1, <2>2
  <1>5. \A u \in Thread : WeightsOf(u)'
    BY <1>0, <1>4, QuietWeights
  <1> QED  BY <1>0, <1>1, <1>2, <1>4, <1>5, QuietInv

\* So does counting an entry.
LEMMA TakeCountInv ==
    ASSUME Inv, NEW t \in Thread, TakeCount(t)
    PROVE  Inv'
  <1>0. Quiet(t) /\ walk' = walk /\ th[t].pc = "count" /\ th'[t].pc \in {"insert", "first"} /\ obj \in [Data -> DataType]
    BY TakeQuiet DEF Inv, Types
  <1>1. PICK c \in Data : obj' = obj \/ obj' = [obj EXCEPT ![c] = [obj[c] EXCEPT !.count = @ + 1]]
    <2>1. PICK c \in Data : obj' = obj \/ obj' = [obj EXCEPT ![c].count = @ + 1]
      BY TakeQuiet
    <2> QED  BY <2>1
  <1>2. [obj[c] EXCEPT !.count = @ + 1] \in DataType
    BY <1>0 DEF DataType
  <1>3. obj' \in [Data -> DataType]
    BY <1>0, <1>1, <1>2
  <1>4. \A d \in Data : obj'[d].map = obj[d].map /\ obj'[d].dead = obj[d].dead
    BY <1>0, <1>1 DEF DataType
  <1>5. clock' = clock /\ \A d \in Data : obj'[d].state = obj[d].state /\ obj'[d].landmark = obj[d].landmark
    BY <1>0 DEF Quiet, Steady
  <1>6. (\A d \in Data : GoodMap(d)') /\ Maps'
    BY <1>4, <1>5 DEF Inv, Weights, GoodMap, Maps, Linked
  <1>7. ErasersFindKeys'
    BY <1>0, <1>4, StillFinds DEF Quiet
  <1>8. (\A u \in Thread : WeightsOf(u)') /\ walk' \in WalkType
    BY <1>0, QuietWeights DEF Inv, Types
  <1> QED  BY <1>0, <1>3, <1>6, <1>7, <1>8, QuietInv

\* A step that touches no Data leaves the maps.
LEMMA LocalMaps ==
    ASSUME Inv, NEW t \in Thread, Quiet(t), obj' = obj, th[t].pc \notin {"insert", "replace", "erase", "sweep"}
    PROVE  obj' \in [Data -> DataType] /\ (\A d \in Data : GoodMap(d)') /\ Maps' /\ ErasersFindKeys'
  <1>1. th'[t].pc # "erase" /\ clock' = clock /\ Frame(t)
    BY DEF Quiet, Steady, Flow, AfterPC, Starts, Loads, Claims
  <1>2. ErasersFindKeys'
    BY <1>1, StillFinds
  <1> QED  BY <1>1, <1>2 DEF Inv, Types, Weights, GoodMap, Maps

\* The node a walk goes to is an entry of the list.
LEMMA NextOf ==
    ASSUME NEW o, NEW e, NEW n \in FirstOf(Beyond(o, e))
    PROVE  n \in Linked(o) /\ n[1] > e[1] /\ \A f \in Linked(o) : f[1] > e[1] => n[1] <= f[1]
  BY DEF FirstOf, Beyond

\* The head of the list is a node.
LEMMA HeadIs == HeadNode \in Entry
  BY TimeAssumption DEF HeadNode, Bottom, Entry

\* A new walk over the current Data.
LEMMA NewWalk ==
    ASSUME Types, data \in Data
    PROVE  WalkOf(data) \in WalkType /\ WalkOf(data).ret = << >>
  <1>1. obj[data].map \in SUBSET Entry
    BY DEF Types, DataType
  <1>2. << >> \in Seq(Entry)
    OBVIOUS
  <1>3. NoWalk \in WalkType
    BY <1>2, HeadIs DEF NoWalk, WalkType
  <1> QED  BY <1>1, <1>2, <1>3 DEF WalkOf, NoWalk, WalkType

\* A step of the walk.
WalkStep(t) == Advance(t) \/ Reload(t) \/ Restart(t)

\* A walk is over the Data before the current one, or over the current one, by the holder of the mutex.
LEMMA WalkerHas ==
    ASSUME Inv, NEW t \in Thread, Walks(t)
    PROVE  /\ Counted(th[t]) \in Data /\ walk \in WalkType /\ walk.cur \in Entry /\ walk.ret \in Seq(Entry)
           /\ mutex = t /\ t # Null
           /\ th[t].pc = "entries" => Counted(th[t]) = th[t].old /\ th[t].old # Null
           /\ th[t].pc = "snap_values" => Counted(th[t]) = data /\ th[t].old = Null
           /\ obj[Counted(th[t])].state = "used"
           /\ Walked(t) \in DataType /\ Linked(Walked(t)) \subseteq Entry
  <1>1. TypesOf(t) /\ ExclusiveOf(t) /\ data \in Data \cup {Null} /\ walk \in WalkType
    BY DEF Inv, Types, Exclusive
  <1>2. th[t].pc \in {"entries", "snap_values"}
    BY DEF Walks
  <1>3. CASE th[t].pc = "entries"
    <2>1. Counted(th[t]) = th[t].old /\ th[t].old \in Data /\ obj[th[t].old].state = "used" /\ mutex = t
      BY <1>1, <1>3 DEF ExclusiveOf, TypesOf, Counted, Locks
    <2> QED  BY <1>1, <1>3, <2>1, DataAssumption DEF WalkType, Inv, Types, Walked, Linked, DataType
  <1>4. CASE th[t].pc = "snap_values"
    <2>1. th[t].old = Null /\ th[t].d = data /\ data \in Data /\ mutex = t
      BY <1>1, <1>4 DEF ExclusiveOf, Rescaling, Using, Locks, Snapping
    <2>2. Counted(th[t]) = data /\ obj[data].state = "used"
      BY <2>1, DataAssumption DEF Counted, Inv, Installed
    <2> QED  BY <1>1, <1>4, <2>1, <2>2, DataAssumption DEF WalkType, Inv, Types, Walked, Linked, DataType
  <1> QED  BY <1>2, <1>3, <1>4

\* Where a thread walks over a list, or has walked over one.
WalkPCs == {"entries", "retire", "snap_values", "snap_sort", "snap_unlock"}

\* Only one thread does.
LEMMA OneWalker ==
    ASSUME Inv, NEW t \in Thread, Locks(t), NEW u \in Thread \ {t}
    PROVE  ~Locks(u) /\ th[u].pc \notin WalkPCs
  BY DEF Inv, Exclusive, ExclusiveOf, Locks, WalkPCs, Snapping

\* What a step of the walk does to it: nothing, or cur moves on and may go into ret.
LEMMA WalkDoes ==
    ASSUME Inv, NEW t \in Thread, WalkStep(t)
    PROVE  /\ Walks(t) /\ walk' \in WalkType
           /\ \/ walk'.ret = walk.ret
              \/ \E n \in Linked(Walked(t)) : walk'.ret = Append(walk.ret, n)
  <1>0. Walks(t)
    BY DEF WalkStep, Advance, Reload, Restart
  <1>1. walk \in WalkType /\ walk.ret \in Seq(Entry) /\ walk.cur \in Entry /\ Linked(Walked(t)) \subseteq Entry
    BY <1>0, WalkerHas
  <1>2. CASE walk' = walk
    BY <1>0, <1>1, <1>2
  <1>3. CASE \E n \in FirstOf(Beyond(Walked(t), walk.cur)) :
                walk' = [walk EXCEPT !.prev = walk.cur, !.cur = n, !.ret = Append(@, n)]
    <2>1. PICK n \in FirstOf(Beyond(Walked(t), walk.cur)) :
                walk' = [walk EXCEPT !.prev = walk.cur, !.cur = n, !.ret = Append(@, n)]
      BY <1>3
    <2>2. n \in Linked(Walked(t)) /\ n \in Entry
      BY <1>1, NextOf
    <2>3. Append(walk.ret, n) \in Seq(Entry)
      BY <1>1, <2>2
    <2> QED  BY <1>0, <1>1, <2>1, <2>2, <2>3 DEF WalkType
  <1>4. CASE \E n \in FirstOf(Beyond(Walked(t), walk.prev)) : walk' = [walk EXCEPT !.cur = n, !.reloaded = TRUE]
    <2>1. PICK n \in FirstOf(Beyond(Walked(t), walk.prev)) : walk' = [walk EXCEPT !.cur = n, !.reloaded = TRUE]
      BY <1>4
    <2>2. n \in Entry
      BY <1>1, NextOf
    <2> QED  BY <1>0, <1>1, <2>1, <2>2 DEF WalkType
  <1>5. CASE walk' = [walk EXCEPT !.reloaded = TRUE]
    BY <1>0, <1>1, <1>5 DEF WalkType
  <1>6. CASE walk' = [walk EXCEPT !.prev = HeadNode, !.cur = HeadNode, !.reloaded = TRUE]
    BY <1>0, <1>1, <1>6, HeadIs DEF WalkType
  <1> QED  BY <1>2, <1>3, <1>4, <1>5, <1>6 DEF WalkStep, Advance, Reload, Restart

\* A step of the walk keeps the invariant: what goes into ret is good.
LEMMA WalkStepInv ==
    ASSUME Inv, NEW t \in Thread, WalkStep(t)
    PROVE  Inv'
  <1>0. /\ Quiet(t) /\ obj' = obj /\ th[t].pc \notin {"insert", "replace", "erase", "sweep"}
        /\ Walks(t) /\ walk' \in WalkType
    BY LocalQuiet, WalkDoes DEF WalkStep
  <1>1. CASE walk'.ret = walk.ret
    <2>1. \A u \in Thread : WeightsOf(u)'
      BY <1>0, <1>1, QuietWeights
    <2> QED  BY <1>0, <2>1, LocalMaps, QuietInv
  <1>2. CASE \E n \in Linked(Walked(t)) : walk'.ret = Append(walk.ret, n)
    <2>1. PICK n \in Linked(Walked(t)) : walk'.ret = Append(walk.ret, n)
      BY <1>2
    <2>2. ASSUME NEW u \in Thread \ {t} PROVE WeightsOf(u)'
      <3>1. WeightsOf(u) /\ th'[u] = th[u] /\ clock' = clock
        BY <1>0, QuietOthers DEF Inv, Weights, Quiet, Steady
      <3>2. th[u].pc \notin {"entries", "retire"}
        BY <1>0, WalkerHas, OneWalker DEF WalkPCs, Inv, Exclusive, ExclusiveOf
      <3> QED  BY <1>0, <3>1, <3>2 DEF WeightsOf
    <2>3. WeightsOf(t)'
      <3>1. /\ WeightsOf(t) /\ clock' = clock /\ Frame(t) /\ DOMAIN th = Thread
            /\ Keeps(t) /\ th'[t].pc \in {"entries", "retire", "snap_values", "snap_sort"}
            /\ th'[t].pc \in {"entries", "retire"} <=> th[t].pc = "entries"
        BY <1>0 DEF Inv, Types, Weights, Quiet, Steady, Walks, Flow, Starts, Loads, Claims
      <3>2. CASE th[t].pc = "snap_values"
        BY <1>0, <3>1, <3>2, WalkerHas DEF WeightsOf, Keeps
      <3>3. CASE th[t].pc = "entries"
        <4>1. th[t].old \in Data /\ Walked(t) = obj[th[t].old] /\ walk.ret \in Seq(Entry)
          BY <1>0, <3>3, WalkerHas DEF Walked
        <4>2. n \in Good(obj[th[t].old].landmark, clock) /\ n \in Entry
          BY <1>0, <2>1, <4>1, WalkerHas DEF Inv, Weights, GoodMap
        <4>3. \A i \in 1..Len(walk.ret) : walk.ret[i] \in Good(obj[th[t].old].landmark, clock)
          BY <3>1, <3>3 DEF WeightsOf
        <4>4. \A i \in 1..Len(walk'.ret) : walk'.ret[i] \in Good(obj[th[t].old].landmark, clock)
          <5>1. /\ Len(walk'.ret) = Len(walk.ret) + 1 /\ Len(walk.ret) \in Nat
                /\ \A i \in 1..Len(walk'.ret) : walk'.ret[i] = IF i <= Len(walk.ret) THEN walk.ret[i] ELSE n
            BY <2>1, <4>1, <4>2
          <5> QED  BY <4>2, <4>3, <5>1
        <4> QED  BY <1>0, <3>1, <3>3, <4>4 DEF WeightsOf, Keeps
      <3> QED  BY <1>0, <3>2, <3>3 DEF Walks
    <2> QED  BY <1>0, <2>2, <2>3, LocalMaps, QuietInv
  <1> QED  BY <1>1, <1>2, WalkDoes

\* The other steps that touch no Data.
LocalStep(t) ==
    \/ Update(t) \/ Snap(t) \/ ReadScale(t) \/ LoadData(t) \/ CheckData(t) \/ RescaleCas(t)
    \/ ReadFirst(t) \/ SnapLoad(t) \/ SnapValues(t)

\* They keep the invariant.
LEMMA LocalStepInv ==
    ASSUME Inv, NEW t \in Thread, LocalStep(t)
    PROVE  Inv'
  <1>0. Quiet(t) /\ obj' = obj /\ th[t].pc \notin {"insert", "replace", "erase", "sweep"}
    BY LocalQuiet DEF LocalStep
  <1>1. walk \in WalkType /\ Types
    BY DEF Inv, Types
  <1>2. walk' \in WalkType /\ (walk'.ret = walk.ret \/ th[t].pc = "snap")
    <2>1. CASE SnapLoad(t)
      <3>1. data \in Data /\ walk' = WalkOf(data) /\ th[t].pc = "snap"
        BY <2>1 DEF SnapLoad, Inv, Types, Exclusive, ExclusiveOf
      <3> QED  BY <1>1, <3>1, NewWalk
    <2>2. CASE ~SnapLoad(t)
      <3>1. walk' = walk
        BY <2>2 DEF LocalStep, Update, Snap, ReadScale, LoadData, CheckData, RescaleCas, ReadFirst, SnapValues
      <3> QED  BY <1>1, <3>1
    <2> QED  BY <2>1, <2>2
  <1>3. \A u \in Thread : WeightsOf(u)'
    BY <1>0, <1>2, QuietWeights
  <1> QED  BY <1>0, <1>2, <1>3, LocalMaps, QuietInv

-----------------------------------------------------------------------------
(* Hazards and the mutex *)

\* A step that is not on the way to a map and leaves the Data objects.
Calm(t) ==
    /\ Frame(t) /\ UNCHANGED <<clock, data, obj>>
    /\ th'[t].old = Null
    /\ th[t].pc # "erase" /\ th'[t].pc \notin {"erase", "insert", "first", "replace", "entries", "retire"}

\* It keeps the invariant if the hazards and the mutex are right after it.
LEMMA CalmInv ==
    ASSUME Inv, NEW t \in Thread, Calm(t), walk' \in WalkType, walk' = walk \/ Locks(t),
           hazard' \in [Thread -> Data \cup {Null}], mutex' \in Thread \cup {Null}, \A u \in Thread : Fine(u)'
    PROVE  Inv'
  <1>1. Types'
    BY DEF Inv, Types, Fine, Calm, Frame
  <1>2. Protected' /\ Exclusive' /\ Installed'
    BY DEF Fine, Protected, Exclusive, Installed, Inv, Calm
  <1>3. (\A d \in Data : GoodMap(d)') /\ Maps'
    BY DEF Inv, Weights, GoodMap, Maps, Calm
  <1>4. ErasersFindKeys'
    BY StillFinds DEF Calm
  <1>5. ASSUME NEW u \in Thread PROVE WeightsOf(u)'
    <2>1. CASE u = t
      BY <2>1 DEF Calm, WeightsOf
    <2>2. CASE u # t
      <3>1. WeightsOf(u) /\ th'[u] = th[u] /\ UNCHANGED <<clock, obj>>
        BY <2>2 DEF Inv, Weights, Calm, Frame, Others
      <3>2. th[u].pc \in {"entries", "retire"} => walk' = walk
        BY <2>2, OneWalker DEF WalkPCs
      <3> QED  BY <3>1, <3>2 DEF WeightsOf
    <2> QED  BY <2>1, <2>2
  <1> QED  BY <1>1, <1>2, <1>3, <1>4, <1>5 DEF Inv, Weights

HazardStep(t) == SetData(t) \/ Clear(t)

\* A hazard is set, or cleared at the end of an update.
LEMMA HazardStepInv ==
    ASSUME Inv, NEW t \in Thread, HazardStep(t)
    PROVE  Inv'
  <1>0. /\ DOMAIN th = Thread /\ DOMAIN th[t] = Fields /\ hazard \in [Thread -> Data \cup {Null}] /\ walk \in WalkType
        /\ th[t].d \in Data \cup {Null} /\ clock \in Nat /\ th[t].now \in 0..clock /\ mutex \in Thread \cup {Null}
        /\ t # Null /\ data \in Data \cup {Null}
    BY TimeAssumption, DataAssumption DEF Inv, Types, TypesOf
  <1>1. \A u \in Thread : Fine(u)
    BY DEF Inv, Types, Protected, Exclusive, Fine
  <1>2. UNCHANGED <<clock, data, obj, mutex, walk>>
    BY DEF HazardStep, SetData, Clear
  <1>3. th[t].old = Null
    BY <1>1 DEF HazardStep, SetData, Clear, Fine, ExclusiveOf, Rescaling, Using
  <1>4. ASSUME NEW u \in Thread \ {t}, Frame(t), hazard'[u] = hazard[u] PROVE Fine(u)'
    <2>1. th'[u] = th[u]
      BY <1>4 DEF Frame, Others
    <2> QED  BY <1>1, <1>2, <1>4, <2>1 DEF Fine, TypesOf, ProtectedOf, ExclusiveOf, Locks
  <1>5. CASE SetData(t)
    <2>1. /\ th[t].pc = "set" /\ hazard' = [hazard EXCEPT ![t] = th[t].d]
          /\ th' = [th EXCEPT ![t].pc = "check"]
      BY <1>5 DEF SetData, Goto
    <2>2. Frame(t) /\ th'[t].pc = "check" /\ Keeps(t)
      BY <1>0, <2>1 DEF Frame, Others, Fields, Keeps
    <2>3. Fine(t)'
      BY <1>0, <1>1, <1>2, <1>3, <2>1, <2>2
         DEF Fine, TypesOf, ProtectedOf, ExclusiveOf, Locks, PCs, Using, Rescaling, Snapping, Frame, Keeps
    <2>4. hazard' \in [Thread -> Data \cup {Null}] /\ \A u \in Thread \ {t} : hazard'[u] = hazard[u]
      BY <1>0, <2>1
    <2>5. Calm(t)
      BY <1>2, <1>3, <2>1, <2>2 DEF Calm, Keeps
    <2>6. \A u \in Thread : Fine(u)'
      BY <1>4, <2>2, <2>3, <2>4
    <2> QED  BY <1>0, <1>2, <2>4, <2>5, <2>6, CalmInv
  <1>6. CASE Clear(t)
    <2>1. /\ th[t].pc = "clear" /\ hazard' = [hazard EXCEPT ![t] = Null]
          /\ th' = [th EXCEPT ![t] = Idle]
      BY <1>6 DEF Clear
    <2>2. Frame(t) /\ th'[t] = Idle
      BY <1>0, <2>1 DEF Frame, Others, Fields, Idle
    <2>3. Fine(t)'
      <3>1. << >> \in Seq(Entry)
        OBVIOUS
      <3>2. TypesOf(t)'
        BY <1>0, <1>2, <2>2, <3>1 DEF TypesOf, PCs, Idle, Fields
      <3> QED  BY <1>0, <1>1, <1>2, <1>3, <2>1, <2>2, <3>2
            DEF Fine, ProtectedOf, ExclusiveOf, Locks, Using, Rescaling, Snapping, Idle
    <2>4. hazard' \in [Thread -> Data \cup {Null}] /\ \A u \in Thread \ {t} : hazard'[u] = hazard[u]
      BY <1>0, <2>1
    <2>5. Calm(t)
      BY <1>2, <1>3, <2>1, <2>2 DEF Calm, Idle
    <2>6. \A u \in Thread : Fine(u)'
      BY <1>4, <2>2, <2>3, <2>4
    <2> QED  BY <1>0, <1>2, <2>4, <2>5, <2>6, CalmInv
  <1> QED  BY <1>5, <1>6 DEF HazardStep

MutexStep(t) == Lock(t) \/ Unlock(t)

\* The mutex is taken and released.
LEMMA MutexStepInv ==
    ASSUME Inv, NEW t \in Thread, MutexStep(t)
    PROVE  Inv'
  <1>0. /\ DOMAIN th = Thread /\ DOMAIN th[t] = Fields /\ walk \in WalkType /\ clock \in Nat
        /\ hazard \in [Thread -> Data \cup {Null}] /\ t # Null /\ data \in Data \cup {Null}
    BY TimeAssumption, DataAssumption DEF Inv, Types, TypesOf
  <1>1. \A u \in Thread : Fine(u)
    BY DEF Inv, Types, Protected, Exclusive, Fine
  <1>2. UNCHANGED <<clock, data, obj, hazard>>
    BY DEF MutexStep, Lock, Unlock
  <1>3. ASSUME NEW u \in Thread \ {t}, Frame(t), mutex # u, mutex' # u PROVE Fine(u)'
    <2>1. th'[u] = th[u]
      BY <1>3 DEF Frame, Others
    <2> QED  BY <1>1, <1>2, <1>3, <2>1 DEF Fine, TypesOf, ProtectedOf, ExclusiveOf, Locks
  <1>4. CASE Lock(t)
    <2>1. /\ th[t].pc \in {"lock", "snap_lock"} /\ mutex = Null /\ mutex' = t /\ walk' = walk
          /\ th' = [th EXCEPT ![t].pc = IF th[t].pc = "lock" THEN "swap" ELSE "snap"]
      BY <1>4 DEF Lock, CanLock, Goto
    <2>2. Frame(t) /\ th'[t].pc \in {"swap", "snap"} /\ Keeps(t)
      BY <1>0, <2>1 DEF Frame, Others, Fields, Keeps
    <2>3. th[t].old = Null
      BY <1>1, <2>1 DEF Fine, ExclusiveOf, Rescaling, Using
    <2>4. Fine(t)'
      BY <1>0, <1>1, <1>2, <2>1, <2>2, <2>3
         DEF Fine, TypesOf, ProtectedOf, ExclusiveOf, Locks, PCs, Using, Rescaling, Snapping, Frame, Keeps
    <2>5. \A u \in Thread \ {t} : mutex # u /\ mutex' # u
      BY <2>1, DataAssumption
    <2>6. Calm(t)
      BY <1>2, <2>1, <2>2, <2>3 DEF Calm, Keeps
    <2>7. \A u \in Thread : Fine(u)'
      BY <1>3, <2>2, <2>4, <2>5
    <2> QED  BY <1>0, <1>2, <2>1, <2>6, <2>7, CalmInv
  <1>5. CASE Unlock(t)
    <2>1. /\ th[t].pc \in {"unlock", "snap_unlock"} /\ mutex' = Null /\ walk' = NoWalk
          /\ th' = [th EXCEPT ![t] = IF @.pc = "unlock" THEN [@ EXCEPT !.old = Null, !.pc = "count"] ELSE Idle]
      BY <1>5 DEF Unlock
    <2>2. Locks(t) /\ mutex = t
      BY <1>1, <2>1 DEF Fine, ExclusiveOf, Locks, Snapping
    <2>3. \/ /\ th[t].pc = "unlock" /\ th'[t].pc = "count" /\ th'[t].now = th[t].now
             /\ th'[t].d = th[t].d /\ th'[t].todo = th[t].todo /\ th'[t].old = Null
          \/ th[t].pc = "snap_unlock" /\ th'[t] = Idle
      BY <1>0, <2>1 DEF Fields
    <2>4. Frame(t)
      BY <1>0, <2>1 DEF Frame, Others, Fields, Idle
    <2>5. << >> \in Seq(Entry)
      OBVIOUS
    <2>6. NoWalk \in WalkType
      BY <2>5, HeadIs DEF NoWalk, WalkType
    <2>7. TypesOf(t)'
      <3>1. CASE th'[t] = Idle
        BY <1>0, <1>2, <2>4, <2>5, <3>1 DEF TypesOf, PCs, Idle, Frame
      <3>2. CASE /\ th'[t].pc = "count" /\ th'[t].now = th[t].now
                 /\ th'[t].d = th[t].d /\ th'[t].todo = th[t].todo /\ th'[t].old = Null
        BY <1>1, <1>2, <2>4, <3>2 DEF Fine, TypesOf, PCs, Using, Frame
      <3> QED  BY <2>3, <3>1, <3>2
    <2>8. ProtectedOf(t)' /\ ExclusiveOf(t)'
      BY <1>0, <1>1, <1>2, <2>1, <2>3 DEF Fine, ProtectedOf, ExclusiveOf, Locks, Using, Rescaling, Snapping, Idle
    <2>9. \A u \in Thread \ {t} : mutex # u /\ mutex' # u
      BY <2>1, <2>2, DataAssumption
    <2>10. Calm(t)
      BY <1>2, <2>1, <2>3, <2>4 DEF Calm, Idle
    <2>11. \A u \in Thread : Fine(u)'
      BY <1>3, <2>4, <2>7, <2>8, <2>9 DEF Fine
    <2> QED  BY <1>0, <1>2, <2>1, <2>2, <2>6, <2>10, <2>11, CalmInv
  <1> QED  BY <1>4, <1>5 DEF MutexStep

-----------------------------------------------------------------------------
(* The rescale: a new Data, and the end of the one before *)

\* A new Data is empty.
LEMMA FreshIs ==
    ASSUME NEW now \in Nat
    PROVE  /\ Fresh(now) \in DataType
           /\ Fresh(now).state = "used" /\ Fresh(now).landmark = now
           /\ Fresh(now).map = {} /\ Fresh(now).dead = {}
  <1>1. NoData \in DataType /\ NoData.map = {} /\ NoData.dead = {}
    BY DEF NoData, DataType
  <1> QED  BY <1>1 DEF Fresh, DataType

\* A new Data becomes the current one; nobody uses it yet.
LEMMA SwapInv ==
    ASSUME Inv, NEW t \in Thread, Swap(t)
    PROVE  Inv'
  <1>0. /\ DOMAIN th = Thread /\ DOMAIN th[t] = Fields /\ clock \in Nat /\ clock \in 0..MaxTime
        /\ hazard \in [Thread -> Data \cup {Null}] /\ t # Null /\ obj \in [Data -> DataType] /\ Types
        /\ mutex \in Thread \cup {Null} /\ th[t].now \in 0..clock
    BY TimeAssumption, DataAssumption DEF Inv, Types, TypesOf
  <1>1. \A u \in Thread : Fine(u) /\ WeightsOf(u)
    BY DEF Inv, Types, Protected, Exclusive, Weights, Fine
  <1>2. PICK n \in Data : /\ obj[n].state = "free"
                          /\ obj' = [obj EXCEPT ![n] = Fresh(th[t].now)]
                          /\ hazard' = [hazard EXCEPT ![t] = n]
                          /\ data' = n
                          /\ th' = [th EXCEPT ![t].d = n, ![t].old = data, ![t].pc = "entries"]
    BY DEF Swap
  <1>3. th[t].pc = "swap" /\ walk' = WalkOf(data) /\ UNCHANGED <<clock, mutex>>
    BY DEF Swap
  <1>4. data \in Data /\ data # n /\ obj[data].state = "used" /\ mutex = t /\ Locks(t) /\ th[t].old = Null
    BY <1>1, <1>2, <1>3 DEF Inv, Types, Installed, Fine, ExclusiveOf, Locks, Rescaling, Using
  <1>5. Frame(t) /\ th'[t].pc = "entries" /\ th'[t].d = n /\ th'[t].old = data
        /\ th'[t].now = th[t].now /\ th'[t].todo = th[t].todo
    BY <1>0, <1>2 DEF Frame, Others, Fields
  <1>6. /\ Fresh(th[t].now) \in DataType
        /\ Fresh(th[t].now).state = "used" /\ Fresh(th[t].now).landmark = th[t].now
        /\ Fresh(th[t].now).map = {} /\ Fresh(th[t].now).dead = {}
    <2>1. th[t].now \in Nat
      BY <1>0
    <2> QED  BY <2>1, FreshIs
  <1>7. /\ obj' \in [Data -> DataType]
        /\ obj'[n].state = "used" /\ obj'[n].map = {} /\ Linked(obj'[n]) = {} /\ obj'[n].landmark = th[t].now
        /\ \A d \in Data \ {n} : obj'[d] = obj[d]
    <2>2. obj' \in [Data -> DataType]
      BY <1>0, <1>2, <1>6
    <2>3. obj'[n] = Fresh(th[t].now) /\ \A d \in Data \ {n} : obj'[d] = obj[d]
      BY <1>0, <1>2
    <2> QED  BY <1>6, <2>2, <2>3 DEF Linked
  <1>8. /\ hazard' \in [Thread -> Data \cup {Null}] /\ hazard'[t] = n
        /\ \A u \in Thread \ {t} : hazard'[u] = hazard[u]
    BY <1>0, <1>2
  <1>9. walk' \in WalkType /\ walk'.ret = << >>
    BY <1>0, <1>3, <1>4, NewWalk
  <1>10. Fine(t)' /\ WeightsOf(t)'
    <2>1. TypesOf(t)'
      BY <1>0, <1>1, <1>3, <1>4, <1>5 DEF Fine, TypesOf, PCs, Using, Frame
    <2>2. ProtectedOf(t)' /\ ExclusiveOf(t)'
      BY <1>2, <1>3, <1>4, <1>5, <1>7, <1>8, DataAssumption
         DEF ProtectedOf, ExclusiveOf, Locks, Using, Rescaling, Snapping
    <2>3. WeightsOf(t)'
      <3>1. Len(walk'.ret) = 0
        BY <1>9
      <3>2. 1..Len(walk'.ret) = {}
        BY <3>1
      <3> QED  BY <1>5, <1>7, <3>2 DEF WeightsOf
    <2> QED  BY <2>1, <2>2, <2>3 DEF Fine
  <1>11. ASSUME NEW u \in Thread \ {t} PROVE Fine(u)' /\ WeightsOf(u)'
    <2>1. th'[u] = th[u] /\ Fine(u) /\ WeightsOf(u) /\ mutex # u
      BY <1>1, <1>4, <1>5 DEF Frame, Others
    <2>2. th[u].old = Null /\ th[u].pc \notin {"entries", "retire", "snap_values"}
      BY <1>4, OneWalker DEF WalkPCs, Locks
    <2>3. th[u].pc \in Using => th[u].d \in Data /\ th[u].d # n
      BY <1>2, <2>1 DEF Fine, TypesOf, ProtectedOf
    <2>4. TypesOf(u)' /\ ProtectedOf(u)'
      BY <1>3, <1>7, <1>8, <2>1, <2>3 DEF Fine, TypesOf, ProtectedOf
    <2>5. ExclusiveOf(u)'
      BY <1>2, <1>3, <2>1, <2>2, DataAssumption DEF Fine, ExclusiveOf, Locks
    <2>6. WeightsOf(u)'
      BY <1>3, <1>7, <2>1, <2>2, <2>3 DEF WeightsOf, Using
    <2> QED  BY <2>4, <2>5, <2>6 DEF Fine
  <1>12. \A u \in Thread : Fine(u)' /\ WeightsOf(u)'
    BY <1>10, <1>11
  <1>13. Types' /\ Protected' /\ Exclusive' /\ Installed'
    BY <1>0, <1>2, <1>3, <1>5, <1>7, <1>8, <1>9, <1>12 DEF Types, Fine, Protected, Exclusive, Installed, Frame
  <1>14. \A d \in Data : GoodMap(d)'
    BY <1>0, <1>3, <1>7 DEF GoodMap, Inv, Weights
  <1>15. Maps'
    <2>1. Keyed({})
      BY FS_EmptySet DEF Keyed
    <2> QED  BY <1>7, <2>1 DEF Inv, Maps
  <1>16. ErasersFindKeys'
    <2>1. \A d \in Data : obj'[d].map = obj[d].map
      BY <1>2, <1>7 DEF Inv, Maps
    <2> QED  BY <1>3, <1>5, <2>1, StillFinds
  <1> QED  BY <1>12, <1>13, <1>14, <1>15, <1>16 DEF Inv, Weights

\* An entry listed by the rescaler has its weight relative to the new landmark.
LEMMA ScaledGood ==
    ASSUME NEW l \in Nat, NEW c \in Nat, NEW now \in 0..c, NEW e \in Good(l, c)
    PROVE  <<e[1] - (now - l), e[2]>> \in Good(now, c)
  <1>1. e[1] \in Int /\ e[2] \in 0..c /\ e[1] + l - e[2] \in Draw
    BY DEF Good
  <1>2. (e[1] - (now - l)) + now - e[2] = e[1] + l - e[2]
    BY <1>1
  <1> QED  BY <1>1, <1>2 DEF Good

\* The Data before is retired, and its entries are rescaled.
LEMMA RetireOldInv ==
    ASSUME Inv, NEW t \in Thread, RetireOld(t)
    PROVE  Inv'
  <1>0. /\ DOMAIN th = Thread /\ DOMAIN th[t] = Fields /\ clock \in Nat /\ clock \in 0..MaxTime
        /\ t # Null /\ obj \in [Data -> DataType] /\ Types /\ th[t].now \in 0..clock
        /\ walk.ret \in Seq(Entry)
    BY TimeAssumption, DataAssumption DEF Inv, Types, TypesOf, WalkType
  <1>1. \A u \in Thread : Fine(u) /\ WeightsOf(u)
    BY DEF Inv, Types, Protected, Exclusive, Weights, Fine
  <1>2. PICK c \in Data : c = th[t].old
    BY <1>1 DEF RetireOld, Fine, TypesOf, ExclusiveOf
  <1>3. /\ th[t].pc = "retire" /\ c # Null /\ obj[c].state = "used" /\ th[t].d = data /\ c # data
        /\ data \in Data /\ mutex = t /\ Locks(t)
        /\ obj[th[t].d].landmark = th[t].now
        /\ \A i \in 1..Len(walk.ret) : walk.ret[i] \in Good(obj[c].landmark, clock)
    BY <1>1, <1>2, DataAssumption DEF RetireOld, Fine, TypesOf, ExclusiveOf, Locks, WeightsOf
  <1>4. UNCHANGED <<clock, data, mutex, hazard, walk>>
    BY DEF RetireOld
  <1> DEFINE todo == Rescaled(th[t])
  <1>5. /\ todo \in Seq(Entry) /\ \A i \in 1..Len(todo) : todo[i] \in Good(th[t].now, clock)
    <2> DEFINE n == Len(walk.ret)
               z == th[t].now - obj[c].landmark
    <2>1. n \in Nat /\ todo = [i \in 1..n |-> <<walk.ret[n + 1 - i][1] - z, walk.ret[n + 1 - i][2]>>]
      BY <1>0, <1>2 DEF Rescaled, Delta
    <2>2. obj[c].landmark \in Nat
      BY <1>0 DEF DataType
    <2>3. ASSUME NEW i \in 1..n
          PROVE  <<walk.ret[n + 1 - i][1] - z, walk.ret[n + 1 - i][2]>> \in Good(th[t].now, clock)
      <3>1. n + 1 - i \in 1..n
        BY <2>1
      <3>2. walk.ret[n + 1 - i] \in Good(obj[c].landmark, clock)
        BY <1>3, <3>1
      <3> QED  BY <1>0, <2>2, <3>2, ScaledGood
    <2>4. Good(th[t].now, clock) \subseteq Entry
      BY DEF Good, Entry
    <2> HIDE DEF n, z
    <2>5. todo \in [1..n -> Good(th[t].now, clock)]
      BY <2>1, <2>3
    <2> HIDE DEF todo
    <2>6. todo \in Seq(Good(th[t].now, clock))
      BY <2>1, <2>5, SeqDef
    <2>7. todo \in [1..n -> Entry]
      BY <2>4, <2>5
    <2>8. todo \in Seq(Entry)
      BY <2>1, <2>7, SeqDef
    <2> QED  BY <2>6, <2>8
  <1> HIDE DEF todo
  <1>6. th' = [th EXCEPT ![t] = After([@ EXCEPT !.todo = todo])]
    BY DEF RetireOld, todo
  <1>7. /\ Frame(t) /\ th'[t].todo = todo
        /\ th'[t].now = th[t].now /\ th'[t].d = th[t].d /\ th'[t].old = c
        /\ th'[t].pc = IF todo = << >> THEN "unlock" ELSE "count"
    BY <1>0, <1>2, <1>3, <1>6 DEF After, Frame, Others, Fields
  <1>8. /\ obj' \in [Data -> DataType] /\ obj'[c].state = "retired"
        /\ \A d \in Data : /\ obj'[d].map = obj[d].map /\ obj'[d].dead = obj[d].dead
                           /\ obj'[d].landmark = obj[d].landmark
                           /\ obj'[d].state = obj[d].state \/ d = c
    <2>1. obj' = [obj EXCEPT ![c] = [obj[c] EXCEPT !.state = "retired"]]
      BY <1>2 DEF RetireOld
    <2>2. [obj[c] EXCEPT !.state = "retired"] \in DataType
      BY <1>0 DEF DataType
    <2> QED  BY <1>0, <2>1, <2>2 DEF DataType
  <1>9. Fine(t)' /\ WeightsOf(t)'
    <2>1. TypesOf(t)'
      BY <1>1, <1>4, <1>5, <1>7 DEF Fine, TypesOf, PCs, Using, Frame
    <2>2. ProtectedOf(t)' /\ ExclusiveOf(t)'
      BY <1>1, <1>3, <1>4, <1>7, <1>8 DEF Fine, ProtectedOf, ExclusiveOf, Locks, Using, Rescaling, Snapping
    <2>3. WeightsOf(t)'
      BY <1>3, <1>4, <1>5, <1>7, <1>8 DEF WeightsOf
    <2> QED  BY <2>1, <2>2, <2>3 DEF Fine
  <1>10. ASSUME NEW u \in Thread \ {t} PROVE Fine(u)' /\ WeightsOf(u)'
    <2>1. th'[u] = th[u] /\ Fine(u) /\ WeightsOf(u) /\ mutex # u
      BY <1>1, <1>3, <1>7 DEF Frame, Others
    <2>2. th[u].old = Null /\ th[u].pc \notin {"entries", "retire", "snap_values"}
      BY <1>3, OneWalker DEF WalkPCs, Locks
    <2>3. th[u].pc \in Using => th[u].d \in Data
      BY <2>1 DEF Fine, TypesOf, ProtectedOf
    <2>4. TypesOf(u)' /\ ProtectedOf(u)'
      BY <1>4, <1>8, <2>1, <2>3 DEF Fine, TypesOf, ProtectedOf
    <2>5. ExclusiveOf(u)'
      BY <1>4, <2>1, <2>2 DEF Fine, ExclusiveOf, Locks
    <2>6. WeightsOf(u)'
      BY <1>4, <1>8, <2>1, <2>2, <2>3 DEF WeightsOf, Using
    <2> QED  BY <2>4, <2>5, <2>6 DEF Fine
  <1>11. \A u \in Thread : Fine(u)' /\ WeightsOf(u)'
    BY <1>9, <1>10
  <1>12. Types' /\ Protected' /\ Exclusive' /\ Installed'
    BY <1>0, <1>3, <1>4, <1>7, <1>8, <1>11 DEF Types, Fine, Protected, Exclusive, Installed, Frame, Inv
  <1>13. \A d \in Data : GoodMap(d)'
    BY <1>4, <1>8 DEF GoodMap, Linked, Inv, Weights
  <1>14. Maps'
    BY <1>8 DEF Inv, Maps, Linked
  <1>15. ErasersFindKeys'
    BY <1>3, <1>7, <1>8, StillFinds
  <1> QED  BY <1>11, <1>12, <1>13, <1>14, <1>15 DEF Inv, Weights

-----------------------------------------------------------------------------
(* Reclamation, time, the destructor *)

\* A retired Data without a hazard is used by nobody.
LEMMA ReclaimInv ==
    ASSUME Inv, NEW c \in Data, Reclaim(c)
    PROVE  Inv'
  <1>0. obj \in [Data -> DataType] /\ Types /\ clock \in Nat
    BY TimeAssumption DEF Inv, Types
  <1>1. \A u \in Thread : Fine(u) /\ WeightsOf(u)
    BY DEF Inv, Types, Protected, Exclusive, Weights, Fine
  <1>2. obj[c].state = "retired" /\ (\A u \in Thread : hazard[u] # c) /\ obj' = [obj EXCEPT ![c] = NoData]
    BY DEF Reclaim
  <1>3. UNCHANGED <<clock, data, mutex, hazard, th, walk>>
    BY DEF Reclaim
  <1>4. /\ NoData \in DataType /\ NoData.state = "free" /\ NoData.map = {} /\ Linked(NoData) = {} /\ NoData.landmark = 0
    BY DEF NoData, DataType, Linked
  <1>5. obj' \in [Data -> DataType] /\ obj'[c] = NoData /\ \A d \in Data \ {c} : obj'[d] = obj[d]
    BY <1>0, <1>2, <1>4
  <1>6. \A u \in Thread : /\ th[u].pc \in Using => th[u].d \in Data \ {c}
                          /\ th[u].old # Null => th[u].d \in Data \ {c}
                          /\ th[u].pc \in {"entries", "retire"} => th[u].old \in Data \ {c}
    BY <1>1, <1>2 DEF Fine, TypesOf, ProtectedOf, ExclusiveOf, Rescaling, Using
  <1>7. ASSUME NEW u \in Thread PROVE Fine(u)' /\ WeightsOf(u)'
    <2>1. TypesOf(u)' /\ ProtectedOf(u)'
      BY <1>1, <1>3, <1>5, <1>6 DEF Fine, TypesOf, ProtectedOf
    <2>2. ExclusiveOf(u)'
      BY <1>1, <1>3, <1>5, <1>6 DEF Fine, ExclusiveOf, Locks
    <2>3. WeightsOf(u)'
      BY <1>1, <1>3, <1>5, <1>6 DEF WeightsOf, Using
    <2> QED  BY <2>1, <2>2, <2>3 DEF Fine
  <1>8. Types' /\ Protected' /\ Exclusive'
    BY <1>0, <1>3, <1>5, <1>7 DEF Types, Fine, Protected, Exclusive
  <1>9. Installed'
    BY <1>0, <1>2, <1>3, <1>5 DEF Installed, Inv, Types
  <1>10. \A d \in Data : GoodMap(d)'
    BY <1>0, <1>3, <1>4, <1>5 DEF GoodMap, Inv, Weights
  <1>11. Maps'
    <2>1. Keyed({})
      BY FS_EmptySet DEF Keyed
    <2> QED  BY <1>4, <1>5, <2>1 DEF Inv, Maps
  <1>12. ErasersFindKeys'
    <2>1. Erasers(c) = {}
      BY <1>6 DEF Erasers, Using
    <2>2. \A d \in Data : Erasers(d)' = Erasers(d)
      BY <1>3 DEF Erasers
    <2>3. Cardinality(obj'[c].map) = 0 /\ Cardinality(Erasers(c)) = 0
      BY <1>4, <1>5, <2>1, FS_EmptySet
    <2>4. ASSUME NEW d \in Data PROVE Cardinality(obj'[d].map) >= Cardinality(Erasers(d)')
      <3>1. CASE d = c
        <4>1. Cardinality(Erasers(d)') = 0 /\ Cardinality(obj'[d].map) = 0
          BY <2>2, <2>3, <3>1
        <4> QED  BY <4>1
      <3>2. CASE d # c
        BY <1>5, <2>2, <3>2 DEF Inv, ErasersFindKeys
      <3> QED  BY <3>1, <3>2
    <2> QED  BY <2>4 DEF ErasersFindKeys
  <1> QED  BY <1>7, <1>8, <1>9, <1>10, <1>11, <1>12 DEF Inv, Weights

\* Time passes.
LEMMA TickInv ==
    ASSUME Inv, Tick
    PROVE  Inv'
  <1>1. clock \in Nat /\ clock' = clock + 1 /\ clock' \in 0..MaxTime
    BY TimeAssumption DEF Tick, Inv, Types
  <1>2. UNCHANGED <<data, mutex, hazard, th, walk, obj>>
    BY DEF Tick, memory
  <1>3. Types'
    BY <1>1, <1>2 DEF Inv, Types, TypesOf
  <1>4. Protected' /\ Exclusive' /\ Installed' /\ Maps'
    BY <1>2 DEF Inv, Protected, ProtectedOf, Exclusive, ExclusiveOf, Locks, Installed, Maps
  <1>5. ErasersFindKeys'
    BY <1>2 DEF Inv, ErasersFindKeys, Erasers
  <1>6. \A l : Good(l, clock) \subseteq Good(l, clock')
    BY <1>1, GoodLater
  <1>7. \A d \in Data : GoodMap(d)'
    BY <1>1, <1>2, <1>6 DEF Inv, Weights, GoodMap
  <1>8. \A u \in Thread : WeightsOf(u)'
    BY <1>2, <1>6 DEF Inv, Weights, WeightsOf
  <1> QED  BY <1>3, <1>4, <1>5, <1>7, <1>8 DEF Inv, Weights

\* The destructor runs when no call is under way.
LEMMA DestroyInv ==
    ASSUME Inv, Destroy
    PROVE  Inv'
  <1>0. obj \in [Data -> DataType] /\ Types
    BY DEF Inv, Types
  <1>1. \A u \in Thread : Fine(u) /\ WeightsOf(u)
    BY DEF Inv, Types, Protected, Exclusive, Weights, Fine
  <1>2. PICK c \in Data : c = data
    BY DEF Destroy, Inv, Types
  <1>3. /\ \A u \in Thread : th[u].pc = "idle" /\ th[u].old = Null
        /\ obj' = [obj EXCEPT ![c] = [obj[c] EXCEPT !.state = "retired"]] /\ data' = Null
        /\ UNCHANGED <<clock, mutex, hazard, th, walk>>
    BY <1>1, <1>2 DEF Destroy, Fine, ExclusiveOf, Rescaling, Using
  <1>4. [obj[c] EXCEPT !.state = "retired"] \in DataType
    BY <1>0 DEF DataType
  <1>5. /\ obj' \in [Data -> DataType]
        /\ \A d \in Data : /\ obj'[d].map = obj[d].map /\ obj'[d].dead = obj[d].dead
                           /\ obj'[d].landmark = obj[d].landmark
                           /\ obj'[d].state = obj[d].state \/ obj'[d].state = "retired"
    BY <1>0, <1>3, <1>4 DEF DataType
  <1>6. \A u \in Thread : Fine(u)' /\ WeightsOf(u)'
    BY <1>1, <1>3 DEF Fine, TypesOf, ProtectedOf, ExclusiveOf, Locks, WeightsOf, Using, Rescaling, Snapping
  <1>7. Types' /\ Protected' /\ Exclusive' /\ Installed'
    BY <1>0, <1>3, <1>5, <1>6 DEF Types, Fine, Protected, Exclusive, Installed
  <1>8. (\A d \in Data : GoodMap(d)') /\ Maps'
    BY <1>3, <1>5 DEF Inv, Weights, GoodMap, Linked, Maps
  <1>9. ErasersFindKeys'
    BY <1>3, <1>5 DEF Inv, ErasersFindKeys, Erasers
  <1> QED  BY <1>6, <1>7, <1>8, <1>9 DEF Inv, Weights

-----------------------------------------------------------------------------
(* The invariant, and the first theorems *)

\* At the start nobody does anything.
LEMMA Initially == Init => Inv
  <1> SUFFICES ASSUME Init PROVE Inv
    OBVIOUS
  <1>1. /\ data \in Data /\ clock = 0 /\ mutex = Null /\ walk = NoWalk
        /\ hazard = [t \in Thread |-> Null] /\ th = [t \in Thread |-> Idle]
        /\ obj = [d \in Data |-> IF d = data THEN Fresh(0) ELSE NoData]
    BY DataAssumption DEF Init
  <1>2. /\ NoData \in DataType /\ NoData.state = "free" /\ NoData.map = {} /\ NoData.dead = {} /\ NoData.landmark = 0
    BY DEF NoData, DataType
  <1>3. /\ Fresh(0) \in DataType /\ Fresh(0).state = "used" /\ Fresh(0).map = {} /\ Fresh(0).dead = {}
        /\ Fresh(0).landmark = 0
    BY FreshIs
  <1>4. /\ obj \in [Data -> DataType] /\ obj[data].state = "used"
        /\ \A d \in Data : obj[d].map = {} /\ Linked(obj[d]) = {} /\ obj[d].landmark = 0
    BY <1>1, <1>2, <1>3 DEF Linked
  <1>5. << >> \in Seq(Entry)
    OBVIOUS
  <1>6. NoWalk \in WalkType
    BY <1>5, HeadIs DEF NoWalk, WalkType
  <1>7. ASSUME NEW t \in Thread PROVE Fine(t) /\ WeightsOf(t)
    <2>1. th[t] = Idle
      BY <1>1
    <2>2. TypesOf(t)
      <3>1. DOMAIN Idle = Fields
        BY DEF Idle, Fields
      <3>2. Idle.pc \in PCs /\ Idle.now = 0 /\ Idle.d = Null /\ Idle.old = Null /\ Idle.todo = << >>
        BY DEF Idle, PCs
      <3>3. 0 \in 0..clock
        BY <1>1
      <3> QED  BY <1>5, <2>1, <3>1, <3>2, <3>3 DEF TypesOf
    <2>3. ProtectedOf(t) /\ ExclusiveOf(t) /\ WeightsOf(t)
      BY <1>1, <2>1, DataAssumption DEF ProtectedOf, ExclusiveOf, WeightsOf, Locks, Idle, Using, Rescaling, Snapping
    <2> QED  BY <2>2, <2>3 DEF Fine
  <1>8. Types
    BY <1>1, <1>4, <1>6, <1>7, TimeAssumption DEF Types, Fine
  <1>9. Protected /\ Exclusive /\ Installed
    BY <1>4, <1>7 DEF Fine, Protected, Exclusive, Installed
  <1>10. (\A d \in Data : GoodMap(d)) /\ Maps
    <2>1. Keyed({})
      BY FS_EmptySet DEF Keyed
    <2>2. 0 \in 0..clock
      BY <1>1
    <2>3. \A d \in Data : GoodMap(d)
      BY <1>4, <2>2 DEF GoodMap
    <2> QED  BY <1>4, <2>1, <2>3 DEF Maps
  <1>11. ErasersFindKeys
    <2>1. \A d \in Data : Erasers(d) = {}
      BY <1>1 DEF Erasers, Idle
    <2>2. Cardinality({}) = 0
      BY FS_EmptySet
    <2>3. \A d \in Data : Cardinality(obj[d].map) = 0 /\ Cardinality(Erasers(d)) = 0
      BY <1>4, <2>1, <2>2
    <2> QED  BY <2>3 DEF ErasersFindKeys
  <1> QED  BY <1>7, <1>8, <1>9, <1>10, <1>11 DEF Inv, Weights

\* Nothing happens.
LEMMA StutterInv == Inv /\ UNCHANGED vars => Inv'
  <1> SUFFICES ASSUME Inv, UNCHANGED vars PROVE Inv'
    OBVIOUS
  <1>1. UNCHANGED <<clock, data, obj, mutex, hazard, th, walk>>
    BY DEF vars, memory
  <1> QED  BY <1>1 DEF Inv, Types, TypesOf, Protected, ProtectedOf, Exclusive, ExclusiveOf, Locks, Installed,
                       Weights, WeightsOf, GoodMap, Maps, ErasersFindKeys, Erasers

\* The kinds of steps.
LEMMA NextKinds ==
    ASSUME Next
    PROVE  \/ \E t \in Thread : LocalStep(t) \/ WalkStep(t) \/ MapStep(t) \/ HazardStep(t) \/ MutexStep(t)
                                \/ TakeCount(t) \/ Swap(t) \/ RetireOld(t)
           \/ \E d \in Data : Reclaim(d)
           \/ Tick \/ Destroy
  BY DEF Next, Step, LocalStep, WalkStep, MapStep, HazardStep, MutexStep

\* Each keeps the invariant.
LEMMA InvStep == Inv /\ [Next]_vars => Inv'
  BY StutterInv, NextKinds, LocalStepInv, WalkStepInv, MapStepInv, HazardStepInv, MutexStepInv, TakeCountInv, SwapInv,
     RetireOldInv, ReclaimInv, TickInv, DestroyInv

\* The invariant always holds.
LEMMA Invariance == Spec => []Inv
  BY Initially, InvStep, PTL DEF Spec

\* An update, the rescaler and a snapshot work on Data objects that have not been deleted,
\* and a snapshot on the current one; the mutex has the thread between lock and unlock.
THEOREM UsedStaysAllocated == Spec => []UsedIsAllocated
  <1>1. Inv => UsedIsAllocated
    <2> SUFFICES ASSUME Inv PROVE UsedIsAllocated
      OBVIOUS
    <2>1. ASSUME NEW d \in Data
          PROVE  /\ obj[d].state \in {"free", "used", "retired"} /\ obj[d].count \in Nat
                 /\ \A e \in Linked(obj[d]) : e[1] > Bottom /\ e[2] \in 0..clock
      <3>1. obj[d] \in DataType /\ clock \in 0..MaxTime
        BY DEF Inv, Types
      <3>2. obj[d].landmark \in 0..clock /\ Linked(obj[d]) \subseteq Good(obj[d].landmark, clock)
        BY DEF Inv, Weights, GoodMap
      <3>3. \A e \in Linked(obj[d]) : e[1] > Bottom
        BY <3>1, <3>2, GoodAbove
      <3>4. \A e \in Linked(obj[d]) : e[2] \in 0..clock
        BY <3>2 DEF Good
      <3> QED  BY <3>1, <3>3, <3>4 DEF DataType
    <2>2. \A t \in Thread : (mutex = t) <=> (th[t].old # Null \/ th[t].pc \in {"swap", "snap", "snap_values", "snap_sort", "snap_unlock"})
      BY DEF Inv, Exclusive, ExclusiveOf, Locks, Snapping
    <2>3. TypeOK
      BY <2>1, <2>2 DEF TypeOK, Inv, Types
    <2>4. \A t \in Thread :
            /\ th[t].pc \in {"count", "insert", "first", "replace", "erase", "sweep"} => obj[th[t].d].state # "free"
            /\ th[t].pc = "entries" => obj[th[t].old].state = "used"
            /\ th[t].pc = "snap_values" => th[t].d = data
      BY DEF Inv, Protected, ProtectedOf, Exclusive, ExclusiveOf, Using
    <2> QED  BY <2>3, <2>4 DEF UsedIsAllocated
  <1> QED  BY <1>1, Invariance, PTL

\* Every thread that makes room finds a key to erase.
THEOREM ErasersAlwaysFindKeys == Spec => []ErasersFindKeys
  <1>1. Inv => ErasersFindKeys
    BY DEF Inv
  <1> QED  BY <1>1, Invariance, PTL

\* A sample keeps, relative to the landmark of its Data, the priority of the time it was taken
\* at, through rescales and whatever the update did since it read the clock.
THEOREM WeightsStayKept == Spec => []WeightsKept
  <1>1. Inv => WeightsKept
    BY DEF Inv, Weights, GoodMap, Good, Linked, WeightsKept
  <1> QED  BY <1>1, Invariance, PTL

-----------------------------------------------------------------------------
(* The statistics of a sorted vector *)

\* Products grow with their factors.
LEMMA ProductMono ==
    ASSUME NEW a \in Int, NEW b \in Int, NEW c \in Nat, a <= b
    PROVE  a * c \in Int /\ b * c \in Int /\ a * c <= b * c
  OBVIOUS

\* A common positive factor can be dropped from both sides of an inequality,
LEMMA ProductCancel ==
    ASSUME NEW a \in Int, NEW b \in Int, NEW c \in Nat \ {0}, a * c <= b * c
    PROVE  a <= b
  OBVIOUS

\* and of a strict one.
LEMMA ProductCancelLess ==
    ASSUME NEW a \in Int, NEW b \in Int, NEW c \in Nat \ {0}, a * c < b * c
    PROVE  a < b
  OBVIOUS

\* Division rounds down.
LEMMA Quotient ==
    ASSUME NEW w \in Nat, NEW c \in Nat \ {0}
    PROVE  w \div c \in Nat /\ (w \div c) * c <= w /\ w < (w \div c + 1) * c
  OBVIOUS

\* The vector is sorted.
Ascending(vs) == \A i, j \in 1..Len(vs) : i < j => vs[i] <= vs[j]

\* The values by position.
LEMMA AtType ==
    ASSUME NEW vs \in Seq(Nat)
    PROVE  At(vs) \in [Nat -> Nat] /\ \A k \in Nat : k < Len(vs) => At(vs)[k] = vs[k + 1]
  BY DEF At

\* A sum of n values is between n times a lower and n times an upper bound of them.
LEMMA SumBounds ==
    ASSUME NEW f \in [Nat -> Nat], NEW n \in Nat, NEW lo \in Nat, NEW hi \in Nat,
           \A k \in Nat : k < n => lo <= f[k] /\ f[k] <= hi
    PROVE  n * lo <= SumBelow(f, n) /\ SumBelow(f, n) <= n * hi
  <1> DEFINE T == {k \in Nat : k <= n => k * lo <= SumBelow(f, k) /\ SumBelow(f, k) <= k * hi}
  <1>1. 0 \in T
    BY SumSteps
  <1>2. ASSUME NEW k \in Nat, k \in T
        PROVE  k + 1 \in T
    <2> SUFFICES ASSUME k + 1 <= n
                 PROVE  (k + 1) * lo <= SumBelow(f, k + 1) /\ SumBelow(f, k + 1) <= (k + 1) * hi
      OBVIOUS
    <2>1. SumBelow(f, k + 1) = SumBelow(f, k) + f[k] /\ SumBelow(f, k) \in Nat /\ f[k] \in Nat
      BY SumSteps, SumType
    <2>2. k * lo <= SumBelow(f, k) /\ SumBelow(f, k) <= k * hi /\ lo <= f[k] /\ f[k] <= hi
      BY <1>2
    <2>3. (k + 1) * lo = k * lo + lo /\ (k + 1) * hi = k * hi + hi
      OBVIOUS
    <2>4. k * lo \in Nat /\ k * hi \in Nat
      OBVIOUS
    <2> QED  BY <2>1, <2>2, <2>3, <2>4
  <1> HIDE DEF T
  <1>3. n \in T
    BY <1>1, <1>2, Induction
  <1> QED  BY <1>3 DEF T

\* The sum s of n values between a and b, and the scaled mean.
Between(n, s, a, b) == n * a <= s /\ s <= n * b

\* The scaled mean, rounded down, lies between the bounds of the values (Snapshot::mean).
LEMMA MeanBetween ==
    ASSUME NEW n \in Nat \ {0}, NEW s \in Nat, NEW a \in Nat, NEW b \in Nat, Between(n, s, a, b)
    PROVE  (1000 * s) \div n \in (1000 * a)..(1000 * b)
  <1>1. PICK w \in Nat : w = 1000 * s
    OBVIOUS
  <1>2. PICK m \in Nat : m = w \div n
    BY Quotient
  <1>3. m * n <= w /\ w < (m + 1) * n
    BY <1>2, Quotient
  <1>4. PICK c \in Nat, d \in Nat : c = 1000 * a /\ d = 1000 * b
    OBVIOUS
  <1>5. c * n <= w /\ w <= d * n
    BY <1>1, <1>4 DEF Between
  <1>6. c * n < (m + 1) * n /\ m * n <= d * n
    <2>1. c * n \in Int /\ d * n \in Int /\ m * n \in Int /\ (m + 1) * n \in Int
      OBVIOUS
    <2> QED  BY <1>3, <1>5, <2>1
  <1>7. c < m + 1 /\ m <= d
    BY <1>6, ProductCancel, ProductCancelLess
  <1> QED  BY <1>1, <1>2, <1>4, <1>7

\* mean() lies between min() and max().
LEMMA MeanInRange ==
    ASSUME NEW vs \in Seq(Nat), Ascending(vs)
    PROVE  MeanOf(vs) \in (Scale * MinOf(vs))..(Scale * MaxOf(vs))
  <1>1. CASE vs = << >>
    BY <1>1 DEF MeanOf, MinOf, MaxOf, Scale
  <1>2. CASE vs # << >>
    <2>1. PICK n \in Nat \ {0} : n = Len(vs)
      BY <1>2, EmptySeq
    <2>2. vs[1] \in Nat /\ vs[n] \in Nat
      BY <2>1
    <2>3. \A k \in Nat : k < n => vs[1] <= At(vs)[k] /\ At(vs)[k] <= vs[n]
      <3> SUFFICES ASSUME NEW k \in Nat, k < n
                   PROVE  vs[1] <= At(vs)[k] /\ At(vs)[k] <= vs[n]
        OBVIOUS
      <3>1. k + 1 \in 1..Len(vs) /\ vs[k + 1] \in Nat
        BY <2>1
      <3>2. At(vs)[k] = vs[k + 1]
        BY <2>1, AtType
      <3> QED  BY <2>1, <2>2, <3>1, <3>2 DEF Ascending
    <2>4. PICK s \in Nat : s = SumBelow(At(vs), n)
      BY AtType, SumType
    <2>5. n * vs[1] <= s /\ s <= n * vs[n]
      BY <2>2, <2>3, <2>4, AtType, SumBounds
    <2>6. (1000 * s) \div n \in (1000 * vs[1])..(1000 * vs[n])
      <3>1. PICK a \in Nat, b \in Nat : a = vs[1] /\ b = vs[n]
        BY <2>2
      <3>2. Between(n, s, a, b)
        BY <2>5, <3>1 DEF Between
      <3>3. (1000 * s) \div n \in (1000 * a)..(1000 * b)
        BY <3>2, MeanBetween
      <3> QED  BY <3>1, <3>3
    <2>7. MeanOf(vs) = (1000 * s) \div n /\ MinOf(vs) = vs[1] /\ MaxOf(vs) = vs[n]
      BY <1>2, <2>1, <2>4 DEF MeanOf, MinOf, MaxOf, SumOf, Scale
    <2> QED  BY <2>6, <2>7 DEF Scale
  <1> QED  BY <1>1, <1>2

\* What valueAt returns at a scaled position in the vector.
Interpolated(vs, idx) ==
    IF idx < 1000 THEN 1000 * vs[1]
    ELSE IF idx >= 1000 * Len(vs) THEN 1000 * vs[Len(vs)]
    ELSE 1000 * vs[idx \div 1000] + (idx % 1000) * (vs[idx \div 1000 + 1] - vs[idx \div 1000])

\* valueAt looks at the position that belongs to the quantile.
LEMMA ValueAtIs ==
    ASSUME NEW vs \in Seq(Nat), vs # << >>, NEW quantile \in Nat
    PROVE  ValueAt(vs, quantile) = Interpolated(vs, quantile * (Len(vs) + 1))
  <1>1. PICK n \in Nat \ {0} : n = Len(vs)
    BY EmptySeq
  <1>2. PICK idx \in Nat : idx = quantile * (n + 1)
    OBVIOUS
  <1>3. Scale = 1000 /\ n # 0 /\ (idx < 1000 => ~(idx >= 1000 * n))
    BY <1>1 DEF Scale
  <1> QED  BY <1>1, <1>2, <1>3 DEF ValueAt, Fraction, Interpolated

\* Between two neighbours the interpolation ascends with the fraction.
Part(a, b, f) == f * (b - a)

Below(a, b, c) == 1000 * a + c <= 1000 * b

\* What is added for a fraction below 1 does not pass the next neighbour,
LEMMA FractionBetween ==
    \A a, b, f \in Nat : a <= b /\ f < 1000 => Part(a, b, f) \in Nat /\ Below(a, b, Part(a, b, f))
  <1> SUFFICES ASSUME NEW a \in Nat, NEW b \in Nat, NEW f \in Nat, a <= b, f < 1000
               PROVE  Part(a, b, f) \in Nat /\ 1000 * a + Part(a, b, f) <= 1000 * b
    BY DEF Below
  <1>1. PICK d \in Nat : d = b - a
    OBVIOUS
  <1>2. f * d \in Nat /\ f * d <= 1000 * d
    BY ProductMono
  <1> QED  BY <1>1, <1>2 DEF Part

\* and grows with the fraction.
LEMMA FractionMono ==
    \A a, b, f, g \in Nat : a <= b /\ f <= g => Part(a, b, f) <= Part(a, b, g)
  <1> SUFFICES ASSUME NEW a \in Nat, NEW b \in Nat, NEW f \in Nat, NEW g \in Nat, a <= b, f <= g
               PROVE  Part(a, b, f) <= Part(a, b, g)
    OBVIOUS
  <1>1. PICK d \in Nat : d = b - a
    OBVIOUS
  <1>2. f * d <= g * d
    BY ProductMono
  <1> QED  BY <1>1, <1>2 DEF Part

\* Where the position is in the vector.
LEMMA Position ==
    ASSUME NEW n \in Nat, NEW idx \in Nat, idx >= 1000, idx < 1000 * n
    PROVE  /\ idx \div 1000 \in 1..n /\ idx \div 1000 + 1 \in 1..n
           /\ idx % 1000 \in Nat /\ idx % 1000 < 1000
  OBVIOUS

\* The position is within the vector.
Inside(n, idx) == idx >= 1000 /\ idx < 1000 * n

\* valueAt within the vector lies between the neighbours of the position.
InterpolatedAt(vs, idx, h, f) ==
    /\ h \in 1..Len(vs) /\ h + 1 \in 1..Len(vs)
    /\ Interpolated(vs, idx) = 1000 * vs[h] + Part(vs[h], vs[h + 1], f)
    /\ Interpolated(vs, idx) \in Nat
    /\ 1000 * vs[h] <= Interpolated(vs, idx)
    /\ Interpolated(vs, idx) <= 1000 * vs[h + 1]

\* That is so for every position within a sorted vector.
LEMMA InterpolatedInside ==
    ASSUME NEW vs \in Seq(Nat), Ascending(vs), NEW idx \in Nat, Inside(Len(vs), idx)
    PROVE  \E h, f \in Nat : /\ h = idx \div 1000 /\ f = idx % 1000 /\ f < 1000
                             /\ InterpolatedAt(vs, idx, h, f)
  <1>1. PICK n \in Nat : n = Len(vs)
    OBVIOUS
  <1>2. PICK h \in Nat, f \in Nat : h = idx \div 1000 /\ f = idx % 1000 /\ f < 1000
    BY <1>1, Position DEF Inside
  <1>3. h \in 1..n /\ h + 1 \in 1..n
    BY <1>1, <1>2, Position DEF Inside
  <1>4. PICK a \in Nat, b \in Nat : a = vs[h] /\ b = vs[h + 1]
    BY <1>1, <1>3
  <1>5. a <= b
    BY <1>1, <1>3, <1>4 DEF Ascending
  <1>6. Part(a, b, f) \in Nat /\ Below(a, b, Part(a, b, f))
    <2>1. f < 1000
      BY <1>2
    <2> QED  BY ZenonT(60), <1>5, <2>1, FractionBetween
  <1>7. Interpolated(vs, idx) = 1000 * a + Part(a, b, f)
    BY <1>1, <1>2, <1>4 DEF Interpolated, Part, Inside
  <1>8. /\ 1000 * a + Part(a, b, f) \in Nat /\ 1000 * a <= 1000 * a + Part(a, b, f)
        /\ 1000 * a + Part(a, b, f) <= 1000 * b
    BY <1>6 DEF Below
  <1>9. InterpolatedAt(vs, idx, h, f)
    BY <1>1, <1>3, <1>4, <1>7, <1>8 DEF InterpolatedAt
  <1> QED  BY <1>2, <1>9

\* valueAt ascends with the position.
LEMMA InterpolatedMono ==
    ASSUME NEW vs \in Seq(Nat), vs # << >>, Ascending(vs), NEW i \in Nat, NEW j \in Nat, i <= j
    PROVE  Interpolated(vs, i) <= Interpolated(vs, j)
  <1>1. PICK n \in Nat \ {0} : n = Len(vs)
    BY EmptySeq
  <1>2. \A k \in 1..n : vs[k] \in Nat /\ vs[1] <= vs[k] /\ vs[k] <= vs[n]
    BY <1>1 DEF Ascending
  <1>3. CASE i < 1000
    <2>1. Interpolated(vs, i) = 1000 * vs[1]
      BY <1>3 DEF Interpolated
    <2>2. CASE j < 1000
      BY <2>1, <2>2, <1>2, <1>1 DEF Interpolated
    <2>3. CASE j >= 1000 /\ j >= 1000 * n
      BY <2>1, <2>3, <1>1, <1>2 DEF Interpolated
    <2>4. CASE j >= 1000 /\ j < 1000 * n
      <3>1. PICK h \in Nat, f \in Nat : InterpolatedAt(vs, j, h, f)
        BY <1>1, <2>4, InterpolatedInside DEF Inside
      <3>2. h \in 1..n /\ 1000 * vs[h] <= Interpolated(vs, j) /\ Interpolated(vs, j) \in Nat
        BY <1>1, <3>1 DEF InterpolatedAt
      <3> QED  BY <1>1, <1>2, <2>1, <3>1, <3>2
    <2> QED  BY <2>2, <2>3, <2>4
  <1>4. CASE i >= 1000 /\ i >= 1000 * n
    BY <1>1, <1>2, <1>4 DEF Interpolated
  <1>5. CASE i >= 1000 /\ i < 1000 * n
    <2>1. PICK h \in Nat, e \in Nat : /\ h = i \div 1000 /\ e = i % 1000 /\ e < 1000
                                      /\ InterpolatedAt(vs, i, h, e)
      BY <1>1, <1>5, InterpolatedInside DEF Inside
    <2>2. /\ h \in 1..n /\ h + 1 \in 1..n
          /\ Interpolated(vs, i) <= 1000 * vs[h + 1] /\ Interpolated(vs, i) \in Nat
      BY <1>1, <2>1 DEF InterpolatedAt
    <2>3. CASE j >= 1000 * n
      <3>1. Interpolated(vs, j) = 1000 * vs[n]
        BY <1>1, <1>5, <2>3 DEF Interpolated
      <3> QED  BY SMTT(40), <1>1, <1>2, <2>2, <3>1
    <2>4. CASE j < 1000 * n
      <3>1. PICK k \in Nat, f \in Nat : /\ k = j \div 1000 /\ f = j % 1000 /\ f < 1000
                                        /\ InterpolatedAt(vs, j, k, f)
        BY <1>1, <1>5, <2>4, InterpolatedInside DEF Inside
      <3>2. /\ k \in 1..n /\ k + 1 \in 1..n
            /\ 1000 * vs[k] <= Interpolated(vs, j) /\ Interpolated(vs, j) \in Nat
        BY <1>1, <3>1 DEF InterpolatedAt
      <3>3. h <= k /\ (h = k => e <= f)
        BY <2>1, <3>1
      <3>4. CASE h < k
        <4>1. vs[h + 1] <= vs[k] /\ vs[h + 1] \in Nat /\ vs[k] \in Nat
          BY <1>1, <1>2, <2>2, <3>2, <3>4 DEF Ascending
        <4> QED  BY SMTT(40), <2>2, <3>2, <4>1
      <3>5. CASE h = k
        <4>1. PICK a \in Nat, b \in Nat : a = vs[h] /\ b = vs[h + 1]
          BY SMTT(40), <1>2, <2>2
        <4>2. a <= b
          BY <1>1, <2>2, <4>1 DEF Ascending
        <4>3. e <= f /\ e < 1000 /\ f < 1000
          BY <2>1, <3>1, <3>3, <3>5
        <4>4. Part(a, b, e) \in Nat /\ Part(a, b, f) \in Nat /\ Part(a, b, e) <= Part(a, b, f)
          BY ZenonT(60), <4>2, <4>3, FractionBetween, FractionMono
        <4>5. /\ Interpolated(vs, i) = 1000 * a + Part(a, b, e)
              /\ Interpolated(vs, j) = 1000 * a + Part(a, b, f)
          <5>1. InterpolatedAt(vs, i, h, e)
            BY <2>1
          <5>2. InterpolatedAt(vs, j, h, f)
            BY <3>1, <3>5
          <5> QED  BY <4>1, <5>1, <5>2 DEF InterpolatedAt
        <4> QED  BY <4>4, <4>5
      <3> QED  BY <3>3, <3>4, <3>5
    <2> QED  BY <1>1, <2>3, <2>4
  <1> QED  BY <1>1, <1>3, <1>4, <1>5

\* valueAt of the quantiles the accessors use ascends from min() to max().
LEMMA QuantilesAscend ==
    ASSUME NEW vs \in Seq(Nat), Ascending(vs)
    PROVE  /\ ValueAt(vs, 0) = Scale * MinOf(vs) /\ ValueAt(vs, 1000) = Scale * MaxOf(vs)
           /\ \A i \in 1..6 : ValueAt(vs, Tiles[i]) <= ValueAt(vs, Tiles[i + 1])
  <1>0. \A i \in 1..6 : Tiles[i] \in Nat /\ Tiles[i + 1] \in Nat /\ Tiles[i] <= Tiles[i + 1]
    BY SMTT(40) DEF Tiles
  <1>1. CASE vs = << >>
    BY <1>1 DEF ValueAt, MinOf, MaxOf, Scale
  <1>2. CASE vs # << >>
    <2>1. PICK n \in Nat \ {0} : n = Len(vs)
      BY <1>2, EmptySeq
    <2>2. ASSUME NEW p \in Nat, NEW q \in Nat, p <= q
          PROVE  ValueAt(vs, p) <= ValueAt(vs, q)
      <3>1. PICK i \in Nat, j \in Nat : i = p * (n + 1) /\ j = q * (n + 1)
        OBVIOUS
      <3>2. i <= j
        <4>1. n + 1 \in Nat /\ p \in Int /\ q \in Int
          OBVIOUS
        <4> QED  BY <2>2, <3>1, <4>1, ProductMono
      <3>3. ValueAt(vs, p) = Interpolated(vs, i) /\ ValueAt(vs, q) = Interpolated(vs, j)
        BY <1>2, <2>1, <3>1, ValueAtIs
      <3> QED  BY <1>2, <3>2, <3>3, InterpolatedMono
    <2>3. ValueAt(vs, 0) = 1000 * vs[1]
      <3>1. 0 * (n + 1) = 0
        OBVIOUS
      <3>2. ValueAt(vs, 0) = Interpolated(vs, 0)
        BY <1>2, <2>1, <3>1, ValueAtIs
      <3> QED  BY <3>2 DEF Interpolated
    <2>4. ValueAt(vs, 1000) = 1000 * vs[n]
      <3>1. ValueAt(vs, 1000) = Interpolated(vs, 1000 * (n + 1))
        BY <1>2, <2>1, ValueAtIs
      <3>2. ~(1000 * (n + 1) < 1000) /\ 1000 * (n + 1) >= 1000 * n
        OBVIOUS
      <3> QED  BY <2>1, <3>1, <3>2 DEF Interpolated
    <2>5. MinOf(vs) = vs[1] /\ MaxOf(vs) = vs[n] /\ Scale = 1000
      BY <1>2, <2>1 DEF MinOf, MaxOf, Scale
    <2>6. ASSUME NEW i \in 1..6
          PROVE  ValueAt(vs, Tiles[i]) <= ValueAt(vs, Tiles[i + 1])
      <3>1. PICK p \in Nat, q \in Nat : p = Tiles[i] /\ q = Tiles[i + 1]
        BY <1>0
      <3>2. p <= q
        BY <1>0, <3>1
      <3>3. ValueAt(vs, p) <= ValueAt(vs, q)
        BY <2>2, <3>2
      <3> QED  BY <3>1, <3>3
    <2> QED  BY <2>3, <2>4, <2>5, <2>6
  <1> QED  BY <1>1, <1>2

\* One step of stdev's sum: with the k values so far, their sum s, their sum of squares q
\* and the integer sum v, and with the next value x.
Squares(n, q, s) == n * q - s * s
Close(n, q, s, v) == n * v <= Squares(n, q, s) /\ Squares(n, q, s) <= n * (v + n)

\* The true sum grows by the square of the distance from the mean, as stdev's recurrence has it.
LEMMA SquaresStep ==
    ASSUME NEW k \in Nat, NEW x \in Nat, NEW s \in Nat, NEW q \in Nat
    PROVE  k * Squares(k + 1, q + x * x, s + x)
             = (k + 1) * Squares(k, q, s) + (x * k - s) * (x * k - s)
  BY DEF Squares

\* What stdev adds is that square divided and rounded down.
LEMMA SpreadType ==
    ASSUME NEW k \in Nat \ {0}, NEW x \in Nat, NEW s \in Nat
    PROVE  /\ Spread(x, s, k + 1) \in Nat
           /\ Spread(x, s, k + 1) * (k * (k + 1)) <= (x * k - s) * (x * k - s)
           /\ (x * k - s) * (x * k - s) <= (Spread(x, s, k + 1) + 1) * (k * (k + 1))
  <1>1. PICK w \in Nat : w = (x * k - s) * (x * k - s)
    <2>1. PICK a \in Int : a = x * k - s
      OBVIOUS
    <2>2. a * a \in Nat
      OBVIOUS
    <2> QED  BY <2>1, <2>2
  <1>2. PICK c \in Nat \ {0} : c = k * (k + 1)
    OBVIOUS
  <1>3. Spread(x, s, k + 1) = w \div c
    <2>1. k + 1 - 1 = k
      OBVIOUS
    <2> QED  BY <1>1, <1>2, <2>1 DEF Spread
  <1>4. w \div c \in Nat /\ (w \div c) * c <= w /\ w < (w \div c + 1) * c
    BY Quotient
  <1> QED  BY <1>1, <1>2, <1>3, <1>4

\* The integer sum stays below the true one by at most one for each value.
LEMMA CloseStep ==
    ASSUME NEW k \in Nat \ {0}, NEW x \in Nat, NEW s \in Nat, NEW q \in Nat, NEW v \in Nat,
           Close(k, q, s, v)
    PROVE  Close(k + 1, q + x * x, s + x, v + Spread(x, s, k + 1))
  <1>1. PICK f \in Nat : f = Spread(x, s, k + 1)
    BY SpreadType
  <1>2. PICK w \in Nat : w = (x * k - s) * (x * k - s)
    <2>1. PICK a \in Int : a = x * k - s
      OBVIOUS
    <2>2. a * a \in Nat
      OBVIOUS
    <2> QED  BY <2>1, <2>2
  <1>3. f * (k * (k + 1)) <= w /\ w <= (f + 1) * (k * (k + 1))
    BY <1>1, <1>2, SpreadType
  <1>4. PICK d \in Int : d = Squares(k, q, s)
    BY DEF Squares
  <1>5. PICK e \in Int : e = Squares(k + 1, q + x * x, s + x)
    BY DEF Squares
  <1>6. k * e = (k + 1) * d + w
    BY <1>2, <1>4, <1>5, SquaresStep
  <1>7. k * v <= d /\ d <= k * (v + k)
    BY <1>4 DEF Close
  <1>8. (k + 1) * (v + f) <= e
    <2>1. (k * v) * (k + 1) <= d * (k + 1)
      BY <1>7, ProductMono
    <2>2. ((k + 1) * (v + f)) * k = (k * v) * (k + 1) + f * (k * (k + 1))
      OBVIOUS
    <2>3. ((k + 1) * (v + f)) * k <= e * k
      BY <1>3, <1>6, <2>1, <2>2
    <2> QED  BY <2>3, ProductCancel
  <1>9. e <= (k + 1) * (v + f + (k + 1))
    <2>1. d * (k + 1) <= (k * (v + k)) * (k + 1)
      BY <1>7, ProductMono
    <2>2. ((k + 1) * (v + f + (k + 1))) * k = (k * (v + k)) * (k + 1) + (f + 1) * (k * (k + 1))
      OBVIOUS
    <2>3. e * k <= ((k + 1) * (v + f + (k + 1))) * k
      BY <1>3, <1>6, <2>1, <2>2
    <2> QED  BY <2>3, ProductCancel
  <1> QED  BY <1>1, <1>5, <1>8, <1>9 DEF Close

\* What each value adds to stdev's sum, and the squares of the values.
Spreads(vs) == [k \in Nat |-> IF k = 0 THEN 0 ELSE Spread(At(vs)[k], SumBelow(At(vs), k), k + 1)]
SquaresAt(vs) == [i \in Nat |-> At(vs)[i] * At(vs)[i]]

\* What is summed are natural numbers.
LEMMA SpreadsType ==
    ASSUME NEW vs \in Seq(Nat)
    PROVE  Spreads(vs) \in [Nat -> Nat] /\ SquaresAt(vs) \in [Nat -> Nat]
  <1>1. ASSUME NEW k \in Nat
        PROVE  /\ (IF k = 0 THEN 0 ELSE Spread(At(vs)[k], SumBelow(At(vs), k), k + 1)) \in Nat
               /\ At(vs)[k] * At(vs)[k] \in Nat
    <2>1. PICK x \in Nat, s \in Nat : x = At(vs)[k] /\ s = SumBelow(At(vs), k)
      BY AtType, SumType
    <2>2. k # 0 => Spread(x, s, k + 1) \in Nat
      BY SpreadType
    <2>3. x * x \in Nat
      OBVIOUS
    <2> QED  BY <2>1, <2>2, <2>3
  <1> QED  BY <1>1 DEF Spreads, SquaresAt

\* The integer sum behind stdev is close to the true one after every value.
LEMMA VarianceClose ==
    ASSUME NEW vs \in Seq(Nat), NEW n \in Nat
    PROVE  Close(n, SumBelow(SquaresAt(vs), n), SumBelow(At(vs), n), SumBelow(Spreads(vs), n))
  <1> DEFINE C(k) == Close(k, SumBelow(SquaresAt(vs), k), SumBelow(At(vs), k), SumBelow(Spreads(vs), k))
             T == {k \in Nat : C(k)}
  <1>0. At(vs) \in [Nat -> Nat] /\ Spreads(vs) \in [Nat -> Nat] /\ SquaresAt(vs) \in [Nat -> Nat]
    BY AtType, SpreadsType
  <1>1. C(0)
    <2>1. SumBelow(SquaresAt(vs), 0) = 0 /\ SumBelow(At(vs), 0) = 0 /\ SumBelow(Spreads(vs), 0) = 0
      BY <1>0, SumSteps
    <2> QED  BY <2>1 DEF Close, Squares
  <1>2. ASSUME NEW k \in Nat, C(k)
        PROVE  C(k + 1)
    <2>1. PICK x \in Nat : x = At(vs)[k]
      BY <1>0
    <2>2. PICK s \in Nat, q \in Nat, v \in Nat :
              s = SumBelow(At(vs), k) /\ q = SumBelow(SquaresAt(vs), k) /\ v = SumBelow(Spreads(vs), k)
      BY <1>0, SumType
    <2>3. SumBelow(At(vs), k + 1) = s + x
      BY <1>0, <2>1, <2>2, SumSteps
    <2>4. SumBelow(SquaresAt(vs), k + 1) = q + x * x
      <3>1. SquaresAt(vs)[k] = x * x
        BY <2>1 DEF SquaresAt
      <3> QED  BY <1>0, <2>2, <3>1, SumSteps
    <2>5. CASE k = 0
      <3>1. SumBelow(Spreads(vs), k + 1) = 0
        <4>1. Spreads(vs)[0] = 0
          BY DEF Spreads
        <4>2. /\ SumBelow(Spreads(vs), 0) = 0
              /\ SumBelow(Spreads(vs), 0 + 1) = SumBelow(Spreads(vs), 0) + Spreads(vs)[0]
          BY <1>0, SumSteps
        <4> QED  BY <2>5, <4>1, <4>2
      <3>2. s = 0 /\ q = 0
        BY <1>0, <2>2, <2>5, SumSteps
      <3>3. Close(1, x * x, x, 0)
        BY DEF Close, Squares
      <3> QED  BY <2>3, <2>4, <2>5, <3>1, <3>2, <3>3
    <2>6. CASE k # 0
      <3>1. SumBelow(Spreads(vs), k + 1) = v + Spread(x, s, k + 1)
        <4>1. Spreads(vs)[k] = Spread(x, s, k + 1)
          BY <2>1, <2>2, <2>6 DEF Spreads
        <4> QED  BY <1>0, <2>2, <4>1, SumSteps
      <3>2. Close(k, q, s, v)
        BY <1>2, <2>2
      <3>3. Close(k + 1, q + x * x, s + x, v + Spread(x, s, k + 1))
        BY <2>6, <3>2, CloseStep
      <3> QED  BY <2>3, <2>4, <3>1, <3>3
    <2> QED  BY <2>5, <2>6
  <1> HIDE DEF C
  <1>3. 0 \in T /\ \A k \in Nat : k \in T => k + 1 \in T
    BY <1>1, <1>2
  <1> HIDE DEF T
  <1>4. n \in T
    BY <1>3, Induction
  <1> QED  BY <1>4 DEF T, C

\* The statistics of a sorted vector are consistent.
LEMMA SortedIsConsistent ==
    ASSUME NEW vs \in Seq(Nat), Ascending(vs)
    PROVE  Consistent(vs)
  <1>1. PICK n \in Nat : n = Len(vs)
    OBVIOUS
  <1>2. Close(n, SumBelow(SquaresAt(vs), n), SumBelow(At(vs), n), SumBelow(Spreads(vs), n))
    BY VarianceClose
  <1>3. /\ SumOf(vs) = SumBelow(At(vs), n) /\ VarSum(vs) = SumBelow(Spreads(vs), n)
        /\ SumBelow([i \in Nat |-> At(vs)[i] * At(vs)[i]], n) = SumBelow(SquaresAt(vs), n)
    BY <1>1 DEF SumOf, VarSum, Spreads, SquaresAt
  <1> QED  BY <1>1, <1>2, <1>3, MeanInRange, QuantilesAscend DEF Consistent, Close, Squares


-----------------------------------------------------------------------------
(* What a walk has returned *)

Ordered == \A i, j \in DOMAIN walk.ret : i < j => walk.ret[i][1] < walk.ret[j][1]

\* Up to cur the walk has every entry that stays, in order.
Passed ==
    /\ Ordered
    /\ \A i \in DOMAIN walk.ret : walk.ret[i][1] <= walk.cur[1]
    /\ \A e \in walk.stays : e[1] <= walk.cur[1] => e \in Range(walk.ret)

\* What stays is in the map; a walk that has met no erased entry has all of it behind it,
\* and at its end all of it; a snapshot has the values sorted.
WalkingOf(t) ==
    /\ Walks(t) => walk.d = Counted(th[t]) /\ walk.stays \subseteq obj[walk.d].map
    /\ Walks(t) /\ ~walk.reloaded => Passed
    /\ th[t].pc \in {"snap_sort", "snap_unlock"} /\ ~walk.reloaded => Whole
    /\ th[t].pc = "snap_unlock" => th[t].values \in Seq(Nat) /\ Ascending(th[t].values)

Walking == \A t \in Thread : WalkingOf(t)

\* Nothing is said of a thread that neither walks nor has walked.
LEMMA NotWalking ==
    ASSUME NEW t \in Thread, th[t].pc \notin {"entries", "snap_values", "snap_sort", "snap_unlock"}
    PROVE  WalkingOf(t)
  BY DEF WalkingOf, Walks

\* The same of the next state.
LEMMA NotWalkingNext ==
    ASSUME NEW t \in Thread, th'[t].pc \notin {"entries", "snap_values", "snap_sort", "snap_unlock"}
    PROVE  WalkingOf(t)'
  BY DEF WalkingOf, Walks

\* A walk that goes on over a list into which entries are put.
LEMMA WalkKept ==
    ASSUME Inv, NEW u \in Thread, WalkingOf(u), th'[u] = th[u], walk' = walk,
           \A d \in Data : obj[d].state = "used" => obj[d].map \subseteq obj'[d].map
    PROVE  WalkingOf(u)'
  <1>1. Walks(u) => walk.d \in Data /\ obj[walk.d].state = "used"
    BY WalkerHas DEF WalkingOf
  <1>2. Walks(u)' = Walks(u) /\ Counted(th[u])' = Counted(th[u])
    BY DEF Walks, Counted
  <1>3. Passed' = Passed /\ Whole' = Whole
    BY DEF Passed, Ordered, Whole
  <1>4. Walks(u) => walk.d = Counted(th[u]) /\ walk.stays \subseteq obj'[walk.d].map
    BY <1>1 DEF WalkingOf
  <1> QED  BY <1>2, <1>3, <1>4 DEF WalkingOf

\* Without the mutex nobody walks.
LEMMA WalkElsewhere ==
    ASSUME Inv, NEW t \in Thread, Locks(t), NEW u \in Thread \ {t}, th'[u] = th[u]
    PROVE  WalkingOf(u)'
  BY OneWalker, NotWalkingNext DEF WalkPCs

\* A walk begins before the first entry.
LEMMA WalkBegins ==
    ASSUME Inv, data \in Data, NEW t \in Thread, walk' = WalkOf(data), th'[t].pc \in {"entries", "snap_values"},
           Counted(th[t])' = data, obj'[data].map = obj[data].map
    PROVE  WalkingOf(t)'
  <1>1. walk'.d = data /\ walk'.stays = obj[data].map /\ walk'.cur = HeadNode /\ walk'.ret = << >>
    BY DEF WalkOf, NoWalk
  <1>2. \A e \in obj[data].map : e[1] > Bottom /\ e[1] \in Int
    <2>1. obj[data].map \subseteq Good(obj[data].landmark, clock) /\ obj[data].landmark \in 0..clock /\ clock \in 0..MaxTime
      BY DEF Inv, Weights, GoodMap, Linked, Types
    <2>2. \A e \in obj[data].map : e[1] > Bottom /\ e \in Entry
      BY <2>1, GoodAbove
    <2> QED  BY <2>2 DEF Entry
  <1>3. HeadNode[1] = Bottom /\ Bottom \in Int
    BY TimeAssumption DEF HeadNode, Bottom
  <1>4. DOMAIN walk'.ret = {}
    BY <1>1
  <1>5. Passed'
    BY <1>1, <1>2, <1>3, <1>4 DEF Passed, Ordered
  <1> QED  BY <1>1, <1>5 DEF WalkingOf

\* A step of the walk itself.
LEMMA WalkStepWalks ==
    ASSUME Inv, NEW t \in Thread, WalkingOf(t), WalkStep(t)
    PROVE  WalkingOf(t)'
  <1>0. /\ Walks(t) /\ obj' = obj /\ walk \in WalkType /\ walk.cur \in Entry /\ walk.ret \in Seq(Entry)
        /\ DOMAIN th = Thread /\ DOMAIN th[t] = Fields
        /\ Counted(th[t]) \in Data /\ Linked(Walked(t)) \subseteq Entry
    BY WalkDoes, WalkerHas DEF WalkStep, Advance, Reload, Restart, memory, Inv, Types, TypesOf
  <1>1. walk.d = Counted(th[t]) /\ walk.stays \subseteq obj[walk.d].map /\ (~walk.reloaded => Passed)
    BY <1>0 DEF WalkingOf
  <1>2. walk.stays \subseteq Linked(Walked(t))
    BY <1>1 DEF Walked, Linked
  <1>3. ASSUME WalkEnds(t), ~walk'.reloaded => Whole' PROVE WalkingOf(t)'
    <2>1. th'[t].pc \in {"retire", "snap_sort"}
      BY <1>0, <1>3 DEF WalkEnds, Goto, Fields
    <2> QED  BY <1>3, <2>1 DEF WalkingOf, Walks
  <1>4. ASSUME th' = th, walk'.d = walk.d, walk'.stays = walk.stays, ~walk'.reloaded => Passed' PROVE WalkingOf(t)'
    <2>1. Counted(th[t])' = Counted(th[t])
      BY <1>4 DEF Counted
    <2>2. th'[t].pc \in {"entries", "snap_values"}
      BY <1>0, <1>4 DEF Walks
    <2> QED  BY <1>0, <1>1, <1>4, <2>1, <2>2 DEF WalkingOf
  <1>5. CASE Restart(t)
    <2>1. walk' = [walk EXCEPT !.prev = HeadNode, !.cur = HeadNode, !.reloaded = TRUE] /\ th' = th
      BY <1>5 DEF Restart
    <2> QED  BY <1>0, <1>4, <2>1 DEF WalkType
  <1>6. CASE Reload(t)
    <2>1. \/ th' = th /\ \E n : walk' = [walk EXCEPT !.cur = n, !.reloaded = TRUE]
          \/ WalkEnds(t) /\ walk' = [walk EXCEPT !.reloaded = TRUE]
      BY <1>6 DEF Reload
    <2> QED  BY <1>0, <1>3, <1>4, <2>1 DEF WalkType
  <1>7. CASE Advance(t)
    <2>1. CASE /\ Beyond(Walked(t), walk.cur) = {} /\ WalkEnds(t) /\ walk' = walk
      <3>1. ASSUME ~walk.reloaded PROVE Whole
        <4>1. Passed
          BY <1>1, <3>1
        <4>2. \A e \in walk.stays : e \in Entry /\ ~(e[1] > walk.cur[1])
          BY <1>0, <1>2, <2>1 DEF Beyond
        <4>3. \A e \in walk.stays : e[1] <= walk.cur[1]
          BY <1>0, <4>2 DEF Entry
        <4> QED  BY <4>1, <4>3 DEF Passed, Ordered, Whole
      <3>2. Whole' = Whole
        BY <2>1 DEF Whole
      <3> QED  BY <1>3, <2>1, <3>1, <3>2
    <2>2. CASE \E n \in FirstOf(Beyond(Walked(t), walk.cur)) :
                  walk' = [walk EXCEPT !.prev = walk.cur, !.cur = n, !.ret = Append(@, n)] /\ th' = th
      <3>1. PICK n \in FirstOf(Beyond(Walked(t), walk.cur)) :
                  walk' = [walk EXCEPT !.prev = walk.cur, !.cur = n, !.ret = Append(@, n)] /\ th' = th
        BY <2>2
      <3>2. /\ n \in Linked(Walked(t)) /\ n \in Entry /\ n[1] > walk.cur[1]
            /\ \A f \in Linked(Walked(t)) : f[1] > walk.cur[1] => n[1] <= f[1]
        BY <1>0, NextOf
      <3>3. /\ walk'.d = walk.d /\ walk'.stays = walk.stays /\ walk'.reloaded = walk.reloaded
            /\ walk'.cur = n /\ walk'.ret = Append(walk.ret, n)
        BY <1>0, <3>1 DEF WalkType
      <3>4. ASSUME ~walk.reloaded PROVE Passed'
        <4>0. Passed /\ walk.cur[1] \in Int /\ n[1] \in Int
          BY <1>0, <1>1, <3>2, <3>4 DEF Entry
        <4>1. PICK l \in Nat : l = Len(walk.ret)
          BY <1>0
        <4>2. /\ DOMAIN walk.ret = 1..l /\ DOMAIN walk'.ret = 1..(l + 1) /\ walk'.ret[l + 1] = n
              /\ \A i \in 1..l : walk'.ret[i] = walk.ret[i] /\ walk.ret[i] \in Entry
          BY <1>0, <3>2, <3>3, <4>1
        <4>3. \A i \in 1..l : walk.ret[i][1] \in Int /\ walk.ret[i][1] <= walk.cur[1]
          BY <4>0, <4>2 DEF Passed, Entry
        <4>4. \A i \in 1..(l + 1) : walk'.ret[i][1] <= n[1] /\ (i # l + 1 => walk'.ret[i][1] < n[1])
          <5>1. ASSUME NEW i \in 1..l PROVE walk'.ret[i][1] < n[1] /\ walk'.ret[i][1] <= n[1]
            <6>1. PICK a \in Int, b \in Int, c \in Int : a = walk.ret[i][1] /\ b = walk.cur[1] /\ c = n[1]
              BY <4>0, <4>3, <5>1
            <6>2. a <= b /\ b < c
              BY <3>2, <4>3, <5>1, <6>1
            <6>3. a < c /\ a <= c
              BY <6>2
            <6> QED  BY <4>2, <5>1, <6>1, <6>3
          <5> QED  BY <4>0, <4>2, <5>1
        <4>5. Ordered'
          <5>1. ASSUME NEW i \in 1..(l + 1), NEW j \in 1..(l + 1), i < j PROVE walk'.ret[i][1] < walk'.ret[j][1]
            <6>1. CASE j = l + 1
              BY <4>2, <4>4, <5>1, <6>1
            <6>2. CASE j # l + 1
              <7>1. i \in 1..l /\ j \in 1..l
                BY <5>1, <6>2
              <7>2. walk.ret[i][1] < walk.ret[j][1]
                BY <4>0, <4>2, <5>1, <7>1 DEF Passed, Ordered
              <7> QED  BY <4>2, <7>1, <7>2
            <6> QED  BY <6>1, <6>2
          <5> QED  BY <4>2, <5>1 DEF Ordered
        <4>6. ASSUME NEW e \in walk.stays, e[1] <= n[1] PROVE e \in Range(walk'.ret)
          <5>0. e \in Linked(Walked(t)) /\ e[1] \in Int
            BY <1>0, <1>2 DEF Entry
          <5>1. CASE e[1] <= walk.cur[1]
            <6>1. e \in Range(walk.ret)
              BY <4>0, <5>1 DEF Passed
            <6>2. PICK i \in 1..l : e = walk.ret[i]
              BY <4>2, <6>1 DEF Range
            <6>3. e = walk'.ret[i] /\ i \in DOMAIN walk'.ret
              BY <4>2, <6>2
            <6> QED  BY <6>3 DEF Range
          <5>2. CASE e[1] > walk.cur[1]
            <6>1. n[1] <= e[1]
              BY <3>2, <5>0, <5>2
            <6>2. e[1] = n[1]
              BY <4>0, <4>6, <5>0, <6>1
            <6>3. e = n
              BY <1>0, <3>2, <5>0, <6>2 DEF Inv, Maps, Keyed, Walked
            <6>4. n = walk'.ret[l + 1] /\ l + 1 \in DOMAIN walk'.ret
              BY <4>2
            <6> QED  BY <6>3, <6>4 DEF Range
          <5> QED  BY <4>0, <5>0, <5>1, <5>2
        <4> QED  BY <3>3, <4>2, <4>4, <4>5, <4>6 DEF Passed
      <3> QED  BY <1>4, <3>1, <3>3, <3>4
    <2> QED  BY <1>7, <2>1, <2>2 DEF Advance
  <1> QED  BY <1>5, <1>6, <1>7 DEF WalkStep

\* An erase takes the entry out of what stays in the map that is walked over.
LEMMA EraseWalks ==
    ASSUME Inv, NEW t \in Thread, Erase(t), NEW u \in Thread, WalkingOf(u)
    PROVE  WalkingOf(u)'
  <1>0. th[t].d \in Data /\ Marks(t) /\ Quiet(t) /\ th'[t].pc = "sweep" /\ \A c \in Data \ {th[t].d} : obj'[c] = obj[c]
    <2>1. Quiet(t) /\ th[t].d \in Data /\ \A c \in Data \ {th[t].d} : obj'[c] = obj[c]
      BY MapQuiet DEF MapStep
    <2>2. Marks(t)
      BY DEF Erase, Marks
    <2>3. th'[t].pc = "sweep"
      BY DEF Erase, Goto, Inv, Types, TypesOf, Fields
    <2> QED  BY <2>1, <2>2, <2>3
  <1>1. CASE u = t
    BY <1>0, <1>1, NotWalkingNext
  <1>2. CASE u # t
    <2>1. th'[u] = th[u] /\ walk \in WalkType
      BY <1>0, <1>2 DEF Quiet, Frame, Others, Inv, Types
    <2> DEFINE hit == {e \in obj[th[t].d].map : e[1] = th[t].first}
    <2>2. walk' = [walk EXCEPT !.stays = IF th[t].d = walk.d THEN @ \ hit ELSE @]
      BY DEF Erase, Map
    <2>3. obj'[th[t].d].map = obj[th[t].d].map \ hit
      <3>1. obj \in [Data -> DataType]
        BY DEF Inv, Types
      <3>2. obj' = [obj EXCEPT ![th[t].d].map = @ \ hit, ![th[t].d].dead = @ \cup hit]
        BY <1>0 DEF Marks, Map
      <3> HIDE DEF hit
      <3> QED  BY <1>0, <3>1, <3>2 DEF DataType
    <2> HIDE DEF hit
    <2>4. /\ walk'.d = walk.d /\ walk'.ret = walk.ret /\ walk'.cur = walk.cur /\ walk'.reloaded = walk.reloaded
          /\ walk'.stays = IF th[t].d = walk.d THEN walk.stays \ hit ELSE walk.stays
      BY <2>1, <2>2 DEF WalkType
    <2>5. walk'.stays \subseteq walk.stays
      BY <2>4
    <2>6. (Passed => Passed') /\ (Whole => Whole')
      BY <2>4, <2>5 DEF Passed, Ordered, Whole
    <2>7. Walks(u)' = Walks(u) /\ Counted(th[u])' = Counted(th[u])
      BY <2>1 DEF Walks, Counted
    <2>8. Walks(u) => walk.d = Counted(th[u]) /\ walk'.stays \subseteq obj'[walk.d].map
      <3>1. ASSUME Walks(u) PROVE walk.d = Counted(th[u]) /\ walk.d \in Data /\ walk.stays \subseteq obj[walk.d].map
        BY <3>1, WalkerHas DEF WalkingOf
      <3> QED  BY <1>0, <2>3, <2>4, <3>1
    <2> QED  BY <2>1, <2>4, <2>6, <2>7, <2>8 DEF WalkingOf
  <1> QED  BY <1>1, <1>2

\* The constructor sorts.
LEMMA SortedVector ==
    ASSUME NEW vs \in Seq(Nat), NEW ws \in Sorted(vs)
    PROVE  ws \in Seq(Nat) /\ Ascending(ws)
  <1>1. PICK n \in Nat : n = Len(vs) /\ DOMAIN vs = 1..n /\ vs \in [1..n -> Nat]
    OBVIOUS
  <1>2. PICK p \in [1..n -> 1..n] : /\ ws = [i \in 1..n |-> vs[p[i]]]
                                    /\ \A i, j \in 1..n : i < j => vs[p[i]] <= vs[p[j]]
    BY <1>1 DEF Sorted, Bijection, Injection
  <1>3. ws \in [1..n -> Nat] /\ \A i \in 1..n : ws[i] = vs[p[i]]
    BY <1>1, <1>2
  <1>4. ws \in Seq(Nat) /\ Len(ws) = n
    BY <1>3
  <1> QED  BY <1>2, <1>3, <1>4 DEF Ascending

\* The snapshot takes the values of what was walked over.
LEMMA SnapValuesWalks ==
    ASSUME Inv, NEW t \in Thread, WalkingOf(t), SnapValues(t)
    PROVE  WalkingOf(t)'
  <1>0. DOMAIN th = Thread /\ DOMAIN th[t] = Fields /\ walk.ret \in Seq(Entry) /\ walk' = walk /\ th[t].pc = "snap_sort"
    BY DEF Inv, Types, TypesOf, WalkType, SnapValues
  <1> DEFINE vs == [i \in 1..Len(walk.ret) |-> walk.ret[i][2]]
  <1>1. vs \in Seq(Nat)
    <2>1. PICK n \in Nat : n = Len(walk.ret)
      BY <1>0
    <2>2. \A i \in 1..n : walk.ret[i][2] \in Nat
      BY <1>0, <2>1 DEF Entry
    <2>3. vs \in [1..n -> Nat]
      BY <2>1, <2>2
    <2> QED  BY <2>1, <2>3, SeqDef
  <1>2. PICK ws \in Sorted(vs) : th' = [th EXCEPT ![t].values = ws, ![t].pc = "snap_unlock"]
    BY DEF SnapValues
  <1> HIDE DEF vs
  <1>3. th'[t].values = ws /\ th'[t].pc = "snap_unlock"
    BY <1>0, <1>2 DEF Fields
  <1>4. ws \in Seq(Nat) /\ Ascending(ws)
    BY <1>1, <1>2, SortedVector
  <1>5. (~walk.reloaded => Whole) /\ Whole' = Whole
    BY <1>0 DEF WalkingOf, Whole
  <1> QED  BY <1>0, <1>3, <1>4, <1>5 DEF WalkingOf, Walks

\* Every step keeps what is said of walks.
LEMMA WalkingStep == Inv /\ Walking /\ [Next]_vars => Walking'
  <1> SUFFICES ASSUME Inv, Walking, [Next]_vars, NEW u \in Thread PROVE WalkingOf(u)'
    BY DEF Walking
  <1>0. WalkingOf(u) /\ DOMAIN th = Thread /\ obj \in [Data -> DataType]
    BY DEF Walking, Inv, Types
  <1>1. ASSUME NEW t \in Thread, LocalStep(t) PROVE WalkingOf(u)'
    <2>0. Quiet(t) /\ obj' = obj /\ Frame(t) /\ DOMAIN th[t] = Fields
      BY <1>1, LocalQuiet DEF LocalStep, Quiet, Inv, Types, TypesOf
    <2>1. CASE SnapLoad(t)
      <3>1. th[t].pc = "snap" /\ walk' = WalkOf(data) /\ th' = [th EXCEPT ![t].d = data, ![t].pc = "snap_values"]
        BY <2>1 DEF SnapLoad
      <3>2. Locks(t) /\ th[t].old = Null /\ data \in Data
        BY <3>1 DEF Locks, Snapping, Inv, Types, Exclusive, ExclusiveOf, Rescaling, Using
      <3>3. th'[t].pc = "snap_values" /\ Counted(th[t])' = data
        BY <1>0, <2>0, <3>1, <3>2 DEF Counted, Fields
      <3>4. WalkingOf(t)'
        BY <2>0, <3>1, <3>2, <3>3, WalkBegins
      <3> QED  BY <2>0, <3>2, <3>4, WalkElsewhere DEF Frame, Others
    <2>2. CASE SnapValues(t)
      <3>1. walk' = walk
        BY <2>2 DEF SnapValues
      <3>2. CASE u = t
        BY <1>0, <2>2, <3>2, SnapValuesWalks
      <3>3. CASE u # t
        BY <1>0, <2>0, <3>1, <3>3, WalkKept DEF Frame, Others
      <3> QED  BY <3>2, <3>3
    <2>3. CASE ~SnapLoad(t) /\ ~SnapValues(t)
      <3>1. walk' = walk /\ th[t].pc \notin {"snap", "snap_sort", "entries", "snap_values"}
        BY <1>1, <2>3 DEF LocalStep, Update, Snap, ReadScale, LoadData, CheckData, RescaleCas, ReadFirst
      <3>2. th'[t].pc \notin {"entries", "snap_values", "snap_sort", "snap_unlock"}
        BY <2>0, <3>1 DEF Quiet, Flow, AfterPC, Starts, Loads, Claims
      <3> QED  BY <1>0, <2>0, <3>1, <3>2, WalkKept, NotWalkingNext DEF Frame, Others
    <2> QED  BY <2>1, <2>2, <2>3
  <1>2. ASSUME NEW t \in Thread, WalkStep(t) PROVE WalkingOf(u)'
    <2>1. Locks(t) /\ Frame(t)
      BY <1>2, LocalQuiet, WalkDoes, WalkerHas DEF WalkStep, Quiet, Inv, Exclusive, ExclusiveOf
    <2> QED  BY <1>0, <1>2, <2>1, WalkStepWalks, WalkElsewhere DEF Frame, Others
  <1>3. ASSUME NEW t \in Thread, MapStep(t) PROVE WalkingOf(u)'
    <2>0. /\ Quiet(t) /\ Frame(t) /\ th[t].d \in Data /\ th[t].pc \in {"insert", "replace", "erase", "sweep"}
          /\ \A c \in Data \ {th[t].d} : obj'[c] = obj[c]
      BY <1>3, MapQuiet DEF Quiet
    <2>1. CASE Erase(t)
      BY <1>0, <2>1, EraseWalks
    <2>2. CASE ~Erase(t)
      <3>1. walk' = walk
        BY <1>3, <2>2, MapQuiet
      <3>2. th'[t].pc \notin {"entries", "snap_values", "snap_sort", "snap_unlock"}
        BY <2>0 DEF Quiet, Flow, AfterPC, Starts, Loads, Claims
      <3>3. obj[th[t].d].map \subseteq obj'[th[t].d].map
        <4>1. CASE Unlinks(t)
          BY <2>0, <4>1, UnlinkList
        <4>2. CASE Puts(t) /\ th[t].pc \in {"insert", "replace"}
          BY <2>0, <4>2, PutList DEF Put
        <4>3. Unlinks(t) \/ (Puts(t) /\ th[t].pc \in {"insert", "replace"})
          BY <1>3, <2>2 DEF MapStep, SearchAgain, InsertWithRoom, Replace, Miss, Sweep, Unlinks, Puts
        <4> QED  BY <4>1, <4>2, <4>3
      <3>4. \A d \in Data : obj[d].map \subseteq obj'[d].map
        BY <2>0, <3>3
      <3> QED  BY <1>0, <2>0, <3>1, <3>2, <3>4, WalkKept, NotWalkingNext DEF Frame, Others
    <2> QED  BY <2>1, <2>2
  <1>4. ASSUME NEW t \in Thread, HazardStep(t) \/ Lock(t) PROVE WalkingOf(u)'
    <2>1. /\ DOMAIN th[t] = Fields /\ obj' = obj /\ walk' = walk
          /\ \/ th' = [th EXCEPT ![t].pc = "check"]
             \/ th' = [th EXCEPT ![t] = Idle]
             \/ th' = [th EXCEPT ![t].pc = IF th[t].pc = "lock" THEN "swap" ELSE "snap"]
      BY <1>4 DEF HazardStep, SetData, Clear, Lock, Goto, Inv, Types, TypesOf
    <2>2. th'[t].pc \in {"check", "idle", "swap", "snap"} /\ Others(t)
      BY <1>0, <2>1 DEF Fields, Idle, Others
    <2> QED  BY <1>0, <2>1, <2>2, WalkKept, NotWalkingNext DEF Others
  <1>5. ASSUME NEW t \in Thread, Unlock(t) PROVE WalkingOf(u)'
    <2>1. /\ DOMAIN th[t] = Fields /\ th[t].pc \in {"unlock", "snap_unlock"}
          /\ th' = [th EXCEPT ![t] = IF @.pc = "unlock" THEN [@ EXCEPT !.old = Null, !.pc = "count"] ELSE Idle]
      BY <1>5 DEF Unlock, Inv, Types, TypesOf
    <2>2. th'[t].pc \in {"count", "idle"} /\ Others(t)
      BY <1>0, <2>1 DEF Fields, Idle, Others
    <2>3. Locks(t)
      BY <2>1 DEF Locks, Snapping, Inv, Exclusive, ExclusiveOf
    <2> QED  BY <2>2, <2>3, WalkElsewhere, NotWalkingNext DEF Others
  <1>6. ASSUME NEW t \in Thread, TakeCount(t) PROVE WalkingOf(u)'
    <2>1. Frame(t) /\ walk' = walk /\ th'[t].pc \in {"insert", "first"}
      BY <1>6, TakeQuiet DEF Quiet
    <2>2. \A d \in Data : obj'[d].map = obj[d].map
      BY <1>0, <1>6, TakeQuiet DEF DataType
    <2> QED  BY <1>0, <2>1, <2>2, WalkKept, NotWalkingNext DEF Frame, Others
  <1>7. ASSUME NEW t \in Thread, Swap(t) PROVE WalkingOf(u)'
    <2>1. PICK n \in Data : /\ obj[n].state = "free"
                            /\ obj' = [obj EXCEPT ![n] = Fresh(th[t].now)]
                            /\ th' = [th EXCEPT ![t].d = n, ![t].old = data, ![t].pc = "entries"]
      BY <1>7 DEF Swap
    <2>2. /\ walk' = WalkOf(data) /\ Locks(t) /\ data \in Data /\ data # Null /\ obj[data].state = "used"
          /\ DOMAIN th[t] = Fields
      BY <1>7, DataAssumption DEF Swap, Locks, Inv, Installed, Types, TypesOf, Exclusive, ExclusiveOf
    <2>3. obj'[data].map = obj[data].map
      BY <1>0, <2>1, <2>2
    <2>4. th'[t].pc = "entries" /\ th'[t].old = data /\ Others(t)
      BY <1>0, <2>1, <2>2 DEF Fields, Others
    <2>5. Counted(th[t])' = data
      BY <2>2, <2>4 DEF Counted
    <2>6. WalkingOf(t)'
      BY <2>2, <2>3, <2>4, <2>5, WalkBegins
    <2> QED  BY <2>2, <2>4, <2>6, WalkElsewhere DEF Others
  <1>8. ASSUME NEW t \in Thread, RetireOld(t) PROVE WalkingOf(u)'
    <2>1. /\ DOMAIN th[t] = Fields /\ th' = [th EXCEPT ![t] = After([@ EXCEPT !.todo = Rescaled(th[t])])] /\ walk' = walk
          /\ obj' = [obj EXCEPT ![th[t].old].state = "retired"]
      BY <1>8 DEF RetireOld, Inv, Types, TypesOf
    <2>2. th'[t].pc \in {"clear", "unlock", "count"} /\ Others(t)
      BY <1>0, <2>1 DEF After, Fields, Others
    <2>3. \A d \in Data : obj'[d].map = obj[d].map
      BY <1>0, <2>1 DEF DataType
    <2> QED  BY <1>0, <2>1, <2>2, <2>3, WalkKept, NotWalkingNext DEF Others
  <1>9. ASSUME NEW d \in Data, Reclaim(d) PROVE WalkingOf(u)'
    <2>1. th' = th /\ walk' = walk /\ \A c \in Data : obj[c].state = "used" => obj'[c] = obj[c]
      BY <1>0, <1>9 DEF Reclaim
    <2> QED  BY <1>0, <2>1, WalkKept
  <1>10. CASE Tick
    BY <1>0, <1>10, WalkKept DEF Tick, memory
  <1>11. CASE Destroy
    <2>1. th' = th /\ th[u].pc = "idle"
      BY <1>11 DEF Destroy
    <2> QED  BY <2>1, NotWalkingNext
  <1>12. CASE UNCHANGED vars
    BY <1>0, <1>12, WalkKept DEF vars, memory
  <1> QED  BY <1>1, <1>2, <1>3, <1>4, <1>5, <1>6, <1>7, <1>8, <1>9, <1>10, <1>11, <1>12, NextKinds DEF MutexStep

\* A snapshot whose walk met no erased entry has every entry that stayed in the map, once,
\* whatever was put in and erased meanwhile; and its statistics are consistent.
THEOREM SnapshotsAreConsistent == Spec => []Statistics
  <1>1. Init => Walking
    BY NotWalking DEF Init, Walking, Idle
  <1>2. Walking => Statistics
    BY SortedIsConsistent DEF Walking, WalkingOf, Statistics
  <1> QED  BY <1>1, <1>2, WalkingStep, Invariance, PTL DEF Spec
=============================================================================
