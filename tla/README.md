# A verification development for ccmetrics

ccmetrics is a C++11 metrics library: counters, meters, timers and histograms
that many threads update, a registry that names them, and reporters that print
or send them. Its core is lock-free: the counters stripe their updates, the
reservoir samples into a concurrent skip list, and both reclaim memory with
hazard pointers. The TLA+ modules in this directory model that core and what is
built on it (the map, the reservoir and its statistics, the rates, the registry
and the reporters), TLC checks them on small instances, and TLAPS proves the
safety properties that hold for every size.

Paths are relative to the repository (`src/hazard_pointers.h` is the header at
the top of its source directory).

## 1. Inventory

| Component | State | Operations | Used by |
|---|---|---|---|
| HazardPointers (`hazard_pointers.h`) | push-only list of records (`head_`, `hp_count_`), per record K hazard slots, `active_`, `retire_list_` | allocate, retire, setHazard, loadAndSetHazard(OrFail), clearHazard, retireNode, scan, helpScan, destructor | Striped64, ConcurrentSkipListMap, ExponentialReservoir |
| Striped64, Striped64_Storage (`metrics/striped_int64.*`) | `base_`, `stripes_`, per storage its slabs and who owns them | add, addSlow, value, reset, constructors, destructor; expand, disavow, disavow_all, get | Counter, Timer, RateEWMA |
| ThreadLocal, SharedStorage (`thread_local.h`, `detail/thread_local_detail.*`) | per-thread slot arrays, the list of threads, the free list of ids | create, get, set, destroy(id), thread exit, static destruction | every per-thread hazard record and hash code |
| ConcurrentSkipListMap (`concurrent_skip_list_map.h`) | nodes with marked `next_` pointers per level, `height_`, `link_count` | find, insert, erase, firstKey, values, entries, exists | ExponentialReservoir |
| ExponentialReservoir (`metrics/exponential_reservoir.*`) | `data_` (map, count, landmark), `next_scale_`, a mutex | update, rescale, snapshot, destructor | Histogram, Timer |
| RateEWMA, MeterImpl (`metrics/meter_impl.*`) | event buffer, `last_tick_`, `rate_`, `init_` | update, rate, tickIfNecessary, tick | Meter, Timer |
| Counter, Histogram, Timer (`metrics/*`) | forward to the above | inc, dec, update, snapshot | applications |
| Snapshot (`snapshot.cc`) | a sorted vector | mean, stdev, quantiles | reporters |
| MetricRegistry (`metric_registry.cc`) | three name-to-metric maps with a mutex each | get-or-create, list, destructor | applications, reporters |
| STATIC_DEFINE_ONCE (`ccmetrics/detail/define_once.h`) | a state word | one-time initialisation on Windows | statics |
| PeriodicReporter, GraphiteReporter (`reporting/*`) | event loop thread, timer, connection state | start, stop, report, connect and write callbacks, destructors | applications |
| ConsoleReporter, JsonSerializer, ThreadLocalRandom, CacheAligned | none, or none shared | formatting, random numbers, layout | |

How they interact: a metric call runs in an application thread. It fetches its
thread's hazard record from a ThreadLocal (first use: `allocate`; thread exit or
destruction of the ThreadLocal: `retire`), protects the shared object it is about
to read, works on it with compare-exchanges, and on replacing it passes the old
one to `retireNode`, which scans all records now and then and deletes what nobody
protects. Reporters run on an event loop thread and read the metrics.

What is hard here: interleavings of compare-exchange loops; a hazard that comes
too late, on one side of a scan or of a reordered store; ownership that moves
(records between threads, nodes between retire lists, slabs between storages);
threads that exit and leave work behind; locals kept across a retry; loops that
must end. `PROJECT.json` lists each hazard with its line and the properties that
cover it.

What makes each component correct:

- HazardPointers: no use after free, no double free, no leak, one writer per
  retire list, bounded retire lists, an accurate record count, wait-free
  retireNode.
- Striped64: no count lost or doubled, no storage or slab used after it was
  freed, freed twice or leaked, a value within bounds, calls that return.
- ThreadLocal: a value is destroyed once; a reused id shows no old value; no
  access to an array that is being replaced.
- ConcurrentSkipListMap: it behaves as a map; a node is retired exactly once,
  after it is unlinked everywhere; calls return.
- ExponentialReservoir: no use after free across rescale; the size stays at the
  sample size and a rescale keeps the sample; a snapshot has what stays in the
  map; the update loop ends.
- RateEWMA: every event is counted in exactly one tick; one tick per interval.
- MetricRegistry: one metric per name, all deleted at the end.
- Reporters: nothing of a reporter runs after its destruction; the connection
  state agrees with the stream; a lost connection is tried again; a report has
  every metric in use; stop returns.
- Snapshot: quantiles ascend from the minimum to the maximum; the mean lies
  between them.

## 2. Plan

Modelled and checked, in this order; each later module uses what the earlier one
promises rather than its steps:

1. HazardPointers, its abstract specification SafeReclamation, its proofs.
2. Striped64 and 3. ThreadLocal, over SafeReclamation's guarantee.
4. ConcurrentSkipListMap with SafeReclamation, refining OrderedMap.
5. ExponentialReservoir over the skip list's operations and SafeReclamation,
   composed with Snapshot and Histogram.
6. Meter (RateEWMA and MeterImpl) over a counter with atomic value and reset.
7. MetricRegistry with STATIC_DEFINE_ONCE, and Reporter, which composes the
   registry with PeriodicReporter, GraphiteReporter and ConsoleReporter.

Proved, in a module per component that EXTENDS it: HazardPointers, Striped64, Meter,
Reporter with MetricRegistry, ConcurrentSkipListMap, ThreadLocal and
ExponentialReservoir with Snapshot, and SumsProofs, on which the proofs about counters
and statistics rest (section 6). Every safety property of a passing run has a theorem.

Open: liveness, which stays with TLC.

## 3. Modules

### HazardPointers

Threads run the operations one shared-memory access at a time. `pc` names the
access a thread makes next; `pos`, `spos`, `sk`, `live`, `ref` are the code's
locals. Records are never unlinked, so a record is its position in the list:
`nrec` is `head_`, and `next_` of `r` is `r - 1`. A `retire_list_` is a set,
because nothing depends on its order. Addresses come from the finite set `Node`
and are reused after a delete, so ABA situations occur.

The client is any structure with one shared pointer, `cell`. A thread makes a
node (`NewNode`), publishes it and retires the old one (`Exchange`), or deletes
an unpublished one (`DropNode`); it protects what it reads. `held[t][k]` is what
the client may dereference on the strength of slot `k`. The skip list passes
references from slot 0 to 1 and from 1 to 2 with plain `setHazard`
(`SetHazardCopy`). That is sound because `scan` reads slots upwards; the mutant
that copies downwards breaks `HeldIsAllocated`.

`thread` values stand for threads and their successors: `Retire` is thread exit
and `Allocate` the next thread's start, so records with leftover nodes change
hands.

The hazard stores and the store of `false` to `active_` are release stores. With
`StoreBuffered` they wait in a FIFO buffer per thread, as on x86, and
read-modify-writes wait for it to drain; without it memory is sequentially
consistent. All other accesses are loads, or read-modify-writes, which x86 does
not reorder with each other.

| Action | Code |
|---|---|
| AllocBegin, AllocSkip, AllocClaim, AllocCount, AllocLoad, AllocLink | `allocate` |
| RetireBegin, RetireSlot, RetireActive | `retire` |
| LoadBegin, LoadCell, SetCur, CheckSame, CheckChanged, FailClear | `loadAndSetHazard`, `loadAndSetHazardOrFail` |
| SetHazardFresh, SetHazardCopy, ClearHazard | `setHazard`, `clearHazard` by the client |
| RetireNode, ScanBegin, ScanSlot, Sweep | `retireNode`, `scan` |
| HelpBegin, HelpSkip, HelpLock, Move, HelpUnlock | `helpScan` |
| Destroy | `~HazardPointers`, after the ThreadLocal that owns the records retired them all |
| Flush | a buffered store reaches memory |

`Sweep` is one step although the code deletes node by node: the list belongs to
one thread, `live` no longer changes, and nodes on the list are reachable by
nobody else. `Destroy` is one step because no thread runs.

### SafeReclamation

What a client relies on: nodes are free, private, shared or retired; a thread
takes a guard only on a node that is not retired; only unguarded retired nodes
are deleted. `HazardPointers!Reclamation` is the refinement mapping and
`ReclaimsSafely` the property that HazardPointers implements it.

### Striped64

A storage of size 2^n is a sequence of n slabs plus the two flags that say which
slabs its destructor deletes. Growing makes a storage that shares the old slabs
and adds one. `cells` holds the counts, `slabs` the allocated blocks. Retired
storages are deleted by `Reclaim` as soon as no hazard has them: that is what
SafeReclamation promises, without the delay that the scan threshold adds.
A new storage may get any free address; which address a slab gets does not
matter, because slab addresses are never compared and the invariants notice a
freed slab at once. Every add adds one; the thread's hash code is any member of
`HashCode` at each attempt, which covers the remixing and more. `added` and
`discarded` are history variables for the properties, `low` for `value`'s.

`InitLevel` 0 is `Striped64()`, a larger one the testing constructor
`Striped64(k)`, whose counter starts with a storage.

### ThreadLocal

The pthread build with `__thread`. `idOf` is `id_` of each ThreadLocal object,
`elements` and `size` are `elements_` and `n_elements_` of each thread, `array` the
arrays that are allocated, `home` the thread and object a value was made for.
What runs under `mutex_` and touches only what the mutex protects is one step
(`Create`, `Register`). What touches a thread's own array, which no lock protects,
is split at each access: `resize` into copy, delete and set, `destroy` into one
`getIfPresent`, the read with the deleter, and the clear, per thread it visits.
The list of threads is a set, and `destroy` visits it in any order.

The application destroys an object only when no call on it is in progress, and
static destruction comes after the last object. With `GrowsAlone` it also destroys
no object while a use of another makes a thread's array grow (section 4 says what happens otherwise). A
thread that exits may start again as another thread. Both `SharedStorage::get` and `set` register the thread
and check the size; between the two nothing undoes it, so `Set` only stores.

### OrderedMap, ConcurrentSkipListMap

OrderedMap is a set of keys and one call per thread: an insert or an erase that
answers true changes the set at one moment between call and return, and a key is
reported present only while it is; the destructor empties it when nobody is in a
call. It lets `erase` and `exists` answer false although the key is present, because
the code does; MissesAbsent and MissesExplained are about those answers.

ConcurrentSkipListMap has one shared access per step. `next` holds address and mark
of `next_[0]`; `th[t]` holds the locals of find (`prev`, `cur`, `next`), of the
operation around it (`op`, `key`, `n`, `level`, `ret`) and two history fields:
`gone`, the key was absent at some moment of the call, and `gaveUp`, find ended
behind a node it unlinked. `state` tells for each address whether its node is linked;
`Sorted` says that the linked nodes are a list in ascending order.

The model has no index levels because the program never has any. The head is made
with every link above level 0 a marked null (`mkNode`). `KMaxHeight` bounds the level
`randomLevel` draws, and so `height_` and `link_count`.
Inserting at a level, `insert` takes a marked successor for a node being removed and
gives the index up, so lines 562 to 597 are never reached and no upper link ever
leaves its initial value. What remains of the levels is `height_`, the `link_count`
a node starts with, and the correction of it on the way out of `insert`, which races
with the find that unlinks the node: whoever takes the count to zero retires it.

`height_` is a plain int that inserts test, read again and write (lines 498-500). The
test is part of `Call`, the second read is `Reread`, the write is `Raise`, and a build
may write what the test read plus one (`Raise` without `Reread`). Two inserts can take
it past the head's links. `find` and the index code of `insert` then read beyond
`head_->next_`: they may be lucky (`Descend`, `Index`) or not (`OutOfBounds`, after
which `map = "undefined"` and nothing is said any more).

| Action | Code |
|---|---|
| Descend, Load, SetCur, Check, LoadNext, SetNext, CheckNext, CheckPrev, Classify, Unlink, DropLink | `find`, and the two loads that `firstKey` and the extractor share with it |
| Call, Reread, Raise, Make, Link, Index, DropOverage | `insert` |
| OutOfBounds | a read past the links of the head in `find` or `insert` |
| MarkLoad, MarkCas | `erase`, which calls find again |
| ValuesNext | `extractor`, behind `values` and `entries` |
| Return, Destroy, Reclaim | the exits, the destructor, SafeReclamation's promise |

### Snapshot, ExponentialReservoir

Snapshot has min, max, mean, valueAt and the sum behind stdev, over integers scaled
by 1000, so the interpolation is exact; the square root is not taken. `Sorted` is the
set of vectors the sort may leave: they differ only in which of two equal values comes
first. Sums over positions are `SumBelow` of the module Sums, which Striped64 uses for
the cells of a storage too.

ExponentialReservoir is `update` with the rescale it may do, `snapshot` (both under
Histogram, which counts first, in `count`) and the destructor. A priority
`exp(alpha * delta) / (1 - u)` is kept as its logarithm, `delta + draw`: the order is
what the code depends on, and rescaling subtracts.

The map of a Data is the level-0 list of its skip list: `map`, the entries, and `dead`,
those that were erased and are still linked. A find, an insert and the marking of an
erase are one step each. A find unlinks the first erased entry it meets and then
stops, so an insert searches again (`SearchAgain`), an erase misses (`Miss`), and the
second find of an erase may leave the entry it is after linked (`Sweep`). `firstKey`
does not look at marks. `values()` and `entries()` walk node by node with the mutex held
(`Advance`, `Reload`, `Restart`; their `prev`, `cur` and `ret` are in `walk`), while updates put
entries in and take them out: an erased `cur` is loaded again from `prev`, and the walk
starts again from the head, with what it has, when `prev` is erased too. `walk.stays`
and `walk.reloaded` are history: what has been in the map since the walk began, and
whether it met an erased `cur`.

A Data is `used`, `retired` or `free`; a retired one is deleted once no hazard has it.
The rescaler holds its mutex and a hazard on the new Data only, and goes on to use
`count` of the old one after it retired it (line 144). When that Data was deleted
first, the comparison with `kSize` may go either way.

| Action | Code |
|---|---|
| Update, ReadScale, LoadData, SetData, CheckData, Clear | `Histogram::update`, `update`, `loadAndRescaleIfNeeded`, `loadAndSetHazard` |
| RescaleCas, Lock, Swap, RetireOld, Unlock | `rescale` |
| TakeCount, InsertWithRoom, ReadFirst, Replace, SearchAgain, Miss, Erase, Sweep | one entry into the map, in `update` and in the loop of `rescale` |
| Advance, Reload, Restart | the extractor behind `entries()` of `rescale` and `values()` of `snapshot` |
| Snap, Lock, SnapLoad, SnapValues, Unlock | `Histogram::snapshot`, `snapshot` and the sort of its Snapshot |
| Reclaim, Destroy, Tick | SafeReclamation's promise, the destructor, the clock |

### Meter

`buffer`, `rate`, `init` and `lastTick` are the fields of each RateEWMA of a
MeterImpl; `Mark` feeds them in order as MeterImpl does. Rates are integers in units
of `1/Unit` and alpha is 1/2; the run takes a power of two for `Unit`, so the averages
of a bounded run are exact. `added`,
`counted`, `ticks`, `peak`, `overlapped` and `raced` are history variables. The clock
is read before `last_tick_`, as in the code, so the difference may be negative.

### MetricRegistry, Reporter

MetricRegistry runs the macros: a call site binds its static once, by the state
machine of STATIC_DEFINE_ONCE, from the registry's get-or-create under the mutex of
the kind. The destructor deletes counters and timers, and leaves the meters
(`metric_registry.cc` 51-54).

Reporter EXTENDS it. A client thread starts, stops and destroys a reporter, which is
a GraphiteReporter or a ConsoleReporter; the loop thread runs the timer, posted
functions and stream callbacks one at a time. The event base and the streams come
from the wte library, whose source is not in the repository; they are modelled from
their use and marked external in the map. Connects and writes may fail at any time.
`report` and `due` are the metrics gathered and those that had to be. With
`StopsFirst` the client calls stop before it destroys the reporter (section 4
says what happens otherwise); it always destroys the reporter before the registry.
`report` called by the client itself, not by the timer, is not modelled: it races with
the loop thread by design.

### The proofs

HazardPointersProofs, Striped64Proofs, MeterProofs, ReporterProofs,
ConcurrentSkipListMapProofs, ThreadLocalProofs, ExponentialReservoirProofs and
SumsProofs: see section 6.

## 4. Runs

| Run | Checks | Instance |
|---|---|---|
| hp_reclaim | TypeOK, NothingLeaked, CountedRecords, RetireListBounded | 2 threads, 4 addresses, K = 1, up to 3 records, R = 5/4 H |
| hp_slots | HeldIsAllocated, ReclaimsSafely | 2 threads, 2 addresses, K = 2, scan at every retireNode |
| hp_waitfree | RecordsExclusive, RetiredOnce, WorkerRetireNodeEnds | store buffers of 1 entry, one thread fair, the other not |
| hp_buffered_hazard | HeldIsAllocated, **violated** | store buffers of 1 entry |
| s64_read | SlabsOwned, CurIsAllocated, Conservation, ValueInRange, CallsReturn | 2 threads, 3 and 2 adds, one value, one reset, limit 4 |
| s64_install | CurIsAllocated, **violated** | Striped64(), 3 threads, limit 8 |
| tl_share | IdsUnique, GetsOwn, ValuesKept, ExitsAlone | 2 threads, 3 objects, GrowsAlone |
| sl_map | Sorted, DereferencesAllocated, RetiredWhenUnlinked, MapSpec, CallsReturn | 2 threads, 3 nodes, keys 1 and 2, levels 0 and 1; two calls against one |
| sl_spin | ValuesReturn, **violated** | keys 1, 2 and 3 present, two threads |
| er_update | UsedIsAllocated, ErasersFindKeys, WeightsKept, Statistics, CallsReturn | 2 threads, kSize 1, one rescale, 4 updates, 1 snapshot |
| me_mark | TicksPaced, CountedOnce, RateBounded, CallsReturn | 2 threads, 2 averages, two intervals, 3 marks, 1 read |
| rp_report | AssertsHold, ReportComplete, SitesAgree, CallsReturn, Reconnects | 2 threads, 3 call sites of which two share a name, 2 starts, both reporters, StopsFirst |

Except in hp_reclaim, a module's `TypeOK` is a conjunct of the first invariant of its
passing run. sl_map and er_update, the largest, have about 0.6 and 0.5 million states.

What the less obvious ones say:

- MapSpec: the list, read as the set of keys of its unmarked nodes, refines
  OrderedMap. Every change of the set is an insert's or an erase's, once.
- RetiredWhenUnlinked: a node is retired exactly when its last reason to stay is
  gone, by the find or by the insert, and exactly once.
- ExitsAlone: `destroy` in another thread, which may be pointing into the array of a
  thread that is about to exit, is done with it before that thread destroys its values.
- ErasersFindKeys: no thread in the loop that makes room can find the map empty,
  which is what lets that loop end.
- Statistics: a snapshot whose walk met no erased entry has every entry that was in the
  map when it began and still is, once, in spite of the entries put in and taken out
  around it; and what Snapshot computes is consistent: the quantiles the accessors
  use ascend from min to max, the mean lies between, and the truncated sum behind
  stdev is below the true one by at most one per value. The first part says where
  the defect behind WeaklyConsistent (below) ends.
- CallsReturn of the reservoir: calls return unless a walk looks at one erased
  entry for ever. The premise, `[]<>~Spinning`, excludes sl_spin's defect, which blocks
  a snapshot or a rescale with the mutex held, and nothing else.
- WeightsKept: through rescales, and for an update that read the clock long
  before, a sample has the weight of the time it was taken at.
- CountedOnce: an event is lost only if it comes between `value()` and `reset()`
  of a tick, and counted twice only if two ticks overlap. Both do happen.
- ReportComplete: a metric bound by some call site before the report began is in it.

The three violations are defects of the code:

- **hp_buffered_hazard.** `setHazard` stores with release order and
  `loadAndSetHazard` loads again with acquire order. Neither orders the store
  before the load, on x86 or in the C++ memory model. In the trace a reader's
  hazard waits in its store buffer while it reloads the unchanged pointer; the
  other thread replaces the pointer, retires the node, scans, sees no hazard and
  deletes it; the reader holds freed memory. A sequentially consistent store, or
  a fence, before the second load restores the hp_slots situation.
- **s64_install.** `addSlow` sets `load = false` when it installs the first
  storage, and never sets it again. If growing then fails, `compare_exchange`
  leaves the current storage in `cur`, and the next rounds use it without a
  hazard. In the trace another thread grows the counter again and the storage is
  deleted under the first thread. It takes two growths after the installation, so
  it cannot happen with the limit of s64_read.
- **sl_spin.** find ends a level after it unlinked one dead node. In the trace one
  thread erases 3: it marks the node, and its second find meets the dead node 1,
  unlinks it and stops. The other thread's erase of 1 stops its second find at 2. Node
  3 stays linked and dead with every erase finished, and `values`, which reloads
  `cur` from `prev` until somebody unlinks it, spins for ever. The next lookup
  behind 2 would remove the node; a snapshot by the only remaining thread is none. The
  same early end of find shows in `exists` and `erase`: see MissesAbsent below.

Another instance a reader may want, by changing a constant:

- `InitLevel = 1` starts Striped64 from the testing constructor, with the storage
  there already; nobody installs one then, and s64_install's defect cannot occur.

Bounds and why they suffice. Two threads exercise every pair of operations, and
three records with two threads arise because `allocate` may push a record while
another is about to become inactive; the third record gives helpScan an abandoned
list to move. Four addresses let a list reach the 5/4 threshold for three records
and one more node stay in use. hp_slots uses a ratio of 1/4 so that every
retireNode scans, which interleaves scans with slot hand-overs most densely.
Striped64 needs three failed attempts in one call to grow and two calls at once to
lose the race for it, which the add budgets allow; storages and slabs suffice for
one current, one outgrown and one in the making per thread, so allocation never
waits for long. A first array of ThreadLocal has two elements, so a third id makes it
grow, and objects made again use ids again. Four values and three arrays are fewer
than all threads and objects could have; a call begins only if enough are left for it
(`MemoryLeft`). In the map two keys give a neighbour to be unlinked while another is
linked or marked next to it, three nodes allow an address to be reused while its old
node is still in a thread's locals, and level 1 brings in the correction of
`link_count` and the race for `height_`; sl_spin needs the third key. In the reservoir
kSize 1 puts every second update on the path that makes room, and Period 1 and clock 2
bring one rescale, which may overtake an update; two rescales, and with them the reuse of
a Data's address, are left to the theorems, which have no such bounds. In the
meter an interval of two units allows ticks of one and of two intervals, late ones,
and ones that overlap. In the reporter two sites with one name race to create a
metric, two starts bring a restart with the connection of the first, and one write
pending is enough for an error to meet a report. Threads (other than the one with a
budget of its own), nodes, storages, objects and values are interchangeable in the
specifications; they are declared symmetric in the runs without liveness properties.

Deadlock is not checked where the bounded system really stops: all calls made and
the map, the reservoir or the reporter destroyed, or the clock at its bound.

### Invariants the code does not keep

Each of these is defined in its module, states what the code means to keep, and is
false of it. Adding the invariant to the named configuration, with the change
given, makes TLC print the trace within seconds.

| Invariant | Configuration | Code |
|---|---|---|
| MissesAbsent | SL_map.cfg | `concurrent_skip_list_map.h` 302-304 |
| HeightClamped | SL_map.cfg | `concurrent_skip_list_map.h` 498-500 |
| ArraysAllocated | TL_share.cfg, `GrowsAlone = FALSE` | `detail/thread_local_detail.h` 134 |
| CountsAllocated | ER_update.cfg | `metrics/exponential_reservoir.cc` 144 |
| RescaleKeeps | ER_update.cfg | `metrics/exponential_reservoir.cc` 143-155 |
| SizeBounded | ER_update.cfg, `KSize = 2` | `metrics/exponential_reservoir.cc` 143-155 |
| WeaklyConsistent | ER_update.cfg | `concurrent_skip_list_map.h` 425-443 |
| ReportsWhole | RP_report.cfg, `StopsFirst = FALSE` | `reporting/periodic_reporter.cc` 104-105 |

- **MissesAbsent.** A false answer of `exists` or `erase` should mean that the key was
  absent at some moment of the call ("@return whether the key exists", 57). An erase
  has marked 1; an `exists` of 2 unlinks node 1, stops there and answers false,
  although 2 has been in the map throughout. The theorem `MissesAreExplained` says
  that this is the only cause: no other race makes a lookup miss a key that stays.
- **HeightClamped.** Two inserts draw level 1 at height 0 and pass the test. The first
  writes 1; the second reads `height_` again and writes 2, which is kMaxHeight. The
  next find reads a link the head does not have. It takes a build that reads `height_`
  twice.
- **ArraysAllocated.** A thread that meets an id beyond its array grows it without
  `mutex_`, while another, with `mutex_`, is in `destroy` and has a pointer into the old
  array: it reads and clears an element of an array that was deleted. If the copy is
  made before the clear, the new array also keeps the old value under an id that is
  free; GetsOwn and ValuesKept are therefore checked and proved with GrowsAlone only.
- **CountsAllocated.** `rescale` uses `data->count` after `retireNode(data)`, and no hazard
  has that Data. With one thread the second `retireNode` reaches the scan threshold and
  deletes it.
- **RescaleKeeps.** `rescale` decides by the old count. In a full reservoir it is at
  kSize, so every entry is put into the new map and, being the first key there, taken
  out again.
- **SizeBounded.** The reservoir should hold kSize entries, and one more for each update
  that is about to make room. In a reservoir that is not full the entries are carried
  over and not counted in the new Data, which then takes kSize more.
- **WeaklyConsistent.** A walk should return what stays in the map, once. Another thread
  replaces the smallest entry while the walk looks at it; the walk reloads the new
  first entry from `prev`, goes on to its successor and returns it in neither step.
  (After a restart an entry may also be returned twice.)
- **ReportsWhole.** `~PeriodicReporter` stops the loop, but the derived destructor has run
  by then, and the loop's thread may be in the derived class's `report`.

### Observations without a run

These follow from reading a few lines; no interleaving is needed to see them.

- `SharedStorage::forget` deletes the storage while a lock_guard on its mutex is in
  scope (`detail/thread_local_detail.h` 353).
- `valueAt` uses `quantile * (n + 1)`, which is the R-6 definition; the comment names
  R-7 (`snapshot.cc` 81-83). `stdev` sums into an int64_t and so truncates each term.
- `Timer::update` is documented in milliseconds, and ScopedTimer and UPDATE_TIMER pass
  microseconds. JsonSerializer leaves out meters, and so does the registry's
  destructor.
- The assertion in `erase` that its second find does not return the node it marked
  (`concurrent_skip_list_map.h` 368) compares addresses after the hazard on the first
  one is gone; it fails if the node was deleted and its address used for the same key.
- The insert of a present key returns with hazards set (505), which delays
  reclamation. The destructor follows a marked link if a dead node is still linked
  (215); the model then ends in `map = "undefined"`.

## 5. Liveness and fairness

hp_waitfree gives weak fairness to the steps of `retireNode`, and to the store
buffer, of one thread only: the operating system runs it and its stores drain.
The other thread may stop anywhere. `retireNode` then returns, because every loop
in it walks a finite list and helpScan skips a record it cannot lock.

s64_read, sl_map, er_update and me_mark give weak fairness to each thread's steps
inside a call; starting calls is not fair, and neither is the clock. The calls are
bounded, so the property is lock-freedom: a loop that goes round again without
another thread having finished something would show as a cycle. er_update also
lets a deletable Data be deleted in the end, because the rescaler waits for a free
address in the model and for nothing in the code. sl_map's CallsReturn leaves out
`values`, which is sl_spin's subject; er_update's has the premise that no walk looks at
an erased entry for ever, for the same reason.

rp_report gives weak fairness to threads in a macro, to join, to a report in
progress and to the end of an empty loop; and strong fairness to each source of
events of the loop: a posted function, the timer, the answer to a connect, the
answer to a write. These are strong because the loop serves one at a time and the
others disable a source for a moment without ending it; an event loop that starved
one of them would be broken. Which answer the network gives is left open: no
success is assumed.

## 6. Proofs

Every theorem holds for all values of the constants that the named ASSUMEs of its
module admit: any threads, addresses, keys, sites and bounds (finite sets of threads
in HazardPointers and ExponentialReservoir, where threads are counted; a kMaxHeight
that fits `link_count`, a uint8_t, in the map). The bounds on clocks and
calls are constants too, so they limit nothing. Where a theorem has a hypothesis, it
is what the run of the same property assumes, and section 4 shows what happens without
it.

The proofs have one shape. Init implies an inductive invariant; every action keeps
every part of it, with one step per action; the invariant implies the property.
Each inductive invariant was first checked with TLC on the instance of the run.
Per action a lemma says what the action does to the state, and the parts of the
invariant are per-thread predicates, so that a step splits into "the others keep
theirs" and "the thread itself".

### HazardPointersProofs

Under either memory model, for store buffers of any length:

- `TypeCorrect` (TypeOK) and `BasicCorrect` (CountedRecords). The invariant `Basic`
  adds `Control`, which ties `rec`, `pos`, `spos` and `ref` to `pc`: without it the
  walk through the list could leave it.
- `OneWriter` (RecordsExclusive) and `NoDoubleFree` (RetiredOnce). The invariant
  `Shared` adds `Placed`, by which a node is shared, private to one thread, on its
  way to a retire list, or on one list, and never two of these, and `Releases`: while
  the store that gives a record back waits in a buffer, the record is still active in
  memory, no thread writes it, and no other such store waits. Without it a thread
  could claim a record whose first owner's store is yet to come and would release it.
- `NoLeak` (NothingLeaked). The invariant `Tidy` adds to `Shared` that each allocated
  node is somewhere (`Kept`), that an active record is in some thread's hands or its
  release waits in a buffer (`ActiveOwned`), and `Cleared`: only the owner of a record,
  or the thread that gave it back, has stores to it in its buffer, a release is queued
  behind stores that leave the slots empty, and a record nobody owns has empty slots.
- `ListsBounded` (RetireListBounded), for RNum > RDen, as in the code's 5/4. A scan
  has found at most one node for each slot it has read (`ScanFrugal`), so what a
  sweep leaves is below the limit, however large K and the list of records are.

On sequentially consistent memory (`~StoreBuffered`):

- `NoUseAfterFree` (HeldIsAllocated). The invariant `Safe` adds `HeldGuarded`: what a
  thread holds through slot k is allocated and in slot k of its own record in memory;
  `SlotFree`: the slot an operation is about to overwrite protects nothing, and
  after the store it has what was loaded; and `ScanSees`: a held node on the list a
  thread is scanning for is in `live`, or its slot is still ahead of the scan. This is
  the heart of the argument. A node on a retire list is not in `cell`, so no second load
  can validate it any more, and a hand-over goes to a higher slot of the same record,
  which the scan reaches later.
- `ImplementsSafeReclamation` (ReclaimsSafely): under the refinement mapping every
  step is a step of SafeReclamation or a stutter. Sweep frees several nodes in one
  step; SafeReclamation's `Reclaim` takes a set of nodes.

These two keep the hypothesis because without it they are false: with store buffers
`HeldGuarded` fails, which is the finding hp_buffered_hazard. What the buffers break is
the protection of a node in use, and nothing else that is proved here.

### SumsProofs

The library's induction theorems take a predicate as a parameter, which the provers
cannot instantiate. Here a set takes the predicate's place: `Induction` says that a
set that has 0, and with every number its successor, has them all, and follows from the
least number principle (`LeastNumber`), which the library's theorems on well-founded
relations give for sets. `RecursionExists` builds the function a recursion over the
naturals describes, so that `SumBelow` and `Pow2` compute what they say (`SumSteps`,
`Pow2Steps`); the laws of sums follow by induction.

### Striped64Proofs

For any threads, storages, slabs, limit and hash codes. `CurIsAllocated` is false in
general: that is the finding of s64_install. The hypothesis `InstallersWin` excludes
exactly its cause, the thread that installed the first storage losing a race to grow
one that can be outgrown again. Under it `StorageStaysAllocated` (CurIsAllocated),
`SlabsStayOwned` (SlabsOwned), `NothingIsLost` (Conservation) and `ValuesAreInRange`
(ValueInRange) hold, so the finding is the only way in which these can fail.
`SizedCounterIsSafe` and `SizedCounterIsRight` have the same properties without the
hypothesis for counters made with `Striped64(k)`, and for those of at most two slabs,
as in s64_read.

- `Structure`: the current storage and the retired ones have prefixes of the same
  slabs (`Published`), since a storage only grows and a new one takes over the old
  one's slabs; a storage under construction is its maker's alone (`PrivateOf`); the
  storage a thread works on is in its hazard or current (`ThreadOf`); and every
  allocated slab has one storage that will delete it (`OwnedSlabs`), which is what the
  order of `disavow`, `disavow_all` and the compare-exchange has to keep.
- `Counting`: what was added is in `base_`, in the cells of the current storage or
  discarded by a reset (`Balance`). Adding to a cell through an outgrown storage is no
  loss because of `Published`. For `value`, `ReadingOf` relates the sum so far to the
  cells already read and to the counter when the call began; cells only grow unless
  there are resets, and growing the storage adds zeros.

### MeterProofs

`Paced` (TicksPaced), `Bounded` (RateBounded), `Counted` (CountedOnce), for any
number of averages and any scale. A tick is due by the clock its thread
read, and only the winner of the compare-exchange moves `last_tick_`, so ticks
times interval never passes `last_tick_`. The rate is bounded by the peak because
every rate in a thread's hands is. For `Counted` the invariant says, for each
average, where an event that was added is: counted, in the buffer, or both while the one
ticking thread is between `value()` and `reset()`.

### ReporterProofs

`SitesAlwaysAgree` (SitesAgree) from an invariant of the registry alone: a macro
between its lookup and its assignment has in hand what the map has, one thread
initialises a site, and maps only grow. `AssertsAlwaysHold` and `ReportsComplete`, for a client
that stops a reporter before it destroys it (`StopsFirst`): `Loop` ties the connection
state to the stream, to pending writes and to the loop thread; `Collected` says that what a report still lacks is in the
maps it has not copied yet.

### ConcurrentSkipListMapProofs

`ListSorted` (Sorted), `NoDanglingRead` (DereferencesAllocated), `RetiredOnce`
(RetiredWhenUnlinked), `MissesAreExplained` (MissesExplained) and
`ImplementsOrderedMap` (MapSpec), all from `MapInv` (`MapInvariant`):

- `List`: the successor of a linked node is the linked node with the next larger key.
  This says locally that the list is connected and sorted, so no reachability is
  needed;
- `DeadFirst`: only marked nodes are unlinked, so the compare-exchange of an insert
  or an unlink at a node that has left the list fails;
- `Calls`: per program counter, which hazard slot holds each node the thread looks
  at, and what the keys it has met say of the key it is after;
- `Counts`: `link_count` is one for the link on level 0, until the find that unlinked
  the node drops it, plus the upper levels its insert has not given back. Whoever
  takes it to zero is the last, so the node is retired once.

The linearisation points are the compare-exchanges of `insert` and of the mark, and
find's last look at the node (`Classify`) for a hit; a miss needs none, because
OrderedMap allows it. Nothing is assumed of `height_`, which the inserts may race to
any value; an insert whose level no `uint8_t` can count, or whose read past the head
goes wrong, leaves the states that are spoken of (`map = "undefined"`).

### ThreadLocalProofs

`IdsStayUnique`, `GetsItsOwn`, `ValuesStayKept`, `ThreadsExitAlone`, for an
application that destroys no object while the use of one makes an array grow
(`GrowsAlone`; without it ArraysAllocated is false). The invariant says which arrays are a thread's own and that nobody else's call replaces
them while `destroy` points into one (`Alone`, `Owned`, `Pointed`), that a value is
filed under the id of its object in the array of its thread (`Filed`), and that
`destroy` has left nothing in the arrays it has been to (`Visited`): that is why an
id that is used again shows no old value.

### ExponentialReservoirProofs

`UsedStaysAllocated`, `ErasersAlwaysFindKeys`, `WeightsStayKept` and
`SnapshotsAreConsistent` (Statistics), from the invariant `Inv`:

- `Protected`, `Exclusive` and `Installed`: the Data a thread uses is in its hazard, `data_`
  is replaced only by the holder of the mutex, the rescaler's `d` is `data_` and the
  Data it walks is not retired before the walk has ended. So snapshot needs no hazard,
  and the new Data, which was free, is used by nobody else;
- `Weights`: entries in maps, erased or not, in what a walk has gathered, in the
  rescaler's list and in an update's hands are good relative to the landmark of the
  Data they are in or go to;
- `Maps`: a list is finite and has a priority once, so an erase takes out one entry or
  none. With it `ErasersFindKeys` is inductive: an entry goes in with the thread
  that will take one out, whatever line 144 has compared.

For Statistics, also:

- `Walking`: what stays is in the map, and a walk that has met no erased entry
  ascends and has everything that stays up to its `cur` (`Passed`). An entry put in
  behind the walk is not among what stays, one put in front of it is met or erased
  before; an erase takes its entry out of what stays. At its end nothing lies beyond
  `cur`, so everything that stays is in `ret`;
- `SortedIsConsistent`: what Consistent says is true of every sorted vector, of any
  length. The integer sum of stdev is compared with the true one value by value: the
  recurrence adds `(x * k - s)^2 / (k * (k + 1))` rounded down, and
  `k` times the true sum over `k + 1` values is `k + 1` times that over `k` values plus
  `(x * k - s)^2` (`SquaresStep`), so the error grows by at most one.

### Only model-checked

- Liveness: CallsReturn, Reconnects, WorkerRetireNodeEnds. Liveness under fairness
  and ENABLED are out of the prover's reach.

## 7. Not modelled

- The components marked `not_modelled` in `PROJECT.json`: JsonSerializer formats
  the registry as ConsoleReporter does; ThreadLocalRandom is per thread and its users
  are modelled with arbitrary draws; CacheAligned is layout.
- Timer and ScopedTimer: `Timer::update` is a Histogram update followed by a mark
  of a meter, each of which is modelled; their product is not composed.
- Failure of `new` (the code does not handle it), wrap-around of 64-bit counts
  and of the 32-bit `hp_count_`, weaker memory than x86; store buffers outside
  HazardPointers.
- In ThreadLocal: the Windows and Apple variants, values whose constructors or
  deleters use other ThreadLocals, moves of the handles, `reset` over a value that
  exists (the code asserts against it), and torn reads of `elements_` and
  `n_elements_` beyond the interleavings of the split steps.
- In Striped64: the reclamation delay, amounts other than one, and more than one
  counter sharing the static hazard list.
- In ConcurrentSkipListMap: the unreachable index code, the values of entries,
  what a read past the head's links finds there, and, by TLC, more than two threads.
- In the reservoir: the steps inside a find, an insert and a mark of its map, which are
  ConcurrentSkipListMap's subject; floating-point rounding of priorities and overflow of
  `exp(alpha * delta)`; in the meter: alpha other than 1/2 and events other than one
  at a time.
- In the reporters: what is formatted, `report` called directly, and errors of the
  event base.
