--------------------------- MODULE MetricRegistry ---------------------------
(***************************************************************************)
(* The registry of src/metric_registry.cc and the macros that bind a call  *)
(* site to its metric once (INCREMENT_COUNTER, UPDATE_TIMER, ...: a static *)
(* initialised by STATIC_DEFINE_ONCE, src/ccmetrics/detail/define_once.h,  *)
(* whose states the compiler's own guard of a static also has).            *)
(*                                                                         *)
(* A metric is an address; what its updates do to it is the business of    *)
(* Striped64, ExponentialReservoir and Meter.                              *)
(***************************************************************************)
EXTENDS Integers, FiniteSets, Functions

CONSTANTS
    Thread,
    Site,       \* call sites of the macros
    SiteKind,   \* the kind of metric of each site
    SiteName,   \* and its name
    Name,
    Metric,     \* addresses of metrics
    Null,       \* nullptr, and no owner of a mutex
    MaxUses     \* bound on the executions of a macro by each thread

Kind == {"counter", "timer", "meter"}

ASSUME SiteAssumption == SiteKind \in [Site -> Kind] /\ SiteName \in [Site -> Name]
ASSUME NullAssumption == Null \notin Metric /\ Null \notin Thread

VARIABLES
    mutex,      \* mutex of each MetricMap: its holder
    metrics,    \* metrics of each MetricMap
    allocated,  \* the metrics that exist
    once, var,  \* state and static variable of each call site
    th,         \* each thread's program counter, site and ret
    uses,       \* the macros each thread executed
    registry    \* whether the registry exists

registryVars == <<mutex, metrics, allocated, once, var, th, uses, registry>>

Idle == [pc |-> "idle", site |-> Null, ret |-> Null]
KindOf(t) == SiteKind[th[t].site]
NameOf(t) == SiteName[th[t].site]

Enter(t, s) ==
    /\ registry
    /\ th[t].pc = "idle"
    /\ uses[t] < MaxUses
    /\ uses' = [uses EXCEPT ![t] = @ + 1]
    /\ th' = [th EXCEPT ![t] = [Idle EXCEPT !.site = s, !.pc = "once"]]
    /\ UNCHANGED <<mutex, metrics, allocated, once, var, registry>>

\* InterlockedCompareExchange(state, initializing, uninitialized): a thread
\* that meets an initialisation in progress spins here.
Once(t) ==
    LET s == th[t].site IN
    /\ th[t].pc = "once"
    /\ once[s] # "initializing"
    /\ once' = [once EXCEPT ![s] = IF @ = "uninitialized" THEN "initializing" ELSE @]
    /\ th' = [th EXCEPT ![t].pc = IF once[s] = "uninitialized" THEN "find" ELSE "use"]
    /\ UNCHANGED <<mutex, metrics, allocated, var, uses, registry>>

\* Mutant: the MetricMap is used without its mutex.
Free_Always(k) == TRUE

Free(k) == mutex[k] = Null

\* lock_guard, then metrics.find(name), which no one else can disturb.
Find(t) ==
    LET m == metrics[KindOf(t)][NameOf(t)] IN
    /\ th[t].pc = "find"
    /\ Free(KindOf(t))
    /\ mutex' = [mutex EXCEPT ![KindOf(t)] = t]
    /\ th' = [th EXCEPT ![t].ret = m, ![t].pc = IF m = Null THEN "create" ELSE "unlock"]
    /\ UNCHANGED <<metrics, allocated, once, var, uses, registry>>

\* new and insert; which address new returns does not matter.
Create(t) ==
    LET m == CHOOSE a \in Metric \ allocated : TRUE IN
    /\ th[t].pc = "create"
    /\ Metric \ allocated # {}
    /\ allocated' = allocated \cup {m}
    /\ metrics' = [metrics EXCEPT ![KindOf(t)][NameOf(t)] = m]
    /\ th' = [th EXCEPT ![t].ret = m, ![t].pc = "unlock"]
    /\ UNCHANGED <<mutex, once, var, uses, registry>>

Unlock(t) ==
    /\ th[t].pc = "unlock"
    /\ mutex' = [mutex EXCEPT ![KindOf(t)] = Null]
    /\ th' = [th EXCEPT ![t].pc = "assign"]
    /\ UNCHANGED <<metrics, allocated, once, var, uses, registry>>

Assign(t) ==
    /\ th[t].pc = "assign"
    /\ var' = [var EXCEPT ![th[t].site] = th[t].ret]
    /\ th' = [th EXCEPT ![t].pc = "initialized"]
    /\ UNCHANGED <<mutex, metrics, allocated, once, uses, registry>>

Initialized(t) ==
    /\ th[t].pc = "initialized"
    /\ once' = [once EXCEPT ![th[t].site] = "initialized"]
    /\ th' = [th EXCEPT ![t].pc = "use"]
    /\ UNCHANGED <<mutex, metrics, allocated, var, uses, registry>>

\* inc, update or mark through the static.
Use(t) ==
    /\ th[t].pc = "use"
    /\ th' = [th EXCEPT ![t] = Idle]
    /\ UNCHANGED <<mutex, metrics, allocated, once, var, uses, registry>>

\* The destructor deletes the counters and the timers, and not the meters.
DestroyRegistry ==
    /\ registry
    /\ \A t \in Thread : th[t].pc = "idle"
    /\ registry' = FALSE
    /\ allocated' = allocated \ UNION {Range(metrics[k]) : k \in {"counter", "timer"}}
    /\ UNCHANGED <<mutex, metrics, once, var, th, uses>>

RegistryInit ==
    /\ mutex = [k \in Kind |-> Null]
    /\ metrics = [k \in Kind |-> [n \in Name |-> Null]]
    /\ allocated = {}
    /\ once = [s \in Site |-> "uninitialized"]
    /\ var = [s \in Site |-> Null]
    /\ th = [t \in Thread |-> Idle]
    /\ uses = [t \in Thread |-> 0]
    /\ registry = TRUE

MacroStep(t) ==
    \/ Once(t) \/ Find(t) \/ Create(t) \/ Unlock(t) \/ Assign(t) \/ Initialized(t) \/ Use(t)

RegistryNext == \E t \in Thread : MacroStep(t) \/ \E s \in Site : Enter(t, s)

-----------------------------------------------------------------------------

\* A macro uses the metric the registry has under its kind and name, and no
\* other: neither an unset static, met in the middle of its initialisation, nor
\* a second metric made by a racing first use of another site.
SitesAgree ==
    registry =>
    /\ \A t \in Thread : th[t].pc = "use" => var[th[t].site] # Null
    /\ \A s \in Site : var[s] # Null => var[s] = metrics[SiteKind[s]][SiteName[s]]
=============================================================================
