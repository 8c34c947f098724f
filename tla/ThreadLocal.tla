---------------------------- MODULE ThreadLocal ----------------------------
(***************************************************************************)
(* Thread-local values, as src/thread_local.h and                          *)
(* src/detail/thread_local_detail.h keep them: ThreadLocal objects have    *)
(* ids, SharedStorage hands the ids out and reuses them, and every thread  *)
(* has an array of values indexed by id.  Threads make their values on     *)
(* first use; a value goes when its object or its thread does.             *)
(*                                                                         *)
(* A mutex protects ids and the list of threads.  A thread reads and grows *)
(* its own array without it.  The application does not use a ThreadLocal   *)
(* object while it is constructed or destroyed.  With GrowsAlone it also   *)
(* destroys no object while the use of one makes a thread's array grow.    *)
(***************************************************************************)
EXTENDS Integers, Sequences, FiniteSets

CONSTANTS
    Thread,   \* threads, and their successive lives
    Object,   \* ThreadLocal objects, which can be made again once destroyed
    Value,    \* addresses of the values
    Array,    \* addresses of the arrays of elements
    Null,
    MaxId,    \* bound on the ids ever made
    GrowsAlone \* no object is destroyed while a thread's array has to grow

ASSUME NullAssumption == Null \notin Thread \cup Object \cup Value \cup Array
ASSUME IdAssumption == MaxId \in Nat \ {0}
ASSUME GrowsAloneAssumption == GrowsAlone \in BOOLEAN

VARIABLES
    idOf,        \* id_ of each object, 0 when it does not exist
    nextId,      \* next_id_
    freeList,    \* free_list_
    registered,  \* the threads on the list behind all_tls_head_
    lock,        \* who has mutex_
    destructed,  \* destructed_: static destruction has begun
    shared,      \* the SharedStorage object exists
    elements,    \* elements_ of each thread
    size,        \* n_elements_ of each thread
    array,       \* the pointers in each array (none: not allocated)
    home,        \* the thread and object each value was made for (none: not allocated)
    pc,
    obj,         \* the object a thread's call is about
    ptr,         \* ret of get, ptr of destroy
    entry,       \* the array destroy or resize works on
    left         \* the threads destroy has still to visit

ids == <<idOf, nextId, freeList>>
sync == <<registered, lock, destructed, shared>>
storage == <<elements, size, array>>
locals == <<obj, ptr, entry, left>>
vars == <<ids, sync, storage, home, pc, locals>>

-----------------------------------------------------------------------------

Id == 1..MaxId

\* The size resize(n) gives an array: 1 + n * 1.5, truncated.
Grown(n) == 1 + (3 * n) \div 2

Index == 1..Grown(MaxId)
Blank == [i \in Index |-> Null]
Free == << >>

Delete(v) == home' = [w \in Value |-> IF w = v THEN Free ELSE home[w]]

Goto(t, label) == pc' = [pc EXCEPT ![t] = label]

\* The operation of t is over.
Return(t) ==
    /\ Goto(t, "idle")
    /\ obj' = [obj EXCEPT ![t] = Null]

Unused(o) == \A t \in Thread : obj[t] # o

Destroying(t) == pc[t] \in {"d_next", "d_read", "d_clear"}

\* The use of o takes thread t beyond its array, or beyond its first array.
Outgrows(t, o) == idOf[o] > IF size[t] = 0 THEN Grown(1) ELSE size[t]

Growing(t) ==
    /\ pc[t] \in {"register", "get", "grow_delete", "grow_set"}
    /\ Outgrows(t, obj[t])

\* The bound on memory: a call begins only when the addresses it may need are
\* left beside those that calls in progress may still need.
MemoryLeft(t, o) ==
    LET making == {u \in Thread : obj[u] # Null /\ ~Destroying(u)}
        growing == {u \in Thread : Growing(u) /\ entry[u] = Null}
    IN  /\ Cardinality({v \in Value : home[v] = Free}) > Cardinality(making)
        /\ Cardinality({a \in Array : array[a] = Free}) >=
              Cardinality(growing) + (IF size[t] = 0 THEN 1 ELSE 0) + (IF Outgrows(t, o) THEN 1 ELSE 0)

-----------------------------------------------------------------------------
(* ThreadLocalPointer(): SharedStorage::create, all under the lock *)

\* Mutant: the id stays on the free list.
Create_NoPop(t, o) ==
    /\ pc[t] = "idle" /\ shared /\ ~destructed
    /\ idOf[o] = 0
    /\ lock = Null
    /\ IF freeList = << >>
       THEN /\ nextId < MaxId
            /\ nextId' = nextId + 1
            /\ idOf' = [idOf EXCEPT ![o] = nextId + 1]
       ELSE /\ idOf' = [idOf EXCEPT ![o] = freeList[Len(freeList)]]
            /\ UNCHANGED nextId
    /\ UNCHANGED <<freeList, sync, storage, home, pc, locals>>

Create(t, o) ==
    /\ pc[t] = "idle" /\ shared /\ ~destructed
    /\ idOf[o] = 0
    /\ lock = Null
    /\ IF freeList = << >>
       THEN /\ nextId < MaxId
            /\ nextId' = nextId + 1
            /\ idOf' = [idOf EXCEPT ![o] = nextId + 1]
            /\ UNCHANGED freeList
       ELSE /\ idOf' = [idOf EXCEPT ![o] = freeList[Len(freeList)]]
            /\ freeList' = SubSeq(freeList, 1, Len(freeList) - 1)
            /\ UNCHANGED nextId
    /\ UNCHANGED <<sync, storage, home, pc, locals>>

-----------------------------------------------------------------------------
(* ThreadLocal::get *)

\* tls_handle_.get(): a thread that has no array yet sets up its key and gets
\* one; nobody else can see it.
GetBegin(t, o) ==
    /\ pc[t] = "idle" /\ shared
    /\ idOf[o] # 0
    /\ \A u \in Thread : Destroying(u) => obj[u] # o /\ (GrowsAlone => ~Outgrows(t, o))
    /\ MemoryLeft(t, o)
    /\ obj' = [obj EXCEPT ![t] = o]
    /\ IF size[t] # 0
       THEN UNCHANGED storage
       ELSE \E a \in Array :
               /\ array[a] = Free
               /\ array' = [array EXCEPT ![a] = Blank]
               /\ elements' = [elements EXCEPT ![t] = a]
               /\ size' = [size EXCEPT ![t] = Grown(1)]
    /\ Goto(t, IF t \in registered THEN "get" ELSE "register")
    /\ UNCHANGED <<ids, sync, home, ptr, entry, left>>

\* addThread, under the lock.
Register(t) ==
    /\ pc[t] = "register"
    /\ lock = Null
    /\ registered' = registered \cup {t}
    /\ Goto(t, "get")
    /\ UNCHANGED <<ids, lock, destructed, shared, storage, home, locals>>

\* ThreadLocalStorage::get when the id is within the array: return the
\* value, or make it.
Get(t) ==
    LET v == array[elements[t]][idOf[obj[t]]]
    IN  /\ pc[t] = "get"
        /\ idOf[obj[t]] <= size[t]
        /\ ptr' = [ptr EXCEPT ![t] = v]
        /\ Goto(t, IF v = Null THEN "new" ELSE "got")
        /\ UNCHANGED <<ids, sync, storage, home, obj, entry, left>>

\* Mutant: nothing is copied.
GrowCopy_Blank(t) ==
    /\ pc[t] = "get"
    /\ idOf[obj[t]] > size[t]
    /\ \E a \in Array :
          /\ array[a] = Free
          /\ array' = [array EXCEPT ![a] = Blank]
          /\ entry' = [entry EXCEPT ![t] = a]
    /\ Goto(t, "grow_delete")
    /\ UNCHANGED <<ids, sync, elements, size, home, obj, ptr, left>>

\* resize: copy to a larger array ...
GrowCopy(t) ==
    /\ pc[t] = "get"
    /\ idOf[obj[t]] > size[t]
    /\ \E a \in Array :
          /\ array[a] = Free
          /\ array' = [array EXCEPT ![a] = array[elements[t]]]
          /\ entry' = [entry EXCEPT ![t] = a]
    /\ Goto(t, "grow_delete")
    /\ UNCHANGED <<ids, sync, elements, size, home, obj, ptr, left>>

\* ... delete the old one ...
GrowDelete(t) ==
    /\ pc[t] = "grow_delete"
    /\ array' = [array EXCEPT ![elements[t]] = Free]
    /\ Goto(t, "grow_set")
    /\ UNCHANGED <<ids, sync, elements, size, home, locals>>

\* ... and set elements_ and n_elements_.
GrowSet(t) ==
    /\ pc[t] = "grow_set"
    /\ elements' = [elements EXCEPT ![t] = entry[t]]
    /\ size' = [size EXCEPT ![t] = Grown(idOf[obj[t]])]
    /\ entry' = [entry EXCEPT ![t] = Null]
    /\ Goto(t, "get")
    /\ UNCHANGED <<ids, sync, array, home, obj, ptr, left>>

\* new_functor_().
New(t) ==
    /\ pc[t] = "new"
    /\ \E v \in Value :
          /\ home[v] = Free
          /\ home' = [home EXCEPT ![v] = <<t, obj[t]>>]
          /\ ptr' = [ptr EXCEPT ![t] = v]
    /\ Goto(t, "set")
    /\ UNCHANGED <<ids, sync, storage, obj, entry, left>>

\* reset(ret, deleter_): the thread is registered and the id is in range.
Set(t) ==
    /\ pc[t] = "set"
    /\ array' = [array EXCEPT ![elements[t]][idOf[obj[t]]] = ptr[t]]
    /\ Goto(t, "got")
    /\ UNCHANGED <<ids, sync, elements, size, home, locals>>

Got(t) ==
    /\ pc[t] = "got"
    /\ ptr' = [ptr EXCEPT ![t] = Null]
    /\ Return(t)
    /\ UNCHANGED <<ids, sync, storage, home, entry, left>>

GetStep(t) ==
    \/ Register(t) \/ Get(t) \/ GrowCopy(t) \/ GrowDelete(t) \/ GrowSet(t)
    \/ New(t) \/ Set(t) \/ Got(t)

-----------------------------------------------------------------------------
(* ~ThreadLocalPointer(): SharedStorage::destroy, under the lock *)

DestroyBegin(t, o) ==
    /\ pc[t] = "idle" /\ shared
    /\ idOf[o] # 0
    /\ Unused(o)
    /\ GrowsAlone => \A u \in Thread : ~Growing(u)
    /\ lock = Null
    /\ lock' = t
    /\ obj' = [obj EXCEPT ![t] = o]
    /\ left' = [left EXCEPT ![t] = registered]
    /\ Goto(t, "d_next")
    /\ UNCHANGED <<ids, registered, destructed, shared, storage, home, ptr, entry>>

\* getIfPresent of the next thread.
DestroyNext(t) ==
    /\ pc[t] = "d_next"
    /\ \E u \in left[t] :
          /\ left' = [left EXCEPT ![t] = @ \ {u}]
          /\ IF idOf[obj[t]] <= size[u]
             THEN entry' = [entry EXCEPT ![t] = elements[u]] /\ Goto(t, "d_read")
             ELSE UNCHANGED <<entry, pc>>
    /\ UNCHANGED <<ids, sync, storage, home, obj, ptr>>

\* Element::destroy: read ptr and call the deleter ...
DestroyRead(t) ==
    LET v == array[entry[t]][idOf[obj[t]]]
    IN  /\ pc[t] = "d_read"
        /\ Delete(v)
        /\ entry' = [entry EXCEPT ![t] = IF v = Null THEN Null ELSE @]
        /\ Goto(t, IF v = Null THEN "d_next" ELSE "d_clear")
        /\ UNCHANGED <<ids, sync, storage, obj, ptr, left>>

\* Mutant: the element is not cleared.
DestroyClear_Keeps(t) ==
    /\ pc[t] = "d_clear"
    /\ entry' = [entry EXCEPT ![t] = Null]
    /\ Goto(t, "d_next")
    /\ UNCHANGED <<ids, sync, storage, home, obj, ptr, left>>

\* ... and clear the element.
DestroyClear(t) ==
    /\ pc[t] = "d_clear"
    /\ array' = [array EXCEPT ![entry[t]][idOf[obj[t]]] = Null]
    /\ entry' = [entry EXCEPT ![t] = Null]
    /\ Goto(t, "d_next")
    /\ UNCHANGED <<ids, sync, elements, size, home, obj, ptr, left>>

DestroyEnd(t) ==
    /\ pc[t] = "d_next"
    /\ left[t] = {}
    /\ freeList' = Append(freeList, idOf[obj[t]])
    /\ idOf' = [idOf EXCEPT ![obj[t]] = 0]
    /\ lock' = Null
    /\ Return(t)
    /\ UNCHANGED <<nextId, registered, destructed, shared, storage, home, ptr, entry, left>>

DestroyStep(t) == DestroyNext(t) \/ DestroyRead(t) \/ DestroyClear(t) \/ DestroyEnd(t)

-----------------------------------------------------------------------------
(* threadExitCleanup, which a thread with an array runs when it exits *)

\* Mutant: the values are destroyed before the thread leaves the list.
Forget_Late(t) ==
    /\ pc[t] = "idle" /\ shared
    /\ t \in registered /\ elements[t] # Null
    /\ Goto(t, "x_destroy")
    /\ UNCHANGED <<ids, sync, storage, home, locals>>

\* forget: leave the list under the lock; the last thread to leave after
\* static destruction deletes the SharedStorage.
Forget(t) ==
    /\ pc[t] = "idle" /\ shared
    /\ t \in registered
    /\ lock = Null
    /\ lock' = t
    /\ registered' = registered \ {t}
    /\ shared' = ~(destructed /\ registered' = {})
    /\ Goto(t, "x_unlock")
    /\ UNCHANGED <<ids, destructed, storage, home, locals>>

\* The lock_guard of forget goes out of scope.
Unlock(t) ==
    /\ pc[t] = "x_unlock"
    /\ lock' = Null
    /\ Goto(t, "x_destroy")
    /\ UNCHANGED <<ids, registered, destructed, shared, storage, home, locals>>

\* destroyAll: every value of the thread, one after the other ...
DestroyAllNext(t) ==
    /\ pc[t] = "x_destroy"
    /\ \E i \in 1..size[t] :
          LET v == array[elements[t]][i]
          IN  /\ v # Null
              /\ Delete(v)
              /\ array' = [array EXCEPT ![elements[t]][i] = Null]
    /\ UNCHANGED <<ids, sync, elements, size, pc, locals>>

\* ... then the array.
DestroyAllEnd(t) ==
    /\ pc[t] = "x_destroy"
    /\ \A i \in 1..size[t] : array[elements[t]][i] = Null
    /\ array' = [array EXCEPT ![elements[t]] = Free]
    /\ elements' = [elements EXCEPT ![t] = Null]
    /\ size' = [size EXCEPT ![t] = 0]
    /\ Goto(t, "idle")
    /\ UNCHANGED <<ids, sync, home, locals>>

ExitStep(t) == Unlock(t) \/ DestroyAllNext(t) \/ DestroyAllEnd(t)

\* ~StaticDestructionGuard, after the last static ThreadLocal is gone.
StaticallyDestructed ==
    /\ ~destructed
    /\ \A o \in Object : idOf[o] = 0
    /\ destructed' = TRUE
    /\ UNCHANGED <<ids, registered, lock, shared, storage, home, pc, locals>>

-----------------------------------------------------------------------------

Init ==
    /\ idOf = [o \in Object |-> 0]
    /\ nextId = 0
    /\ freeList = << >>
    /\ registered = {}
    /\ lock = Null
    /\ destructed = FALSE
    /\ shared = TRUE
    /\ elements = [t \in Thread |-> Null]
    /\ size = [t \in Thread |-> 0]
    /\ array = [a \in Array |-> Free]
    /\ home = [v \in Value |-> Free]
    /\ pc = [t \in Thread |-> "idle"]
    /\ obj = [t \in Thread |-> Null]
    /\ ptr = [t \in Thread |-> Null]
    /\ entry = [t \in Thread |-> Null]
    /\ left = [t \in Thread |-> {}]

\* All threads have exited.
Finished ==
    /\ destructed
    /\ registered = {}
    /\ \A t \in Thread : pc[t] = "idle"
    /\ UNCHANGED vars

Step(t) == GetStep(t) \/ DestroyStep(t) \/ ExitStep(t)

Next ==
    \/ \E t \in Thread : Step(t) \/ Forget(t)
    \/ \E t \in Thread, o \in Object : Create(t, o) \/ GetBegin(t, o) \/ DestroyBegin(t, o)
    \/ StaticallyDestructed
    \/ Finished

Spec == Init /\ [][Next]_vars

-----------------------------------------------------------------------------
(* Properties *)

\* The type invariant: an array and its size come and go together.
TypeOK ==
    /\ nextId \in 0..MaxId
    /\ idOf \in [Object -> 0..nextId]
    /\ freeList \in Seq(1..nextId)
    /\ registered \subseteq Thread
    /\ lock \in Thread \cup {Null}
    /\ elements \in [Thread -> Array \cup {Null}]
    /\ array \in [Array -> {Free} \cup [Index -> Value \cup {Null}]]
    /\ home \in [Value -> {Free} \cup (Thread \X Object)]
    /\ \A t \in Thread : size[t] = 0 <=> elements[t] = Null

\* The ids in use and the free ids are each unique and are together all the
\* ids made so far, so that no two objects share an element (create, destroy).
IdsUnique ==
    /\ TypeOK
    /\ \A o, p \in Object : o # p /\ idOf[o] # 0 => idOf[o] # idOf[p]
    /\ \A o \in Object, i \in 1..Len(freeList) : idOf[o] # freeList[i]
    /\ Cardinality({o \in Object : idOf[o] # 0}) + Len(freeList) = nextId

\* What get returns is the value that this thread made for this object: an id
\* that is used again shows nothing of its earlier object.
GetsOwn == \A t \in Thread : pc[t] = "got" => home[ptr[t]] = <<t, obj[t]>>

\* The elements a thread will use once a pending resize is over.
Elements(t) ==
    IF pc[t] = "grow_set" THEN array[entry[t]]
    ELSE IF elements[t] = Null THEN Blank
    ELSE array[elements[t]]

\* Some thread is clearing element i of thread t's array.
Clearing(t, i) ==
    \E u \in Thread : pc[u] = "d_clear" /\ entry[u] = elements[t] /\ idOf[obj[u]] = i

Exiting(t) == pc[t] \in {"x_unlock", "x_destroy"}

\* Values are destroyed exactly once, by whichever of their object and their
\* thread goes first: an element never keeps a destroyed value, and a value that
\* is alive is in its thread's array, under the id of its object unless that is
\* gone and the thread is exiting.
ValuesKept ==
    /\ \A t \in Thread, i \in Index :
          Elements(t)[i] # Null /\ ~Clearing(t, i) => home[Elements(t)[i]] # Free
    /\ \A v \in Value : home[v] # Free =>
          LET t == home[v][1]
              o == home[v][2]
          IN  \/ pc[t] = "set" /\ ptr[t] = v
              \/ idOf[o] # 0 /\ Elements(t)[idOf[o]] = v
              \/ Exiting(t) /\ \E i \in Index : Elements(t)[i] = v

\* Whoever works on an array works on one that is allocated: the thread itself,
\* or another that destroys an object and walks the registered threads while
\* these use, and grow, their arrays without the lock.
ArraysAllocated ==
    \A t \in Thread :
        /\ pc[t] \in {"d_read", "d_clear"} => array[entry[t]] # Free
        /\ pc[t] \in {"get", "set", "x_destroy"} => array[elements[t]] # Free

\* An exiting thread destroys its values alone: its array is allocated, and no
\* destructor of an object that was walking the list works on it any more,
\* whichever of destroy and threadExitCleanup began first.
ExitsAlone ==
    \A t \in Thread : pc[t] = "x_destroy" =>
        /\ array[elements[t]] # Free
        /\ \A u \in Thread : pc[u] \in {"d_read", "d_clear"} => entry[u] # elements[t]
=============================================================================
