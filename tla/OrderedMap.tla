----------------------------- MODULE OrderedMap -----------------------------
(***************************************************************************)
(* What ConcurrentSkipListMap promises the threads that share it: a set of *)
(* keys, changed only by an insert that answers true and by an erase that  *)
(* answers true, each at one moment between its call and its return.  A    *)
(* lookup may miss a key that is present; it never finds one that is not.  *)
(***************************************************************************)
CONSTANTS Thread, Key

VARIABLES
    map,    \* the keys in the map
    call    \* per thread: the operation it is in, its key and its answer

vars == <<map, call>>

Op == {"insert", "erase", "exists", "firstKey", "values", "none"}
Idle == [op |-> "none", key |-> 0, ret |-> "none"]

Answer(t, r) == call[t].ret = "none" /\ call' = [call EXCEPT ![t].ret = r]

Call(t, op, k) ==
    /\ call[t] = Idle
    /\ call' = [call EXCEPT ![t] = [op |-> op, key |-> k, ret |-> "none"]]
    /\ UNCHANGED map

Insert(t) ==
    /\ call[t].op = "insert"
    /\ call[t].key \notin map
    /\ Answer(t, "true")
    /\ map' = map \cup {call[t].key}

Erase(t) ==
    /\ call[t].op = "erase"
    /\ call[t].key \in map
    /\ Answer(t, "true")
    /\ map' = map \ {call[t].key}

\* insert refuses a key that is present; exists reports one.
Hit(t) ==
    /\ call[t].key \in map
    /\ \/ call[t].op = "insert" /\ Answer(t, "false")
       \/ call[t].op = "exists" /\ Answer(t, "true")
    /\ UNCHANGED map

Miss(t) ==
    /\ call[t].op \in {"erase", "exists"}
    /\ Answer(t, "false")
    /\ UNCHANGED map

Return(t) ==
    /\ call[t].ret # "none" \/ call[t].op \in {"firstKey", "values"}
    /\ call' = [call EXCEPT ![t] = Idle]
    /\ UNCHANGED map

\* The destructor, when nobody is in a call.
Destroy ==
    /\ call = [t \in Thread |-> Idle]
    /\ map' = {}
    /\ UNCHANGED call

Init == map \subseteq Key /\ call = [t \in Thread |-> Idle]

Next ==
    \/ \E t \in Thread :
          \/ \E op \in Op, k \in Key : Call(t, op, k)
          \/ Insert(t) \/ Erase(t) \/ Hit(t) \/ Miss(t) \/ Return(t)
    \/ Destroy

Spec == Init /\ [][Next]_vars
=============================================================================
