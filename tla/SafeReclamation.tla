-------------------------- MODULE SafeReclamation --------------------------
(***************************************************************************)
(* What hazard pointers promise their clients, without records, slots and  *)
(* scans: nodes are made, published, unlinked and reclaimed; threads guard *)
(* nodes they can reach; a guarded node is not reclaimed.                  *)
(***************************************************************************)
CONSTANTS Thread, Node

VARIABLES
    state,  \* of each node
    guards  \* the nodes each thread may dereference

States == {"free", "private", "shared", "retired"}

Guarded == UNION {guards[t] : t \in Thread}

Init ==
    /\ state = [n \in Node |-> "free"]
    /\ guards = [t \in Thread |-> {}]

\* A thread makes a node.
New(n) ==
    /\ state[n] = "free"
    /\ state' = [state EXCEPT ![n] = "private"]
    /\ UNCHANGED guards

\* Its maker deletes a node that was never published.
Discard(t, n) ==
    /\ state[n] = "private"
    /\ \A u \in Thread \ {t} : n \notin guards[u]
    /\ state' = [state EXCEPT ![n] = "free"]
    /\ guards' = [guards EXCEPT ![t] = @ \ {n}]

\* The shared pointer moves from the nodes of old to those of new.
Replace(old, new) ==
    /\ \A n \in old : state[n] = "shared"
    /\ \A n \in new : state[n] = "private"
    /\ state' = [n \in Node |-> IF n \in old THEN "retired"
                                ELSE IF n \in new THEN "shared" ELSE state[n]]
    /\ UNCHANGED guards

\* A thread gives guards up, and takes guards on nodes that are not retired.
Guard(t, S) ==
    /\ \A n \in S \ guards[t] : state[n] \in {"private", "shared"}
    /\ guards' = [guards EXCEPT ![t] = S]
    /\ UNCHANGED state

\* Retired nodes that no thread guards are deleted.
Reclaim(S) ==
    /\ \A n \in S : state[n] = "retired"
    /\ S \cap Guarded = {}
    /\ state' = [n \in Node |-> IF n \in S THEN "free" ELSE state[n]]
    /\ UNCHANGED guards

Next ==
    \/ \E n \in Node : New(n)
    \/ \E t \in Thread, n \in Node : Discard(t, n)
    \/ \E old, new \in SUBSET Node : Replace(old, new)
    \/ \E t \in Thread, S \in SUBSET Node : Guard(t, S)
    \/ \E S \in SUBSET Node : Reclaim(S)

Spec == Init /\ [][Next]_<<state, guards>>

=============================================================================
