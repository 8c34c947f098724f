----------------------- MODULE ConcurrentSkipListMap -----------------------
(***************************************************************************)
(* The sorted map of src/concurrent_skip_list_map.h: insert, erase,        *)
(* exists (and find with a value), firstKey, values and entries (the       *)
(* extractor), and the destructor, one shared-memory access per step.      *)
(*                                                                         *)
(* The upper links of the head start as marked nulls and insert abandons   *)
(* the index as soon as it meets one, so no node is ever linked above      *)
(* level 0: the loops over the upper levels read the head's marked nulls   *)
(* and change nothing.  What is left of the levels is link_count, which    *)
(* starts at the node's height and is corrected when the index is given    *)
(* up.  Values are left out: a node is its key.                            *)
(*                                                                         *)
(* height_ is a plain int, read and written without synchronisation: the   *)
(* test, the second read and the write of insert are steps of their own,   *)
(* and a build may also use the value it tested.  Raced past the head's    *)
(* links, it makes find and insert read beyond them; what they do then is  *)
(* undefined, and so is what follows (map = "undefined").                  *)
(*                                                                         *)
(* Nodes are reclaimed as SafeReclamation promises: once retired, when no  *)
(* hazard slot has their address.                                          *)
(***************************************************************************)
EXTENDS Integers, FiniteSets, FiniteSetsExt, Functions

CONSTANTS
    Thread,
    Node,       \* addresses of nodes (reused)
    Null,       \* nullptr
    Head,       \* head_
    Key,
    InitKeys,   \* the keys in the map at the start
    KMaxHeight, \* kMaxHeight: randomLevel returns a level below it
    Ops,        \* the operations each thread calls
    MaxCalls    \* bound on the calls of each thread

ASSUME AddressAssumption == Null \notin Node /\ Head \notin Node /\ Null # Head
ASSUME KeyAssumption == Key \subseteq Nat /\ InitKeys \subseteq Key
ASSUME RoomAssumption == \E f \in [InitKeys -> Node] : IsInjective(f)
ASSUME HeightAssumption == KMaxHeight \in 1..255

Op == {"insert", "erase", "exists", "firstKey", "values"}

VARIABLES
    next,       \* next_[0] of the head and of each node: address and mark
    key, count, \* key and link_count
    state,      \* of each address: free, private, linked, unlinked or retired
    height,     \* height_
    hazard,     \* the four hazard slots of each thread
    th,         \* each thread's program counter, call and locals
    calls,      \* the calls each thread made
    map         \* whether the map exists

heap == <<next, key, count, state>>
vars == <<heap, height, hazard, th, calls, map>>

Ptr(n) == [to |-> n, dead |-> FALSE]
Idle == [pc |-> "idle", op |-> "none", key |-> 0, ret |-> "none", prev |-> Null, cur |-> Null,
         next |-> Ptr(Null), n |-> Null, level |-> 0, gone |-> FALSE, gaveUp |-> FALSE]

\* setHazard of a marked pointer protects nothing: the scan looks for plain addresses.
Shield(p) == IF p.dead THEN Null ELSE p.to
Set(t, i, n) == hazard' = [hazard EXCEPT ![t][i] = n]

\* The nodes of the level-0 list (Sorted says how they hang together).
Linked == {n \in Node : state[n] = "linked"}
Live == {n \in Linked : ~next[n].dead}
Keys == {key[n] : n \in Live}

-----------------------------------------------------------------------------
(* find *)

\* try_again: prev is the head again.
Restart(t, r) ==
    th' = [th EXCEPT ![t] = [r EXCEPT !.pc = IF r.op \in {"firstKey", "values"} THEN "load" ELSE "descend",
                                      !.prev = Head, !.cur = Null, !.next = Ptr(Null)]]

\* find shields the head in slot 2 and descends from height_, past the head's
\* marked nulls.
Descend(t) ==
    /\ th[t].pc = "descend"
    /\ Set(t, 2, Head)
    /\ th' = [th EXCEPT ![t].pc = "load"]
    /\ UNCHANGED <<heap, height, calls, map>>

\* loadAndSetHazard(prev->next_[0], 1).
\* Only values meets a marked link here: its prev was erased.
Load(t) ==
    LET r == th[t] IN
    /\ r.pc = "load"
    /\ IF next[r.prev].dead THEN Restart(t, r) /\ Set(t, 1, Null)
       ELSE th' = [th EXCEPT ![t].cur = next[r.prev].to, ![t].pc = "set"] /\ UNCHANGED hazard
    /\ UNCHANGED <<heap, height, calls, map>>

SetCur(t) ==
    /\ th[t].pc = "set"
    /\ Set(t, 1, th[t].cur)
    /\ th' = [th EXCEPT ![t].pc = "check"]
    /\ UNCHANGED <<heap, height, calls, map>>

\* What an operation does with the answer of find: erase looks for the key
\* again once it marked a node (n), insert for a place once it made one.
Done(r, match) ==
    CASE r.op = "insert" /\ ~match               -> [r EXCEPT !.pc = "make"]
      [] r.op = "exists" /\ match                -> [r EXCEPT !.pc = "return", !.ret = "true"]
      [] r.op = "erase" /\ r.n # Null            -> [r EXCEPT !.pc = "return"]
      [] r.op = "erase" /\ r.n = Null /\ match   -> [r EXCEPT !.pc = "mark", !.n = r.cur]
      [] OTHER                                   -> [r EXCEPT !.pc = "return", !.ret = "false"]

\* Where a thread goes with a protected cur.
Visit(r) ==
    IF r.op = "firstKey" \/ (r.op = "values" /\ r.cur = Null) THEN [r EXCEPT !.pc = "return"]
    ELSE IF r.cur = Null THEN Done(r, FALSE)
    ELSE [r EXCEPT !.pc = "next"]

\* The key a lookup is after is not in the map at this moment.
Look(r) == [r EXCEPT !.gone = @ \/ r.key \notin Keys]

Check(t) ==
    /\ th[t].pc = "check"
    /\ th' = [th EXCEPT ![t] = IF next[@.prev] = Ptr(@.cur) THEN Visit(Look(@)) ELSE [@ EXCEPT !.pc = "load"]]
    /\ UNCHANGED <<heap, height, hazard, calls, map>>

\* loadAndSetHazardOrFail(cur->next_[0], 0, &next).
LoadNext(t) ==
    /\ th[t].pc = "next"
    /\ th' = [th EXCEPT ![t].next = next[th[t].cur], ![t].pc = "set_next"]
    /\ UNCHANGED <<heap, height, hazard, calls, map>>

SetNext(t) ==
    /\ th[t].pc = "set_next"
    /\ Set(t, 0, Shield(th[t].next))
    /\ th' = [th EXCEPT ![t].pc = "check_next"]
    /\ UNCHANGED <<heap, height, calls, map>>

\* Mutant: the second load of cur->next_[0] is not made.
Unchanged_NoReload(t) == TRUE

Unchanged(t) == next[th[t].cur] = th[t].next

CheckNext(t) ==
    /\ th[t].pc = "check_next"
    /\ th[t].op # "values"
    /\ IF Unchanged(t)
       THEN th' = [th EXCEPT ![t] = [Look(@) EXCEPT !.pc = "prev"]] /\ UNCHANGED hazard
       ELSE Restart(t, th[t]) /\ Set(t, 0, Null)
    /\ UNCHANGED <<heap, height, calls, map>>

\* prev->next_[0] != cur.
CheckPrev(t) ==
    /\ th[t].pc = "prev"
    /\ IF next[th[t].prev] = Ptr(th[t].cur)
       THEN th' = [th EXCEPT ![t] = [Look(@) EXCEPT !.pc = "dead"]]
       ELSE Restart(t, th[t])
    /\ UNCHANGED <<heap, height, hazard, calls, map>>

\* Mutant: an equal key does not end the search.
AtOrAfter_After(n, k) == key[n] > k

AtOrAfter(n, k) == key[n] >= k

\* A live node ends the search or becomes prev; a dead one is unlinked.
Classify(t) ==
    LET r == th[t] IN
    /\ r.pc = "dead"
    /\ IF r.next.dead \/ next[r.cur].dead THEN
           th' = [th EXCEPT ![t].pc = "unlink"] /\ UNCHANGED hazard
       ELSE IF AtOrAfter(r.cur, r.key) THEN
           th' = [th EXCEPT ![t] = Done(r, key[r.cur] = r.key)] /\ UNCHANGED hazard
       ELSE
           /\ th' = [th EXCEPT ![t] = Visit([r EXCEPT !.prev = r.cur, !.cur = r.next.to])]
           /\ hazard' = [hazard EXCEPT ![t][2] = r.cur, ![t][1] = r.next.to]
    /\ UNCHANGED <<heap, height, calls, map>>

\* Mutant: the unlinking compare-exchange expects a marked link.
Expected_Marked(c) == [to |-> c, dead |-> TRUE]

\* What the unlinking compare-exchange expects at prev.
Expected(c) == Ptr(c)

\* A dead node's next_ no longer changes, so it is read with the exchange.
Unlink(t) ==
    LET r == th[t]
    IN  /\ r.pc = "unlink"
        /\ IF next[r.prev] = Expected(r.cur)
           THEN /\ next' = [next EXCEPT ![r.prev] = Ptr(next[r.cur].to)]
                /\ state' = [state EXCEPT ![r.cur] = "unlinked"]
                /\ th' = [th EXCEPT ![t] = [Look(@) EXCEPT !.pc = "drop"]]
           ELSE Restart(t, r) /\ UNCHANGED <<next, state>>
        /\ UNCHANGED <<key, count, height, hazard, calls, map>>

\* link_count is a uint8_t; whoever takes it to zero retires the node.
Drop(n, d) ==
    LET c == (count[n] - d) % 256
    IN  /\ count' = [count EXCEPT ![n] = c]
        /\ state' = [state EXCEPT ![n] = IF c = 0 THEN "retired" ELSE @]

\* After an unlinking find reports no match, whatever lies behind the node.
DropLink(t) ==
    LET r == th[t]
    IN  /\ r.pc = "drop"
        /\ Drop(r.cur, 1)
        /\ IF count'[r.cur] = 0 THEN Set(t, 1, Null) ELSE UNCHANGED hazard
        /\ th' = [th EXCEPT ![t] = Done([r EXCEPT !.cur = Null, !.gaveUp = @ \/ key[r.cur] < r.key], FALSE)]
        /\ UNCHANGED <<next, key, height, calls, map>>

FindStep(t) ==
    \/ Descend(t) \/ Load(t) \/ SetCur(t) \/ Check(t) \/ LoadNext(t) \/ SetNext(t) \/ CheckNext(t)
    \/ CheckPrev(t) \/ Classify(t) \/ Unlink(t) \/ DropLink(t)

-----------------------------------------------------------------------------
(* The operations *)

Call(t, op, k) ==
    /\ map = "exists"
    /\ th[t].pc = "idle"
    /\ op \in Ops[t]
    /\ calls[t] < MaxCalls[t]
    /\ calls' = [calls EXCEPT ![t] = @ + 1]
    /\ LET r == [Idle EXCEPT !.op = op, !.key = k]
       IN  IF op # "insert" THEN Restart(t, r)
           ELSE \E l \in 0..KMaxHeight - 1 :
                   IF l > height
                   THEN th' = [th EXCEPT ![t] = [r EXCEPT !.level = height, !.pc = "raise"]]
                   ELSE Restart(t, [r EXCEPT !.level = l])
    /\ UNCHANGED <<heap, height, hazard, map>>

\* height_ + 1 reads height_ again, unless the build kept what the test read.
Reread(t) ==
    /\ th[t].pc = "raise"
    /\ th' = [th EXCEPT ![t].level = height, ![t].pc = "write"]
    /\ UNCHANGED <<heap, height, hazard, calls, map>>

\* height_ = level = height_ + 1.
Raise(t) ==
    LET l == th[t].level + 1 IN
    /\ th[t].pc \in {"raise", "write"}
    /\ height' = l
    /\ Restart(t, [th[t] EXCEPT !.level = l])
    /\ UNCHANGED <<heap, hazard, calls, map>>

\* What a thread at one of these points is about to do goes beyond its memory:
\* find and insert's index read a link the head does not have, or a uint8_t is
\* to count the links of the new node.
Beyond(r) == [descend |-> height >= KMaxHeight,
              index   |-> r.level >= KMaxHeight \/ height >= KMaxHeight,
              make    |-> r.level >= 255]

\* What the read finds may be harmless (Descend, Index), or anything.
OutOfBounds(t) ==
    /\ th[t].pc \in {"descend", "index", "make"}
    /\ Beyond(th[t])[th[t].pc]
    /\ map' = "undefined"
    /\ UNCHANGED <<heap, height, hazard, th, calls>>

\* mkNode, slot 3 and link_count the first time, and the link of the new node.
Make(t) ==
    LET r == th[t] IN
    /\ r.pc = "make" /\ r.level < 255
    /\ \E n \in Node :
          /\ IF r.n = Null THEN state[n] = "free" ELSE n = r.n
          /\ state' = [state EXCEPT ![n] = "private"]
          /\ key' = [key EXCEPT ![n] = r.key]
          /\ count' = [count EXCEPT ![n] = r.level + 1]
          /\ next' = [next EXCEPT ![n] = Ptr(r.cur)]
          /\ Set(t, 3, n)
          /\ th' = [th EXCEPT ![t].n = n, ![t].pc = "link"]
    /\ UNCHANGED <<height, calls, map>>

\* Mutant: nothing is given back.
Overage_None(l) == 0

\* A node that is on no index list gives back the links above level 0.
Overage(l) == l

Link(t) ==
    LET r == th[t] IN
    /\ r.pc = "link"
    /\ IF next[r.prev] = Ptr(r.cur)
       THEN /\ next' = [next EXCEPT ![r.prev] = Ptr(r.n)]
            /\ state' = [state EXCEPT ![r.n] = "linked"]
            /\ th' = [th EXCEPT ![t].ret = "true", ![t].pc = "index"]
       ELSE Restart(t, r) /\ UNCHANGED <<next, state>>
    /\ UNCHANGED <<key, count, height, hazard, calls, map>>

\* The first of the head's upper links is a marked null: there will be no index.
Index(t) ==
    /\ th[t].pc = "index"
    /\ th' = [th EXCEPT ![t].pc = IF Overage(th[t].level) > 0 THEN "overage" ELSE "return"]
    /\ UNCHANGED <<heap, height, hazard, calls, map>>

DropOverage(t) ==
    /\ th[t].pc = "overage"
    /\ Drop(th[t].n, Overage(th[t].level))
    /\ th' = [th EXCEPT ![t].pc = "return"]
    /\ UNCHANGED <<next, key, height, hazard, calls, map>>

MarkLoad(t) ==
    /\ th[t].pc = "mark"
    /\ th' = [th EXCEPT ![t].next = next[th[t].n], ![t].pc = "mark_cas"]
    /\ UNCHANGED <<heap, height, hazard, calls, map>>

\* Mutant: every erase that finds the node marked reports success.
Marked_Always(nexti) == TRUE

\* nexti == clear(nexti): this call, and no other, marked the node.
Marked(nexti) == ~nexti.dead

MarkCas(t) ==
    LET r == th[t] IN
    /\ r.pc = "mark_cas"
    /\ IF next[r.n] = r.next
       THEN /\ next' = [next EXCEPT ![r.n].dead = TRUE]
            /\ Restart(t, [r EXCEPT !.ret = IF Marked(r.next) THEN "true" ELSE "false"])
       ELSE th' = [th EXCEPT ![t].pc = "mark"] /\ UNCHANGED next
    /\ UNCHANGED <<key, count, state, height, hazard, calls, map>>

\* The extractor moves on from a live node; otherwise it loads cur from prev again.
ValuesNext(t) ==
    LET r == th[t] IN
    /\ r.pc = "check_next" /\ r.op = "values"
    /\ IF Unchanged(t) /\ ~r.next.dead
       THEN /\ th' = [th EXCEPT ![t] = Visit([r EXCEPT !.prev = r.cur, !.cur = r.next.to])]
            /\ hazard' = [hazard EXCEPT ![t][2] = r.cur, ![t][1] = r.next.to]
       ELSE /\ th' = [th EXCEPT ![t].pc = IF Unchanged(t) THEN "load" ELSE "next"]
            /\ UNCHANGED hazard
    /\ UNCHANGED <<heap, height, calls, map>>

\* The slots an operation clears on its way out: none when the first find of
\* an insert met the key or that of an erase did not.
Cleared(r) ==
    CASE r.op = "firstKey" -> {1}
      [] r.op = "insert" /\ r.n # Null -> 0..3
      [] r.op \in {"insert", "erase"} /\ r.n = Null -> {}
      [] OTHER -> 0..2

\* A node that was never linked is deleted.
Return(t) ==
    LET r == th[t]
        unused == r.op = "insert" /\ r.n # Null /\ r.ret = "false"
    IN  /\ r.pc = "return"
        /\ hazard' = [hazard EXCEPT ![t] = [i \in 0..3 |-> IF i \in Cleared(r) THEN Null ELSE @[i]]]
        /\ state' = IF unused THEN [state EXCEPT ![r.n] = "free"] ELSE state
        /\ th' = [th EXCEPT ![t] = Idle]
        /\ UNCHANGED <<next, key, count, height, calls, map>>

\* retireNode's scan, by any thread.
Reclaim(n) ==
    /\ state[n] = "retired"
    /\ \A t \in Thread, i \in 0..3 : hazard[t][i] # n
    /\ state' = [state EXCEPT ![n] = "free"]
    /\ UNCHANGED <<next, key, count, height, hazard, th, calls, map>>

\* The destructor follows the links as they are: a dead node that is still
\* linked sends it to a marked address.
Destroy ==
    /\ map = "exists"
    /\ \A t \in Thread : th[t].pc = "idle"
    /\ map' = IF Linked = Live THEN "destroyed" ELSE "undefined"
    /\ state' = [n \in Node |-> IF n \in Live THEN "free" ELSE state[n]]
    /\ UNCHANGED <<next, key, count, height, hazard, th, calls>>

-----------------------------------------------------------------------------

Init ==
    /\ LET at == CHOOSE f \in [InitKeys -> Node] : IsInjective(f)
           used == {at[k] : k \in InitKeys}
           Follows(S) == IF S = {} THEN Ptr(Null) ELSE Ptr(at[Min(S)])
       IN  /\ key = [n \in Node |-> IF n \in used THEN CHOOSE k \in InitKeys : at[k] = n ELSE 0]
           /\ next = [n \in Node \cup {Head} |->
                        IF n = Head THEN Follows(InitKeys)
                        ELSE IF n \in used THEN Follows({k \in InitKeys : k > key[n]}) ELSE Ptr(Null)]
           /\ state = [n \in Node |-> IF n \in used THEN "linked" ELSE "free"]
           /\ count = [n \in Node |-> IF n \in used THEN 1 ELSE 0]
    /\ height = 0
    /\ hazard = [t \in Thread |-> [i \in 0..3 |-> Null]]
    /\ th = [t \in Thread |-> Idle]
    /\ calls = [t \in Thread |-> 0]
    /\ map = "exists"

Step(t) ==
    /\ map = "exists"
    /\ \/ FindStep(t)
       \/ Reread(t) \/ Raise(t) \/ Make(t) \/ Link(t) \/ Index(t) \/ DropOverage(t)
       \/ MarkLoad(t) \/ MarkCas(t)
       \/ ValuesNext(t) \/ Return(t)
       \/ OutOfBounds(t)

Next ==
    \/ \E t \in Thread : Step(t) \/ \E op \in Op, k \in Key : Call(t, op, k)
    \/ \E n \in Node : Reclaim(n)
    \/ Destroy

Spec == Init /\ [][Next]_vars

\* A thread in a call is scheduled again; nothing else need happen.
FairSpec == Spec /\ \A t \in Thread : WF_vars(Step(t))

-----------------------------------------------------------------------------

States == {"free", "private", "linked", "unlinked", "retired"}

\* The variables stay in their types: link_count, a uint8_t, never below zero.
\* Of height_ it says only that it is a number (see HeightClamped).
TypeOK ==
    /\ next \in [Node \cup {Head} -> [to : Node \cup {Null}, dead : BOOLEAN]]
    /\ state \in [Node -> States]
    /\ height \in Nat
    /\ count \in [Node -> 0..255]
    /\ hazard \in [Thread -> [0..3 -> Node \cup {Null, Head}]]
    /\ \A t \in Thread : th[t].op \in Op \cup {"none"} /\ th[t].ret \in {"none", "true", "false"}

\* a comes before the node b: it is the head, or has the smaller key.
Before(a, b) == a = Head \/ key[a] < key[b]

\* The level-0 list links each node, live or dead, to the one with the next larger
\* key, however inserts, marks and unlinks of neighbours interleave: it is strictly
\* ascending and nothing falls out of it (find, insert, erase).
Sorted ==
    /\ TypeOK
    /\ map = "exists" =>
       \A a \in Linked \cup {Head} :
          /\ next[a].to # Null => next[a].to \in Linked /\ Before(a, next[a].to)
          /\ \A m \in Linked \ {a} :
                \/ Before(a, m) /\ next[a].to # Null /\ key[next[a].to] <= key[m]
                \/ ~Before(a, m) /\ Before(m, a)

\* What a thread is about to read or exchange through a pointer it holds in a
\* hazard slot has not been deleted (every dereference of prev, cur and n).
DereferencesAllocated ==
    \A t \in Thread :
        LET r == th[t]
            Ok(n) == n = Head \/ state[n] # "free"
        IN  /\ r.pc \in {"load", "check", "prev", "unlink", "link"} => Ok(r.prev)
            /\ r.pc \in {"next", "check_next", "dead", "unlink", "drop"} => Ok(r.cur)
            /\ r.pc \in {"overage", "mark", "mark_cas"} => Ok(r.n)

\* link_count counts the links that keep a node: it is retired when, and only
\* when, it is unlinked and its insert has settled the index levels it did not
\* build (find against the exit of insert), so it is retired exactly once.
RetiredWhenUnlinked ==
    map = "exists" =>
    \A n \in Node :
        LET settling == \E t \in Thread : th[t].pc \in {"index", "overage"} /\ th[t].n = n /\ Overage(th[t].level) > 0
            dropping == \E t \in Thread : th[t].pc = "drop" /\ th[t].cur = n
        IN  /\ state[n] = "retired" => count[n] = 0 /\ ~settling /\ ~dropping
            /\ state[n] = "unlinked" => settling \/ dropping
            /\ state[n] \in {"unlinked", "retired"} => \A a \in Linked \cup {Head} : next[a].to # n

\* height_ stays below the number of the head's links, which find and insert
\* index with it: "Clamp growth to +1" against concurrent inserts (lines 498-500).
HeightClamped == height \in 0..KMaxHeight - 1

\* exists or erase is about to answer that the key is not in the map.
Misses(r) == r.pc = "return" /\ r.ret = "false" /\ r.op \in {"exists", "erase"} /\ r.n = Null

\* exists and erase answer false only if the key was absent at some moment of
\* the call (lines 57-61): when its find looked, or when it returns.
MissesAbsent == \A t \in Thread : Misses(th[t]) => th[t].gone \/ th[t].key \notin Keys

\* Apart from the finds that give up behind a dead node with a smaller key which
\* they unlinked themselves (MissesAbsent is false of those), exists and erase
\* answer false only if the key was absent at a moment of the call, whatever
\* inserts, marks and unlinks pass by while find looks (lines 236-315).
MissesExplained == \A t \in Thread : Misses(th[t]) => th[t].gone \/ th[t].gaveUp

\* The list implements OrderedMap: the keys of the nodes that are not marked.
Map == INSTANCE OrderedMap WITH
           map <- Keys,
           call <- [t \in Thread |-> [op |-> th[t].op, key |-> th[t].key, ret |-> th[t].ret]]

MapSpec == Map!Spec

\* A call that began returns; values and entries are left out, they spin on a
\* dead node nobody unlinks (ValuesReturn).
CallsReturn ==
    \A t \in Thread : th[t].op \in Op \ {"values"} ~> th[t].op = "none" \/ map = "undefined"

\* values and entries return: "spin on reloading cur from prev" comes to an end.
ValuesReturn == \A t \in Thread : th[t].op = "values" ~> th[t].op = "none" \/ map = "undefined"
=============================================================================
