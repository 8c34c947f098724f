-------------------- MODULE ConcurrentSkipListMapProofs --------------------
(***************************************************************************)
(* Proofs about ConcurrentSkipListMap, for any number of threads, nodes    *)
(* and keys, any operations, and a kMaxHeight that fits link_count: the    *)
(* invariant MapInv, what follows from it, and that the list implements    *)
(* OrderedMap.                                                             *)
(***************************************************************************)
EXTENDS ConcurrentSkipListMap, WellFoundedInduction, TLAPS

-----------------------------------------------------------------------------
(* Types *)

Pointers == [to : Node \cup {Null}, dead : BOOLEAN]
SolidStates == {"linked", "unlinked", "retired"}

\* The program counters of find, firstKey and the extractor.
Loading == {"load", "set", "check"}
Reading == {"next", "set_next", "check_next"}
Deciding == {"prev", "dead", "unlink", "drop"}
Marking == {"mark", "mark_cas"}
Placing == {"make", "link"}
Searching == {"descend"} \cup Loading \cup Reading \cup Deciding
Raising == {"raise", "write"}
Finishing == {"index", "overage"}
Finder == {"insert", "erase", "exists"}

PCs == {"idle", "return"} \cup Searching \cup Marking \cup Placing \cup Raising \cup Finishing

ThreadState ==
    [pc : PCs, op : Op \cup {"none"}, key : Nat, ret : {"none", "true", "false"},
     prev : Node \cup {Null, Head}, cur : Node \cup {Null}, next : Pointers, n : Node \cup {Null},
     level : Nat, gone : BOOLEAN, gaveUp : BOOLEAN]

Types ==
    /\ next \in [Node \cup {Head} -> Pointers]
    /\ key \in [Node -> Nat]
    /\ count \in [Node -> 0..255]
    /\ state \in [Node -> States]
    /\ height \in Nat
    /\ hazard \in [Thread -> [0..3 -> Node \cup {Null, Head}]]
    /\ th \in [Thread -> ThreadState]

-----------------------------------------------------------------------------
(* The list *)

\* A node that was linked and not yet deleted.
Solid(n) == state[n] \in SolidStates

\* The successor of a is the node with the next larger key.
Follows(a) ==
    /\ next[a].to # Null => next[a].to \in Linked /\ Before(a, next[a].to)
    /\ \A m \in Linked \ {a} :
          \/ Before(a, m) /\ next[a].to # Null /\ key[next[a].to] <= key[m]
          \/ ~Before(a, m) /\ Before(m, a)

List == map = "exists" => \A a \in Linked \cup {Head} : Follows(a)

\* Only dead nodes are unlinked, and the head is not a node to erase.
DeadFirst ==
    /\ ~next[Head].dead
    /\ \A n \in Node : state[n] \in {"unlinked", "retired"} => next[n].dead

-----------------------------------------------------------------------------
(* The calls *)

\* Where each operation may be, and when it has its answer.
OpOf(r) ==
    /\ r.pc = "idle" => r = Idle
    /\ r.pc # "idle" => r.op \in Op /\ map # "destroyed"
    /\ r.op \in {"firstKey", "values"} =>
          r.ret = "none" /\ r.n = Null /\ r.pc \in Loading \cup Reading \cup {"return"}
    /\ r.op = "firstKey" => r.pc \notin Reading
    /\ r.op = "exists" =>
          r.n = Null /\ r.pc \in Searching \cup {"return"} /\ (r.ret = "none" <=> r.pc # "return")
    /\ r.op = "insert" =>
          /\ r.pc \in Searching \cup Placing \cup Raising \cup Finishing \cup {"return"}
          /\ r.ret = "none" <=> r.pc \in Searching \cup Placing \cup Raising
          /\ r.pc \in Raising => r.n = Null
          /\ r.pc \in Finishing => r.ret = "true"
          /\ r.pc = "overage" => r.level > 0
          /\ r.pc = "link" \/ r.ret = "true" => r.n # Null
    /\ r.op = "erase" =>
          /\ r.pc \in Searching \cup Marking \cup {"return"}
          /\ r.n = Null => r.pc \notin Marking /\ r.ret = (IF r.pc = "return" THEN "false" ELSE "none")
          /\ r.n # Null => (r.ret = "none" <=> r.pc \in Marking)

\* A node in a slot of h that has not been deleted.
Held(h, i, n) == n \in Node /\ h[i] = n /\ Solid(n)

\* r is an insert whose node is not linked yet.
Owner(r) == r.op = "insert" /\ r.n # Null /\ r.ret # "true"

\* What protects the nodes a call looks at, and what it knows of them.
PlaceOf(r, h) ==
    /\ r.pc \in Searching \cup Placing => r.prev = Head \/ Held(h, 2, r.prev)
    /\ r.pc \in {"descend"} \cup Loading /\ r.op # "values" => r.prev = Head
    /\ r.pc = "check" => h[1] = r.cur
    /\ r.pc \in Reading \cup Deciding \cup Marking => Held(h, 1, r.cur)
    /\ r.pc \in Placing /\ r.cur # Null => Held(h, 1, r.cur)
    /\ r.pc \in Marking => r.n = r.cur
    /\ r.pc = "check_next" => h[0] = Shield(r.next)
    /\ r.pc \in {"prev", "dead"} /\ ~r.next.dead /\ r.next.to # Null => Held(h, 0, r.next.to)
    /\ r.pc \in {"prev", "dead"} /\ r.next.dead => next[r.cur].dead
    /\ r.pc = "unlink" => next[r.cur].dead
    /\ r.pc \in Finishing => Held(h, 3, r.n)
    /\ Owner(r) => state[r.n] = "private"
    /\ r.pc = "link" => h[3] = r.n /\ next[r.n] = Ptr(r.cur) /\ key[r.n] = r.key /\ count[r.n] = r.level + 1

\* What the keys it met say of the key a call is after.
KeyOf(r) ==
    r.op \in Finder =>
    /\ r.pc \in Reading \cup Deciding \cup Placing => r.prev = Head \/ key[r.prev] < r.key
    /\ r.pc \in Placing /\ r.cur # Null => r.key < key[r.cur]
    /\ r.pc \in Marking => key[r.n] = r.key
    /\ r.pc \in {"prev", "dead"} /\ ~r.next.dead /\ r.next.to = Null /\ key[r.cur] < r.key => r.gone
    /\ r.pc = "dead" /\ key[r.cur] > r.key => r.gone
    /\ r.pc = "drop" => key[r.cur] < r.key \/ r.gone
    /\ r.pc = "return" /\ r.ret = "false" /\ r.op # "insert" /\ r.n = Null => r.gone \/ r.gaveUp

CallOf(r, h) == OpOf(r) /\ PlaceOf(r, h) /\ KeyOf(r)

Calls == \A t \in Thread : CallOf(th[t], hazard[t])

\* r is an insert that is not done with its node.
Busy(r) == Owner(r) \/ r.pc \in Finishing

\* No two inserts have the same node.
OneOwner == \A t, u \in Thread : t # u /\ Busy(th[t]) /\ Busy(th[u]) => th[t].n # th[u].n

ListInv == Types /\ List /\ DeadFirst /\ Calls /\ OneOwner

-----------------------------------------------------------------------------
(* link_count *)

\* The inserts that have yet to give back the upper links of n; the finds that
\* unlinked it and have yet to drop its link.
Settling(n) == {t \in Thread : th[t].pc \in Finishing /\ th[t].n = n /\ th[t].level > 0}
Dropping(n) == {t \in Thread : th[t].pc = "drop" /\ th[t].cur = n}

\* The link of n on level 0, until it is dropped.
Base(n) == IF state[n] = "linked" \/ Dropping(n) # {} THEN 1 ELSE 0

CountOf(n) ==
    /\ \A t, u \in Dropping(n) : t = u
    /\ Dropping(n) # {} => state[n] = "unlinked"
    /\ Settling(n) # {} => state[n] \in {"linked", "unlinked"}
    /\ \A t \in Settling(n) : count[n] = Base(n) + th[t].level
    /\ Solid(n) /\ Settling(n) = {} => count[n] = Base(n)
    /\ state[n] = "unlinked" => Settling(n) # {} \/ Dropping(n) # {}

Counts == \A n \in Node : CountOf(n)

MapInv == ListInv /\ Counts

-----------------------------------------------------------------------------
(* The records of the calls *)

\* e is r but for its place, the nodes it looks at and its answer.
Same(e, r) == e.op = r.op /\ e.key = r.key /\ e.level = r.level

\* Where a search starts.
Start(op) == IF op \in {"firstKey", "values"} THEN "load" ELSE "descend"

Restarted(r) == [r EXCEPT !.pc = Start(r.op), !.prev = Head, !.cur = Null, !.next = Ptr(Null)]

\* A plain pointer.
LEMMA PtrType == ASSUME NEW n \in Node \cup {Null} PROVE Ptr(n) \in Pointers /\ Ptr(n).to = n /\ ~Ptr(n).dead
  BY DEF Ptr, Pointers

\* try_again.
LEMMA RestartedState ==
    ASSUME NEW r \in ThreadState
    PROVE  LET e == Restarted(r) IN
           /\ e \in ThreadState /\ e.pc = Start(r.op) /\ e.prev = Head /\ e.cur = Null /\ e.next = Ptr(Null)
           /\ Same(e, r) /\ e.ret = r.ret /\ e.n = r.n /\ e.gone = r.gone /\ e.gaveUp = r.gaveUp
  <1>1. Ptr(Null) \in Pointers
    BY PtrType
  <1>2. Start(r.op) \in PCs
    BY DEF Start, PCs, Searching, Loading
  <1> QED  BY <1>1, <1>2 DEF Restarted, ThreadState, Same

\* Only the place changes.
LEMMA PcState ==
    ASSUME NEW r \in ThreadState, NEW p \in PCs
    PROVE  LET e == [r EXCEPT !.pc = p] IN
           /\ e \in ThreadState /\ e.pc = p /\ e.prev = r.prev /\ e.cur = r.cur /\ e.next = r.next
           /\ Same(e, r) /\ e.ret = r.ret /\ e.n = r.n /\ e.gone = r.gone /\ e.gaveUp = r.gaveUp
  BY DEF ThreadState, Same

\* The key is looked for at one more moment.
LEMMA LookState ==
    ASSUME NEW r \in ThreadState
    PROVE  LET e == Look(r) IN
           /\ e \in ThreadState /\ e.pc = r.pc /\ e.prev = r.prev /\ e.cur = r.cur /\ e.next = r.next
           /\ Same(e, r) /\ e.ret = r.ret /\ e.n = r.n /\ e.gaveUp = r.gaveUp
           /\ (e.gone <=> r.gone \/ r.key \notin Keys)
  BY DEF ThreadState, Same, Look

\* What an operation does with the answer of find.
LEMMA DoneState ==
    ASSUME NEW r \in ThreadState, r.op \in Finder, NEW match \in BOOLEAN, r.ret \in {"none", "true", "false"}
    PROVE  LET e == Done(r, match) IN
           /\ e \in ThreadState /\ e.prev = r.prev /\ e.cur = r.cur /\ e.next = r.next
           /\ Same(e, r) /\ e.gone = r.gone /\ e.gaveUp = r.gaveUp
           /\ r.op = "insert" /\ match => e.pc = "return" /\ e.ret = "false" /\ e.n = r.n
           /\ r.op = "insert" /\ ~match => e.pc = "make" /\ e.ret = r.ret /\ e.n = r.n
           /\ r.op = "exists" => e.pc = "return" /\ e.ret = (IF match THEN "true" ELSE "false") /\ e.n = r.n
           /\ r.op = "erase" /\ r.n # Null => e.pc = "return" /\ e.ret = r.ret /\ e.n = r.n
           /\ r.op = "erase" /\ r.n = Null /\ match => e.pc = "mark" /\ e.ret = r.ret /\ e.n = r.cur
           /\ r.op = "erase" /\ r.n = Null /\ ~match => e.pc = "return" /\ e.ret = "false" /\ e.n = Null
  <1> USE DEF ThreadState, PCs, Placing, Marking, Same, Finder
  <1>1. CASE r.op = "insert" /\ match
    <2>1. Done(r, match) = [r EXCEPT !.pc = "return", !.ret = "false"]
      BY <1>1 DEF Done
    <2> QED  BY <1>1, <2>1
  <1>2. CASE r.op = "insert" /\ ~match
    <2>1. Done(r, match) = [r EXCEPT !.pc = "make"]
      BY <1>2 DEF Done
    <2> QED  BY <1>2, <2>1
  <1>3. CASE r.op = "exists" /\ match
    <2>1. Done(r, match) = [r EXCEPT !.pc = "return", !.ret = "true"]
      BY <1>3 DEF Done
    <2> QED  BY <1>3, <2>1
  <1>4. CASE r.op = "exists" /\ ~match
    <2>1. Done(r, match) = [r EXCEPT !.pc = "return", !.ret = "false"]
      BY <1>4 DEF Done
    <2> QED  BY ZenonT(60), <1>4, <2>1
  <1>5. CASE r.op = "erase" /\ r.n # Null
    <2>1. Done(r, match) = [r EXCEPT !.pc = "return"]
      BY <1>5 DEF Done
    <2> QED  BY <1>5, <2>1
  <1>6. CASE r.op = "erase" /\ r.n = Null /\ match
    <2>1. Done(r, match) = [r EXCEPT !.pc = "mark", !.n = r.cur]
      BY <1>6 DEF Done
    <2> QED  BY ZenonT(60), <1>6, <2>1
  <1>7. CASE r.op = "erase" /\ r.n = Null /\ ~match
    <2>1. Done(r, match) = [r EXCEPT !.pc = "return", !.ret = "false"]
      BY <1>7 DEF Done
    <2> QED  BY ZenonT(60), <1>7, <2>1
  <1> QED  BY <1>1, <1>2, <1>3, <1>4, <1>5, <1>6, <1>7

\* Where a thread goes with a protected cur.
LEMMA VisitState ==
    ASSUME NEW r \in ThreadState, r.op \in Op
    PROVE  LET e == Visit(r) IN
           /\ r.op = "firstKey" \/ (r.op = "values" /\ r.cur = Null) => e = [r EXCEPT !.pc = "return"]
           /\ r.op \in Finder /\ r.cur = Null => e = Done(r, FALSE)
           /\ r.op # "firstKey" /\ r.cur # Null => e = [r EXCEPT !.pc = "next"]
  <1>1. CASE r.op = "firstKey" \/ (r.op = "values" /\ r.cur = Null)
    <2>1. Visit(r) = [r EXCEPT !.pc = "return"]
      BY <1>1 DEF Visit
    <2> QED  BY <1>1, <2>1 DEF Finder
  <1>2. CASE r.op \in Finder /\ r.cur = Null
    <2>1. Visit(r) = Done(r, FALSE)
      BY <1>2 DEF Visit, Finder
    <2> QED  BY <1>2, <2>1 DEF Finder
  <1>3. CASE r.op # "firstKey" /\ r.cur # Null
    <2>1. Visit(r) = [r EXCEPT !.pc = "next"]
      BY <1>3 DEF Visit
    <2> QED  BY <1>3, <2>1
  <1> QED  BY <1>1, <1>2, <1>3 DEF Finder, Op

-----------------------------------------------------------------------------
(* Steps that leave the list alone *)

Slots == [0..3 -> Node \cup {Null, Head}]

\* The state of a thread.
LEMMA StateOf ==
    ASSUME MapInv, NEW t \in Thread
    PROVE  /\ th[t] \in ThreadState /\ hazard[t] \in Slots
           /\ OpOf(th[t]) /\ PlaceOf(th[t], hazard[t]) /\ KeyOf(th[t])
  BY DEF MapInv, ListInv, Types, Slots, Calls, CallOf

\* The fields of a call.
LEMMA FieldsOf ==
    ASSUME NEW r \in ThreadState
    PROVE  /\ r.pc \in PCs /\ r.op \in Op \cup {"none"} /\ r.key \in Nat /\ r.ret \in {"none", "true", "false"}
           /\ r.prev \in Node \cup {Null, Head} /\ r.cur \in Node \cup {Null} /\ r.next \in Pointers
           /\ r.n \in Node \cup {Null} /\ r.level \in Nat
  BY DEF ThreadState

\* A thread's record and slots replaced.
LEMMA ThreadSet ==
    ASSUME MapInv, NEW t \in Thread, NEW e \in ThreadState, NEW h \in Slots,
           th' = [th EXCEPT ![t] = e], hazard' = [hazard EXCEPT ![t] = h]
    PROVE  /\ th' \in [Thread -> ThreadState] /\ hazard' \in [Thread -> Slots]
           /\ th'[t] = e /\ hazard'[t] = h
           /\ \A u \in Thread : u # t => th'[u] = th[u] /\ hazard'[u] = hazard[u]
  BY DEF MapInv, ListInv, Types, Slots

\* One slot of a thread set.
LEMMA SlotSet ==
    ASSUME MapInv, NEW t \in Thread, NEW i \in 0..3, NEW n \in Node \cup {Null, Head}, Set(t, i, n)
    PROVE  LET h == [hazard[t] EXCEPT ![i] = n] IN
           /\ h \in Slots /\ hazard' = [hazard EXCEPT ![t] = h] /\ h[i] = n
           /\ \A j \in 0..3 : j # i => h[j] = hazard[t][j]
  <1>1. hazard[t] \in Slots /\ hazard \in [Thread -> Slots]
    BY DEF MapInv, ListInv, Types, Slots
  <1> QED  BY <1>1 DEF Set, Slots

\* What is known of a call depends on its record, its slots and the heap only.
LEMMA HeapOnly ==
    ASSUME NEW t \in Thread, NEW x, NEW y, x = th'[t], y = hazard'[t],
           UNCHANGED <<next, key, count, state, map>>, CallOf(x, y)
    PROVE  CallOf(th[t], hazard[t])'
  <1>1. OpOf(th[t])'
    BY DEF CallOf, OpOf
  <1>2. PlaceOf(th[t], hazard[t])'
    BY DEF CallOf, PlaceOf, Held, Solid, Owner, Ptr, Shield
  <1>3. KeyOf(th[t])'
    BY DEF CallOf, KeyOf
  <1> QED  BY <1>1, <1>2, <1>3 DEF CallOf

\* A step of t alone that takes no node and changes no count.
LEMMA ThreadStep ==
    ASSUME MapInv, NEW t \in Thread, NEW e \in ThreadState, NEW h \in Slots,
           th' = [th EXCEPT ![t] = e], hazard' = [hazard EXCEPT ![t] = h],
           UNCHANGED <<heap, map>>, height' \in Nat,
           Busy(e) => Busy(th[t]) /\ e.n = th[t].n, e.level = th[t].level \/ th[t].pc \notin Finishing,
           \A n \in Node : Settling(n)' = Settling(n) /\ Dropping(n)' = Dropping(n),
           CallOf(e, h)
    PROVE  MapInv'
  <1>1. /\ th' \in [Thread -> ThreadState] /\ hazard' \in [Thread -> Slots]
        /\ th'[t] = e /\ hazard'[t] = h
        /\ \A u \in Thread : u # t => th'[u] = th[u] /\ hazard'[u] = hazard[u]
    BY ThreadSet
  <1>2. UNCHANGED <<next, key, count, state, map>>
    BY DEF heap
  <1>3. Types'
    BY <1>1, <1>2 DEF Types, Slots, MapInv, ListInv
  <1>4. List' /\ DeadFirst'
    BY <1>2 DEF List, DeadFirst, Follows, Linked, Before, MapInv, ListInv
  <1>5. Calls'
    <2> SUFFICES ASSUME NEW u \in Thread PROVE CallOf(th[u], hazard[u])'
      BY DEF Calls
    <2>1. PICK x \in ThreadState, y \in Slots : x = th'[u] /\ y = hazard'[u] /\ CallOf(x, y)
      BY <1>1 DEF Calls, MapInv, ListInv
    <2> QED  BY <1>2, <2>1, HeapOnly
  <1>6. OneOwner'
    <2> SUFFICES ASSUME NEW u \in Thread, NEW w \in Thread, u # w, Busy(th'[u]), Busy(th'[w])
                 PROVE  th'[u].n # th'[w].n
      BY DEF OneOwner, Busy, Owner
    <2> QED  BY <1>1 DEF OneOwner, MapInv, ListInv
  <1>7. Counts'
    <2> SUFFICES ASSUME NEW n \in Node PROVE CountOf(n)'
      BY DEF Counts
    <2>1. Settling(n)' = Settling(n) /\ Dropping(n)' = Dropping(n)
      OBVIOUS
    <2>2. \A u \in Settling(n) : th'[u].level = th[u].level
      BY <1>1 DEF Settling
    <2>3. CountOf(n)
      BY DEF MapInv, Counts
    <2>4. Base(n)' = Base(n)
      BY <1>2, <2>1 DEF Base
    <2> QED  BY <1>2, <2>1, <2>2, <2>3, <2>4 DEF CountOf, Solid
  <1> QED  BY <1>3, <1>4, <1>5, <1>6, <1>7 DEF MapInv, ListInv

\* Such a step of a thread that settles no count.
LEMMA QuietStep ==
    ASSUME MapInv, NEW t \in Thread, NEW e \in ThreadState, NEW h \in Slots,
           th' = [th EXCEPT ![t] = e], hazard' = [hazard EXCEPT ![t] = h],
           UNCHANGED <<heap, map>>, height' \in Nat,
           Busy(e) => Busy(th[t]) /\ e.n = th[t].n,
           e.pc \notin {"drop", "index", "overage"}, th[t].pc \notin {"drop", "index", "overage"},
           CallOf(e, h)
    PROVE  MapInv'
  <1>1. th'[t] = e /\ \A u \in Thread : u # t => th'[u] = th[u]
    BY ThreadSet
  <1>2. \A n \in Node : Settling(n)' = Settling(n) /\ Dropping(n)' = Dropping(n)
    BY <1>1 DEF Settling, Dropping, Finishing
  <1>3. th[t].pc \notin Finishing
    BY DEF Finishing
  <1> QED  BY <1>2, <1>3, ThreadStep

\* The slots of a thread that sets none.
LEMMA SlotsSame ==
    ASSUME MapInv, NEW t \in Thread, hazard' = hazard
    PROVE  hazard' = [hazard EXCEPT ![t] = hazard[t]]
  BY DEF MapInv, ListInv, Types

\* height_ is in its range.
LEMMA HeightSame == ASSUME MapInv, height' = height PROVE height' \in Nat
  BY DEF MapInv, ListInv, Types

\* A node that was linked, is not deleted and is not dead, is linked still.
LEMMA LiveIsLinked ==
    ASSUME MapInv, NEW n \in Node, Solid(n), ~next[n].dead
    PROVE  n \in Linked
  BY DEF MapInv, ListInv, DeadFirst, Solid, SolidStates, Linked

\* What a plain link leads to is linked, when its owner was linked and is not deleted.
LEMMA NextOf ==
    ASSUME MapInv, map = "exists", NEW a \in Node \cup {Head}, a = Head \/ Solid(a), ~next[a].dead
    PROVE  /\ a \in Linked \cup {Head} /\ Follows(a)
           /\ next[a].to # Null => next[a].to \in Node /\ next[a].to \in Linked /\ Solid(next[a].to)
  <1>1. a \in Linked \cup {Head}
    BY LiveIsLinked
  <1>2. Follows(a)
    BY <1>1 DEF MapInv, ListInv, List
  <1>3. next[a].to # Null => next[a].to \in Linked
    BY <1>2 DEF Follows
  <1> QED  BY <1>1, <1>2, <1>3 DEF Linked, Solid, SolidStates

\* A key that falls between a node and its successor is not in the map.
LEMMA Absent ==
    ASSUME MapInv, NEW a \in Linked \cup {Head}, Follows(a), NEW k \in Nat,
           a = Head \/ key[a] < k, next[a].to = Null \/ k < key[next[a].to]
    PROVE  k \notin {key[n] : n \in Linked}
  <1> SUFFICES ASSUME NEW m \in Linked, key[m] = k PROVE FALSE
    OBVIOUS
  <1>1. m \in Node /\ key[m] \in Nat
    BY DEF Linked, MapInv, ListInv, Types
  <1>2. m # a
    BY <1>1, AddressAssumption
  <1>3. \/ Before(a, m) /\ next[a].to # Null /\ key[next[a].to] <= key[m]
        \/ ~Before(a, m) /\ Before(m, a)
    BY <1>2 DEF Follows
  <1>4. Before(a, m)
    BY DEF Before
  <1>5. next[a].to # Null => next[a].to \in Node /\ key[next[a].to] \in Nat
    BY DEF Follows, Linked, MapInv, ListInv, Types
  <1> QED  BY <1>1, <1>3, <1>4, <1>5

\* The keys of the map are those of linked nodes.
LEMMA KeysLinked == Keys \subseteq {key[n] : n \in Linked}
  BY DEF Keys, Live

\* cur is loaded from prev; a marked link sends values back to the head.
LEMMA LoadStep ==
    ASSUME MapInv, map = "exists", NEW t \in Thread, Load(t)
    PROVE  MapInv'
  <1> DEFINE r == th[t]
             s == hazard[t]
  <1>0. r \in ThreadState /\ s \in Slots /\ OpOf(r) /\ PlaceOf(r, s) /\ KeyOf(r)
    BY StateOf
  <1>f. /\ r.pc \in PCs /\ r.op \in Op \cup {"none"} /\ r.key \in Nat /\ r.ret \in {"none", "true", "false"}
        /\ r.prev \in Node \cup {Null, Head} /\ r.cur \in Node \cup {Null} /\ r.next \in Pointers
        /\ r.n \in Node \cup {Null} /\ r.level \in Nat
    BY <1>0, FieldsOf
  <1>l. r.pc = "load" /\ r.op \in Op /\ map = "exists"
    BY <1>0 DEF Load, OpOf
  <1>p. r.prev \in Node \cup {Head} /\ next[r.prev] \in Pointers
    <2>1. r.prev \in Node \cup {Head}
      BY <1>0, <1>l DEF PlaceOf, Held, Searching, Loading
    <2> QED  BY <2>1 DEF MapInv, ListInv, Types
  <1>1. CASE next[r.prev].dead
    <2> DEFINE e == Restarted(r)
               h == [hazard[t] EXCEPT ![1] = Null]
    <2>1. th' = [th EXCEPT ![t] = e] /\ r.pc = "load" /\ UNCHANGED <<heap, height, map>>
      BY <1>1 DEF Load, Restart, Restarted, Start, MapInv, ListInv, Types, ThreadState
    <2>2. /\ e \in ThreadState /\ Same(e, r)
          /\ e.pc = Start(r.op) /\ e.prev = Head /\ e.ret = r.ret /\ e.n = r.n
      BY <1>0, RestartedState
    <2>3. /\ h \in Slots /\ hazard' = [hazard EXCEPT ![t] = h]
      BY <1>1, SlotSet DEF Load
    <2> HIDE DEF e, h, r, s
    <2>4. OpOf(e)
      BY <1>0, <1>f, <1>1, <2>1, <2>2 DEF OpOf, Op, Same, Finder, Searching, Loading, Reading, Deciding, Marking, Placing, Raising, Finishing, Start
    <2>5. PlaceOf(e, h)
      BY <1>0, <1>f, <2>1, <2>2 DEF PlaceOf, Held, Owner, Same, Searching, Loading, Reading, Deciding, Marking, Placing, Raising, Finishing, Start
    <2>6. KeyOf(e)
      BY <2>2 DEF KeyOf, Same, Searching, Loading, Reading, Deciding, Marking, Placing, Raising, Finishing, Start
    <2>7. (Busy(e) => Busy(r) /\ e.n = r.n) /\ e.pc \notin {"drop", "index", "overage"}
      BY <2>1, <2>2 DEF Finishing, Busy, Owner, Same, Start
    <2> QED  BY <2>1, <2>2, <2>3, <2>4, <2>5, <2>6, <2>7, QuietStep, HeightSame DEF CallOf, r
  <1>2. CASE ~next[r.prev].dead
    <2> DEFINE e == [r EXCEPT !.cur = next[r.prev].to, !.pc = "set"]
               h == s
    <2>1. th' = [th EXCEPT ![t] = e] /\ r.pc = "load" /\ UNCHANGED <<heap, height, map>>
      BY <1>2 DEF Load, Restart, Restarted, Start, MapInv, ListInv, Types, ThreadState
    <2>2. /\ e \in ThreadState /\ Same(e, r)
          /\ e.pc = "set" /\ e.prev = r.prev /\ e.ret = r.ret /\ e.n = r.n
      <3>1. next[r.prev].to \in Node \cup {Null}
        BY <1>p DEF Pointers
      <3> QED  BY <1>0, <3>1 DEF ThreadState, Same, PCs, Searching, Loading
    <2>3. /\ h \in Slots /\ hazard' = [hazard EXCEPT ![t] = h]
        /\ h = s
      BY <1>2, <1>0, SlotsSame DEF Load
    <2> HIDE DEF e, h, r, s
    <2>4. OpOf(e)
      BY <1>0, <1>f, <1>2, <2>1, <2>2 DEF OpOf, Op, Same, Finder, Searching, Loading, Reading, Deciding, Marking, Placing, Raising, Finishing, Start
    <2>5. PlaceOf(e, h)
      BY <1>0, <1>f, <2>1, <2>2, <2>3 DEF PlaceOf, Held, Owner, Same, Searching, Loading, Reading, Deciding, Marking, Placing, Raising, Finishing, Start
    <2>6. KeyOf(e)
      BY <2>2 DEF KeyOf, Same, Searching, Loading, Reading, Deciding, Marking, Placing, Raising, Finishing, Start
    <2>7. (Busy(e) => Busy(r) /\ e.n = r.n) /\ e.pc \notin {"drop", "index", "overage"}
      BY <2>1, <2>2 DEF Finishing, Busy, Owner, Same, Start
    <2> QED  BY <2>1, <2>2, <2>3, <2>4, <2>5, <2>6, <2>7, QuietStep, HeightSame DEF CallOf, r
  <1> QED  BY <1>1, <1>2

\* Slot 1 is set to cur.
LEMMA SetCurStep ==
    ASSUME MapInv, map = "exists", NEW t \in Thread, SetCur(t)
    PROVE  MapInv'
  <1> DEFINE r == th[t]
             s == hazard[t]
  <1>0. r \in ThreadState /\ s \in Slots /\ OpOf(r) /\ PlaceOf(r, s) /\ KeyOf(r)
    BY StateOf
  <1>f. /\ r.pc \in PCs /\ r.op \in Op \cup {"none"} /\ r.key \in Nat /\ r.ret \in {"none", "true", "false"}
        /\ r.prev \in Node \cup {Null, Head} /\ r.cur \in Node \cup {Null} /\ r.next \in Pointers
        /\ r.n \in Node \cup {Null} /\ r.level \in Nat
    BY <1>0, FieldsOf
  <1> DEFINE e == [r EXCEPT !.pc = "check"]
             h == [hazard[t] EXCEPT ![1] = r.cur]
  <1>1. th' = [th EXCEPT ![t] = e] /\ r.pc = "set" /\ UNCHANGED <<heap, height, map>>
    BY <1>0 DEF SetCur, Restart, Restarted, Start, MapInv, ListInv, Types, ThreadState
  <1>2. /\ e \in ThreadState /\ Same(e, r)
        /\ e.pc = "check" /\ e.prev = r.prev /\ e.cur = r.cur /\ e.ret = r.ret /\ e.n = r.n
    BY <1>0, PcState DEF PCs, Searching, Loading
  <1>3. /\ h \in Slots /\ hazard' = [hazard EXCEPT ![t] = h]
        /\ h[1] = r.cur /\ h[2] = s[2]
    BY <1>f, SlotSet DEF SetCur, Slots
  <1> HIDE DEF e, h, r, s
  <1>4. OpOf(e)
    BY <1>0, <1>f, <1>0, <1>1, <1>2 DEF OpOf, Op, Same, Finder, Searching, Loading, Reading, Deciding, Marking, Placing, Raising, Finishing, Start
  <1>5. PlaceOf(e, h)
    BY <1>0, <1>f, <1>1, <1>2, <1>3 DEF PlaceOf, Held, Owner, Same, Searching, Loading, Reading, Deciding, Marking, Placing, Raising, Finishing, Start
  <1>6. KeyOf(e)
    BY <1>2 DEF KeyOf, Same, Searching, Loading, Reading, Deciding, Marking, Placing, Raising, Finishing, Start
  <1>7. Busy(e) => Busy(r) /\ e.n = r.n
    BY <1>1, <1>2 DEF Finishing, Busy, Owner, Same
  <1> QED  BY <1>1, <1>2, <1>3, <1>4, <1>5, <1>6, <1>7, QuietStep, HeightSame DEF CallOf, r

\* next is loaded from cur.
LEMMA LoadNextStep ==
    ASSUME MapInv, map = "exists", NEW t \in Thread, LoadNext(t)
    PROVE  MapInv'
  <1> DEFINE r == th[t]
             s == hazard[t]
  <1>0. r \in ThreadState /\ s \in Slots /\ OpOf(r) /\ PlaceOf(r, s) /\ KeyOf(r)
    BY StateOf
  <1>f. /\ r.pc \in PCs /\ r.op \in Op \cup {"none"} /\ r.key \in Nat /\ r.ret \in {"none", "true", "false"}
        /\ r.prev \in Node \cup {Null, Head} /\ r.cur \in Node \cup {Null} /\ r.next \in Pointers
        /\ r.n \in Node \cup {Null} /\ r.level \in Nat
    BY <1>0, FieldsOf
  <1>l. r.pc = "next" /\ r.cur \in Node
    BY <1>0 DEF LoadNext, PlaceOf, Held, Reading
  <1> DEFINE e == [r EXCEPT !.next = next[r.cur], !.pc = "set_next"]
             h == s
  <1>1. th' = [th EXCEPT ![t] = e] /\ r.pc = "next" /\ UNCHANGED <<heap, height, map>>
    BY <1>0 DEF LoadNext, Restart, Restarted, Start, MapInv, ListInv, Types, ThreadState
  <1>2. /\ e \in ThreadState /\ Same(e, r)
        /\ e.pc = "set_next" /\ e.prev = r.prev /\ e.cur = r.cur /\ e.ret = r.ret /\ e.n = r.n
    <2>1. next[r.cur] \in Pointers
      BY <1>l DEF MapInv, ListInv, Types
    <2> QED  BY <1>0, <2>1 DEF ThreadState, Same, PCs, Searching, Reading
  <1>3. /\ h \in Slots /\ hazard' = [hazard EXCEPT ![t] = h]
        /\ h = s
    BY <1>0, <1>0, SlotsSame DEF LoadNext
  <1> HIDE DEF e, h, r, s
  <1>4. OpOf(e)
    BY <1>0, <1>f, <1>0, <1>1, <1>2 DEF OpOf, Op, Same, Finder, Searching, Loading, Reading, Deciding, Marking, Placing, Raising, Finishing, Start
  <1>5. PlaceOf(e, h)
    BY <1>0, <1>f, <1>1, <1>2, <1>3 DEF PlaceOf, Held, Owner, Same, Searching, Loading, Reading, Deciding, Marking, Placing, Raising, Finishing, Start
  <1>6. KeyOf(e)
    BY <1>0, <1>1, <1>2 DEF KeyOf, Same, Searching, Loading, Reading, Deciding, Marking, Placing, Raising, Finishing, Start
  <1>7. Busy(e) => Busy(r) /\ e.n = r.n
    BY <1>1, <1>2 DEF Finishing, Busy, Owner, Same
  <1> QED  BY <1>1, <1>2, <1>3, <1>4, <1>5, <1>6, <1>7, QuietStep, HeightSame DEF CallOf, r

\* Slot 0 is set to next.
LEMMA SetNextStep ==
    ASSUME MapInv, map = "exists", NEW t \in Thread, SetNext(t)
    PROVE  MapInv'
  <1> DEFINE r == th[t]
             s == hazard[t]
  <1>0. r \in ThreadState /\ s \in Slots /\ OpOf(r) /\ PlaceOf(r, s) /\ KeyOf(r)
    BY StateOf
  <1>f. /\ r.pc \in PCs /\ r.op \in Op \cup {"none"} /\ r.key \in Nat /\ r.ret \in {"none", "true", "false"}
        /\ r.prev \in Node \cup {Null, Head} /\ r.cur \in Node \cup {Null} /\ r.next \in Pointers
        /\ r.n \in Node \cup {Null} /\ r.level \in Nat
    BY <1>0, FieldsOf
  <1>l. Shield(r.next) \in Node \cup {Null, Head}
    BY <1>f DEF Shield, Pointers
  <1> DEFINE e == [r EXCEPT !.pc = "check_next"]
             h == [hazard[t] EXCEPT ![0] = Shield(r.next)]
  <1>1. th' = [th EXCEPT ![t] = e] /\ r.pc = "set_next" /\ UNCHANGED <<heap, height, map>>
    BY <1>0 DEF SetNext, Restart, Restarted, Start, MapInv, ListInv, Types, ThreadState
  <1>2. /\ e \in ThreadState /\ Same(e, r)
        /\ e.pc = "check_next" /\ e.prev = r.prev /\ e.cur = r.cur /\ e.next = r.next /\ e.ret = r.ret /\ e.n = r.n
    BY <1>0, PcState DEF PCs, Searching, Reading
  <1>3. /\ h \in Slots /\ hazard' = [hazard EXCEPT ![t] = h]
        /\ h[0] = Shield(r.next) /\ h[1] = s[1] /\ h[2] = s[2]
    BY <1>l, SlotSet DEF SetNext
  <1> HIDE DEF e, h, r, s
  <1>4. OpOf(e)
    BY <1>0, <1>f, <1>0, <1>1, <1>2 DEF OpOf, Op, Same, Finder, Searching, Loading, Reading, Deciding, Marking, Placing, Raising, Finishing, Start
  <1>5. PlaceOf(e, h)
    BY <1>0, <1>f, <1>1, <1>2, <1>3 DEF PlaceOf, Held, Owner, Same, Searching, Loading, Reading, Deciding, Marking, Placing, Raising, Finishing, Start
  <1>6. KeyOf(e)
    BY <1>0, <1>1, <1>2 DEF KeyOf, Same, Searching, Loading, Reading, Deciding, Marking, Placing, Raising, Finishing, Start
  <1>7. Busy(e) => Busy(r) /\ e.n = r.n
    BY <1>1, <1>2 DEF Finishing, Busy, Owner, Same
  <1> QED  BY <1>1, <1>2, <1>3, <1>4, <1>5, <1>6, <1>7, QuietStep, HeightSame DEF CallOf, r

\* erase loads the link it is to mark.
LEMMA MarkLoadStep ==
    ASSUME MapInv, map = "exists", NEW t \in Thread, MarkLoad(t)
    PROVE  MapInv'
  <1> DEFINE r == th[t]
             s == hazard[t]
  <1>0. r \in ThreadState /\ s \in Slots /\ OpOf(r) /\ PlaceOf(r, s) /\ KeyOf(r)
    BY StateOf
  <1>f. /\ r.pc \in PCs /\ r.op \in Op \cup {"none"} /\ r.key \in Nat /\ r.ret \in {"none", "true", "false"}
        /\ r.prev \in Node \cup {Null, Head} /\ r.cur \in Node \cup {Null} /\ r.next \in Pointers
        /\ r.n \in Node \cup {Null} /\ r.level \in Nat
    BY <1>0, FieldsOf
  <1>l. r.pc = "mark" /\ r.n \in Node
    BY <1>0 DEF MarkLoad, PlaceOf, Held, Marking
  <1> DEFINE e == [r EXCEPT !.next = next[r.n], !.pc = "mark_cas"]
             h == s
  <1>1. th' = [th EXCEPT ![t] = e] /\ r.pc = "mark" /\ UNCHANGED <<heap, height, map>>
    BY <1>0 DEF MarkLoad, Restart, Restarted, Start, MapInv, ListInv, Types, ThreadState
  <1>2. /\ e \in ThreadState /\ Same(e, r)
        /\ e.pc = "mark_cas" /\ e.prev = r.prev /\ e.cur = r.cur /\ e.ret = r.ret /\ e.n = r.n
    <2>1. next[r.n] \in Pointers
      BY <1>l DEF MapInv, ListInv, Types
    <2> QED  BY <1>0, <2>1 DEF ThreadState, Same, PCs, Marking
  <1>3. /\ h \in Slots /\ hazard' = [hazard EXCEPT ![t] = h]
        /\ h = s
    BY <1>0, <1>0, SlotsSame DEF MarkLoad
  <1> HIDE DEF e, h, r, s
  <1>4. OpOf(e)
    BY <1>0, <1>f, <1>0, <1>1, <1>2 DEF OpOf, Op, Same, Finder, Searching, Loading, Reading, Deciding, Marking, Placing, Raising, Finishing, Start
  <1>5. PlaceOf(e, h)
    BY <1>0, <1>f, <1>1, <1>2, <1>3 DEF PlaceOf, Held, Owner, Same, Searching, Loading, Reading, Deciding, Marking, Placing, Raising, Finishing, Start
  <1>6. KeyOf(e)
    BY <1>0, <1>1, <1>2 DEF KeyOf, Same, Searching, Loading, Reading, Deciding, Marking, Placing, Raising, Finishing, Start
  <1>7. Busy(e) => Busy(r) /\ e.n = r.n
    BY <1>1, <1>2 DEF Finishing, Busy, Owner, Same
  <1> QED  BY <1>1, <1>2, <1>3, <1>4, <1>5, <1>6, <1>7, QuietStep, HeightSame DEF CallOf, r

\* next is read again: it is protected now, or the search starts over.
LEMMA CheckNextStep ==
    ASSUME MapInv, map = "exists", NEW t \in Thread, CheckNext(t)
    PROVE  MapInv'
  <1> DEFINE r == th[t]
             s == hazard[t]
  <1>0. r \in ThreadState /\ s \in Slots /\ OpOf(r) /\ PlaceOf(r, s) /\ KeyOf(r)
    BY StateOf
  <1>f. /\ r.pc \in PCs /\ r.op \in Op \cup {"none"} /\ r.key \in Nat /\ r.ret \in {"none", "true", "false"}
        /\ r.prev \in Node \cup {Null, Head} /\ r.cur \in Node \cup {Null} /\ r.next \in Pointers
        /\ r.n \in Node \cup {Null} /\ r.level \in Nat
    BY <1>0, FieldsOf
  <1>l. r.pc = "check_next" /\ r.op \in Finder /\ map = "exists" /\ r.cur \in Node /\ Solid(r.cur)
    <2>1. r.pc = "check_next" /\ r.op # "values"
      BY DEF CheckNext
    <2>2. r.op \in Op /\ map = "exists" /\ r.op # "firstKey"
      BY <1>0, <2>1 DEF OpOf, Reading
    <2>3. r.cur \in Node /\ Solid(r.cur)
      BY <1>0, <2>1 DEF PlaceOf, Held, Reading
    <2> QED  BY <2>1, <2>2, <2>3 DEF Op, Finder
  <1>1. CASE ~Unchanged(t)
    <2> DEFINE e == Restarted(r)
               h == [hazard[t] EXCEPT ![0] = Null]
    <2>1. th' = [th EXCEPT ![t] = e] /\ r.pc = "check_next" /\ UNCHANGED <<heap, height, map>>
      BY <1>1 DEF CheckNext, Restart, Restarted, Start, MapInv, ListInv, Types, ThreadState
    <2>2. /\ e \in ThreadState /\ Same(e, r)
          /\ e.pc = Start(r.op) /\ e.prev = Head /\ e.ret = r.ret /\ e.n = r.n
      BY <1>0, RestartedState
    <2>3. /\ h \in Slots /\ hazard' = [hazard EXCEPT ![t] = h]
      BY <1>1, SlotSet DEF CheckNext
    <2> HIDE DEF e, h, r, s
    <2>4. OpOf(e)
      BY <1>0, <1>f, <1>1, <2>1, <2>2 DEF OpOf, Op, Same, Finder, Searching, Loading, Reading, Deciding, Marking, Placing, Raising, Finishing, Start
    <2>5. PlaceOf(e, h)
      BY <1>0, <1>f, <2>1, <2>2 DEF PlaceOf, Held, Owner, Same, Searching, Loading, Reading, Deciding, Marking, Placing, Raising, Finishing, Start
    <2>6. KeyOf(e)
      BY <2>2 DEF KeyOf, Same, Searching, Loading, Reading, Deciding, Marking, Placing, Raising, Finishing, Start
    <2>7. (Busy(e) => Busy(r) /\ e.n = r.n) /\ e.pc \notin {"drop", "index", "overage"}
      BY <2>1, <2>2 DEF Finishing, Busy, Owner, Same, Start
    <2> QED  BY <2>1, <2>2, <2>3, <2>4, <2>5, <2>6, <2>7, QuietStep, HeightSame DEF CallOf, r
  <1>2. CASE Unchanged(t)
    <2>n. next[r.cur] = r.next
      BY <1>2 DEF Unchanged
    <2>k. ~r.next.dead => r.cur \in Linked /\ Follows(r.cur) /\ (r.next.to # Null => r.next.to \in Node /\ Solid(r.next.to))
      BY <1>l, <2>n, NextOf, AddressAssumption DEF Linked
    <2>g. ~r.next.dead /\ r.next.to = Null /\ key[r.cur] < r.key => r.key \notin Keys
      BY <1>f, <2>n, <2>k, Absent, KeysLinked
    <2>s. ~r.next.dead => Shield(r.next) = r.next.to
      BY DEF Shield
    <2> DEFINE e == [Look(r) EXCEPT !.pc = "prev"]
               h == s
    <2>1. th' = [th EXCEPT ![t] = e] /\ r.pc = "check_next" /\ UNCHANGED <<heap, height, map>>
      BY <1>l, <1>2 DEF CheckNext, Restart, Restarted, Start, MapInv, ListInv, Types, ThreadState
    <2>2. /\ e \in ThreadState /\ Same(e, r)
          /\ e.pc = "prev" /\ e.prev = r.prev /\ e.cur = r.cur /\ e.next = r.next /\ e.ret = r.ret /\ e.n = r.n
          /\ (e.gone <=> r.gone \/ r.key \notin Keys)
      <3> HIDE DEF Look
      <3> QED  BY <1>0, LookState, PcState DEF PCs, Searching, Deciding, Same
    <2>3. /\ h \in Slots /\ hazard' = [hazard EXCEPT ![t] = h]
          /\ h = s
      BY <1>2, <1>0, SlotsSame DEF CheckNext
    <2> HIDE DEF e, h, r, s
    <2>4. OpOf(e)
      BY <1>0, <1>f, <1>l, <1>2, <2>1, <2>2 DEF OpOf, Op, Same, Finder, Searching, Loading, Reading, Deciding, Marking, Placing, Raising, Finishing, Start
    <2>5. PlaceOf(e, h)
      BY <1>0, <1>f, <1>l, <2>1, <2>2, <2>3, <2>n, <2>k, <2>s DEF PlaceOf, Held, Owner, Same, Searching, Loading, Reading, Deciding, Marking, Placing, Raising, Finishing, Start
    <2>6. KeyOf(e)
      BY <1>0, <1>l, <2>1, <2>2, <2>g DEF KeyOf, Same, Searching, Loading, Reading, Deciding, Marking, Placing, Raising, Finishing, Start
    <2>7. (Busy(e) => Busy(r) /\ e.n = r.n) /\ e.pc \notin {"drop", "index", "overage"}
      BY <2>1, <2>2 DEF Finishing, Busy, Owner, Same, Start
    <2> QED  BY <2>1, <2>2, <2>3, <2>4, <2>5, <2>6, <2>7, QuietStep, HeightSame DEF CallOf, r
  <1> QED  BY <1>1, <1>2

\* prev is read again: it leads to cur still, or the search starts over.
LEMMA CheckPrevStep ==
    ASSUME MapInv, map = "exists", NEW t \in Thread, CheckPrev(t)
    PROVE  MapInv'
  <1> DEFINE r == th[t]
             s == hazard[t]
  <1>0. r \in ThreadState /\ s \in Slots /\ OpOf(r) /\ PlaceOf(r, s) /\ KeyOf(r)
    BY StateOf
  <1>f. /\ r.pc \in PCs /\ r.op \in Op \cup {"none"} /\ r.key \in Nat /\ r.ret \in {"none", "true", "false"}
        /\ r.prev \in Node \cup {Null, Head} /\ r.cur \in Node \cup {Null} /\ r.next \in Pointers
        /\ r.n \in Node \cup {Null} /\ r.level \in Nat
    BY <1>0, FieldsOf
  <1>l. r.pc = "prev" /\ r.op \in Finder /\ map = "exists" /\ r.cur \in Node
    <2>1. r.pc = "prev"
      BY DEF CheckPrev
    <2>2. r.op \in Op /\ map = "exists" /\ r.op \notin {"firstKey", "values"}
      BY <1>0, <2>1 DEF OpOf, Reading, Loading
    <2>3. r.cur \in Node
      BY <1>0, <2>1 DEF PlaceOf, Held, Deciding
    <2> QED  BY <2>1, <2>2, <2>3 DEF Op, Finder
  <1>1. CASE next[r.prev] # Ptr(r.cur)
    <2> DEFINE e == Restarted(r)
               h == s
    <2>1. th' = [th EXCEPT ![t] = e] /\ r.pc = "prev" /\ UNCHANGED <<heap, height, map>>
      BY <1>1 DEF CheckPrev, Restart, Restarted, Start, MapInv, ListInv, Types, ThreadState
    <2>2. /\ e \in ThreadState /\ Same(e, r)
          /\ e.pc = Start(r.op) /\ e.prev = Head /\ e.ret = r.ret /\ e.n = r.n
      BY <1>0, RestartedState
    <2>3. /\ h \in Slots /\ hazard' = [hazard EXCEPT ![t] = h]
          /\ h = s
      BY <1>1, <1>0, SlotsSame DEF CheckPrev
    <2> HIDE DEF e, h, r, s
    <2>4. OpOf(e)
      BY <1>0, <1>f, <1>1, <2>1, <2>2 DEF OpOf, Op, Same, Finder, Searching, Loading, Reading, Deciding, Marking, Placing, Raising, Finishing, Start
    <2>5. PlaceOf(e, h)
      BY <1>0, <1>f, <2>1, <2>2 DEF PlaceOf, Held, Owner, Same, Searching, Loading, Reading, Deciding, Marking, Placing, Raising, Finishing, Start
    <2>6. KeyOf(e)
      BY <2>2 DEF KeyOf, Same, Searching, Loading, Reading, Deciding, Marking, Placing, Raising, Finishing, Start
    <2>7. (Busy(e) => Busy(r) /\ e.n = r.n) /\ e.pc \notin {"drop", "index", "overage"}
      BY <2>1, <2>2 DEF Finishing, Busy, Owner, Same, Start
    <2> QED  BY <2>1, <2>2, <2>3, <2>4, <2>5, <2>6, <2>7, QuietStep, HeightSame DEF CallOf, r
  <1>2. CASE next[r.prev] = Ptr(r.cur)
    <2>n. next[r.prev].to = r.cur /\ ~next[r.prev].dead
      BY <1>2 DEF Ptr
    <2>p. r.prev \in Node \cup {Head} /\ (r.prev = Head \/ Solid(r.prev)) /\ (r.prev = Head \/ key[r.prev] < r.key)
      BY <1>0, <1>l DEF PlaceOf, KeyOf, Held, Searching, Deciding
    <2>k. r.prev \in Linked \cup {Head} /\ Follows(r.prev)
      BY <1>l, <2>n, <2>p, NextOf
    <2>g. key[r.cur] > r.key => r.key \notin Keys
      <3>1. key[r.cur] \in Nat
        BY <1>l DEF MapInv, ListInv, Types
      <3> SUFFICES ASSUME key[r.cur] > r.key PROVE r.key \notin Keys
        OBVIOUS
      <3>2. r.key < key[r.cur]
        BY <1>f, <3>1
      <3> QED  BY <1>f, <2>n, <2>p, <2>k, <3>2, Absent, KeysLinked
    <2> DEFINE e == [Look(r) EXCEPT !.pc = "dead"]
               h == s
    <2>1. th' = [th EXCEPT ![t] = e] /\ r.pc = "prev" /\ UNCHANGED <<heap, height, map>>
      BY <1>l, <1>2 DEF CheckPrev, Restart, Restarted, Start, MapInv, ListInv, Types, ThreadState
    <2>2. /\ e \in ThreadState /\ Same(e, r)
          /\ e.pc = "dead" /\ e.prev = r.prev /\ e.cur = r.cur /\ e.next = r.next /\ e.ret = r.ret /\ e.n = r.n
          /\ (e.gone <=> r.gone \/ r.key \notin Keys)
      <3> HIDE DEF Look
      <3> QED  BY SMTT(40), <1>0, LookState, PcState DEF PCs, Searching, Deciding, Same
    <2>3. /\ h \in Slots /\ hazard' = [hazard EXCEPT ![t] = h]
          /\ h = s
      BY <1>2, <1>0, SlotsSame DEF CheckPrev
    <2> HIDE DEF e, h, r, s
    <2>4. OpOf(e)
      BY <1>0, <1>f, <1>l, <1>2, <2>1, <2>2 DEF OpOf, Op, Same, Finder, Searching, Loading, Reading, Deciding, Marking, Placing, Raising, Finishing, Start
    <2>5. PlaceOf(e, h)
      BY <1>0, <1>f, <1>l, <2>1, <2>2, <2>3 DEF PlaceOf, Held, Owner, Same, Searching, Loading, Reading, Deciding, Marking, Placing, Raising, Finishing, Start
    <2>6. KeyOf(e)
      BY <1>0, <1>l, <2>1, <2>2, <2>g DEF KeyOf, Same, Searching, Loading, Reading, Deciding, Marking, Placing, Raising, Finishing, Start
    <2>7. (Busy(e) => Busy(r) /\ e.n = r.n) /\ e.pc \notin {"drop", "index", "overage"}
      BY <2>1, <2>2 DEF Finishing, Busy, Owner, Same, Start
    <2> QED  BY <2>1, <2>2, <2>3, <2>4, <2>5, <2>6, <2>7, QuietStep, HeightSame DEF CallOf, r
  <1> QED  BY <1>1, <1>2

\* The end of a find: without a match the key was absent at some moment or the search
\* was given up, and with one cur has the key.
LEMMA DoneCall ==
    ASSUME MapInv, NEW x \in ThreadState, NEW h \in Slots, NEW match \in BOOLEAN,
           OpOf(x), x.op \in Finder, x.pc \in Searching, Owner(x) => state[x.n] = "private",
           x.prev = Head \/ (Held(h, 2, x.prev) /\ key[x.prev] < x.key),
           x.cur # Null => Held(h, 1, x.cur),
           match => x.cur # Null /\ key[x.cur] = x.key,
           ~match => (x.gone \/ x.gaveUp) /\ (x.cur # Null => x.key < key[x.cur])
    PROVE  LET e == Done(x, match) IN
           /\ e \in ThreadState /\ Same(e, x) /\ CallOf(e, h)
           /\ e.pc \in {"return", "make", "mark"} /\ (Busy(e) => Busy(x) /\ e.n = x.n)
  <1> DEFINE e == Done(x, match)
  <1>1. /\ e \in ThreadState /\ e.prev = x.prev /\ e.cur = x.cur
        /\ Same(e, x) /\ e.gone = x.gone /\ e.gaveUp = x.gaveUp
        /\ x.op = "insert" /\ match => e.pc = "return" /\ e.ret = "false" /\ e.n = x.n
        /\ x.op = "insert" /\ ~match => e.pc = "make" /\ e.ret = x.ret /\ e.n = x.n
        /\ x.op = "exists" => e.pc = "return" /\ e.ret = (IF match THEN "true" ELSE "false") /\ e.n = x.n
        /\ x.op = "erase" /\ x.n # Null => e.pc = "return" /\ e.ret = x.ret /\ e.n = x.n
        /\ x.op = "erase" /\ x.n = Null /\ match => e.pc = "mark" /\ e.ret = x.ret /\ e.n = x.cur
        /\ x.op = "erase" /\ x.n = Null /\ ~match => e.pc = "return" /\ e.ret = "false" /\ e.n = Null
    BY DoneState, FieldsOf
  <1>0. x.ret \in {"none", "true", "false"} /\ x.op \in {"insert", "erase", "exists"} /\ e.op = x.op /\ e.key = x.key
    BY <1>1, FieldsOf DEF Finder, Same
  <1>r. x.op = "insert" => x.ret = "none"
    BY DEF OpOf
  <1> HIDE DEF e
  <1>2. OpOf(e)
    <2>1. CASE x.op = "insert"
      BY <1>0, <1>1, <2>1 DEF OpOf, Op, Searching, Loading, Reading, Deciding, Marking, Placing, Raising, Finishing, Start
    <2>2. CASE x.op = "exists"
      BY <1>0, <1>1, <2>2 DEF OpOf, Op, Searching, Loading, Reading, Deciding, Marking, Placing, Raising, Finishing, Start
    <2>3. CASE x.op = "erase"
      BY <1>0, <1>1, <2>3 DEF OpOf, Op, Searching, Loading, Reading, Deciding, Marking, Placing, Raising, Finishing, Start
    <2> QED  BY <1>0, <2>1, <2>2, <2>3
  <1>3. PlaceOf(e, h)
    <2>1. CASE x.op = "insert"
      BY <1>0, <1>1, <1>r, <2>1 DEF PlaceOf, Owner, Searching, Loading, Reading, Deciding, Marking, Placing, Raising, Finishing, Start
    <2>2. CASE x.op = "exists"
      BY <1>0, <1>1, <2>2 DEF PlaceOf, Owner, Searching, Loading, Reading, Deciding, Marking, Placing, Raising, Finishing, Start
    <2>3. CASE x.op = "erase"
      BY <1>0, <1>1, <2>3 DEF PlaceOf, Owner, Searching, Loading, Reading, Deciding, Marking, Placing, Raising, Finishing, Start
    <2> QED  BY <1>0, <2>1, <2>2, <2>3
  <1>4. KeyOf(e)
    <2>1. CASE x.op = "insert"
      BY <1>0, <1>1, <2>1 DEF KeyOf, Searching, Loading, Reading, Deciding, Marking, Placing, Raising, Finishing, Start
    <2>2. CASE x.op = "exists"
      BY <1>0, <1>1, <2>2 DEF KeyOf, Searching, Loading, Reading, Deciding, Marking, Placing, Raising, Finishing, Start
    <2>3. CASE x.op = "erase"
      BY <1>0, <1>1, <2>3 DEF KeyOf, Searching, Loading, Reading, Deciding, Marking, Placing, Raising, Finishing, Start
    <2> QED  BY <1>0, <2>1, <2>2, <2>3
  <1>5. e.pc \in {"return", "make", "mark"} /\ (Busy(e) => Busy(x) /\ e.n = x.n)
    BY <1>0, <1>1, <1>r DEF Finishing, Busy, Owner
  <1> QED  BY <1>1, <1>2, <1>3, <1>4, <1>5 DEF CallOf, e

\* cur is read again: it is protected now, or it is loaded again.
LEMMA CheckStep ==
    ASSUME MapInv, map = "exists", NEW t \in Thread, Check(t)
    PROVE  MapInv'
  <1> DEFINE r == th[t]
             s == hazard[t]
  <1>0. r \in ThreadState /\ s \in Slots /\ OpOf(r) /\ PlaceOf(r, s) /\ KeyOf(r)
    BY StateOf
  <1>f. /\ r.pc \in PCs /\ r.op \in Op \cup {"none"} /\ r.key \in Nat /\ r.ret \in {"none", "true", "false"}
        /\ r.prev \in Node \cup {Null, Head} /\ r.cur \in Node \cup {Null} /\ r.next \in Pointers
        /\ r.n \in Node \cup {Null} /\ r.level \in Nat
    BY <1>0, FieldsOf
  <1>l. r.pc = "check" /\ r.op \in Op /\ map = "exists" /\ s[1] = r.cur
        /\ r.prev \in Node \cup {Head} /\ (r.prev = Head \/ Solid(r.prev)) /\ (r.op # "values" => r.prev = Head)
    <2>1. r.pc = "check"
      BY DEF Check
    <2> QED  BY <1>0, <2>1 DEF OpOf, PlaceOf, Held, Searching, Loading
  <1>1. CASE next[r.prev] # Ptr(r.cur)
    <2> DEFINE e == [r EXCEPT !.pc = "load"]
               h == s
    <2>1. th' = [th EXCEPT ![t] = e] /\ r.pc = "check" /\ UNCHANGED <<heap, height, map>>
      BY <1>1 DEF Check, Restart, Restarted, Start, MapInv, ListInv, Types, ThreadState
    <2>2. /\ e \in ThreadState /\ Same(e, r)
          /\ e.pc = "load" /\ e.prev = r.prev /\ e.cur = r.cur /\ e.ret = r.ret /\ e.n = r.n
      BY <1>0, PcState DEF PCs, Searching, Loading
    <2>3. /\ h \in Slots /\ hazard' = [hazard EXCEPT ![t] = h]
          /\ h = s
      BY <1>1, <1>0, SlotsSame DEF Check
    <2> HIDE DEF e, h, r, s
    <2>4. OpOf(e)
      BY <1>0, <1>f, <1>1, <2>1, <2>2 DEF OpOf, Op, Same, Finder, Searching, Loading, Reading, Deciding, Marking, Placing, Raising, Finishing, Start
    <2>5. PlaceOf(e, h)
      BY <1>0, <1>f, <2>1, <2>2, <2>3 DEF PlaceOf, Held, Owner, Same, Searching, Loading, Reading, Deciding, Marking, Placing, Raising, Finishing, Start
    <2>6. KeyOf(e)
      BY <2>2 DEF KeyOf, Same, Searching, Loading, Reading, Deciding, Marking, Placing, Raising, Finishing, Start
    <2>7. (Busy(e) => Busy(r) /\ e.n = r.n) /\ e.pc \notin {"drop", "index", "overage"}
      BY <2>1, <2>2 DEF Finishing, Busy, Owner, Same, Start
    <2> QED  BY <2>1, <2>2, <2>3, <2>4, <2>5, <2>6, <2>7, QuietStep, HeightSame DEF CallOf, r
  <1>2. CASE next[r.prev] = Ptr(r.cur)
    <2> DEFINE x == Look(r)
    <2>n. next[r.prev].to = r.cur /\ ~next[r.prev].dead
      BY <1>2 DEF Ptr
    <2>k. r.prev \in Linked \cup {Head} /\ Follows(r.prev) /\ (r.cur # Null => r.cur \in Node /\ Solid(r.cur))
      BY <1>l, <2>n, NextOf
    <2>x. /\ x \in ThreadState /\ x.pc = r.pc /\ x.prev = r.prev /\ x.cur = r.cur
          /\ Same(x, r) /\ x.ret = r.ret /\ x.n = r.n /\ (x.gone <=> r.gone \/ r.key \notin Keys)
      BY <1>0, LookState
    <2>t. th' = [th EXCEPT ![t] = Visit(x)] /\ UNCHANGED <<heap, height, hazard, map>>
      BY <1>2 DEF Check
    <2>v. /\ r.op = "firstKey" \/ (r.op = "values" /\ r.cur = Null) => Visit(x) = [x EXCEPT !.pc = "return"]
          /\ r.op \in Finder /\ r.cur = Null => Visit(x) = Done(x, FALSE)
          /\ r.op # "firstKey" /\ r.cur # Null => Visit(x) = [x EXCEPT !.pc = "next"]
      <3> HIDE DEF x, Look, Visit, Done
      <3> QED  BY <1>l, <2>x, VisitState DEF Same
    <2>h. s \in Slots /\ hazard' = [hazard EXCEPT ![t] = s] /\ height' \in Nat
      BY <1>0, <2>t, SlotsSame, HeightSame
    <2> HIDE DEF x
    <2>1. CASE r.op \in Finder /\ r.cur = Null
      <3>1. r.key \notin Keys
        <4>1. r.prev = Head
          BY <1>l, <2>1 DEF Finder
        <4> QED  BY <1>f, <2>n, <2>k, <2>1, <4>1, Absent, KeysLinked
      <3>2. OpOf(x)
        BY <1>0, <1>l, <2>x DEF OpOf, Same, Searching, Loading, Reading, Marking, Placing, Raising, Finishing, Start
      <3>3. /\ x.op \in Finder /\ x.pc \in Searching /\ x.prev = Head /\ x.cur = Null /\ x.gone
            /\ (Owner(x) => state[x.n] = "private")
        BY <1>0, <1>l, <2>x, <2>1, <3>1 DEF PlaceOf, Owner, Same, Finder, Searching, Loading
      <3>4. PICK e \in ThreadState : /\ e = Done(x, FALSE) /\ Same(e, x) /\ CallOf(e, s)
                                     /\ e.pc \in {"return", "make", "mark"} /\ (Busy(e) => Busy(x) /\ e.n = x.n)
        <4>1. /\ x.cur # Null => Held(s, 1, x.cur)
              /\ x.prev = Head \/ (Held(s, 2, x.prev) /\ key[x.prev] < x.key)
              /\ (x.gone \/ x.gaveUp) /\ (x.cur # Null => x.key < key[x.cur])
          BY <3>3
        <4>2. /\ Done(x, FALSE) \in ThreadState /\ Same(Done(x, FALSE), x) /\ CallOf(Done(x, FALSE), s)
              /\ Done(x, FALSE).pc \in {"return", "make", "mark"}
              /\ (Busy(Done(x, FALSE)) => Busy(x) /\ Done(x, FALSE).n = x.n)
          BY <1>0, <2>x, <3>2, <3>3, <4>1, DoneCall
        <4> HIDE DEF Done
        <4> QED  BY <4>2
      <3>5. Busy(x) => Busy(r)
        BY <2>x DEF Finishing, Busy, Owner, Same
      <3>6. th' = [th EXCEPT ![t] = e]
        BY <2>t, <2>v, <2>1, <3>4
      <3> QED  BY <1>l, <2>t, <2>h, <2>x, <3>4, <3>5, <3>6, QuietStep
    <2>2. CASE r.op = "firstKey" \/ (r.op = "values" /\ r.cur = Null)
      <3> DEFINE e == [x EXCEPT !.pc = "return"]
      <3>1. e \in ThreadState /\ e.pc = "return" /\ Same(e, x) /\ e.ret = x.ret /\ e.n = x.n
        BY <2>x, PcState DEF PCs
      <3>2. th' = [th EXCEPT ![t] = e]
        BY <2>t, <2>v, <2>2
      <3> HIDE DEF e, r, s
      <3>3. CallOf(e, s)
        <4>1. OpOf(e)
          BY <1>0, <1>l, <2>x, <2>2, <3>1 DEF OpOf, Same, Searching, Loading, Reading, Marking, Placing, Raising, Finishing, Start
        <4>2. PlaceOf(e, s)
          BY <1>0, <1>l, <2>x, <2>2, <3>1 DEF PlaceOf, Owner, Same, Searching, Loading, Reading, Deciding, Marking, Placing, Raising, Finishing, Start
        <4>3. KeyOf(e)
          BY <2>x, <2>2, <3>1 DEF KeyOf, Same, Finder
        <4> QED  BY <4>1, <4>2, <4>3 DEF CallOf
      <3>4. ~Busy(e)
        BY <2>x, <2>2, <3>1 DEF Finishing, Busy, Owner, Same
      <3> QED  BY <1>l, <2>t, <2>h, <3>1, <3>2, <3>3, <3>4, QuietStep DEF r
    <2>3. CASE r.op # "firstKey" /\ r.cur # Null
      <3> DEFINE e == [x EXCEPT !.pc = "next"]
      <3>1. e \in ThreadState /\ e.pc = "next" /\ Same(e, x) /\ e.ret = x.ret /\ e.n = x.n /\ e.prev = x.prev /\ e.cur = x.cur
        BY <2>x, PcState DEF PCs, Searching, Reading
      <3>2. th' = [th EXCEPT ![t] = e]
        BY <2>t, <2>v, <2>3
      <3> HIDE DEF e, r, s
      <3>3. CallOf(e, s)
        <4>1. OpOf(e)
          BY <1>0, <1>l, <2>x, <2>3, <3>1 DEF OpOf, Op, Same, Searching, Loading, Reading, Deciding, Marking, Placing, Raising, Finishing, Start
        <4>2. PlaceOf(e, s)
          BY <1>0, <1>l, <2>x, <2>k, <2>3, <3>1 DEF PlaceOf, Held, Owner, Same, Searching, Loading, Reading, Deciding, Marking, Placing, Raising, Finishing, Start
        <4>3. KeyOf(e)
          BY <1>l, <2>x, <2>3, <3>1 DEF KeyOf, Same, Finder, Loading, Reading, Deciding, Marking, Placing, Raising, Finishing, Start
        <4> QED  BY <4>1, <4>2, <4>3 DEF CallOf
      <3>4. Busy(e) => Busy(r) /\ e.n = r.n
        BY <2>x, <3>1 DEF Finishing, Busy, Owner, Same
      <3> QED  BY <1>l, <2>t, <2>h, <3>1, <3>2, <3>3, <3>4, QuietStep DEF r
    <2> QED  BY <1>l, <2>1, <2>2, <2>3 DEF Op, Finder
  <1> QED  BY <1>1, <1>2

\* A dead node is to be unlinked; a live one ends the search or is passed.
LEMMA ClassifyStep ==
    ASSUME MapInv, map = "exists", NEW t \in Thread, Classify(t)
    PROVE  MapInv'
  <1> DEFINE r == th[t]
             s == hazard[t]
  <1>0. r \in ThreadState /\ s \in Slots /\ OpOf(r) /\ PlaceOf(r, s) /\ KeyOf(r)
    BY StateOf
  <1>f. /\ r.pc \in PCs /\ r.op \in Op \cup {"none"} /\ r.key \in Nat /\ r.ret \in {"none", "true", "false"}
        /\ r.prev \in Node \cup {Null, Head} /\ r.cur \in Node \cup {Null} /\ r.next \in Pointers
        /\ r.n \in Node \cup {Null} /\ r.level \in Nat
    BY <1>0, FieldsOf
  <1>l. r.pc = "dead" /\ r.op \in Finder /\ map = "exists"
    <2>1. r.pc = "dead"
      BY DEF Classify
    <2>2. r.op \in Op /\ map = "exists" /\ r.op \notin {"firstKey", "values"}
      BY <1>0, <2>1 DEF OpOf, Reading, Loading
    <2> QED  BY <2>1, <2>2 DEF Op, Finder
  <1>p. /\ Held(s, 1, r.cur) /\ r.cur \in Node /\ key[r.cur] \in Nat
        /\ r.prev = Head \/ (Held(s, 2, r.prev) /\ key[r.prev] < r.key)
        /\ (~r.next.dead /\ r.next.to # Null => r.next.to \in Node /\ Solid(r.next.to))
        /\ (r.next.dead => next[r.cur].dead) /\ r.next.to \in Node \cup {Null}
        /\ (~r.next.dead /\ r.next.to = Null /\ key[r.cur] < r.key => r.gone)
        /\ (key[r.cur] > r.key => r.gone)
    <2>1. Held(s, 1, r.cur) /\ (r.prev = Head \/ Held(s, 2, r.prev))
      BY <1>0, <1>l DEF PlaceOf, Searching, Deciding
    <2>2. /\ (~r.next.dead /\ r.next.to # Null => Held(s, 0, r.next.to)) /\ (r.next.dead => next[r.cur].dead)
      BY <1>0, <1>l DEF PlaceOf
    <2>3. /\ (r.prev = Head \/ key[r.prev] < r.key) /\ (key[r.cur] > r.key => r.gone)
          /\ (~r.next.dead /\ r.next.to = Null /\ key[r.cur] < r.key => r.gone)
      BY <1>0, <1>l DEF KeyOf, Deciding
    <2>4. r.cur \in Node
      BY <2>1 DEF Held
    <2>5. key[r.cur] \in Nat
      BY <2>4 DEF MapInv, ListInv, Types
    <2>6. r.next.to \in Node \cup {Null}
      BY <1>f DEF Pointers
    <2> QED  BY <2>1, <2>2, <2>3, <2>4, <2>5, <2>6 DEF Held
  <1>1. CASE r.next.dead \/ next[r.cur].dead
    <2> DEFINE e == [r EXCEPT !.pc = "unlink"]
               h == s
    <2>1. th' = [th EXCEPT ![t] = e] /\ r.pc = "dead" /\ UNCHANGED <<heap, height, map>>
      BY <1>l, <1>1 DEF Classify, Restart, Restarted, Start, MapInv, ListInv, Types, ThreadState
    <2>2. /\ e \in ThreadState /\ Same(e, r)
          /\ e.pc = "unlink" /\ e.prev = r.prev /\ e.cur = r.cur /\ e.ret = r.ret /\ e.n = r.n
      BY <1>0, PcState DEF PCs, Searching, Deciding
    <2>3. /\ h \in Slots /\ hazard' = [hazard EXCEPT ![t] = h]
          /\ h = s
      BY <1>1, <1>0, SlotsSame DEF Classify
    <2> HIDE DEF e, h, r, s
    <2>4. OpOf(e)
      BY <1>0, <1>f, <1>l, <1>1, <2>1, <2>2 DEF OpOf, Op, Same, Finder, Searching, Loading, Reading, Deciding, Marking, Placing, Raising, Finishing, Start
    <2>5. PlaceOf(e, h)
      BY <1>0, <1>f, <1>1, <1>p, <2>1, <2>2, <2>3 DEF PlaceOf, Owner, Same, Searching, Loading, Reading, Deciding, Marking, Placing, Raising, Finishing, Start
    <2>6. KeyOf(e)
      BY <1>0, <1>l, <1>p, <2>1, <2>2 DEF KeyOf, Same, Searching, Loading, Reading, Deciding, Marking, Placing, Raising, Finishing, Start
    <2>7. (Busy(e) => Busy(r) /\ e.n = r.n) /\ e.pc \notin {"drop", "index", "overage"}
      BY <2>1, <2>2 DEF Finishing, Busy, Owner, Same, Start
    <2> QED  BY <2>1, <2>2, <2>3, <2>4, <2>5, <2>6, <2>7, QuietStep, HeightSame DEF CallOf, r
  <1>2. CASE ~(r.next.dead \/ next[r.cur].dead) /\ AtOrAfter(r.cur, r.key)
    <2> DEFINE match == key[r.cur] = r.key
    <2>t. th' = [th EXCEPT ![t] = Done(r, match)] /\ UNCHANGED <<heap, height, hazard, map>>
      BY <1>2 DEF Classify
    <2>m. match \in BOOLEAN /\ (match => r.cur # Null /\ key[r.cur] = r.key)
          /\ (~match => r.gone /\ r.key < key[r.cur])
      <3>1. r.cur # Null
        BY <1>p, AddressAssumption
      <3>2. key[r.cur] >= r.key
        BY <1>2 DEF AtOrAfter
      <3> QED  BY <1>f, <1>p, <3>1, <3>2
    <2>d. r.pc \in Searching /\ (Owner(r) => state[r.n] = "private")
      BY <1>0, <1>l DEF PlaceOf, Searching, Deciding
    <2> HIDE DEF match
    <2>1. PICK e \in ThreadState : /\ e = Done(r, match) /\ CallOf(e, s)
                                   /\ e.pc \in {"return", "make", "mark"} /\ (Busy(e) => Busy(r) /\ e.n = r.n)
      <3>1. /\ Done(r, match) \in ThreadState /\ CallOf(Done(r, match), s)
            /\ Done(r, match).pc \in {"return", "make", "mark"}
            /\ (Busy(Done(r, match)) => Busy(r) /\ Done(r, match).n = r.n)
        BY <1>0, <1>l, <1>p, <2>m, <2>d, DoneCall
      <3> HIDE DEF Done
      <3> QED  BY <3>1
    <2>2. s \in Slots /\ hazard' = [hazard EXCEPT ![t] = s] /\ height' \in Nat
      BY <1>0, <2>t, SlotsSame, HeightSame
    <2>3. th' = [th EXCEPT ![t] = e]
      BY <2>t, <2>1
    <2> QED  BY <1>l, <2>t, <2>1, <2>2, <2>3, QuietStep
  <1>3. CASE ~(r.next.dead \/ next[r.cur].dead) /\ ~AtOrAfter(r.cur, r.key)
    <2> DEFINE y == [r EXCEPT !.prev = r.cur, !.cur = r.next.to]
    <2>t. /\ th' = [th EXCEPT ![t] = Visit(y)] /\ UNCHANGED <<heap, height, map>>
          /\ hazard' = [hazard EXCEPT ![t][2] = r.cur, ![t][1] = r.next.to]
      BY <1>3 DEF Classify
    <2>k. key[r.cur] < r.key
      BY <1>f, <1>p, <1>3 DEF AtOrAfter
    <2>y. /\ y \in ThreadState /\ y.pc = "dead" /\ y.prev = r.cur /\ y.cur = r.next.to /\ Same(y, r)
          /\ y.ret = r.ret /\ y.n = r.n /\ y.gone = r.gone
      BY <1>0, <1>l, <1>p DEF ThreadState, Same
    <2>v. /\ r.next.to = Null => Visit(y) = Done(y, FALSE)
          /\ r.next.to # Null => Visit(y) = [y EXCEPT !.pc = "next"]
      <3>1. y.op \in Finder /\ y.op \in Op /\ y.op # "firstKey" /\ y.cur = r.next.to
        BY <1>l, <2>y DEF Same, Finder, Op
      <3> HIDE DEF y, Visit, Done
      <3> QED  BY <2>y, <3>1, VisitState
    <2>h. PICK h \in Slots : hazard' = [hazard EXCEPT ![t] = h] /\ h[2] = r.cur /\ h[1] = r.next.to
      <3> DEFINE h == [hazard[t] EXCEPT ![2] = r.cur, ![1] = r.next.to]
      <3>1. hazard \in [Thread -> Slots] /\ r.cur \in Node \cup {Null, Head} /\ r.next.to \in Node \cup {Null, Head}
        BY <1>p DEF MapInv, ListInv, Types, Slots
      <3>2. h \in Slots /\ h[2] = r.cur /\ h[1] = r.next.to
        BY <3>1 DEF Slots
      <3>3. hazard' = [hazard EXCEPT ![t] = h]
        BY <2>t, <3>1
      <3> QED  BY <3>2, <3>3
    <2>g. height' \in Nat
      BY <2>t, HeightSame
    <2>o. OpOf(y) /\ y.op \in Finder /\ y.pc \in Searching /\ (Owner(y) => state[y.n] = "private")
      <3> HIDE DEF y
      <3>1. OpOf(y)
        BY <1>0, <1>l, <2>y DEF OpOf, Same, Searching, Deciding, Reading, Marking, Placing, Raising, Finishing, Start, Loading
      <3> QED  BY <1>0, <1>l, <2>y, <3>1 DEF PlaceOf, Owner, Same, Searching, Deciding
    <2>e. Held(h, 2, y.prev) /\ key[y.prev] < y.key /\ (y.cur # Null => Held(h, 1, y.cur))
      <3> HIDE DEF y
      <3> QED  BY <1>p, <1>3, <2>y, <2>h, <2>k DEF Held, Same
    <2> HIDE DEF y
    <2>1. CASE r.next.to = Null
      <3>0. y.cur = Null /\ y.gone
        BY <1>p, <1>3, <2>k, <2>y, <2>1
      <3>1. PICK e \in ThreadState : /\ e = Done(y, FALSE) /\ CallOf(e, h)
                                     /\ e.pc \in {"return", "make", "mark"} /\ (Busy(e) => Busy(y) /\ e.n = y.n)
        <4>1. /\ Done(y, FALSE) \in ThreadState /\ CallOf(Done(y, FALSE), h)
              /\ Done(y, FALSE).pc \in {"return", "make", "mark"}
              /\ (Busy(Done(y, FALSE)) => Busy(y) /\ Done(y, FALSE).n = y.n)
          BY <2>y, <2>o, <2>e, <3>0, DoneCall
        <4> HIDE DEF Done
        <4> QED  BY <4>1
      <3>2. Busy(e) => Busy(r) /\ e.n = r.n
        BY <2>y, <3>1 DEF Finishing, Busy, Owner, Same
      <3>3. th' = [th EXCEPT ![t] = e]
        BY <2>t, <2>v, <2>1, <3>1
      <3> QED  BY <1>l, <2>t, <2>h, <2>g, <3>1, <3>2, <3>3, QuietStep
    <2>2. CASE r.next.to # Null
      <3> DEFINE e == [y EXCEPT !.pc = "next"]
      <3>1. e \in ThreadState /\ e.pc = "next" /\ Same(e, y) /\ e.ret = y.ret /\ e.n = y.n /\ e.prev = y.prev /\ e.cur = y.cur
        BY <2>y, PcState DEF PCs, Searching, Reading
      <3>2. th' = [th EXCEPT ![t] = e]
        BY <2>t, <2>v, <2>2
      <3> HIDE DEF e, r, s
      <3>3. CallOf(e, h)
        <4>1. OpOf(e)
          BY <1>l, <2>y, <2>o, <3>1 DEF OpOf, Finder, Same, Searching, Loading, Reading, Deciding, Marking, Placing, Raising, Finishing, Start
        <4>2. PlaceOf(e, h)
          BY <1>l, <2>y, <2>o, <2>e, <2>2, <3>1 DEF PlaceOf, Owner, Same, Searching, Loading, Reading, Deciding, Marking, Placing, Raising, Finishing, Start
        <4>3. KeyOf(e)
          BY <2>y, <2>e, <3>1 DEF KeyOf, Same, Reading, Deciding, Marking, Placing, Raising, Finishing, Start
        <4> QED  BY <4>1, <4>2, <4>3 DEF CallOf
      <3>4. Busy(e) => Busy(r) /\ e.n = r.n
        BY <2>y, <3>1 DEF Finishing, Busy, Owner, Same
      <3> QED  BY <1>l, <2>t, <2>h, <2>g, <3>1, <3>2, <3>3, <3>4, QuietStep DEF r
    <2> QED  BY <2>1, <2>2
  <1> QED  BY <1>1, <1>2, <1>3

\* The extractor moves on from a live node, or loads again.
LEMMA ValuesNextStep ==
    ASSUME MapInv, map = "exists", NEW t \in Thread, ValuesNext(t)
    PROVE  MapInv'
  <1> DEFINE r == th[t]
             s == hazard[t]
  <1>0. r \in ThreadState /\ s \in Slots /\ OpOf(r) /\ PlaceOf(r, s) /\ KeyOf(r)
    BY StateOf
  <1>f. /\ r.pc \in PCs /\ r.op \in Op \cup {"none"} /\ r.key \in Nat /\ r.ret \in {"none", "true", "false"}
        /\ r.prev \in Node \cup {Null, Head} /\ r.cur \in Node \cup {Null} /\ r.next \in Pointers
        /\ r.n \in Node \cup {Null} /\ r.level \in Nat
    BY <1>0, FieldsOf
  <1>l. /\ r.pc = "check_next" /\ r.op = "values" /\ map = "exists" /\ r.n = Null /\ Held(s, 1, r.cur)
        /\ (r.prev = Head \/ Held(s, 2, r.prev)) /\ r.ret = "none"
    <2>1. r.pc = "check_next" /\ r.op = "values"
      BY DEF ValuesNext
    <2> QED  BY <1>0, <2>1 DEF OpOf, PlaceOf, Searching, Reading
  <1>1. CASE ~(Unchanged(t) /\ ~r.next.dead)
    <2> DEFINE e == [r EXCEPT !.pc = IF Unchanged(t) THEN "load" ELSE "next"]
               h == s
    <2>1. th' = [th EXCEPT ![t] = e] /\ r.pc = "check_next" /\ UNCHANGED <<heap, height, map>>
      BY <1>l, <1>1 DEF ValuesNext, Restart, Restarted, Start, MapInv, ListInv, Types, ThreadState
    <2>2. /\ e \in ThreadState /\ Same(e, r)
          /\ e.pc \in {"load", "next"} /\ e.prev = r.prev /\ e.cur = r.cur /\ e.ret = r.ret /\ e.n = r.n
      <3>1. CASE Unchanged(t)
        BY <1>0, <3>1, PcState DEF PCs, Searching, Loading
      <3>2. CASE ~Unchanged(t)
        BY <1>0, <3>2, PcState DEF PCs, Searching, Reading
      <3> QED  BY <3>1, <3>2
    <2>3. /\ h \in Slots /\ hazard' = [hazard EXCEPT ![t] = h]
          /\ h = s
      BY <1>1, <1>0, SlotsSame DEF ValuesNext
    <2> HIDE DEF e, h, r, s
    <2>4. OpOf(e)
      BY <1>0, <1>f, <1>l, <1>1, <2>1, <2>2 DEF OpOf, Op, Same, Finder, Searching, Loading, Reading, Deciding, Marking, Placing, Raising, Finishing, Start
    <2>5. PlaceOf(e, h)
      BY <1>0, <1>l, <2>1, <2>2, <2>3 DEF PlaceOf, Owner, Same, Searching, Loading, Reading, Deciding, Marking, Placing, Raising, Finishing, Start
    <2>6. KeyOf(e)
      BY <1>l, <2>2 DEF KeyOf, Same, Finder
    <2>7. (Busy(e) => Busy(r) /\ e.n = r.n) /\ e.pc \notin {"drop", "index", "overage"}
      BY <2>1, <2>2 DEF Finishing, Busy, Owner, Same, Start
    <2> QED  BY <2>1, <2>2, <2>3, <2>4, <2>5, <2>6, <2>7, QuietStep, HeightSame DEF CallOf, r
  <1>2. CASE Unchanged(t) /\ ~r.next.dead
    <2> DEFINE y == [r EXCEPT !.prev = r.cur, !.cur = r.next.to]
    <2>t. /\ th' = [th EXCEPT ![t] = Visit(y)] /\ UNCHANGED <<heap, height, map>>
          /\ hazard' = [hazard EXCEPT ![t][2] = r.cur, ![t][1] = r.next.to]
      BY <1>2 DEF ValuesNext
    <2>c. r.cur \in Node /\ Solid(r.cur) /\ next[r.cur] = r.next /\ r.next.to \in Node \cup {Null}
      BY <1>f, <1>l, <1>2 DEF Held, Unchanged, Pointers
    <2>n. r.next.to # Null => r.next.to \in Node /\ Solid(r.next.to)
      BY <1>l, <1>2, <2>c, NextOf
    <2>y. /\ y \in ThreadState /\ y.prev = r.cur /\ y.cur = r.next.to /\ Same(y, r) /\ y.ret = r.ret /\ y.n = r.n
      BY <1>0, <2>c DEF ThreadState, Same
    <2>v. Visit(y) = [y EXCEPT !.pc = IF r.next.to = Null THEN "return" ELSE "next"]
      <3>1. y.op = "values" /\ y.op \in Op /\ y.cur = r.next.to
        BY <1>l, <2>y DEF Same, Op
      <3>2. CASE r.next.to = Null
        <4> HIDE DEF y, Visit, Done
        <4>1. Visit(y) = [y EXCEPT !.pc = "return"]
          BY <2>y, <3>1, <3>2, VisitState
        <4> QED  BY <3>2, <4>1
      <3>3. CASE r.next.to # Null
        <4> HIDE DEF y, Visit, Done
        <4>1. Visit(y) = [y EXCEPT !.pc = "next"]
          BY <2>y, <3>1, <3>3, VisitState
        <4> QED  BY <3>3, <4>1
      <3> QED  BY <3>2, <3>3
    <2>h. PICK h \in Slots : hazard' = [hazard EXCEPT ![t] = h] /\ h[2] = r.cur /\ h[1] = r.next.to
      <3> DEFINE h == [hazard[t] EXCEPT ![2] = r.cur, ![1] = r.next.to]
      <3>1. hazard \in [Thread -> Slots] /\ r.cur \in Node \cup {Null, Head} /\ r.next.to \in Node \cup {Null, Head}
        BY <2>c DEF MapInv, ListInv, Types, Slots
      <3>2. h \in Slots /\ h[2] = r.cur /\ h[1] = r.next.to
        BY <3>1 DEF Slots
      <3>3. hazard' = [hazard EXCEPT ![t] = h]
        BY <2>t, <3>1
      <3> QED  BY <3>2, <3>3
    <2>g. height' \in Nat
      BY <2>t, HeightSame
    <2> DEFINE p == IF r.next.to = Null THEN "return" ELSE "next"
               e == [y EXCEPT !.pc = p]
    <2>p. p \in PCs
      BY DEF PCs, Searching, Reading
    <2> HIDE DEF y
    <2>1. e \in ThreadState /\ e.pc = p /\ Same(e, y) /\ e.ret = y.ret /\ e.n = y.n /\ e.prev = y.prev /\ e.cur = y.cur
      <3> HIDE DEF p
      <3> QED  BY <2>y, <2>p, PcState
    <2>2. th' = [th EXCEPT ![t] = e]
      BY <2>t, <2>v
    <2> HIDE DEF e, r, s
    <2>3. CallOf(e, h)
      <3>1. OpOf(e)
        BY <1>l, <2>y, <2>1 DEF OpOf, Op, Same, Searching, Loading, Reading, Deciding, Marking, Placing, Raising, Finishing, Start
      <3>2. PlaceOf(e, h)
        BY <1>l, <2>c, <2>n, <2>h, <2>y, <2>1 DEF PlaceOf, Held, Owner, Same, Searching, Loading, Reading, Deciding, Marking, Placing, Raising, Finishing, Start
      <3>3. KeyOf(e)
        BY <1>l, <2>y, <2>1 DEF KeyOf, Same, Finder
      <3> QED  BY <3>1, <3>2, <3>3 DEF CallOf
    <2>4. ~Busy(e) /\ e.pc \notin {"drop", "index", "overage"}
      BY <1>l, <2>y, <2>1 DEF Finishing, Busy, Owner, Same
    <2> QED  BY <1>l, <2>t, <2>h, <2>g, <2>1, <2>2, <2>3, <2>4, QuietStep DEF r
  <1> QED  BY <1>1, <1>2

\* A call begins.
LEMMA CallStep ==
    ASSUME MapInv, NEW t \in Thread, NEW op \in Op, NEW k \in Key, Call(t, op, k)
    PROVE  MapInv'
  <1>1. PICK e \in ThreadState :
           /\ th' = [th EXCEPT ![t] = e] /\ e.op = op /\ e.ret = "none" /\ e.n = Null
           /\ \/ e.pc = Start(op) /\ e.prev = Head
              \/ e.pc = "raise" /\ op = "insert"
    <2>0. k \in Nat /\ Ptr(Null) \in Pointers /\ height \in Nat
      BY KeyAssumption, PtrType DEF MapInv, ListInv, Types
    <2> DEFINE r == [Idle EXCEPT !.op = op, !.key = k]
    <2>1. r \in ThreadState /\ r.op = op /\ r.ret = "none" /\ r.n = Null
      BY <2>0 DEF Idle, ThreadState, PCs
    <2>3. CASE op # "insert"
      <3>1. th' = [th EXCEPT ![t] = Restarted(r)]
        BY <2>3 DEF Call, Restart, Restarted, Start
      <3> HIDE DEF r
      <3> DEFINE e == Restarted(r)
      <3>2. e \in ThreadState /\ e.op = op /\ e.ret = "none" /\ e.n = Null /\ e.pc = Start(op) /\ e.prev = Head
        BY <2>1, RestartedState DEF Same
      <3>3. th' = [th EXCEPT ![t] = e]
        BY <3>1
      <3> HIDE DEF e
      <3> QED  BY <3>2, <3>3
    <2>4. CASE op = "insert"
      <3>1. PICK l \in 0..KMaxHeight - 1 :
               \/ th' = [th EXCEPT ![t] = [r EXCEPT !.level = height, !.pc = "raise"]]
               \/ th' = [th EXCEPT ![t] = Restarted([r EXCEPT !.level = l])]
        BY <2>4 DEF Call, Restart, Restarted, Start
      <3>2. l \in Nat
        BY HeightAssumption
      <3> HIDE DEF r
      <3>3. CASE th' = [th EXCEPT ![t] = [r EXCEPT !.level = height, !.pc = "raise"]]
        <4> DEFINE e == [r EXCEPT !.level = height, !.pc = "raise"]
        <4>1. e \in ThreadState /\ e.op = op /\ e.ret = "none" /\ e.n = Null /\ e.pc = "raise"
          BY <2>0, <2>1 DEF ThreadState, PCs, Raising
        <4> HIDE DEF e
        <4> QED  BY <2>4, <3>3, <4>1 DEF e
      <3>4. CASE th' = [th EXCEPT ![t] = Restarted([r EXCEPT !.level = l])]
        <4> DEFINE x == [r EXCEPT !.level = l]
        <4>1. x \in ThreadState /\ x.op = op /\ x.ret = "none" /\ x.n = Null
          BY <2>1, <3>2 DEF ThreadState
        <4> HIDE DEF x
        <4> DEFINE e == Restarted(x)
        <4>2. th' = [th EXCEPT ![t] = e]
          BY <3>4 DEF x
        <4>3. e \in ThreadState /\ e.op = op /\ e.ret = "none" /\ e.n = Null /\ e.pc = Start(op) /\ e.prev = Head
          BY <4>1, RestartedState DEF Same
        <4> HIDE DEF e
        <4> QED  BY <4>2, <4>3
      <3> QED  BY <3>1, <3>3, <3>4
    <2> QED  BY <2>3, <2>4
  <1>2. th[t].pc = "idle" /\ map = "exists" /\ UNCHANGED <<heap, hazard, map, height>>
    BY DEF Call
  <1>4. hazard[t] \in Slots /\ hazard' = [hazard EXCEPT ![t] = hazard[t]]
    BY <1>2, StateOf, SlotsSame
  <1>5. CallOf(e, hazard[t])
    <2>1. OpOf(e)
      BY <1>1, <1>2 DEF OpOf, Op, Searching, Loading, Reading, Deciding, Marking, Placing, Raising, Finishing, Start
    <2>2. PlaceOf(e, hazard[t])
      BY <1>1 DEF PlaceOf, Owner, Searching, Loading, Reading, Deciding, Marking, Placing, Raising, Finishing, Start
    <2>3. KeyOf(e)
      BY <1>1 DEF KeyOf, Loading, Reading, Deciding, Marking, Placing, Raising, Finishing, Start
    <2> QED  BY <2>1, <2>2, <2>3 DEF CallOf
  <1>6. ~Busy(e) /\ e.pc \notin {"drop", "index", "overage"}
    BY <1>1 DEF Finishing, Busy, Owner, Start
  <1> QED  BY <1>1, <1>2, <1>4, <1>5, <1>6, QuietStep, HeightSame

\* insert raises height_ and its level by what it read.
LEMMA RaiseStep ==
    ASSUME MapInv, map = "exists", NEW t \in Thread, Raise(t)
    PROVE  MapInv'
  <1> DEFINE r == th[t]
             x == [r EXCEPT !.level = r.level + 1]
             e == Restarted(x)
  <1>0. r \in ThreadState /\ OpOf(r) /\ hazard[t] \in Slots /\ r.pc \in Raising /\ r.level \in Nat
    BY StateOf, FieldsOf DEF Raise, Raising
  <1>1. r.op = "insert" /\ r.ret = "none" /\ r.n = Null
    BY <1>0 DEF OpOf, Op, Searching, Loading, Reading, Deciding, Marking, Placing, Raising, Finishing
  <1>2. x \in ThreadState /\ x.op = "insert" /\ x.ret = "none" /\ x.n = Null
    BY <1>0, <1>1 DEF ThreadState
  <1>3. th' = [th EXCEPT ![t] = e] /\ height' \in Nat /\ UNCHANGED <<heap, hazard, map>>
    BY <1>0 DEF Raise, Restart, Restarted, Start
  <1> HIDE DEF x
  <1>4. e \in ThreadState /\ e.pc = "descend" /\ e.prev = Head /\ e.op = "insert" /\ e.ret = "none" /\ e.n = Null
    BY <1>2, RestartedState DEF Same, Start
  <1> HIDE DEF e, r
  <1>5. CallOf(e, hazard[t])
    <2>1. OpOf(e)
      BY <1>4 DEF OpOf, Op, Searching, Loading, Reading, Deciding, Marking, Placing, Raising, Finishing
    <2>2. PlaceOf(e, hazard[t])
      BY <1>4 DEF PlaceOf, Owner, Searching, Loading, Reading, Deciding, Marking, Placing, Raising, Finishing
    <2>3. KeyOf(e)
      BY <1>4 DEF KeyOf, Loading, Reading, Deciding, Marking, Placing
    <2> QED  BY <2>1, <2>2, <2>3 DEF CallOf
  <1>6. ~Busy(e) /\ th[t].pc \notin {"drop", "index", "overage"}
    BY <1>0, <1>4 DEF Finishing, Busy, Owner, Raising, r
  <1> QED  BY <1>0, <1>3, <1>4, <1>5, <1>6, SlotsSame, QuietStep

\* height_ is read once more.
LEMMA RereadStep ==
    ASSUME MapInv, map = "exists", NEW t \in Thread, Reread(t)
    PROVE  MapInv'
  <1> DEFINE r == th[t]
             e == [r EXCEPT !.level = height, !.pc = "write"]
  <1>0. r \in ThreadState /\ OpOf(r) /\ hazard[t] \in Slots /\ r.pc = "raise" /\ height \in Nat
    BY StateOf DEF Reread, MapInv, ListInv, Types
  <1>1. r.op = "insert" /\ r.ret = "none" /\ r.n = Null
    BY <1>0 DEF OpOf, Op, Searching, Loading, Reading, Deciding, Marking, Placing, Raising, Finishing
  <1>2. th' = [th EXCEPT ![t] = e] /\ UNCHANGED <<heap, height, hazard, map>>
    BY <1>0 DEF Reread, MapInv, ListInv, Types, ThreadState
  <1>3. e \in ThreadState /\ e.pc = "write" /\ e.op = "insert" /\ e.ret = "none" /\ e.n = Null
    BY <1>0, <1>1 DEF ThreadState, PCs, Raising
  <1> HIDE DEF e, r
  <1>4. CallOf(e, hazard[t])
    <2>1. OpOf(e)
      BY <1>3 DEF OpOf, Op, Searching, Loading, Reading, Deciding, Marking, Placing, Raising, Finishing
    <2>2. PlaceOf(e, hazard[t])
      BY <1>3 DEF PlaceOf, Owner, Searching, Loading, Reading, Deciding, Marking, Placing, Raising, Finishing
    <2>3. KeyOf(e)
      BY <1>3 DEF KeyOf, Loading, Reading, Deciding, Marking, Placing
    <2> QED  BY <2>1, <2>2, <2>3 DEF CallOf
  <1>5. ~Busy(e) /\ th[t].pc \notin {"drop", "index", "overage"}
    BY <1>0, <1>3 DEF Finishing, Busy, Owner, r
  <1> QED  BY <1>0, <1>2, <1>3, <1>4, <1>5, SlotsSame, HeightSame, QuietStep

\* The head is shielded; the upper links change nothing.
LEMMA DescendStep ==
    ASSUME MapInv, map = "exists", NEW t \in Thread, Descend(t)
    PROVE  MapInv'
  <1> DEFINE r == th[t]
             s == hazard[t]
             e == [r EXCEPT !.pc = "load"]
             h == [hazard[t] EXCEPT ![2] = Head]
  <1>0. r \in ThreadState /\ s \in Slots /\ OpOf(r) /\ PlaceOf(r, s) /\ KeyOf(r)
    BY StateOf
  <1>1. th' = [th EXCEPT ![t] = e] /\ r.pc = "descend" /\ UNCHANGED <<heap, height, map>>
    BY <1>0 DEF Descend, MapInv, ListInv, Types, ThreadState
  <1>2. /\ e \in ThreadState /\ Same(e, r)
        /\ e.pc = "load" /\ e.prev = r.prev /\ e.cur = r.cur /\ e.ret = r.ret /\ e.n = r.n
    BY <1>0, PcState DEF PCs, Searching, Loading
  <1>3. /\ h \in Slots /\ hazard' = [hazard EXCEPT ![t] = h]
    BY SlotSet DEF Descend
  <1>l. r.op \in Finder
    BY <1>0, <1>1 DEF OpOf, Op, Finder, Loading, Reading
  <1>p. e.prev = Head
    BY <1>0, <1>1, <1>2, <1>l DEF PlaceOf, Finder
  <1> HIDE DEF e, h, r, s
  <1>4. OpOf(e)
    BY <1>0, <1>1, <1>2, <1>l DEF OpOf, Op, Same, Finder, Searching, Loading, Reading, Deciding, Marking, Placing, Raising, Finishing
  <1>5. PlaceOf(e, h)
    BY <1>0, <1>1, <1>2, <1>p DEF PlaceOf, Held, Owner, Same, Searching, Loading, Reading, Deciding, Marking, Placing, Raising, Finishing
  <1>6. KeyOf(e)
    BY <1>2 DEF KeyOf, Same, Searching, Loading, Reading, Deciding, Marking, Placing
  <1>7. (Busy(e) => Busy(r) /\ e.n = r.n) /\ e.pc \notin {"drop", "index", "overage"} /\ r.pc \notin {"drop", "index", "overage"}
    BY <1>1, <1>2 DEF Busy, Owner, Same, Finishing
  <1> QED  BY <1>1, <1>2, <1>3, <1>4, <1>5, <1>6, <1>7, QuietStep, HeightSame DEF CallOf, r

\* insert finds that it cannot build the index of its node.
LEMMA IndexStep ==
    ASSUME MapInv, map = "exists", NEW t \in Thread, Index(t)
    PROVE  MapInv'
  <1> DEFINE r == th[t]
             s == hazard[t]
             p == IF r.level > 0 THEN "overage" ELSE "return"
             e == [r EXCEPT !.pc = p]
  <1>0. r \in ThreadState /\ s \in Slots /\ OpOf(r) /\ PlaceOf(r, s) /\ KeyOf(r) /\ r.level \in Nat /\ r.n \in Node \cup {Null}
    BY StateOf, FieldsOf
  <1>1. th' = [th EXCEPT ![t] = e] /\ r.pc = "index" /\ UNCHANGED <<heap, height, hazard, map>>
    BY <1>0 DEF Index, Overage, MapInv, ListInv, Types, ThreadState
  <1>p. p \in PCs /\ p \in {"overage", "return"} /\ (p = "overage" <=> r.level > 0)
    BY DEF PCs, Finishing
  <1>2. /\ e \in ThreadState /\ Same(e, r)
        /\ e.pc = p /\ e.prev = r.prev /\ e.cur = r.cur /\ e.ret = r.ret /\ e.n = r.n
    <2> HIDE DEF p, r
    <2> QED  BY <1>0, <1>p, PcState
  <1>l. r.op = "insert" /\ r.ret = "true" /\ Held(s, 3, r.n)
    <2>1. r.op = "insert" /\ r.ret = "true"
      BY <1>0, <1>1 DEF OpOf, Op, Searching, Loading, Reading, Deciding, Marking, Placing, Raising, Finishing
    <2> QED  BY <2>1, <1>0, <1>1 DEF PlaceOf, Finishing
  <1> HIDE DEF e, r, s, p
  <1>4. OpOf(e)
    BY <1>0, <1>1, <1>2, <1>p, <1>l DEF OpOf, Op, Same, Searching, Loading, Reading, Deciding, Marking, Placing, Raising, Finishing
  <1>5. PlaceOf(e, s)
    BY <1>2, <1>p, <1>l DEF PlaceOf, Owner, Same, Searching, Loading, Reading, Deciding, Marking, Placing, Raising, Finishing
  <1>6. KeyOf(e)
    BY <1>2, <1>p, <1>l DEF KeyOf, Same, Searching, Loading, Reading, Deciding, Marking, Placing
  <1>7. (Busy(e) => Busy(r) /\ e.n = r.n) /\ e.level = r.level
    BY <1>1, <1>2 DEF Busy, Owner, Same, Finishing
  <1>8. \A n \in Node : Settling(n)' = Settling(n) /\ Dropping(n)' = Dropping(n)
    <2>1. th'[t] = e /\ \A u \in Thread : u # t => th'[u] = th[u]
      BY <1>1, <1>2 DEF MapInv, ListInv, Types
    <2>2. /\ (e.pc \in Finishing /\ e.level > 0 <=> r.pc \in Finishing /\ r.level > 0)
          /\ e.n = r.n /\ e.pc # "drop" /\ r.pc # "drop"
      BY <1>1, <1>2, <1>p, <1>7 DEF Finishing
    <2> QED  BY <2>1, <2>2 DEF Settling, Dropping, r
  <1> QED  BY <1>0, <1>1, <1>2, <1>4, <1>5, <1>6, <1>7, <1>8, SlotsSame, ThreadStep, HeightSame DEF CallOf, r, s

\* Reading beyond the head's links ends what is known of the program.
LEMMA OutOfBoundsStep ==
    ASSUME MapInv, NEW t \in Thread, OutOfBounds(t)
    PROVE  MapInv'
  <1>1. map' = "undefined" /\ UNCHANGED <<next, key, count, state, height, hazard, th>>
    BY DEF OutOfBounds, heap
  <1>2. Types'
    BY <1>1 DEF Types, MapInv, ListInv
  <1>3. List' /\ DeadFirst'
    BY <1>1 DEF List, DeadFirst, MapInv, ListInv
  <1>4. Calls'
    <2> SUFFICES ASSUME NEW u \in Thread PROVE CallOf(th[u], hazard[u])'
      BY DEF Calls
    <2>0. CallOf(th[u], hazard[u])
      BY DEF Calls, MapInv, ListInv
    <2>1. OpOf(th[u])'
      BY <1>1, <2>0 DEF CallOf, OpOf
    <2>2. PlaceOf(th[u], hazard[u])'
      BY <1>1, <2>0 DEF CallOf, PlaceOf, Held, Solid, Owner, Ptr, Shield
    <2>3. KeyOf(th[u])'
      BY <1>1, <2>0 DEF CallOf, KeyOf
    <2> QED  BY <2>1, <2>2, <2>3 DEF CallOf
  <1>5. OneOwner'
    BY <1>1 DEF OneOwner, Busy, Owner, MapInv, ListInv
  <1>6. Counts'
    BY <1>1 DEF Counts, CountOf, Settling, Dropping, Base, Solid, MapInv
  <1> QED  BY <1>2, <1>3, <1>4, <1>5, <1>6 DEF MapInv, ListInv

-----------------------------------------------------------------------------
(* Steps that change the list *)

\* A step leaves what x knows of the nodes in its slots y, and the node it owns.
Keeps(x, y) ==
    /\ \A i \in 0..3, n \in Node :
          Held(y, i, n) => state'[n] \in SolidStates /\ key'[n] = key[n] /\ (next[n].dead => next'[n].dead)
    /\ Owner(x) =>
          /\ state'[x.n] = state[x.n] /\ next'[x.n] = next[x.n]
          /\ key'[x.n] = key[x.n] /\ count'[x.n] = count[x.n]

\* What is known of a call outlives such a step.
LEMMA CallKept ==
    ASSUME NEW u \in Thread, NEW x \in ThreadState, NEW y, x = th'[u], y = hazard'[u],
           CallOf(x, y), Keeps(x, y), x.pc # "idle" => map' = map
    PROVE  CallOf(th[u], hazard[u])'
  <1>1. OpOf(th[u])'
    BY DEF CallOf, OpOf
  <1>h. \A i \in 0..3 : \A n : Held(y, i, n) => Held(hazard[u], i, n)' /\ key'[n] = key[n] /\ (next[n].dead => next'[n].dead)
    BY DEF Keeps, Held, Solid
  <1>o. Owner(x) => Owner(th[u])' /\ state'[x.n] = state[x.n] /\ next'[x.n] = next[x.n]
                    /\ key'[x.n] = key[x.n] /\ count'[x.n] = count[x.n]
    BY DEF Keeps, Owner
  <1>l. x.pc = "link" => Owner(x)
    <2>1. x.pc = "link" => x.op \in Op
      BY DEF CallOf, OpOf
    <2> QED  BY <2>1 DEF CallOf, OpOf, Op, Owner, Searching, Loading, Reading, Deciding, Marking, Placing, Raising, Finishing, Start
  <1>p. PlaceOf(x, y)
    BY DEF CallOf
  <1>2. PlaceOf(th[u], hazard[u])'
    <2>1. /\ (x.pc \in Searching \cup Placing => x.prev = Head \/ Held(hazard[u], 2, x.prev)')
          /\ (x.pc \in {"descend"} \cup Loading /\ x.op # "values" => x.prev = Head)
          /\ (x.pc = "check" => y[1] = x.cur)
          /\ (x.pc \in Reading \cup Deciding \cup Marking => Held(hazard[u], 1, x.cur)')
          /\ (x.pc \in Placing /\ x.cur # Null => Held(hazard[u], 1, x.cur)')
          /\ (x.pc \in Marking => x.n = x.cur)
          /\ (x.pc = "check_next" => y[0] = Shield(x.next))
          /\ (x.pc \in {"prev", "dead"} /\ ~x.next.dead /\ x.next.to # Null => Held(hazard[u], 0, x.next.to)')
          /\ (x.pc \in Finishing => Held(hazard[u], 3, x.n)')
      BY <1>h, <1>p DEF PlaceOf
    <2>2. /\ (x.pc \in {"prev", "dead"} /\ x.next.dead => next'[x.cur].dead)
          /\ (x.pc = "unlink" => next'[x.cur].dead)
      <3>1. x.pc \in {"prev", "dead", "unlink"} => Held(y, 1, x.cur)
        BY <1>p DEF PlaceOf, Deciding
      <3> QED  BY <1>h, <1>p, <3>1 DEF PlaceOf
    <2>3. /\ (Owner(th[u])' => state'[x.n] = "private")
          /\ (x.pc = "link" => y[3] = x.n /\ next'[x.n] = Ptr(x.cur) /\ key'[x.n] = x.key /\ count'[x.n] = x.level + 1)
      BY <1>o, <1>l, <1>p DEF PlaceOf, Owner
    <2> QED  BY <2>1, <2>2, <2>3 DEF PlaceOf, Held, Solid, Owner, Ptr, Shield
  <1>3. KeyOf(th[u])'
    <2>1. KeyOf(x)
      BY DEF CallOf
    <2>2. /\ (x.pc \in Reading \cup Deciding \cup Placing /\ x.prev # Head => key'[x.prev] = key[x.prev])
          /\ (x.pc \in Reading \cup Deciding \cup Marking => key'[x.cur] = key[x.cur])
          /\ (x.pc \in Placing /\ x.cur # Null => key'[x.cur] = key[x.cur])
          /\ (x.pc \in Marking => x.n = x.cur)
      BY <1>h, <1>p DEF PlaceOf, Searching
    <2> QED  BY <2>1, <2>2 DEF KeyOf, Deciding
  <1> QED  BY <1>1, <1>2, <1>3 DEF CallOf

\* A node whose count, state and callers stay keeps its count right.
LEMMA CountKept ==
    ASSUME NEW n \in Node, CountOf(n), state'[n] = state[n], count'[n] = count[n],
           Settling(n)' = Settling(n), Dropping(n)' = Dropping(n), \A u \in Settling(n) : th'[u].level = th[u].level
    PROVE  CountOf(n)'
  <1>1. Base(n)' = Base(n)
    BY DEF Base
  <1>2. Solid(n)' = Solid(n)
    BY DEF Solid
  <1> QED  BY <1>1, <1>2 DEF CountOf

\* The two kinds of callers, when only t moved.
LEMMA CallersOf ==
    ASSUME MapInv, NEW t \in Thread, NEW n \in Node, \A u \in Thread : u # t => th'[u] = th[u]
    PROVE  /\ \A u \in Thread : u # t => (u \in Settling(n)' <=> u \in Settling(n)) /\ (u \in Dropping(n)' <=> u \in Dropping(n))
           /\ (t \in Settling(n) <=> th[t].pc \in Finishing /\ th[t].n = n /\ th[t].level > 0)
           /\ (t \in Dropping(n) <=> th[t].pc = "drop" /\ th[t].cur = n)
           /\ (t \in Settling(n)' <=> th'[t].pc \in Finishing /\ th'[t].n = n /\ th'[t].level > 0)
           /\ (t \in Dropping(n)' <=> th'[t].pc = "drop" /\ th'[t].cur = n)
           /\ Settling(n) \subseteq Thread /\ Dropping(n) \subseteq Thread
           /\ Settling(n)' \subseteq Thread /\ Dropping(n)' \subseteq Thread
  BY DEF Finishing, Settling, Dropping

\* A step of t on the heap.
LEMMA HeapStep ==
    ASSUME MapInv, NEW t \in Thread, NEW e \in ThreadState, NEW h \in Slots,
           th' = [th EXCEPT ![t] = e], hazard' = [hazard EXCEPT ![t] = h], map' = map, height' = height,
           next' \in [Node \cup {Head} -> Pointers], key' \in [Node -> Nat],
           count' \in [Node -> 0..255], state' \in [Node -> States],
           List', DeadFirst', CallOf(th[t], hazard[t])',
           \A u \in Thread \ {t} : Keeps(th[u], hazard[u]),
           \A u \in Thread \ {t} : Busy(e) /\ Busy(th[u]) => e.n # th[u].n,
           Counts'
    PROVE  MapInv'
  <1>1. /\ th' \in [Thread -> ThreadState] /\ hazard' \in [Thread -> Slots]
        /\ th'[t] = e /\ hazard'[t] = h
        /\ \A u \in Thread : u # t => th'[u] = th[u] /\ hazard'[u] = hazard[u]
    BY ThreadSet
  <1>2. Types'
    BY <1>1 DEF Types, Slots, MapInv, ListInv
  <1>3. Calls'
    <2> SUFFICES ASSUME NEW u \in Thread PROVE CallOf(th[u], hazard[u])'
      BY DEF Calls
    <2>1. CASE u = t
      BY <2>1
    <2>2. CASE u # t
      <3>1. PICK x \in ThreadState, y \in Slots : x = th[u] /\ y = hazard[u] /\ CallOf(x, y)
        BY StateOf DEF CallOf
      <3>2. x = th'[u] /\ y = hazard'[u] /\ Keeps(x, y)
        BY <1>1, <2>2, <3>1
      <3> QED  BY <3>1, <3>2, CallKept
    <2> QED  BY <2>1, <2>2
  <1>4. OneOwner'
    <2> SUFFICES ASSUME NEW u \in Thread, NEW w \in Thread, u # w, Busy(th'[u]), Busy(th'[w])
                 PROVE  th'[u].n # th'[w].n
      BY DEF OneOwner, Busy, Owner
    <2> QED  BY <1>1 DEF OneOwner, MapInv, ListInv
  <1> QED  BY <1>2, <1>3, <1>4 DEF MapInv, ListInv

\* The nodes of the list have keys.
LEMMA LinkedNodes ==
    ASSUME MapInv
    PROVE  /\ Linked \subseteq Node /\ Head \notin Linked /\ Null \notin Linked /\ Head # Null
           /\ \A n \in Linked : key[n] \in Nat
  BY AddressAssumption DEF Linked, MapInv, ListInv, Types

\* The list in use: each of its nodes and the head lead to the next one.
LEMMA ListOf ==
    ASSUME MapInv, map = "exists", NEW a \in Linked \cup {Head}
    PROVE  /\ next[a].to # Null => /\ next[a].to \in Linked
                                   /\ a = Head \/ key[a] < key[next[a].to]
           /\ \A m \in Linked \ {a} :
                 \/ /\ a = Head \/ key[a] < key[m]
                    /\ next[a].to # Null /\ key[next[a].to] <= key[m]
                 \/ a # Head /\ key[m] < key[a]
  <1>1. Follows(a)
    BY DEF MapInv, ListInv, List
  <1>2. \A m \in Linked : m # Head
    BY LinkedNodes
  <1> QED  BY <1>1, <1>2 DEF Follows, Before

\* The same, the other way round.
LEMMA ListFrom ==
    ASSUME Linked' \subseteq Node, Head \notin Node, key' \in [Node -> Nat],
           \A a \in Linked' \cup {Head} :
              /\ next'[a].to # Null => /\ next'[a].to \in Linked'
                                       /\ a = Head \/ key'[a] < key'[next'[a].to]
              /\ \A m \in Linked' \ {a} :
                    \/ /\ a = Head \/ key'[a] < key'[m]
                       /\ next'[a].to # Null /\ key'[next'[a].to] <= key'[m]
                    \/ a # Head /\ key'[m] < key'[a]
    PROVE  List'
  <1> SUFFICES ASSUME NEW a \in Linked' \cup {Head} PROVE Follows(a)'
    BY DEF List
  <1>1. next'[a].to # Null => next'[a].to \in Linked' /\ (a = Head \/ key'[a] < key'[next'[a].to])
    OBVIOUS
  <1>2. \A m \in Linked' \ {a} : \/ /\ a = Head \/ key'[a] < key'[m]
                                    /\ next'[a].to # Null /\ key'[next'[a].to] <= key'[m]
                                 \/ a # Head /\ key'[m] < key'[a]
    OBVIOUS
  <1>3. \A m \in Linked' : m \in Node /\ m # Head /\ key'[m] \in Nat
    OBVIOUS
  <1>4. a # Head => key'[a] \in Nat
    BY <1>3
  <1>5. \A m \in Linked' \ {a} : a # Head /\ key'[m] < key'[a] => ~(key'[a] < key'[m])
    BY <1>3, <1>4
  <1> QED  BY <1>1, <1>2, <1>3, <1>5 DEF Follows, Before

\* No two links lead to the same node.
LEMMA OnePred ==
    ASSUME MapInv, map = "exists", NEW a \in Linked \cup {Head}, NEW b \in Linked \cup {Head},
           next[a].to = next[b].to, next[a].to # Null
    PROVE  a = b
  <1> SUFFICES ASSUME a # b PROVE FALSE
    OBVIOUS
  <1>0. /\ next[a].to \in Linked /\ key[next[a].to] \in Nat
        /\ (a # Head => a \in Linked /\ key[a] \in Nat) /\ (b # Head => b \in Linked /\ key[b] \in Nat)
    BY ListOf, LinkedNodes
  <1>1. /\ (a = Head \/ key[a] < key[next[a].to]) /\ (b = Head \/ key[b] < key[next[a].to])
    BY ListOf
  <1>2. b # Head => \/ key[next[a].to] <= key[b]
                    \/ a # Head /\ key[b] < key[a]
    BY <1>0, ListOf
  <1>3. a # Head => \/ key[next[a].to] <= key[a]
                    \/ b # Head /\ key[a] < key[b]
    BY <1>0, ListOf
  <1> QED  BY <1>0, <1>1, <1>2, <1>3

\* A node taken out of the list.
LEMMA UnlinkList ==
    ASSUME MapInv, map = "exists", NEW p \in Linked \cup {Head}, NEW c \in Linked, next[p].to = c,
           next' = [next EXCEPT ![p] = Ptr(next[c].to)], state' = [state EXCEPT ![c] = "unlinked"],
           key' = key
    PROVE  List' /\ Linked' = Linked \ {c} /\ p # c /\ next'[c] = next[c]
  <1>0. /\ Linked \subseteq Node /\ Head \notin Linked /\ Null \notin Linked /\ Head # Null
        /\ \A n \in Linked : key[n] \in Nat
    BY LinkedNodes
  <1>t. next \in [Node \cup {Head} -> Pointers] /\ key \in [Node -> Nat] /\ state \in [Node -> States]
    BY DEF MapInv, ListInv, Types
  <1>1. Linked' = Linked \ {c}
    BY <1>0, <1>t DEF Linked
  <1> DEFINE z == next[c].to
  <1>2. p # c /\ (p # Head => key[p] < key[c])
    BY <1>0, ListOf
  <1>3. /\ next'[p].to = z /\ next'[c] = next[c]
        /\ \A a \in Linked' \cup {Head} : a # p => next'[a] = next[a]
    BY <1>0, <1>t, <1>1, <1>2 DEF Ptr
  <1>4. /\ (z # Null => z \in Linked /\ key[c] < key[z] /\ z # c)
        /\ \A m \in Linked \ {c} : \/ key[c] < key[m] /\ z # Null /\ key[z] <= key[m]
                                   \/ key[m] < key[c]
    BY <1>0, ListOf
  <1>5. \A m \in Linked \ {p} : \/ (p = Head \/ key[p] < key[m]) /\ key[c] <= key[m]
                                \/ p # Head /\ key[m] < key[p]
    BY <1>0, ListOf
  <1>6. \A a \in Linked' \cup {Head} :
           /\ next'[a].to # Null => /\ next'[a].to \in Linked'
                                    /\ a = Head \/ key[a] < key[next'[a].to]
           /\ \A m \in Linked' \ {a} :
                 \/ /\ a = Head \/ key[a] < key[m]
                    /\ next'[a].to # Null /\ key[next'[a].to] <= key[m]
                 \/ a # Head /\ key[m] < key[a]
    <2> SUFFICES ASSUME NEW a \in Linked' \cup {Head}
                 PROVE  /\ next'[a].to # Null => /\ next'[a].to \in Linked'
                                                 /\ a = Head \/ key[a] < key[next'[a].to]
                        /\ \A m \in Linked' \ {a} :
                              \/ /\ a = Head \/ key[a] < key[m]
                                 /\ next'[a].to # Null /\ key[next'[a].to] <= key[m]
                              \/ a # Head /\ key[m] < key[a]
      OBVIOUS
    <2> HIDE DEF z
    <2>1. CASE a = p
      <3>1. z # Null => z \in Linked' /\ (p = Head \/ key[p] < key[z])
        BY <1>0, <1>1, <1>2, <1>4
      <3>2. ASSUME NEW m \in Linked' \ {p}
            PROVE  \/ /\ p = Head \/ key[p] < key[m]
                      /\ z # Null /\ key[z] <= key[m]
                   \/ p # Head /\ key[m] < key[p]
        <4>1. key[m] \in Nat /\ key[c] \in Nat /\ m \in Linked \ {c} /\ m \in Linked \ {p}
          BY <1>0, <1>1
        <4> QED  BY <1>4, <1>5, <4>1
      <3> QED  BY <1>3, <2>1, <3>1, <3>2
    <2>2. CASE a # p
      <3>1. a \in Linked \cup {Head} /\ next'[a].to = next[a].to
        BY <1>1, <1>3, <2>2
      <3>2. next[a].to # c
        BY <1>0, <2>2, <3>1, OnePred
      <3> QED  BY <1>1, <3>1, <3>2, ListOf
    <2> QED  BY <2>1, <2>2
  <1>7. List'
    BY <1>0, <1>1, <1>t, <1>6, ListFrom, AddressAssumption
  <1> QED  BY <1>1, <1>2, <1>3, <1>7

\* A node put into the list.
LEMMA LinkList ==
    ASSUME MapInv, map = "exists", NEW p \in Linked \cup {Head}, NEW n \in Node, state[n] = "private",
           next[n].to = next[p].to, p # Head => key[p] < key[n], next[p].to # Null => key[n] < key[next[p].to],
           next' = [next EXCEPT ![p] = Ptr(n)], state' = [state EXCEPT ![n] = "linked"], key' = key
    PROVE  List' /\ Linked' = Linked \cup {n} /\ n \notin Linked /\ p # n
  <1>0. /\ Linked \subseteq Node /\ Head \notin Linked /\ Null \notin Linked /\ Head # Null
        /\ \A m \in Linked : key[m] \in Nat
    BY LinkedNodes
  <1>t. next \in [Node \cup {Head} -> Pointers] /\ key \in [Node -> Nat] /\ state \in [Node -> States]
    BY DEF MapInv, ListInv, Types
  <1>n. n \notin Linked /\ n # Head /\ n # Null /\ key[n] \in Nat
    BY <1>t, AddressAssumption DEF Linked
  <1>1. Linked' = Linked \cup {n}
    BY <1>0, <1>t DEF Linked
  <1> DEFINE c == next[p].to
  <1>2. p # n
    BY <1>n
  <1>3. /\ next'[p].to = n /\ next'[n] = next[n] /\ next[n].to = c
        /\ \A a \in Linked \cup {Head} : a # p => next'[a] = next[a]
    BY <1>0, <1>t, <1>2 DEF Ptr
  <1>4. /\ (c # Null => c \in Linked /\ key[c] \in Nat /\ key[n] < key[c])
        /\ \A m \in Linked \ {p} : \/ (p = Head \/ key[p] < key[m]) /\ c # Null /\ key[c] <= key[m]
                                   \/ p # Head /\ key[m] < key[p]
    BY <1>0, ListOf
  <1>5. p # Head => key[p] \in Nat /\ key[p] < key[n]
    BY <1>0
  <1> HIDE DEF c
  <1>6. \A a \in Linked' \cup {Head} :
           /\ next'[a].to # Null => /\ next'[a].to \in Linked'
                                    /\ a = Head \/ key[a] < key[next'[a].to]
           /\ \A m \in Linked' \ {a} :
                 \/ /\ a = Head \/ key[a] < key[m]
                    /\ next'[a].to # Null /\ key[next'[a].to] <= key[m]
                 \/ a # Head /\ key[m] < key[a]
    <2> SUFFICES ASSUME NEW a \in Linked' \cup {Head}
                 PROVE  /\ next'[a].to # Null => /\ next'[a].to \in Linked'
                                                 /\ a = Head \/ key[a] < key[next'[a].to]
                        /\ \A m \in Linked' \ {a} :
                              \/ /\ a = Head \/ key[a] < key[m]
                                 /\ next'[a].to # Null /\ key[next'[a].to] <= key[m]
                              \/ a # Head /\ key[m] < key[a]
      OBVIOUS
    <2>1. CASE a = p
      <3>1. ASSUME NEW m \in Linked' \ {p}
            PROVE  \/ (p = Head \/ key[p] < key[m]) /\ key[n] <= key[m]
                   \/ p # Head /\ key[m] < key[p]
        <4>1. CASE m = n
          BY <1>n, <1>5, <4>1
        <4>2. CASE m # n
          <5>1. m \in Linked \ {p} /\ key[m] \in Nat
            BY <1>0, <1>1, <4>2
          <5> QED  BY <1>n, <1>4, <5>1
        <4> QED  BY <4>1, <4>2
      <3> QED  BY <1>1, <1>3, <1>5, <1>n, <2>1, <3>1
    <2>2. CASE a = n
      <3>1. ASSUME NEW m \in Linked
            PROVE  \/ key[n] < key[m] /\ c # Null /\ key[c] <= key[m]
                   \/ key[m] < key[n]
        <4>0. key[m] \in Nat
          BY <1>0
        <4>1. CASE m = p
          BY <1>0, <1>5, <4>1
        <4>2. CASE m # p
          BY <1>n, <1>4, <1>5, <4>0, <4>2
        <4> QED  BY <4>1, <4>2
      <3> QED  BY <1>1, <1>3, <1>4, <1>n, <2>2, <3>1
    <2>3. CASE a # p /\ a # n
      <3>1. a \in Linked \cup {Head} /\ next'[a] = next[a] /\ (a # Head => a \in Linked /\ key[a] \in Nat)
        BY <1>0, <1>1, <1>3, <2>3
      <3>2. /\ next[a].to # Null => /\ next[a].to \in Linked /\ key[next[a].to] \in Nat
                                    /\ a = Head \/ key[a] < key[next[a].to]
            /\ \A m \in Linked \ {a} :
                  \/ /\ a = Head \/ key[a] < key[m]
                     /\ next[a].to # Null /\ key[next[a].to] <= key[m]
                  \/ a # Head /\ key[m] < key[a]
        BY <1>0, <3>1, ListOf
      <3>3. \/ /\ a = Head \/ key[a] < key[n]
               /\ next[a].to # Null /\ key[next[a].to] <= key[n]
            \/ a # Head /\ key[n] < key[a]
        <4>1. CASE p = Head
          <5>1. a \in Linked \ {p} /\ a # Head
            BY <2>3, <3>1, <4>1
          <5>2. c # Null /\ key[c] <= key[a]
            BY <1>4, <4>1, <5>1
          <5> QED  BY <1>n, <1>4, <3>1, <5>1, <5>2
        <4>2. CASE p # Head
          <5>1. p \in Linked \ {a} /\ key[p] \in Nat
            BY <1>0, <2>3, <4>2
          <5>2. CASE key[next[a].to] <= key[p] /\ next[a].to # Null /\ (a = Head \/ key[a] < key[p])
            BY <1>n, <1>5, <3>1, <3>2, <4>2, <5>1, <5>2
          <5>3. CASE a # Head /\ key[p] < key[a]
            <6>1. a \in Linked \ {p}
              BY <2>3, <3>1, <5>3
            <6>2. c # Null /\ key[c] <= key[a]
              BY <1>4, <3>1, <5>1, <5>3, <6>1
            <6> QED  BY <1>n, <1>4, <3>1, <5>3, <6>2
          <5> QED  BY <3>2, <5>1, <5>2, <5>3
        <4> QED  BY <4>1, <4>2
      <3> QED  BY <1>1, <3>1, <3>2, <3>3
    <2> QED  BY <1>1, <2>1, <2>2, <2>3
  <1>7. List'
    BY <1>0, <1>1, <1>t, <1>6, ListFrom, AddressAssumption
  <1> QED  BY <1>1, <1>2, <1>n, <1>7

\* The node of an insert that is not linked yet.
LEMMA OwnerNode ==
    ASSUME MapInv, NEW u \in Thread, Owner(th[u])
    PROVE  th[u].n \in Node /\ state[th[u].n] = "private"
  <1>1. th[u] \in ThreadState /\ PlaceOf(th[u], hazard[u])
    BY StateOf
  <1>2. th[u].n \in Node \cup {Null}
    BY <1>1, FieldsOf
  <1> QED  BY <1>1, <1>2 DEF PlaceOf, Owner

\* The key of a dead node that is still linked is not in the map.
LEMMA DeadKey ==
    ASSUME MapInv, map = "exists", NEW c \in Linked, next[c].dead
    PROVE  key[c] \notin Keys
  <1> SUFFICES ASSUME NEW m \in Live, key[m] = key[c] PROVE FALSE
    BY DEF Keys
  <1>1. m \in Linked /\ m # c /\ m \in Node /\ c \in Node
    BY DEF Live, Linked
  <1>2. Follows(c) /\ key[m] \in Nat /\ key[c] \in Nat
    BY <1>1 DEF MapInv, ListInv, List, Types
  <1>3. ~Before(c, m) /\ ~Before(m, c)
    BY <1>1, <1>2, AddressAssumption DEF Before
  <1> QED  BY <1>1, <1>2, <1>3 DEF Follows

\* The compare-exchange at prev takes a dead cur out of the list, or the search starts again.
LEMMA UnlinkStep ==
    ASSUME MapInv, map = "exists", NEW t \in Thread, Unlink(t)
    PROVE  MapInv'
  <1> DEFINE r == th[t]
             s == hazard[t]
  <1>0. r \in ThreadState /\ s \in Slots /\ OpOf(r) /\ PlaceOf(r, s) /\ KeyOf(r)
    BY StateOf
  <1>f. /\ r.pc \in PCs /\ r.op \in Op \cup {"none"} /\ r.key \in Nat /\ r.ret \in {"none", "true", "false"}
        /\ r.prev \in Node \cup {Null, Head} /\ r.cur \in Node \cup {Null} /\ r.next \in Pointers
        /\ r.n \in Node \cup {Null} /\ r.level \in Nat
    BY <1>0, FieldsOf
  <1>l. /\ r.pc = "unlink" /\ r.op \in Op /\ map = "exists" /\ Held(s, 1, r.cur) /\ next[r.cur].dead
        /\ r.prev = Head \/ Held(s, 2, r.prev)
    <2>1. r.pc = "unlink"
      BY DEF Unlink
    <2> QED  BY <1>0, <2>1 DEF OpOf, PlaceOf, Searching, Deciding
  <1>1. CASE next[r.prev] # Ptr(r.cur)
    <2> DEFINE e == Restarted(r)
               h == s
    <2>1. th' = [th EXCEPT ![t] = e] /\ r.pc = "unlink" /\ UNCHANGED <<heap, height, map>>
      BY <1>1 DEF Unlink, Expected, heap, Restart, Restarted, Start, MapInv, ListInv, Types, ThreadState
    <2>2. /\ e \in ThreadState /\ Same(e, r)
          /\ e.pc = Start(r.op) /\ e.prev = Head /\ e.ret = r.ret /\ e.n = r.n
      BY <1>0, RestartedState
    <2>3. /\ h \in Slots /\ hazard' = [hazard EXCEPT ![t] = h]
          /\ h = s
      BY <1>1, <1>0, SlotsSame DEF Unlink, Expected, heap
    <2> HIDE DEF e, h, r, s
    <2>4. OpOf(e)
      BY <1>0, <1>f, <1>1, <2>1, <2>2 DEF OpOf, Op, Same, Finder, Searching, Loading, Reading, Deciding, Marking, Placing, Raising, Finishing, Start
    <2>5. PlaceOf(e, h)
      BY <1>0, <1>f, <2>1, <2>2 DEF PlaceOf, Held, Owner, Same, Searching, Loading, Reading, Deciding, Marking, Placing, Raising, Finishing, Start
    <2>6. KeyOf(e)
      BY <2>2 DEF KeyOf, Same, Searching, Loading, Reading, Deciding, Marking, Placing, Raising, Finishing, Start
    <2>7. (Busy(e) => Busy(r) /\ e.n = r.n) /\ e.pc \notin {"drop", "index", "overage"}
      BY <2>1, <2>2 DEF Finishing, Busy, Owner, Same, Start
    <2> QED  BY <2>1, <2>2, <2>3, <2>4, <2>5, <2>6, <2>7, QuietStep, HeightSame DEF CallOf, r
  <1>2. CASE next[r.prev] = Ptr(r.cur)
    <2> DEFINE c == r.cur
               p == r.prev
               y == Look(r)
               e == [y EXCEPT !.pc = "drop"]
    <2>1. /\ th' = [th EXCEPT ![t] = e] /\ hazard' = [hazard EXCEPT ![t] = s]
          /\ UNCHANGED <<key, count, height, map>>
          /\ next' = [next EXCEPT ![p] = Ptr(next[c].to)] /\ state' = [state EXCEPT ![c] = "unlinked"]
      BY <1>2, SlotsSame DEF Unlink, Expected, MapInv, ListInv, Types, ThreadState
    <2>2. /\ e \in ThreadState /\ Same(e, r) /\ e.pc = "drop" /\ e.prev = p /\ e.cur = c /\ e.ret = r.ret /\ e.n = r.n
          /\ (r.key \notin Keys => e.gone)
      <3>1. y \in ThreadState /\ Same(y, r) /\ y.prev = p /\ y.cur = c /\ y.ret = r.ret /\ y.n = r.n /\ (y.gone <=> r.gone \/ r.key \notin Keys)
        BY <1>0, LookState
      <3> HIDE DEF y, r
      <3> QED  BY <3>1, PcState DEF PCs, Searching, Deciding, Same
    <2>3. next[p].to = c /\ ~next[p].dead /\ c \in Node /\ c # Null /\ p \in Node \cup {Head} /\ (p = Head \/ Solid(p))
      BY <1>l, <1>2, AddressAssumption DEF Ptr, Held
    <2>4. p \in Linked \cup {Head} /\ c \in Linked
      BY <1>l, <2>3, NextOf
    <2>t. next \in [Node \cup {Head} -> Pointers] /\ key \in [Node -> Nat] /\ state \in [Node -> States]
          /\ count \in [Node -> 0..255]
      BY DEF MapInv, ListInv, Types
    <2>g. r.op \in Finder /\ r.key <= key[c] => r.key \notin Keys
      <3> SUFFICES ASSUME r.op \in Finder, r.key <= key[c] PROVE r.key \notin Keys
        OBVIOUS
      <3>1. (p = Head \/ key[p] < r.key) /\ Follows(p) /\ key[c] \in Nat
        BY <1>0, <1>l, <2>3, <2>4, <2>t DEF KeyOf, Deciding, MapInv, ListInv, List
      <3>2. CASE r.key < key[c]
        BY <1>f, <2>3, <2>4, <3>1, <3>2, Absent, KeysLinked
      <3>3. CASE r.key = key[c]
        BY <1>l, <2>4, <3>3, DeadKey
      <3> QED  BY <1>f, <3>1, <3>2, <3>3
    <2> HIDE DEF c, p, y, e, r, s
    <2>5. List' /\ Linked' = Linked \ {c} /\ p # c /\ next'[c] = next[c]
      BY <1>l, <2>1, <2>3, <2>4, UnlinkList
    <2>6. /\ next' \in [Node \cup {Head} -> Pointers] /\ state' \in [Node -> States]
      <3>1. next[c].to \in Node \cup {Null}
        BY <2>3, <2>t DEF Pointers
      <3>2. Ptr(next[c].to) \in Pointers
        BY <3>1, PtrType
      <3> QED  BY <2>1, <2>t, <3>2 DEF States
    <2>7. next[c].dead
      BY <1>l DEF c
    <2>8. /\ \A m \in Node \cup {Head} : m # p => next'[m] = next[m]
          /\ \A m \in Node : m # c => state'[m] = state[m]
          /\ state'[c] = "unlinked" /\ ~next'[p].dead /\ state[c] = "linked" /\ (p # Head => state[p] = "linked")
      BY <2>1, <2>3, <2>4, <2>t DEF Ptr, Linked
    <2>9. DeadFirst'
      <3>1. DeadFirst
        BY DEF MapInv, ListInv
      <3>2. ~next'[Head].dead
        BY <2>8, <3>1 DEF DeadFirst
      <3>3. ASSUME NEW m \in Node, state'[m] \in {"unlinked", "retired"} PROVE next'[m].dead
        <4>1. CASE m = c
          BY <2>5, <2>7, <4>1
        <4>2. CASE m # c
          BY <2>8, <3>1, <3>3, <4>2 DEF DeadFirst
        <4> QED  BY <4>1, <4>2
      <3> QED  BY <3>2, <3>3 DEF DeadFirst
    <2>k. ASSUME NEW x, NEW z, Owner(x) => x.n \in Node /\ state[x.n] = "private" PROVE Keeps(x, z)
      <3>1. ASSUME NEW i \in 0..3, NEW m \in Node, Held(z, i, m)
            PROVE  state'[m] \in SolidStates /\ key'[m] = key[m] /\ (next[m].dead => next'[m].dead)
        BY <2>1, <2>3, <2>8, <3>1 DEF Held, Solid, SolidStates
      <3>2. ASSUME Owner(x)
            PROVE  /\ state'[x.n] = state[x.n] /\ next'[x.n] = next[x.n]
                   /\ key'[x.n] = key[x.n] /\ count'[x.n] = count[x.n]
        <4>1. x.n \in Node /\ state[x.n] = "private" /\ x.n # Head
          BY <2>k, <3>2, AddressAssumption
        <4>2. x.n # c /\ x.n # p
          BY <2>8, <4>1
        <4> QED  BY <2>1, <2>8, <4>1, <4>2
      <3> QED  BY <3>1, <3>2 DEF Keeps
    <2>a. CallOf(e, s)
      <3>1. OpOf(e)
        BY <1>0, <1>l, <2>2 DEF OpOf, Op, Same, Searching, Loading, Reading, Deciding, Marking, Placing, Raising, Finishing, Start
      <3>2. PlaceOf(e, s)
        BY <1>0, <1>l, <2>2 DEF PlaceOf, Owner, Same, Searching, Loading, Reading, Deciding, Marking, Placing, Raising, Finishing, Start, c, p
      <3>3. KeyOf(e)
        <4>1. e.op \in Finder => key[c] < r.key \/ e.gone
          BY <1>f, <2>2, <2>3, <2>g, <2>t DEF Same
        <4> QED  BY <1>0, <1>l, <2>2, <4>1 DEF KeyOf, Same, Searching, Loading, Reading, Deciding, Marking, Placing, Raising, Finishing, Start, c, p
      <3> QED  BY <3>1, <3>2, <3>3 DEF CallOf
    <2>o. \A u \in Thread : Owner(th[u]) => th[u].n \in Node /\ state[th[u].n] = "private"
      BY OwnerNode
    <2>b. CallOf(th[t], hazard[t])'
      <3>1. Owner(e) => e.n \in Node /\ state[e.n] = "private"
        BY <2>2, <2>o DEF Owner, Same, r
      <3>2. e = th'[t] /\ s = hazard'[t]
        BY <1>0, <2>1, <2>2, ThreadSet
      <3>3. Keeps(e, s)
        BY <2>k, <3>1
      <3> QED  BY <2>1, <2>2, <2>a, <3>2, <3>3, CallKept
    <2>c. \A u \in Thread \ {t} : Keeps(th[u], hazard[u])
      BY <2>k, <2>o
    <2>d. \A u \in Thread \ {t} : Busy(e) /\ Busy(th[u]) => e.n # th[u].n
      BY <1>l, <2>2 DEF MapInv, ListInv, OneOwner, Busy, Owner, Same, Finishing, r
    <2>e. Counts'
      <3> SUFFICES ASSUME NEW m \in Node PROVE CountOf(m)'
        BY DEF Counts
      <3>0. th'[t] = e /\ \A u \in Thread : u # t => th'[u] = th[u]
        BY <1>0, <2>1, <2>2, ThreadSet
      <3>1. CountOf(m)
        BY DEF MapInv, Counts
      <3>2. /\ \A u \in Thread : u # t => (u \in Settling(m)' <=> u \in Settling(m)) /\ (u \in Dropping(m)' <=> u \in Dropping(m))
            /\ t \notin Settling(m) /\ t \notin Dropping(m) /\ t \notin Settling(m)'
            /\ (t \in Dropping(m)' <=> m = c)
            /\ Settling(m) \subseteq Thread /\ Dropping(m) \subseteq Thread
            /\ Settling(m)' \subseteq Thread /\ Dropping(m)' \subseteq Thread
        BY <1>l, <2>2, <3>0, CallersOf DEF Finishing, r
      <3>3. Settling(m)' = Settling(m) /\ \A u \in Settling(m) : th'[u] = th[u]
        BY <3>0, <3>2
      <3>4. CASE m = c
        <4>1. Dropping(m) = {} /\ Dropping(m)' = {t}
          <5>1. Dropping(m) = {}
            BY <2>8, <3>1, <3>4 DEF CountOf
          <5> QED  BY <3>2, <3>4, <5>1
        <4>2. Base(m) = 1 /\ Base(m)' = 1 /\ Solid(m) /\ Solid(m)'
          BY <2>8, <3>4, <4>1 DEF Base, Solid, SolidStates
        <4>3. count'[m] = count[m]
          BY <2>1
        <4> QED  BY <2>8, <3>1, <3>3, <3>4, <4>1, <4>2, <4>3 DEF CountOf
      <3>5. CASE m # c
        <4>1. Dropping(m)' = Dropping(m)
          BY <3>2, <3>5
        <4> QED  BY <2>1, <2>8, <3>1, <3>3, <3>5, <4>1, CountKept
      <3> QED  BY <3>4, <3>5
    <2> QED  BY ZenonT(60), <1>0, <2>1, <2>2, <2>t, <2>5, <2>6, <2>9, <2>b, <2>c, <2>d, <2>e, HeapStep
  <1> QED  BY <1>1, <1>2

\* Numbers of a byte.
LEMMA ByteDown ==
    ASSUME NEW a \in 0..255, NEW d \in 0..255, d <= a
    PROVE  a - d \in 0..255 /\ a - d < 256 /\ (a - d) % 256 = a - d
  OBVIOUS

\* A count brought down by one access.
LEMMA CountDown ==
    ASSUME MapInv, NEW n \in Node, NEW d \in 0..255, d <= count[n], Drop(n, d)
    PROVE  LET c == count[n] - d IN
           /\ count' = [count EXCEPT ![n] = c] /\ c \in 0..255 /\ count'[n] = c
           /\ state' = [state EXCEPT ![n] = IF c = 0 THEN "retired" ELSE @]
           /\ count' \in [Node -> 0..255] /\ state' \in [Node -> States]
           /\ \A m \in Node : m # n => count'[m] = count[m] /\ state'[m] = state[m]
           /\ state'[n] = (IF c = 0 THEN "retired" ELSE state[n])
  <1>1. count \in [Node -> 0..255] /\ state \in [Node -> States]
    BY DEF MapInv, ListInv, Types
  <1>2. count[n] \in 0..255
    BY <1>1
  <1>5. PICK c \in 0..255 : c = count[n] - d /\ (count[n] - d) % 256 = c
    BY <1>2, ByteDown
  <1>6. count' = [count EXCEPT ![n] = c] /\ state' = [state EXCEPT ![n] = IF c = 0 THEN "retired" ELSE @]
    BY <1>5 DEF Drop
  <1>7. /\ count'[n] = c /\ count' \in [Node -> 0..255] /\ state' \in [Node -> States]
        /\ \A m \in Node : m # n => count'[m] = count[m] /\ state'[m] = state[m]
        /\ state'[n] = (IF c = 0 THEN "retired" ELSE state[n])
    BY <1>1, <1>6 DEF States
  <1> QED  BY <1>5, <1>6, <1>7

\* When a node's count is brought down the list stays and every call keeps what it knows.
LEMMA DropKeeps ==
    ASSUME MapInv, NEW n \in Node, state[n] \in {"linked", "unlinked"}, NEW c \in 0..255, state'[n] = (IF c = 0 THEN "retired" ELSE state[n]),
           c = 0 => state[n] = "unlinked", UNCHANGED <<next, key, map>>,
           \A m \in Node : m # n => count'[m] = count[m] /\ state'[m] = state[m]
    PROVE  /\ List' /\ DeadFirst'
           /\ \A x, y : (Owner(x) => x.n \in Node /\ state[x.n] = "private") => Keeps(x, y)
  <1>1. \A m \in Node : /\ (state'[m] = "linked" <=> state[m] = "linked")
                        /\ (state'[m] \in {"unlinked", "retired"} => state[m] \in {"unlinked", "retired"})
                        /\ (Solid(m) => state'[m] \in SolidStates)
                        /\ (state[m] = "private" => m # n)
    BY DEF Solid, SolidStates
  <1>2. Linked' = Linked
    BY <1>1 DEF Linked
  <1>3. List'
    BY <1>2 DEF List, Follows, Before, MapInv, ListInv
  <1>4. DeadFirst'
    BY <1>1 DEF DeadFirst, MapInv, ListInv
  <1>5. ASSUME NEW x, NEW y, Owner(x) => x.n \in Node /\ state[x.n] = "private" PROVE Keeps(x, y)
    BY <1>1, <1>5 DEF Keeps, Held
  <1> QED  BY <1>3, <1>4, <1>5

\* The find that unlinked a node drops its link, and gives up.
LEMMA DropLinkStep ==
    ASSUME MapInv, map = "exists", NEW t \in Thread, DropLink(t)
    PROVE  MapInv'
  <1> DEFINE r == th[t]
             s == hazard[t]
  <1>0. r \in ThreadState /\ s \in Slots /\ OpOf(r) /\ PlaceOf(r, s) /\ KeyOf(r)
    BY StateOf
  <1>f. /\ r.pc \in PCs /\ r.op \in Op \cup {"none"} /\ r.key \in Nat /\ r.ret \in {"none", "true", "false"}
        /\ r.prev \in Node \cup {Null, Head} /\ r.cur \in Node \cup {Null} /\ r.next \in Pointers
        /\ r.n \in Node \cup {Null} /\ r.level \in Nat
    BY <1>0, FieldsOf
  <1>l. /\ r.pc = "drop" /\ r.op \in Finder /\ map = "exists" /\ Held(s, 1, r.cur) /\ r.cur \in Node
        /\ r.prev = Head \/ (Held(s, 2, r.prev) /\ key[r.prev] < r.key)
        /\ key[r.cur] < r.key \/ r.gone
    <2>1. r.pc = "drop"
      BY DEF DropLink
    <2>2. r.op \in Op /\ map = "exists" /\ r.op \notin {"firstKey", "values"}
      BY <1>0, <2>1 DEF OpOf, Reading, Loading
    <2>3. r.op \in Finder
      BY <2>2 DEF Op, Finder
    <2>4. (r.prev = Head \/ Held(s, 2, r.prev)) /\ Held(s, 1, r.cur)
      BY <1>0, <2>1 DEF PlaceOf, Searching, Deciding
    <2>5. (r.prev = Head \/ key[r.prev] < r.key) /\ (key[r.cur] < r.key \/ r.gone)
      BY <1>0, <2>1, <2>3 DEF KeyOf, Deciding
    <2> QED  BY <2>1, <2>2, <2>3, <2>4, <2>5 DEF Held
  <1> DEFINE x == [r EXCEPT !.cur = Null, !.gaveUp = @ \/ key[r.cur] < r.key]
             c == r.cur
  <1>a. /\ Drop(c, 1) /\ th' = [th EXCEPT ![t] = Done(x, FALSE)] /\ UNCHANGED <<next, key, height, map>>
        /\ IF count'[c] = 0 THEN Set(t, 1, Null) ELSE UNCHANGED hazard
    BY DEF DropLink
  <1>x. /\ x \in ThreadState /\ x.pc = "drop" /\ x.prev = r.prev /\ x.cur = Null /\ Same(x, r)
        /\ x.ret = r.ret /\ x.n = r.n /\ (x.gone \/ x.gaveUp)
    BY <1>0, <1>l DEF ThreadState, Same
  <1>h. PICK h \in Slots : hazard' = [hazard EXCEPT ![t] = h] /\ h[2] = s[2]
    <2>1. CASE count'[c] = 0
      <3>1. Set(t, 1, Null)
        BY <1>a, <2>1
      <3> DEFINE w == [hazard[t] EXCEPT ![1] = Null]
      <3>2. w \in Slots /\ hazard' = [hazard EXCEPT ![t] = w] /\ w[2] = hazard[t][2]
        BY SMTT(40), <3>1, SlotSet
      <3> QED  BY <3>2
    <2>2. CASE count'[c] # 0
      BY <1>0, <1>a, <2>2, SlotsSame
    <2> QED  BY <2>1, <2>2
  <1> HIDE DEF x
  <1>e. PICK e \in ThreadState : /\ e = Done(x, FALSE) /\ Same(e, x) /\ CallOf(e, h)
                                 /\ e.pc \in {"return", "make", "mark"} /\ (Busy(e) => Busy(x) /\ e.n = x.n)
    <2>1. OpOf(x)
      BY <1>0, <1>l, <1>x DEF OpOf, Same, Searching, Deciding, Reading, Marking, Placing, Raising, Finishing, Start, Loading
    <2>2. /\ x.op \in Finder /\ x.pc \in Searching /\ (Owner(x) => state[x.n] = "private")
          /\ x.prev = Head \/ (Held(h, 2, x.prev) /\ key[x.prev] < x.key)
      BY <1>0, <1>l, <1>x, <1>h DEF PlaceOf, Owner, Same, Held, Searching, Deciding
    <2>3. /\ Done(x, FALSE) \in ThreadState /\ Same(Done(x, FALSE), x) /\ CallOf(Done(x, FALSE), h)
          /\ Done(x, FALSE).pc \in {"return", "make", "mark"}
          /\ (Busy(Done(x, FALSE)) => Busy(x) /\ Done(x, FALSE).n = x.n)
      BY <1>x, <2>1, <2>2, DoneCall
    <2> HIDE DEF Done
    <2> QED  BY <2>3
  <1> HIDE DEF Done, r, s, c
  <1>b. th' = [th EXCEPT ![t] = e]
    BY <1>a, <1>e
  <1>c. /\ th'[t] = e /\ hazard'[t] = h /\ \A u \in Thread : u # t => th'[u] = th[u] /\ hazard'[u] = hazard[u]
    BY <1>b, <1>h, ThreadSet
  <1>1. c \in Node /\ CountOf(c) /\ t \in Dropping(c) /\ c = r.cur
    BY <1>l DEF MapInv, Counts, Dropping, r, c
  <1>2. state[c] = "unlinked" /\ Base(c) = 1 /\ (\A u \in Dropping(c) : u = t)
    BY <1>1 DEF CountOf, Base
  <1>3. count \in [Node -> 0..255] /\ state \in [Node -> States] /\ next \in [Node \cup {Head} -> Pointers] /\ key \in [Node -> Nat]
    BY DEF MapInv, ListInv, Types
  <1>4. \A u \in Settling(c) : th[u].level \in Nat /\ th[u].level > 0
    <2> SUFFICES ASSUME NEW u \in Settling(c) PROVE th[u].level \in Nat /\ th[u].level > 0
      OBVIOUS
    <2>1. u \in Thread /\ th[u].level > 0
      BY DEF Settling
    <2> QED  BY <2>1, StateOf, FieldsOf
  <1>5. /\ count[c] \in Nat /\ count[c] >= 1 /\ (Settling(c) = {} => count[c] = 1)
        /\ \A u \in Settling(c) : count[c] = 1 + th[u].level
    <2>1. Solid(c)
      BY <1>2 DEF Solid, SolidStates
    <2>2. (Settling(c) = {} => count[c] = 1) /\ \A u \in Settling(c) : count[c] = 1 + th[u].level
      BY <1>1, <1>2, <2>1 DEF CountOf
    <2>3. count[c] \in Nat
      BY <1>1, <1>3, HeightAssumption
    <2>4. CASE Settling(c) = {}
      BY <2>2, <2>3, <2>4
    <2>5. CASE Settling(c) # {}
      <3>1. PICK u : u \in Settling(c)
        BY <2>5
      <3>2. count[c] = 1 + th[u].level /\ th[u].level \in Nat
        BY <1>4, <2>2, <3>1
      <3> QED  BY <2>2, <2>3, <3>2
    <2> QED  BY <2>4, <2>5
  <1>6. PICK k \in 0..255 :
           /\ k = count[c] - 1 /\ count'[c] = k
           /\ count' \in [Node -> 0..255] /\ state' \in [Node -> States]
           /\ \A m \in Node : m # c => count'[m] = count[m] /\ state'[m] = state[m]
           /\ state'[c] = (IF k = 0 THEN "retired" ELSE state[c])
    <2>1. 1 \in 0..255 /\ 1 <= count[c] /\ Drop(c, 1)
      BY <1>a, <1>5, HeightAssumption DEF c
    <2>2. count[c] - 1 \in 0..255
      BY <1>1, <1>3, <2>1, ByteDown
    <2>3. /\ count'[c] = count[c] - 1
          /\ count' \in [Node -> 0..255] /\ state' \in [Node -> States]
          /\ \A m \in Node : m # c => count'[m] = count[m] /\ state'[m] = state[m]
          /\ state'[c] = (IF count[c] - 1 = 0 THEN "retired" ELSE state[c])
      BY ZenonT(60), <1>1, <2>1, CountDown
    <2> QED  BY <2>2, <2>3
  <1>7. /\ List' /\ DeadFirst'
        /\ \A q, y : (Owner(q) => q.n \in Node /\ state[q.n] = "private") => Keeps(q, y)
    <2>1. state[c] \in {"linked", "unlinked"} /\ (k = 0 => state[c] = "unlinked") /\ UNCHANGED <<next, key, map>>
      BY <1>2, <1>a
    <2> QED  BY <1>1, <1>6, <2>1, DropKeeps
  <1>o. \A u \in Thread : Owner(th[u]) => th[u].n \in Node /\ state[th[u].n] = "private"
    BY OwnerNode
  <1>8. CallOf(th[t], hazard[t])'
    <2>1. Owner(e) => Owner(th[t]) /\ e.n = th[t].n
      BY <1>e, <1>x, <1>l DEF Finishing, Busy, Owner, Same, r
    <2>2. Keeps(e, h)
      BY <1>7, <1>o, <2>1
    <2> QED  BY <1>a, <1>c, <1>e, <2>2, CallKept
  <1>9. \A u \in Thread \ {t} : Keeps(th[u], hazard[u])
    BY <1>7, <1>o
  <1>10. \A u \in Thread \ {t} : Busy(e) /\ Busy(th[u]) => e.n # th[u].n
    <2>1. Busy(e) => Busy(th[t]) /\ e.n = th[t].n
      BY <1>e, <1>x DEF Finishing, Busy, Owner, Same, r
    <2> QED  BY <2>1 DEF MapInv, ListInv, OneOwner
  <1>11. Counts'
    <2> SUFFICES ASSUME NEW m \in Node PROVE CountOf(m)'
      BY DEF Counts
    <2>1. CountOf(m)
      BY DEF MapInv, Counts
    <2>2. /\ \A u \in Thread : u # t => (u \in Settling(m)' <=> u \in Settling(m)) /\ (u \in Dropping(m)' <=> u \in Dropping(m))
          /\ t \notin Settling(m) /\ t \notin Settling(m)' /\ t \notin Dropping(m)' /\ (t \in Dropping(m) <=> m = c)
          /\ Settling(m) \subseteq Thread /\ Dropping(m) \subseteq Thread
          /\ Settling(m)' \subseteq Thread /\ Dropping(m)' \subseteq Thread
      BY <1>c, <1>e, <1>l, <1>1, CallersOf DEF Finishing, Same, r
    <2>3. Settling(m)' = Settling(m) /\ \A u \in Settling(m) : th'[u] = th[u]
      BY <1>c, <2>2
    <2>4. CASE m = c
      <3>1. Dropping(m)' = {}
        BY <1>2, <2>2, <2>4
      <3>2. state'[m] # "linked" /\ Base(m)' = 0
        BY <1>2, <1>6, <2>4, <3>1 DEF Base
      <3>3. CASE Settling(m) = {}
        <4>1. k = 0 /\ state'[m] = "retired" /\ count'[m] = 0
          BY <1>5, <1>6, <2>4, <3>3
        <4> QED  BY <2>3, <3>1, <3>2, <3>3, <4>1 DEF CountOf
      <3>4. CASE Settling(m) # {}
        <4>1. PICK w : w \in Settling(m)
          BY <3>4
        <4>2. k # 0 /\ state'[m] = "unlinked"
          BY <1>2, <1>4, <1>5, <1>6, <2>4, <4>1
        <4>3. \A u \in Settling(m) : count'[m] = 0 + th[u].level
          BY <1>4, <1>5, <1>6, <2>4
        <4> QED  BY <2>3, <3>1, <3>2, <3>4, <4>2, <4>3 DEF CountOf
      <3> QED  BY <3>3, <3>4
    <2>5. CASE m # c
      <3>1. Dropping(m)' = Dropping(m)
        BY <2>2, <2>5
      <3> QED  BY <1>6, <2>1, <2>3, <2>5, <3>1, CountKept
    <2> QED  BY <2>4, <2>5
  <1> QED  BY ZenonT(60), <1>a, <1>b, <1>h, <1>e, <1>3, <1>6, <1>7, <1>8, <1>9, <1>10, <1>11, HeapStep

\* An insert makes its node, or prepares it for another try.
LEMMA MakeStep ==
    ASSUME MapInv, map = "exists", NEW t \in Thread, Make(t)
    PROVE  MapInv'
  <1> DEFINE r == th[t]
             s == hazard[t]
  <1>0. r \in ThreadState /\ s \in Slots /\ OpOf(r) /\ PlaceOf(r, s) /\ KeyOf(r)
    BY StateOf
  <1>f. /\ r.pc \in PCs /\ r.op \in Op \cup {"none"} /\ r.key \in Nat /\ r.ret \in {"none", "true", "false"}
        /\ r.prev \in Node \cup {Null, Head} /\ r.cur \in Node \cup {Null} /\ r.next \in Pointers
        /\ r.n \in Node \cup {Null} /\ r.level \in Nat
    BY <1>0, FieldsOf
  <1>l. r.pc = "make" /\ r.op = "insert" /\ map = "exists" /\ r.ret = "none" /\ (r.n # Null => Owner(r))
        /\ (r.prev = Head \/ Held(s, 2, r.prev)) /\ (r.cur # Null => Held(s, 1, r.cur))
        /\ (r.prev = Head \/ key[r.prev] < r.key) /\ (r.cur # Null => r.key < key[r.cur])
    <2>1. r.pc = "make"
      BY DEF Make
    <2>2. r.op = "insert" /\ map = "exists" /\ r.ret = "none"
      BY <1>0, <2>1 DEF OpOf, Op, Searching, Loading, Reading, Deciding, Marking, Placing, Raising, Finishing, Start
    <2> QED  BY <1>0, <2>1, <2>2 DEF Owner, PlaceOf, KeyOf, Finder, Placing
  <1>a. PICK n \in Node :
           /\ IF r.n = Null THEN state[n] = "free" ELSE n = r.n
           /\ state' = [state EXCEPT ![n] = "private"]
           /\ key' = [key EXCEPT ![n] = r.key]
           /\ count' = [count EXCEPT ![n] = r.level + 1]
           /\ next' = [next EXCEPT ![n] = Ptr(r.cur)]
           /\ Set(t, 3, n)
           /\ th' = [th EXCEPT ![t].n = n, ![t].pc = "link"]
    BY DEF Make
  <1>u. UNCHANGED <<height, map>> /\ r.level < 255
    BY DEF Make
  <1> DEFINE e == [r EXCEPT !.n = n, !.pc = "link"]
             h == [hazard[t] EXCEPT ![3] = n]
  <1>b. th' = [th EXCEPT ![t] = e]
    BY <1>0, <1>a DEF MapInv, ListInv, Types, ThreadState
  <1>e. /\ e \in ThreadState /\ Same(e, r) /\ e.pc = "link" /\ e.prev = r.prev /\ e.cur = r.cur /\ e.ret = r.ret /\ e.n = n
    BY <1>0 DEF ThreadState, Same, PCs, Placing
  <1>h. h \in Slots /\ hazard' = [hazard EXCEPT ![t] = h] /\ h[3] = n /\ h[2] = s[2] /\ h[1] = s[1]
    BY <1>a, SlotSet
  <1>o. \A u \in Thread : Owner(th[u]) => th[u].n \in Node /\ state[th[u].n] = "private"
    BY OwnerNode
  <1>1. state[n] \in {"free", "private"} /\ n # Head /\ n # Null
    <2>1. CASE r.n = Null
      BY <1>a, <2>1, AddressAssumption
    <2>2. CASE r.n # Null
      BY <1>a, <1>l, <1>o, <2>2, AddressAssumption
    <2> QED  BY <2>1, <2>2
  <1> HIDE DEF e, h
  <1>c. /\ th'[t] = e /\ hazard'[t] = h /\ \A u \in Thread : u # t => th'[u] = th[u] /\ hazard'[u] = hazard[u]
    BY <1>b, <1>e, <1>h, ThreadSet
  <1>2. count \in [Node -> 0..255] /\ state \in [Node -> States] /\ next \in [Node \cup {Head} -> Pointers] /\ key \in [Node -> Nat]
    BY DEF MapInv, ListInv, Types
  <1> HIDE DEF r, s
  <1>3. /\ next' \in [Node \cup {Head} -> Pointers] /\ key' \in [Node -> Nat]
        /\ count' \in [Node -> 0..255] /\ state' \in [Node -> States]
    <2>1. Ptr(r.cur) \in Pointers
      BY <1>f, PtrType
    <2>2. r.level + 1 \in 0..255
      BY <1>f, <1>u
    <2> QED  BY <1>a, <1>f, <1>2, <2>1, <2>2 DEF States
  <1>4. /\ \A m \in Node \cup {Head} : m # n => next'[m] = next[m]
        /\ \A m \in Node : m # n => state'[m] = state[m] /\ key'[m] = key[m] /\ count'[m] = count[m]
        /\ state'[n] = "private" /\ key'[n] = r.key /\ count'[n] = r.level + 1 /\ next'[n] = Ptr(r.cur)
    BY <1>a, <1>2
  <1>5. Linked' = Linked /\ n \notin Linked
    BY <1>1, <1>4 DEF Linked
  <1>6. List'
    <2> SUFFICES ASSUME map = "exists", NEW a \in Linked' \cup {Head} PROVE Follows(a)'
      BY <1>u DEF List
    <2>1. Follows(a) /\ a # n /\ next'[a] = next[a] /\ (a # Head => key'[a] = key[a])
      BY <1>1, <1>4, <1>5 DEF MapInv, ListInv, List, Linked
    <2>2. \A m \in Linked : m \in Node /\ m # n /\ key'[m] = key[m]
      BY <1>4, <1>5 DEF Linked
    <2>3. next[a].to # Null => next[a].to \in Linked
      BY <2>1 DEF Follows
    <2> QED  BY <1>5, <2>1, <2>2, <2>3 DEF Follows, Before
  <1>7. DeadFirst'
    BY <1>1, <1>4 DEF DeadFirst, MapInv, ListInv
  <1>8. ASSUME NEW u \in Thread \ {t} PROVE Keeps(th[u], hazard[u]) /\ (Busy(th[u]) => th[u].n # n)
    <2>1. Owner(th[u]) => th[u].n # n
      <3>1. CASE r.n = Null
        BY <1>a, <1>o, <3>1
      <3>2. CASE r.n # Null
        BY <1>a, <1>l, <3>2 DEF MapInv, ListInv, OneOwner, Busy, r
      <3> QED  BY <3>1, <3>2
    <2>2. th[u].pc \in Finishing => th[u].n # n
      <3>1. PlaceOf(th[u], hazard[u])
        BY StateOf
      <3> QED  BY <1>1, <3>1 DEF PlaceOf, Held, Solid, SolidStates
    <2>3. ASSUME NEW i \in 0..3, NEW m \in Node, Held(hazard[u], i, m)
          PROVE  state'[m] \in SolidStates /\ key'[m] = key[m] /\ (next[m].dead => next'[m].dead)
      BY <1>1, <1>4, <2>3 DEF Held, Solid, SolidStates
    <2>4. Owner(th[u]) => th[u].n \in Node
      BY <1>o
    <2>5. Keeps(th[u], hazard[u])
      BY <1>4, <2>1, <2>3, <2>4 DEF Keeps
    <2> QED  BY <2>1, <2>2, <2>5 DEF Finishing, Busy
  <1>9. CallOf(th[t], hazard[t])'
    <2>0. \A i \in {1, 2} : \A m : Held(s, i, m) => m # n /\ Held(hazard[t], i, m)' /\ key'[m] = key[m]
      BY <1>1, <1>4, <1>c, <1>h DEF Held, Solid, SolidStates
    <2>m. map' = "exists"
      BY <1>l, <1>u
    <2>1. OpOf(th[t])'
      BY <1>1, <1>c, <1>e, <1>l, <2>m DEF OpOf, Op, Same, Searching, Loading, Reading, Deciding, Marking, Placing, Raising, Finishing, Start
    <2>2. PlaceOf(th[t], hazard[t])'
      <3>1. /\ e.prev = Head \/ (e.prev \in Node /\ h[2] = e.prev /\ state'[e.prev] \in SolidStates)
            /\ e.cur # Null => (e.cur \in Node /\ h[1] = e.cur /\ state'[e.cur] \in SolidStates)
        BY <1>c, <1>e, <1>l, <2>0 DEF Held, Solid
      <3>2. h[3] = e.n /\ next'[e.n] = Ptr(e.cur) /\ key'[e.n] = e.key /\ count'[e.n] = e.level + 1 /\ state'[e.n] = "private"
        BY <1>e, <1>h, <1>4 DEF Same
      <3> QED  BY <1>c, <1>e, <3>1, <3>2 DEF PlaceOf, Held, Solid, Owner, Ptr, Searching, Loading, Reading, Deciding, Marking, Placing, Raising, Finishing, Start
    <2>3. KeyOf(th[t])'
      <3>1. (e.prev = Head \/ key'[e.prev] < e.key) /\ (e.cur # Null => e.key < key'[e.cur])
        BY <1>e, <1>l, <2>0 DEF Same
      <3> QED  BY <1>c, <1>e, <3>1 DEF KeyOf, Searching, Loading, Reading, Deciding, Marking, Placing, Raising, Finishing, Start
    <2> QED  BY <2>1, <2>2, <2>3 DEF CallOf
  <1>10. \A u \in Thread \ {t} : Busy(e) /\ Busy(th[u]) => e.n # th[u].n
    BY <1>8, <1>e
  <1>11. Counts'
    <2> SUFFICES ASSUME NEW m \in Node PROVE CountOf(m)'
      BY DEF Counts
    <2>1. CountOf(m)
      BY DEF MapInv, Counts
    <2>2. Settling(m)' = Settling(m) /\ Dropping(m)' = Dropping(m) /\ \A u \in Settling(m) : th'[u] = th[u]
      BY <1>c, <1>e, <1>l DEF Finishing, Settling, Dropping, r
    <2>3. CASE m = n
      <3>1. Dropping(m) = {} /\ Settling(m) = {}
        BY <1>1, <2>1, <2>3 DEF CountOf
      <3> QED  BY <1>4, <2>2, <2>3, <3>1 DEF CountOf, Solid, SolidStates
    <2>4. CASE m # n
      BY <1>4, <2>1, <2>2, <2>4, CountKept
    <2> QED  BY <2>3, <2>4
  <1>12. \A u \in Thread \ {t} : Keeps(th[u], hazard[u])
    BY <1>8
  <1> QED  BY <1>u, <1>b, <1>h, <1>e, <1>3, <1>6, <1>7, <1>9, <1>10, <1>11, <1>12, HeapStep

\* The compare-exchange at prev puts the new node into the list, or the search starts again.
LEMMA LinkStep ==
    ASSUME MapInv, map = "exists", NEW t \in Thread, Link(t)
    PROVE  MapInv'
  <1> DEFINE r == th[t]
             s == hazard[t]
  <1>0. r \in ThreadState /\ s \in Slots /\ OpOf(r) /\ PlaceOf(r, s) /\ KeyOf(r)
    BY StateOf
  <1>f. /\ r.pc \in PCs /\ r.op \in Op \cup {"none"} /\ r.key \in Nat /\ r.ret \in {"none", "true", "false"}
        /\ r.prev \in Node \cup {Null, Head} /\ r.cur \in Node \cup {Null} /\ r.next \in Pointers
        /\ r.n \in Node \cup {Null} /\ r.level \in Nat
    BY <1>0, FieldsOf
  <1>l. /\ r.pc = "link" /\ r.op = "insert" /\ map = "exists" /\ r.ret = "none" /\ Owner(r) /\ r.n # Null
        /\ (r.prev = Head \/ Held(s, 2, r.prev))
        /\ (r.prev = Head \/ key[r.prev] < r.key) /\ (r.cur # Null => r.key < key[r.cur])
        /\ s[3] = r.n /\ next[r.n] = Ptr(r.cur) /\ key[r.n] = r.key /\ count[r.n] = r.level + 1
    <2>1. r.pc = "link"
      BY DEF Link
    <2>2. r.op = "insert" /\ map = "exists" /\ r.ret = "none" /\ r.n # Null
      BY <1>0, <2>1 DEF OpOf, Op, Searching, Loading, Reading, Deciding, Marking, Placing, Raising, Finishing, Start
    <2> QED  BY <1>0, <2>1, <2>2 DEF Owner, PlaceOf, KeyOf, Finder, Placing
  <1>1. CASE next[r.prev] # Ptr(r.cur)
    <2> DEFINE e == Restarted(r)
               h == s
    <2>1. th' = [th EXCEPT ![t] = e] /\ r.pc = "link" /\ UNCHANGED <<heap, height, map>>
      BY <1>1 DEF Link, heap, Restart, Restarted, Start, MapInv, ListInv, Types, ThreadState
    <2>2. /\ e \in ThreadState /\ Same(e, r)
          /\ e.pc = Start(r.op) /\ e.prev = Head /\ e.ret = r.ret /\ e.n = r.n
      BY <1>0, RestartedState
    <2>3. /\ h \in Slots /\ hazard' = [hazard EXCEPT ![t] = h]
          /\ h = s
      BY <1>1, <1>0, SlotsSame DEF Link, heap
    <2> HIDE DEF e, h, r, s
    <2>4. OpOf(e)
      BY <1>0, <1>f, <1>1, <2>1, <2>2 DEF OpOf, Op, Same, Finder, Searching, Loading, Reading, Deciding, Marking, Placing, Raising, Finishing, Start
    <2>5. PlaceOf(e, h)
      BY <1>0, <1>f, <2>1, <2>2 DEF PlaceOf, Held, Owner, Same, Searching, Loading, Reading, Deciding, Marking, Placing, Raising, Finishing, Start
    <2>6. KeyOf(e)
      BY <2>2 DEF KeyOf, Same, Searching, Loading, Reading, Deciding, Marking, Placing, Raising, Finishing, Start
    <2>7. (Busy(e) => Busy(r) /\ e.n = r.n) /\ e.pc \notin {"drop", "index", "overage"}
      BY <2>1, <2>2 DEF Finishing, Busy, Owner, Same, Start
    <2> QED  BY <2>1, <2>2, <2>3, <2>4, <2>5, <2>6, <2>7, QuietStep, HeightSame DEF CallOf, r
  <1>2. CASE next[r.prev] = Ptr(r.cur)
    <2> DEFINE p == r.prev
               n == r.n
               e == [r EXCEPT !.ret = "true", !.pc = "index"]
    <2>1. /\ th' = [th EXCEPT ![t] = e] /\ hazard' = [hazard EXCEPT ![t] = s]
          /\ UNCHANGED <<key, count, height, map>>
          /\ next' = [next EXCEPT ![p] = Ptr(n)] /\ state' = [state EXCEPT ![n] = "linked"]
      BY <1>2, SlotsSame DEF Link, Overage, MapInv, ListInv, Types, ThreadState
    <2>2. e \in ThreadState /\ Same(e, r) /\ e.pc = "index" /\ e.ret = "true" /\ e.n = n
      BY <1>0 DEF ThreadState, Same, PCs, Finishing
    <2>3. next[p].to = r.cur /\ ~next[p].dead /\ p \in Node \cup {Head} /\ (p = Head \/ Solid(p)) /\ next[n].to = r.cur
      BY <1>l, <1>2 DEF Ptr, Held
    <2>4. p \in Linked \cup {Head}
      BY <1>l, <2>3, NextOf
    <2>o. \A u \in Thread : Owner(th[u]) => th[u].n \in Node /\ state[th[u].n] = "private"
      BY OwnerNode
    <2>5. n \in Node /\ state[n] = "private" /\ count[n] = r.level + 1 /\ key[n] = r.key
      BY <1>l, <2>o
    <2>t. next \in [Node \cup {Head} -> Pointers] /\ key \in [Node -> Nat] /\ state \in [Node -> States]
          /\ count \in [Node -> 0..255]
      BY DEF MapInv, ListInv, Types
    <2>6. List' /\ Linked' = Linked \cup {n} /\ n \notin Linked /\ p # n
      <3>1. (p # Head => key[p] < key[n]) /\ (next[p].to # Null => key[n] < key[next[p].to]) /\ next[n].to = next[p].to
        BY <1>l, <2>3, <2>5
      <3> HIDE DEF p, n, e, r, s
      <3> QED  BY <1>l, <2>1, <2>4, <2>5, <3>1, LinkList
    <2> HIDE DEF p, n, e, r, s
    <2>7. next' \in [Node \cup {Head} -> Pointers] /\ state' \in [Node -> States]
      <3>1. Ptr(n) \in Pointers
        BY <2>5, PtrType
      <3> QED  BY <2>1, <2>t, <3>1 DEF States
    <2>8. /\ \A m \in Node \cup {Head} : m # p => next'[m] = next[m]
          /\ \A m \in Node : m # n => state'[m] = state[m]
          /\ state'[n] = "linked" /\ ~next'[p].dead /\ ~next[p].dead /\ (p # Head => state[p] = "linked")
      BY <2>1, <2>3, <2>4, <2>5, <2>t DEF Ptr, Linked
    <2>9. DeadFirst'
      BY <2>8 DEF DeadFirst, MapInv, ListInv
    <2>a. ASSUME NEW u \in Thread \ {t} PROVE Keeps(th[u], hazard[u]) /\ (Busy(e) /\ Busy(th[u]) => e.n # th[u].n)
      <3>1. Busy(th[u]) => th[u].n # n
        BY <1>l DEF MapInv, ListInv, OneOwner, Busy, r, n
      <3>2. ASSUME NEW i \in 0..3, NEW m \in Node, Held(hazard[u], i, m)
            PROVE  state'[m] \in SolidStates /\ key'[m] = key[m] /\ (next[m].dead => next'[m].dead)
        BY <2>1, <2>5, <2>8, <3>2 DEF Held, Solid, SolidStates
      <3>3. ASSUME Owner(th[u])
            PROVE  /\ state'[th[u].n] = state[th[u].n] /\ next'[th[u].n] = next[th[u].n]
                   /\ key'[th[u].n] = key[th[u].n] /\ count'[th[u].n] = count[th[u].n]
        <4>1. th[u].n \in Node /\ state[th[u].n] = "private" /\ th[u].n # n /\ th[u].n # Head
          BY <2>o, <3>1, <3>3, AddressAssumption DEF Finishing, Busy
        <4> QED  BY <2>1, <2>8, <4>1
      <3> QED  BY <2>2, <3>1, <3>2, <3>3 DEF Keeps
    <2>c. th'[t] = e /\ hazard'[t] = s /\ \A u \in Thread : u # t => th'[u] = th[u]
      BY <1>0, <2>1, <2>2, ThreadSet
    <2>b. CallOf(th[t], hazard[t])'
      <3>m. map' = "exists" /\ n # Null /\ e.op = "insert" /\ s[3] = n
        BY <1>l, <2>1, <2>2 DEF Same, n
      <3>1. OpOf(th[t])'
        BY <2>2, <2>c, <3>m DEF OpOf, Op, Same, Searching, Loading, Reading, Deciding, Marking, Placing, Raising, Finishing, Start
      <3>2. PlaceOf(th[t], hazard[t])'
        BY <2>2, <2>5, <2>8, <2>c, <3>m DEF PlaceOf, Held, Solid, SolidStates, Owner, Searching, Loading, Reading, Deciding, Marking, Placing, Raising, Finishing, Start
      <3>3. KeyOf(th[t])'
        BY <2>2, <2>c, <3>m DEF KeyOf, Loading, Reading, Deciding, Marking, Placing, Raising, Finishing, Start
      <3> QED  BY <3>1, <3>2, <3>3 DEF CallOf
    <2>d. Counts'
      <3> SUFFICES ASSUME NEW m \in Node PROVE CountOf(m)'
        BY DEF Counts
      <3>1. CountOf(m) /\ count'[m] = count[m]
        BY <2>1 DEF MapInv, Counts
      <3>2. /\ \A u \in Thread : u # t => (u \in Settling(m)' <=> u \in Settling(m)) /\ (u \in Dropping(m)' <=> u \in Dropping(m))
            /\ t \notin Settling(m) /\ t \notin Dropping(m) /\ t \notin Dropping(m)'
            /\ (t \in Settling(m)' <=> m = n /\ r.level > 0)
            /\ Settling(m) \subseteq Thread /\ Dropping(m) \subseteq Thread
            /\ Settling(m)' \subseteq Thread /\ Dropping(m)' \subseteq Thread
        BY <1>l, <2>2, <2>c, CallersOf DEF Finishing, Same, r, n
      <3>3. Dropping(m)' = Dropping(m)
        BY <3>2
      <3>4. CASE m = n
        <4>1. Dropping(m) = {} /\ Settling(m) = {}
          BY <2>5, <3>1, <3>4 DEF CountOf
        <4>2. Base(m)' = 1
          BY <2>8, <3>4 DEF Base
        <4>3. CASE r.level > 0
          <5>1. Settling(m)' = {t} /\ th'[t].level = r.level
            BY <2>2, <2>c, <3>2, <3>4, <4>1, <4>3 DEF Same
          <5>2. r.level + 1 = 1 + r.level
            BY <1>f
          <5> QED  BY <2>5, <2>8, <3>1, <3>3, <3>4, <4>1, <4>2, <5>1, <5>2 DEF CountOf
        <4>4. CASE ~(r.level > 0)
          <5>1. Settling(m)' = {} /\ r.level = 0
            BY <1>f, <3>2, <4>1, <4>4
          <5> QED  BY <2>5, <2>8, <3>1, <3>3, <3>4, <4>1, <4>2, <5>1 DEF CountOf
        <4> QED  BY <4>3, <4>4
      <3>5. CASE m # n
        <4>1. Settling(m)' = Settling(m) /\ \A u \in Settling(m) : th'[u] = th[u]
          BY <2>c, <3>2, <3>5
        <4> QED  BY <2>8, <3>1, <3>3, <3>5, <4>1, CountKept
      <3> QED  BY <3>4, <3>5
    <2>e. key' \in [Node -> Nat] /\ count' \in [Node -> 0..255] /\ map' = map /\ height' = height
      BY <2>1, <2>t
    <2>f. /\ \A u \in Thread \ {t} : Keeps(th[u], hazard[u])
          /\ \A u \in Thread \ {t} : Busy(e) /\ Busy(th[u]) => e.n # th[u].n
      BY <2>a
    <2>g. th' = [th EXCEPT ![t] = e] /\ hazard' = [hazard EXCEPT ![t] = s] /\ e \in ThreadState /\ s \in Slots /\ List'
      BY <1>0, <2>1, <2>2, <2>6
    <2> QED  BY <2>7, <2>9, <2>b, <2>d, <2>e, <2>f, <2>g, HeapStep
  <1> QED  BY <1>1, <1>2

\* An insert that built no index gives back the upper links of its node.
LEMMA DropOverageStep ==
    ASSUME MapInv, map = "exists", NEW t \in Thread, DropOverage(t)
    PROVE  MapInv'
  <1> DEFINE r == th[t]
             s == hazard[t]
  <1>0. r \in ThreadState /\ s \in Slots /\ OpOf(r) /\ PlaceOf(r, s) /\ KeyOf(r)
    BY StateOf
  <1>f. /\ r.pc \in PCs /\ r.op \in Op \cup {"none"} /\ r.key \in Nat /\ r.ret \in {"none", "true", "false"}
        /\ r.prev \in Node \cup {Null, Head} /\ r.cur \in Node \cup {Null} /\ r.next \in Pointers
        /\ r.n \in Node \cup {Null} /\ r.level \in Nat
    BY <1>0, FieldsOf
  <1>l. /\ r.pc = "overage" /\ r.op = "insert" /\ map = "exists" /\ r.ret = "true" /\ r.level > 0 /\ r.n # Null
        /\ Held(s, 3, r.n) /\ r.n \in Node
    <2>1. r.pc = "overage"
      BY DEF DropOverage
    <2>2. r.op = "insert" /\ map = "exists"
      BY <1>0, <2>1 DEF OpOf, Op, Searching, Loading, Reading, Deciding, Marking, Placing, Raising, Finishing, Start
    <2> QED  BY <1>0, <2>1, <2>2 DEF OpOf, PlaceOf, Held, Finishing
  <1> DEFINE n == r.n
             d == r.level
             e == [r EXCEPT !.pc = "return"]
  <1>a. /\ Drop(n, d) /\ th' = [th EXCEPT ![t] = e] /\ hazard' = [hazard EXCEPT ![t] = s] /\ UNCHANGED <<next, key, height, map>>
    BY SlotsSame DEF DropOverage, Overage, MapInv, ListInv, Types, ThreadState
  <1>e. e \in ThreadState /\ Same(e, r) /\ e.pc = "return" /\ e.ret = r.ret /\ e.n = r.n
    BY <1>0, PcState DEF PCs
  <1>g. t \in Settling(n)
    BY <1>l DEF Finishing, Settling
  <1> HIDE DEF e, r, s, n, d
  <1>1. n \in Node /\ CountOf(n) /\ n = r.n /\ d = r.level /\ d \in Nat /\ d > 0 /\ d = th[t].level
    BY <1>l, <1>f DEF MapInv, Counts, n, d, r
  <1>2. state[n] \in {"linked", "unlinked"} /\ Base(n) \in {0, 1} /\ count[n] = Base(n) + d
    BY <1>1, <1>g DEF CountOf, Base
  <1>3. count \in [Node -> 0..255] /\ state \in [Node -> States] /\ next \in [Node \cup {Head} -> Pointers] /\ key \in [Node -> Nat]
    BY DEF MapInv, ListInv, Types
  <1>4. \A u \in Settling(n) : u = t
    <2> SUFFICES ASSUME NEW u \in Settling(n), u # t PROVE FALSE
      OBVIOUS
    <2>1. u \in Thread /\ Busy(th[u]) /\ Busy(th[t]) /\ th[u].n = th[t].n
      BY <1>g DEF Finishing, Settling, Busy
    <2> QED  BY <2>1 DEF MapInv, ListInv, OneOwner
  <1>5. PICK k \in 0..255 :
           /\ k = Base(n) /\ count'[n] = k
           /\ count' \in [Node -> 0..255] /\ state' \in [Node -> States]
           /\ \A m \in Node : m # n => count'[m] = count[m] /\ state'[m] = state[m]
           /\ state'[n] = (IF k = 0 THEN "retired" ELSE state[n])
    <2>1. d \in 0..255 /\ d <= count[n] /\ Drop(n, d) /\ count[n] - d = Base(n) /\ Base(n) \in 0..255
      <3>1. PICK b \in {0, 1}, q \in 0..255 : b = Base(n) /\ q = count[n] /\ q = b + d
        BY <1>1, <1>2, <1>3
      <3>2. d \in 0..255 /\ d <= q /\ q - d = b /\ b \in 0..255
        BY <1>1, <3>1
      <3> QED  BY <1>a, <3>1, <3>2
    <2>2. /\ count'[n] = count[n] - d
          /\ count' \in [Node -> 0..255] /\ state' \in [Node -> States]
          /\ \A m \in Node : m # n => count'[m] = count[m] /\ state'[m] = state[m]
          /\ state'[n] = (IF count[n] - d = 0 THEN "retired" ELSE state[n])
      BY ZenonT(60), <1>1, <2>1, CountDown
    <2> QED  BY <2>1, <2>2
  <1>6. k = 0 => state[n] = "unlinked" /\ Dropping(n) = {}
    BY <1>2, <1>5 DEF Base
  <1>7. /\ List' /\ DeadFirst'
        /\ \A q, y : (Owner(q) => q.n \in Node /\ state[q.n] = "private") => Keeps(q, y)
    <2>1. UNCHANGED <<next, key, map>>
      BY <1>a
    <2> QED  BY <1>1, <1>2, <1>5, <1>6, <2>1, DropKeeps
  <1>o. \A u \in Thread : Owner(th[u]) => th[u].n \in Node /\ state[th[u].n] = "private"
    BY OwnerNode
  <1>c. /\ th'[t] = e /\ hazard'[t] = s /\ \A u \in Thread : u # t => th'[u] = th[u] /\ hazard'[u] = hazard[u]
    BY <1>0, <1>a, <1>e, ThreadSet
  <1>8. CallOf(th[t], hazard[t])'
    <2>1. OpOf(e)
      BY <1>l, <1>e DEF OpOf, Op, Same, Searching, Loading, Reading, Deciding, Marking, Placing, Raising, Finishing, Start
    <2>2. PlaceOf(e, s)
      BY <1>l, <1>e DEF PlaceOf, Owner, Same, Searching, Loading, Reading, Deciding, Marking, Placing, Raising, Finishing, Start
    <2>3. KeyOf(e)
      BY <1>l, <1>e DEF KeyOf, Same, Loading, Reading, Deciding, Marking, Placing, Raising, Finishing, Start
    <2>4. ~Owner(e)
      BY <1>l, <1>e DEF Owner
    <2>5. Keeps(e, s)
      BY <1>7, <2>4
    <2> QED  BY <1>a, <1>c, <1>e, <2>1, <2>2, <2>3, <2>5, CallKept DEF CallOf
  <1>9. \A u \in Thread \ {t} : Keeps(th[u], hazard[u])
    BY <1>7, <1>o
  <1>10. ~Busy(e)
    BY <1>l, <1>e DEF Finishing, Busy, Owner
  <1>11. Counts'
    <2> SUFFICES ASSUME NEW m \in Node PROVE CountOf(m)'
      BY DEF Counts
    <2>1. CountOf(m)
      BY DEF MapInv, Counts
    <2>2. /\ \A u \in Thread : u # t => (u \in Settling(m)' <=> u \in Settling(m)) /\ (u \in Dropping(m)' <=> u \in Dropping(m))
          /\ t \notin Dropping(m) /\ t \notin Settling(m)' /\ t \notin Dropping(m)' /\ (t \in Settling(m) <=> m = n)
          /\ Settling(m) \subseteq Thread /\ Dropping(m) \subseteq Thread
          /\ Settling(m)' \subseteq Thread /\ Dropping(m)' \subseteq Thread
      BY <1>c, <1>e, <1>l, <1>1, CallersOf DEF Finishing, Same, r
    <2>3. Dropping(m)' = Dropping(m)
      BY <2>2
    <2>4. CASE m = n
      <3>1. Settling(m)' = {}
        BY <1>4, <2>2, <2>4
      <3>2. CASE k = 0
        <4>1. state'[m] = "retired" /\ count'[m] = 0 /\ Base(m)' = 0 /\ Dropping(m)' = {}
          BY <1>5, <1>6, <2>3, <2>4, <3>2 DEF Base
        <4> QED  BY <3>1, <4>1 DEF CountOf
      <3>3. CASE k # 0
        <4>1. state'[m] = state[m] /\ count'[m] = 1 /\ Base(m) = 1 /\ Base(m)' = 1
          BY <1>2, <1>5, <2>3, <2>4, <3>3 DEF Base
        <4>2. state[m] = "unlinked" => Dropping(m) # {}
          BY <4>1 DEF Base
        <4> QED  BY <2>1, <2>3, <3>1, <4>1, <4>2 DEF CountOf
      <3> QED  BY <3>2, <3>3
    <2>5. CASE m # n
      <3>1. Settling(m)' = Settling(m) /\ \A u \in Settling(m) : th'[u] = th[u]
        BY <1>c, <2>2, <2>5
      <3> QED  BY <1>5, <2>1, <2>3, <2>5, <3>1, CountKept
    <2> QED  BY <2>4, <2>5
  <1>12. \A u \in Thread \ {t} : Busy(e) /\ Busy(th[u]) => e.n # th[u].n
    BY <1>10
  <1>13. key' \in [Node -> Nat] /\ next' \in [Node \cup {Head} -> Pointers] /\ map' = map /\ height' = height
    BY <1>3, <1>a
  <1> QED  BY <1>0, <1>a, <1>e, <1>5, <1>7, <1>8, <1>9, <1>11, <1>12, <1>13, HeapStep

\* erase marks its node; only one of several erases finds it unmarked.
LEMMA MarkCasStep ==
    ASSUME MapInv, map = "exists", NEW t \in Thread, MarkCas(t)
    PROVE  MapInv'
  <1> DEFINE r == th[t]
             s == hazard[t]
  <1>0. r \in ThreadState /\ s \in Slots /\ OpOf(r) /\ PlaceOf(r, s) /\ KeyOf(r)
    BY StateOf
  <1>f. /\ r.pc \in PCs /\ r.op \in Op \cup {"none"} /\ r.key \in Nat /\ r.ret \in {"none", "true", "false"}
        /\ r.prev \in Node \cup {Null, Head} /\ r.cur \in Node \cup {Null} /\ r.next \in Pointers
        /\ r.n \in Node \cup {Null} /\ r.level \in Nat
    BY <1>0, FieldsOf
  <1>l. /\ r.pc = "mark_cas" /\ r.op = "erase" /\ map = "exists" /\ r.n # Null /\ r.n \in Node /\ Solid(r.n)
    <2>1. r.pc = "mark_cas"
      BY DEF MarkCas
    <2>2. r.op = "erase" /\ map = "exists"
      BY <1>0, <2>1 DEF OpOf, Op, Searching, Loading, Reading, Deciding, Marking, Placing, Raising, Finishing, Start
    <2>3. r.n = r.cur /\ Held(s, 1, r.cur)
      BY <1>0, <2>1 DEF PlaceOf, Marking
    <2> QED  BY <2>1, <2>2, <2>3, AddressAssumption DEF Held
  <1>1. CASE next[r.n] # r.next
    <2> DEFINE e == [r EXCEPT !.pc = "mark"]
               h == s
    <2>1. th' = [th EXCEPT ![t] = e] /\ r.pc = "mark_cas" /\ UNCHANGED <<heap, height, map>>
      BY <1>l, <1>1 DEF MarkCas, heap, Restart, Restarted, Start, MapInv, ListInv, Types, ThreadState
    <2>2. /\ e \in ThreadState /\ Same(e, r)
          /\ e.pc = "mark" /\ e.prev = r.prev /\ e.cur = r.cur /\ e.ret = r.ret /\ e.n = r.n
      BY <1>0, PcState DEF PCs, Marking
    <2>3. /\ h \in Slots /\ hazard' = [hazard EXCEPT ![t] = h]
          /\ h = s
      BY <1>1, <1>0, SlotsSame DEF MarkCas
    <2> HIDE DEF e, h, r, s
    <2>4. OpOf(e)
      BY <1>0, <1>f, <1>l, <1>1, <2>1, <2>2 DEF OpOf, Op, Same, Finder, Searching, Loading, Reading, Deciding, Marking, Placing, Raising, Finishing, Start
    <2>5. PlaceOf(e, h)
      BY <1>0, <1>f, <2>1, <2>2, <2>3 DEF PlaceOf, Held, Owner, Same, Searching, Loading, Reading, Deciding, Marking, Placing, Raising, Finishing, Start
    <2>6. KeyOf(e)
      BY <1>0, <1>l, <2>1, <2>2 DEF KeyOf, Same, Searching, Loading, Reading, Deciding, Marking, Placing, Raising, Finishing, Start
    <2>7. (Busy(e) => Busy(r) /\ e.n = r.n) /\ e.pc \notin {"drop", "index", "overage"}
      BY <2>1, <2>2 DEF Finishing, Busy, Owner, Same, Start
    <2> QED  BY <2>1, <2>2, <2>3, <2>4, <2>5, <2>6, <2>7, QuietStep, HeightSame DEF CallOf, r
  <1>2. CASE next[r.n] = r.next
    <2> DEFINE n == r.n
               x == [r EXCEPT !.ret = IF Marked(r.next) THEN "true" ELSE "false"]
               e == Restarted(x)
    <2>1. /\ th' = [th EXCEPT ![t] = e] /\ hazard' = [hazard EXCEPT ![t] = s]
          /\ UNCHANGED <<key, count, state, height, map>>
          /\ next' = [next EXCEPT ![n].dead = TRUE]
      BY <1>2, SlotsSame DEF MarkCas, Restart, Restarted, Start
    <2>x. x \in ThreadState /\ Same(x, r) /\ x.ret \in {"true", "false"} /\ x.n = r.n
      BY <1>0 DEF ThreadState, Same
    <2> HIDE DEF x
    <2>2. /\ e \in ThreadState /\ e.op = "erase" /\ e.pc = "descend" /\ e.prev = Head
          /\ e.ret \in {"true", "false"} /\ e.n = n
      BY <1>l, <2>x, RestartedState DEF Same, Start
    <2>t. next \in [Node \cup {Head} -> Pointers] /\ key \in [Node -> Nat] /\ state \in [Node -> States]
          /\ count \in [Node -> 0..255]
      BY DEF MapInv, ListInv, Types
    <2>n. n \in Node /\ n # Null /\ n # Head
      BY <1>l, AddressAssumption
    <2> HIDE DEF e, r, s, n
    <2>3. /\ next' \in [Node \cup {Head} -> Pointers]
          /\ \A m \in Node \cup {Head} : next'[m].to = next[m].to /\ (m # n => next'[m] = next[m])
          /\ next'[n].dead
      BY ZenonT(60), <2>1, <2>t, <2>n DEF Pointers
    <2>4. Linked' = Linked /\ \A m \in Linked \cup {Head} : m \in Node \cup {Head}
      BY <2>1 DEF Linked
    <2>5. List'
      BY <2>1, <2>3, <2>4 DEF List, Follows, Before, MapInv, ListInv
    <2>6. DeadFirst'
      BY <2>1, <2>3, <2>n DEF DeadFirst, MapInv, ListInv
    <2>o. \A u \in Thread : Owner(th[u]) => th[u].n \in Node /\ state[th[u].n] = "private"
      BY OwnerNode
    <2>7. ASSUME NEW q, NEW y, Owner(q) => q.n \in Node /\ state[q.n] = "private" PROVE Keeps(q, y)
      <3>1. Solid(n)
        BY <1>l DEF n
      <3>2. \A m \in Node : next[m].dead => next'[m].dead
        BY <2>3
      <3>3. \A i, m : Held(y, i, m) => state'[m] \in SolidStates /\ key'[m] = key[m]
        BY <2>1 DEF Held, Solid
      <3>4. Owner(q) => q.n # n
        BY <2>7, <3>1 DEF Solid, SolidStates
      <3>5. Owner(q) => next'[q.n] = next[q.n]
        BY <2>3, <2>7, <3>4
      <3> QED  BY <2>1, <3>2, <3>3, <3>5 DEF Keeps
    <2>8. \A u \in Thread \ {t} : Keeps(th[u], hazard[u])
      BY <2>7, <2>o
    <2>9. ~Busy(e)
      BY <2>2 DEF Finishing, Busy, Owner
    <2>c. th'[t] = e /\ hazard'[t] = s /\ \A u \in Thread : u # t => th'[u] = th[u]
      BY ZenonT(60), <1>0, <2>1, <2>2, ThreadSet
    <2>b. CallOf(th[t], hazard[t])'
      <3>1. OpOf(e)
        BY <1>l, <2>2, <2>n DEF OpOf, Op, Searching, Loading, Reading, Deciding, Marking, Placing, Raising, Finishing, Start
      <3>2. PlaceOf(e, s)
        BY <2>2 DEF PlaceOf, Owner, Searching, Loading, Reading, Deciding, Marking, Placing, Raising, Finishing, Start
      <3>3. KeyOf(e)
        BY <2>2 DEF KeyOf, Loading, Reading, Deciding, Marking, Placing, Raising, Finishing, Start
      <3>4. Keeps(e, s)
        BY <2>7, <2>9 DEF Finishing, Busy
      <3> QED  BY <2>1, <2>c, <2>2, <3>1, <3>2, <3>3, <3>4, CallKept DEF CallOf
    <2>d. Counts'
      <3> SUFFICES ASSUME NEW m \in Node PROVE CountOf(m)'
        BY DEF Counts
      <3>1. CountOf(m)
        BY DEF MapInv, Counts
      <3>2. Settling(m)' = Settling(m) /\ Dropping(m)' = Dropping(m) /\ \A u \in Settling(m) : th'[u] = th[u]
        BY <1>l, <2>2, <2>c DEF Finishing, Settling, Dropping, r
      <3> QED  BY <2>1, <3>1, <3>2, CountKept
    <2>e. /\ key' \in [Node -> Nat] /\ count' \in [Node -> 0..255] /\ state' \in [Node -> States]
          /\ map' = map /\ height' = height
      BY <2>1, <2>t
    <2>f. \A u \in Thread \ {t} : Busy(e) /\ Busy(th[u]) => e.n # th[u].n
      BY <2>9
    <2>g. th' = [th EXCEPT ![t] = e] /\ hazard' = [hazard EXCEPT ![t] = s] /\ e \in ThreadState /\ s \in Slots
      BY <1>0, <2>1, <2>2
    <2>h. next' \in [Node \cup {Head} -> Pointers]
      BY <2>3
    <2> QED  BY <2>5, <2>6, <2>8, <2>b, <2>d, <2>e, <2>f, <2>g, <2>h, HeapStep
  <1> QED  BY <1>1, <1>2

\* A call returns: a node that was never linked is deleted.
LEMMA ReturnStep ==
    ASSUME MapInv, map = "exists", NEW t \in Thread, Return(t)
    PROVE  MapInv'
  <1> DEFINE r == th[t]
             s == hazard[t]
  <1>0. r \in ThreadState /\ s \in Slots /\ OpOf(r) /\ PlaceOf(r, s) /\ KeyOf(r)
    BY StateOf
  <1>f. /\ r.pc \in PCs /\ r.op \in Op \cup {"none"} /\ r.key \in Nat /\ r.ret \in {"none", "true", "false"}
        /\ r.prev \in Node \cup {Null, Head} /\ r.cur \in Node \cup {Null} /\ r.next \in Pointers
        /\ r.n \in Node \cup {Null} /\ r.level \in Nat
    BY <1>0, FieldsOf
  <1> DEFINE h == [i \in 0..3 |-> IF i \in Cleared(r) THEN Null ELSE s[i]]
             e == Idle
             unused == r.op = "insert" /\ r.n # Null /\ r.ret = "false"
  <1>a. /\ r.pc = "return" /\ th' = [th EXCEPT ![t] = e] /\ hazard' = [hazard EXCEPT ![t] = h]
        /\ UNCHANGED <<next, key, count, height, map>>
        /\ state' = IF unused THEN [state EXCEPT ![r.n] = "free"] ELSE state
    BY DEF Return, MapInv, ListInv, Types
  <1>h. h \in Slots
    BY <1>0 DEF Slots
  <1>e. e \in ThreadState /\ e.pc = "idle" /\ e.op = "none" /\ e.ret = "none" /\ e.n = Null /\ e = Idle
    <2>1. Ptr(Null) \in Pointers /\ 0 \in Nat
      BY HeightAssumption, PtrType
    <2> QED  BY <2>1 DEF Idle, ThreadState, PCs
  <1> HIDE DEF e, h, r, s, unused
  <1>1. CallOf(e, h)
    <2>1. OpOf(e)
      BY <1>e DEF OpOf
    <2>2. PlaceOf(e, h)
      BY <1>e DEF PlaceOf, Owner, Searching, Loading, Reading, Deciding, Marking, Placing, Raising, Finishing, Start
    <2>3. KeyOf(e)
      BY <1>e DEF KeyOf, Finder
    <2> QED  BY <2>1, <2>2, <2>3 DEF CallOf
  <1>2. ~Busy(e) /\ ~Owner(e)
    BY <1>e DEF Finishing, Busy, Owner
  <1>3. CASE ~unused
    <2>1. UNCHANGED <<heap, map>> /\ height' \in Nat
      BY <1>a, <1>3, HeightSame DEF heap
    <2> QED  BY <1>a, <1>h, <1>e, <1>1, <1>2, <2>1, QuietStep DEF r
  <1>4. CASE unused
    <2> DEFINE n == r.n
    <2>1. n \in Node /\ state[n] = "private" /\ Owner(r)
      <3>1. Owner(r)
        BY <1>4 DEF Owner, unused
      <3> QED  BY <3>1, OwnerNode DEF r
    <2>2. state' = [state EXCEPT ![n] = "free"]
      BY <1>a, <1>4
    <2>t. next \in [Node \cup {Head} -> Pointers] /\ key \in [Node -> Nat] /\ state \in [Node -> States]
          /\ count \in [Node -> 0..255]
      BY DEF MapInv, ListInv, Types
    <2> HIDE DEF n
    <2>3. state' \in [Node -> States] /\ state'[n] = "free" /\ \A m \in Node : m # n => state'[m] = state[m]
      BY <2>1, <2>2, <2>t DEF States
    <2>4. List' /\ DeadFirst'
      <3>1. Linked' = Linked
        BY <2>1, <2>3 DEF Linked
      <3> QED  BY <1>a, <2>1, <2>3, <3>1 DEF List, Follows, Before, DeadFirst, MapInv, ListInv
    <2>o. \A u \in Thread : Owner(th[u]) => th[u].n \in Node /\ state[th[u].n] = "private"
      BY OwnerNode
    <2>5. ASSUME NEW q, NEW y, Owner(q) => q.n \in Node /\ q.n # n PROVE Keeps(q, y)
      <3>1. ASSUME NEW i \in 0..3, NEW m \in Node, Held(y, i, m) PROVE m # n
        BY <2>1, <3>1 DEF Held, Solid, SolidStates
      <3>2. ASSUME NEW i \in 0..3, NEW m \in Node, Held(y, i, m)
            PROVE  state'[m] \in SolidStates /\ key'[m] = key[m] /\ (next[m].dead => next'[m].dead)
        BY <1>a, <2>3, <3>1, <3>2 DEF Held, Solid
      <3> QED  BY <1>a, <2>3, <2>5, <3>2 DEF Keeps
    <2>6. \A u \in Thread \ {t} : Keeps(th[u], hazard[u])
      <3> SUFFICES ASSUME NEW u \in Thread \ {t} PROVE Keeps(th[u], hazard[u])
        OBVIOUS
      <3>1. Owner(th[u]) => th[u].n # n
        BY <2>1 DEF MapInv, ListInv, OneOwner, Busy, r, n
      <3> QED  BY <2>5, <2>o, <3>1
    <2>c. th'[t] = e /\ hazard'[t] = h /\ \A u \in Thread : u # t => th'[u] = th[u]
      BY <1>a, <1>e, <1>h, ThreadSet
    <2>7. CallOf(th[t], hazard[t])'
      <3>1. Keeps(e, h)
        BY <1>2, <2>5
      <3> QED  BY <1>1, <1>e, <2>c, <3>1, CallKept
    <2>8. Counts'
      <3> SUFFICES ASSUME NEW m \in Node PROVE CountOf(m)'
        BY DEF Counts
      <3>1. CountOf(m)
        BY DEF MapInv, Counts
      <3>2. Settling(m)' = Settling(m) /\ Dropping(m)' = Dropping(m) /\ \A u \in Settling(m) : th'[u] = th[u]
        BY <1>a, <1>e, <2>c DEF Finishing, Settling, Dropping, r
      <3>3. CASE m = n
        <4>1. Dropping(m) = {} /\ Settling(m) = {}
          BY <2>1, <3>1, <3>3 DEF CountOf
        <4> QED  BY <2>3, <3>2, <3>3, <4>1 DEF CountOf, Solid, SolidStates
      <3>4. CASE m # n
        BY <1>a, <2>3, <3>1, <3>2, <3>4, CountKept
      <3> QED  BY <3>3, <3>4
    <2>9. /\ key' \in [Node -> Nat] /\ count' \in [Node -> 0..255] /\ next' \in [Node \cup {Head} -> Pointers]
          /\ map' = map /\ height' = height
      BY <1>a, <2>t
    <2>10. \A u \in Thread \ {t} : Busy(e) /\ Busy(th[u]) => e.n # th[u].n
      BY <1>2
    <2> QED  BY <1>a, <1>e, <1>h, <2>3, <2>4, <2>6, <2>7, <2>8, <2>9, <2>10, HeapStep
  <1> QED  BY <1>3, <1>4

\* A retired node that no slot names is deleted.
LEMMA ReclaimStep ==
    ASSUME MapInv, NEW n \in Node, Reclaim(n)
    PROVE  MapInv'
  <1>1. /\ state[n] = "retired" /\ (\A t \in Thread, i \in 0..3 : hazard[t][i] # n)
        /\ state' = [state EXCEPT ![n] = "free"]
        /\ UNCHANGED <<next, key, count, height, hazard, th, map>>
    BY DEF Reclaim
  <1>2. Types
    BY DEF MapInv, ListInv
  <1>3. state' \in [Node -> States] /\ state'[n] = "free" /\ \A m \in Node : m # n => state'[m] = state[m]
    BY <1>1, <1>2 DEF Types, States
  <1>4. Types'
    BY <1>1, <1>2, <1>3 DEF Types
  <1>5. List' /\ DeadFirst'
    <2>1. Linked' = Linked
      BY <1>1, <1>3 DEF Linked
    <2> QED  BY <1>1, <1>3, <2>1 DEF List, Follows, Before, DeadFirst, MapInv, ListInv
  <1>6. Calls'
    <2> SUFFICES ASSUME NEW u \in Thread PROVE CallOf(th[u], hazard[u])'
      BY DEF Calls
    <2>1. PICK x \in ThreadState, y \in Slots : x = th[u] /\ y = hazard[u] /\ CallOf(x, y)
      BY StateOf DEF CallOf
    <2>2. x = th'[u] /\ y = hazard'[u] /\ map' = map
      BY <1>1, <2>1
    <2>3. Owner(x) => x.n \in Node /\ x.n # n
      BY <1>1, <2>1, OwnerNode
    <2>4. ASSUME NEW i \in 0..3, NEW m \in Node, Held(y, i, m)
          PROVE  state'[m] \in SolidStates /\ key'[m] = key[m] /\ (next[m].dead => next'[m].dead)
      <3>1. m # n
        BY <1>1, <2>1, <2>4 DEF Held
      <3> QED  BY <1>1, <1>3, <2>4, <3>1 DEF Held, Solid
    <2>5. Keeps(x, y)
      BY <1>1, <1>3, <2>3, <2>4 DEF Keeps
    <2> QED  BY <2>1, <2>2, <2>5, CallKept
  <1>7. OneOwner'
    <2>1. th' = th
      BY <1>1
    <2> QED  BY <2>1 DEF OneOwner, Busy, Owner, MapInv, ListInv
  <1>8. Counts'
    <2> SUFFICES ASSUME NEW m \in Node PROVE CountOf(m)'
      BY DEF Counts
    <2>1. CountOf(m)
      BY DEF MapInv, Counts
    <2>2. Settling(m)' = Settling(m) /\ Dropping(m)' = Dropping(m) /\ \A u \in Settling(m) : th'[u] = th[u]
      BY <1>1 DEF Finishing, Settling, Dropping
    <2>3. CASE m = n
      <3>1. Dropping(m) = {} /\ Settling(m) = {}
        BY <1>1, <2>1, <2>3 DEF CountOf
      <3> QED  BY <1>3, <2>2, <2>3, <3>1 DEF CountOf, Solid, SolidStates
    <2>4. CASE m # n
      BY <1>1, <1>3, <2>1, <2>2, <2>4, CountKept
    <2> QED  BY <2>3, <2>4
  <1> QED  BY <1>4, <1>5, <1>6, <1>7, <1>8 DEF MapInv, ListInv

\* The destructor deletes the live nodes when no call is under way.
LEMMA DestroyStep ==
    ASSUME MapInv, Destroy
    PROVE  MapInv'
  <1>1. /\ \A t \in Thread : th[t].pc = "idle"
        /\ map' # "exists" /\ state' = [n \in Node |-> IF n \in Live THEN "free" ELSE state[n]]
        /\ UNCHANGED <<next, key, count, height, hazard, th>>
    BY DEF Destroy
  <1>2. Types
    BY DEF MapInv, ListInv
  <1>3. state' \in [Node -> States] /\ \A m \in Node : state'[m] \in {"free", state[m]}
    BY <1>1, <1>2 DEF Types, States
  <1>4. Types'
    BY <1>1, <1>2, <1>3 DEF Types
  <1>5. List' /\ DeadFirst'
    BY <1>1, <1>3 DEF List, DeadFirst, MapInv, ListInv
  <1>6. Calls'
    <2> SUFFICES ASSUME NEW u \in Thread PROVE CallOf(th[u], hazard[u])'
      BY DEF Calls
    <2>1. PICK x \in ThreadState, y \in Slots : x = th[u] /\ y = hazard[u]
      BY StateOf
    <2>2. x = th'[u] /\ y = hazard'[u] /\ x.pc = "idle" /\ x = Idle
      BY <1>1, <2>1, StateOf DEF OpOf
    <2>3. x.op = "none" /\ x.n = Null
      BY <2>2 DEF Idle
    <2>4. OpOf(th[u])'
      BY <2>2, <2>3 DEF OpOf
    <2>5. PlaceOf(th[u], hazard[u])'
      BY <2>2, <2>3 DEF PlaceOf, Owner, Searching, Loading, Reading, Deciding, Marking, Placing, Raising, Finishing, Start
    <2>6. KeyOf(th[u])'
      BY <2>2, <2>3 DEF KeyOf, Finder
    <2> QED  BY <2>4, <2>5, <2>6 DEF CallOf
  <1>7. OneOwner'
    <2>1. th' = th
      BY <1>1
    <2> QED  BY <2>1 DEF OneOwner, Busy, Owner, MapInv, ListInv
  <1>8. Counts'
    <2> SUFFICES ASSUME NEW m \in Node PROVE CountOf(m)'
      BY DEF Counts
    <2>1. CountOf(m) /\ count'[m] = count[m]
      BY <1>1 DEF MapInv, Counts
    <2>2. Settling(m)' = {} /\ Dropping(m)' = {} /\ Settling(m) = {} /\ Dropping(m) = {}
      BY <1>1 DEF Finishing, Settling, Dropping
    <2>3. CASE state'[m] = "free"
      BY <2>2, <2>3 DEF CountOf, Solid, SolidStates
    <2>4. CASE state'[m] = state[m]
      BY <2>1, <2>2, <2>4 DEF CountOf, Solid, Base
    <2> QED  BY <1>3, <2>3, <2>4
  <1> QED  BY <1>4, <1>5, <1>6, <1>7, <1>8 DEF MapInv, ListInv

-----------------------------------------------------------------------------
(* The invariant *)

\* The least of a set of keys.
LEMMA LeastKey ==
    ASSUME NEW S \in SUBSET Nat, S # {}
    PROVE  Min(S) \in S /\ \A y \in S : Min(S) <= y
  <1> DEFINE R == OpToRel(<, Nat)
  <1>0. \A x, y \in Nat : <<y, x>> \in R <=> y < x
    BY DEF OpToRel
  <1>1. IsWellFoundedOn(R, Nat)
    BY NatLessThanWellFounded
  <1> HIDE DEF R
  <1>2. \E x \in S : \A y \in S : x <= y
    <2>1. PICK x \in S : \A y \in S : ~(<<y, x>> \in R)
      BY <1>1, WFMin
    <2>2. ASSUME NEW y \in S PROVE x <= y
      <3>1. x \in Nat /\ y \in Nat
        OBVIOUS
      <3>2. ~(y < x)
        BY <1>0, <2>1, <3>1, Zenon
      <3> QED  BY <3>1, <3>2
    <2> QED  BY <2>2
  <1> QED  BY <1>2 DEF Min

\* The map at the start: the nodes of InitKeys in ascending order.
LEMMA InitHolds == Init => MapInv
  <1> SUFFICES ASSUME Init PROVE MapInv
    OBVIOUS
  <1> DEFINE at == CHOOSE f \in [InitKeys -> Node] : IsInjective(f)
             used == {at[k] : k \in InitKeys}
             First(S) == IF S = {} THEN Ptr(Null) ELSE Ptr(at[Min(S)])
             Above(n) == {k \in InitKeys : k > key[n]}
  <1>1. at \in [InitKeys -> Node] /\ IsInjective(at)
    BY RoomAssumption
  <1>2. /\ key = [n \in Node |-> IF n \in used THEN CHOOSE k \in InitKeys : at[k] = n ELSE 0]
        /\ next = [n \in Node \cup {Head} |-> IF n = Head THEN First(InitKeys)
                                              ELSE IF n \in used THEN First(Above(n)) ELSE Ptr(Null)]
        /\ state = [n \in Node |-> IF n \in used THEN "linked" ELSE "free"]
        /\ count = [n \in Node |-> IF n \in used THEN 1 ELSE 0]
    BY DEF Init
  <1>3. /\ height = 0 /\ hazard = [t \in Thread |-> [i \in 0..3 |-> Null]]
        /\ th = [t \in Thread |-> Idle] /\ map = "exists"
    BY DEF Init
  <1>k. InitKeys \subseteq Nat
    BY KeyAssumption
  <1> HIDE DEF at
  <1>4. \A k \in InitKeys : at[k] \in Node /\ at[k] \in used
    BY <1>1
  <1>5. used \subseteq Node
    BY <1>4
  <1>6. \A n \in used : key[n] \in InitKeys /\ key[n] \in Nat /\ at[key[n]] = n
    <2> SUFFICES ASSUME NEW n \in used PROVE key[n] \in InitKeys /\ at[key[n]] = n
      BY <1>k
    <2>1. key[n] = CHOOSE k \in InitKeys : at[k] = n
      BY <1>2, <1>5
    <2>2. \E k \in InitKeys : at[k] = n
      OBVIOUS
    <2> QED  BY <2>1, <2>2
  <1>7. \A k \in InitKeys : key[at[k]] = k
    <2> SUFFICES ASSUME NEW k \in InitKeys PROVE key[at[k]] = k
      OBVIOUS
    <2>1. key[at[k]] \in InitKeys /\ at[key[at[k]]] = at[k]
      BY <1>4, <1>6
    <2> QED  BY <1>1, <2>1 DEF IsInjective
  <1>8. Linked = used
    BY <1>2, <1>5 DEF Linked
  <1>9. ASSUME NEW S \in SUBSET InitKeys
        PROVE  /\ First(S) \in Pointers /\ ~First(S).dead
               /\ First(S).to # Null => First(S).to \in used /\ key[First(S).to] \in S
               /\ \A k \in S : First(S).to # Null /\ key[First(S).to] <= k
    <2>1. CASE S = {}
      <3>1. First(S) = Ptr(Null)
        BY <2>1
      <3> HIDE DEF First
      <3> QED  BY <2>1, <3>1, PtrType
    <2>2. CASE S # {}
      <3>0. S \in SUBSET Nat
        BY <1>k
      <3>1. Min(S) \in S /\ \A k \in S : Min(S) <= k
        BY <2>2, <3>0, LeastKey
      <3>2. PICK n \in Node : n = at[Min(S)] /\ n \in used /\ key[n] = Min(S)
        BY <1>4, <1>7, <3>1
      <3>3. First(S) = Ptr(n)
        BY <2>2, <3>2
      <3>4. Ptr(n) \in Pointers /\ Ptr(n).to = n /\ ~Ptr(n).dead /\ n # Null
        BY PtrType, AddressAssumption
      <3> HIDE DEF First, used
      <3> QED  BY <3>1, <3>2, <3>3, <3>4
    <2> QED  BY <2>1, <2>2
  <1>s. \A n : Above(n) \in SUBSET InitKeys
    OBVIOUS
  <1>10. /\ next[Head] = First(InitKeys)
         /\ \A n \in used : next[n] = First(Above(n))
         /\ \A n \in Node : n \notin used => next[n] = Ptr(Null)
    BY <1>2, <1>5, AddressAssumption
  <1> HIDE DEF First, used
  <1>11. Types
    <2>1. \A n \in Node \cup {Head} : next[n] \in Pointers
      <3> SUFFICES ASSUME NEW n \in Node \cup {Head} PROVE next[n] \in Pointers
        OBVIOUS
      <3>1. CASE n = Head
        BY <1>9, <1>10, <3>1
      <3>2. CASE n \in used
        BY <1>9, <1>10, <1>s, <3>2
      <3>3. CASE n \in Node /\ n \notin used
        BY <1>10, <3>3, PtrType
      <3> QED  BY <3>1, <3>2, <3>3
    <2>2. next \in [Node \cup {Head} -> Pointers]
      BY <1>2, <2>1
    <2>3. key \in [Node -> Nat]
      BY <1>2, <1>6
    <2>4. count \in [Node -> 0..255] /\ state \in [Node -> States] /\ height \in Nat
      BY <1>2, <1>3, HeightAssumption DEF States
    <2>5. hazard \in [Thread -> [0..3 -> Node \cup {Null, Head}]]
      BY <1>3
    <2>6. Idle \in ThreadState
      <3>1. Ptr(Null) \in Pointers /\ 0 \in Nat
        BY HeightAssumption, PtrType
      <3> QED  BY <3>1 DEF Idle, ThreadState, PCs
    <2>7. th \in [Thread -> ThreadState]
      BY <1>3, <2>6
    <2> QED  BY <2>2, <2>3, <2>4, <2>5, <2>7 DEF Types
  <1>12. List
    <2> SUFFICES ASSUME NEW a \in Linked \cup {Head} PROVE Follows(a)
      BY DEF List
    <2>0. \A m \in used : m \in Node /\ m # Head /\ key[m] \in InitKeys /\ key[m] \in Nat /\ at[key[m]] = m
      BY <1>5, <1>6, AddressAssumption
    <2>1. CASE a = Head
      <3>1. /\ next[a].to # Null => next[a].to \in used
            /\ \A m \in used : next[a].to # Null /\ key[next[a].to] <= key[m]
        BY <1>9, <1>10, <2>0, <2>1
      <3> QED  BY <1>8, <2>0, <2>1, <3>1 DEF Follows, Before
    <2>2. CASE a \in used
      <3> DEFINE S == Above(a)
      <3>1. /\ next[a].to # Null => next[a].to \in used /\ key[next[a].to] \in S
            /\ \A k \in S : next[a].to # Null /\ key[next[a].to] <= k
        BY <1>9, <1>10, <1>s, <2>2
      <3>2. next[a].to # Null => key[a] < key[next[a].to]
        BY <1>k, <2>0, <2>2, <3>1
      <3>3. ASSUME NEW m \in used \ {a}
            PROVE  \/ key[a] < key[m] /\ next[a].to # Null /\ key[next[a].to] <= key[m]
                   \/ ~(key[a] < key[m]) /\ key[m] < key[a]
        <4>1. key[m] # key[a]
          BY <2>0, <2>2
        <4>2. CASE key[m] > key[a]
          <5>1. key[m] \in S
            BY <2>0, <4>2
          <5> QED  BY <2>0, <2>2, <3>1, <4>2, <5>1
        <4>3. CASE ~(key[m] > key[a])
          BY <2>0, <2>2, <4>1, <4>3
        <4> QED  BY <4>2, <4>3
      <3> HIDE DEF S
      <3>4. a # Head
        BY <2>0, <2>2
      <3> QED  BY <1>8, <2>0, <3>1, <3>2, <3>3, <3>4 DEF Follows, Before
    <2> QED  BY <1>8, <2>1, <2>2
  <1>13. DeadFirst
    <2>1. ~next[Head].dead
      BY <1>9, <1>10
    <2> QED  BY <1>2, <2>1 DEF DeadFirst
  <1>14. ASSUME NEW t \in Thread PROVE th[t] = Idle /\ th[t].pc = "idle" /\ th[t].op = "none" /\ th[t].n = Null
    BY <1>3 DEF Idle
  <1>15. Calls
    <2> SUFFICES ASSUME NEW t \in Thread PROVE CallOf(th[t], hazard[t])
      BY DEF Calls
    <2>1. OpOf(th[t])
      BY <1>14 DEF OpOf
    <2>2. PlaceOf(th[t], hazard[t])
      BY <1>14 DEF PlaceOf, Owner, Searching, Loading, Reading, Deciding, Marking, Placing, Raising, Finishing, Start
    <2>3. KeyOf(th[t])
      BY <1>14 DEF KeyOf, Finder
    <2> QED  BY <2>1, <2>2, <2>3 DEF CallOf
  <1>16. OneOwner
    BY <1>14 DEF OneOwner, Busy, Owner, Finishing
  <1>17. Counts
    <2> SUFFICES ASSUME NEW n \in Node PROVE CountOf(n)
      BY DEF Counts
    <2>1. Settling(n) = {} /\ Dropping(n) = {}
      BY <1>14 DEF Finishing, Settling, Dropping
    <2>2. (state[n] = "linked" /\ count[n] = 1) \/ state[n] = "free"
      BY <1>2
    <2> QED  BY <2>1, <2>2 DEF CountOf, Base, Solid, SolidStates
  <1> QED  BY <1>11, <1>12, <1>13, <1>15, <1>16, <1>17 DEF MapInv, ListInv

\* Every step keeps the invariant.
LEMMA StepKeeps == MapInv /\ [Next]_vars => MapInv'
  <1> SUFFICES ASSUME MapInv, [Next]_vars PROVE MapInv'
    OBVIOUS
  <1>1. ASSUME NEW t \in Thread, map = "exists", FindStep(t) PROVE MapInv'
    BY <1>1, DescendStep, LoadStep, SetCurStep, CheckStep, LoadNextStep, SetNextStep, CheckNextStep, CheckPrevStep, ClassifyStep,
       UnlinkStep, DropLinkStep DEF FindStep
  <1>2. ASSUME NEW t \in Thread, Step(t) PROVE MapInv'
    BY <1>1, <1>2, RereadStep, RaiseStep, MakeStep, LinkStep, IndexStep, DropOverageStep, MarkLoadStep, MarkCasStep,
       ValuesNextStep, ReturnStep, OutOfBoundsStep DEF Step
  <1>3. ASSUME NEW t \in Thread, NEW op \in Op, NEW k \in Key, Call(t, op, k) PROVE MapInv'
    BY <1>3, CallStep
  <1>4. ASSUME NEW n \in Node, Reclaim(n) PROVE MapInv'
    BY <1>4, ReclaimStep
  <1>5. CASE Destroy
    BY <1>5, DestroyStep
  <1>6. CASE UNCHANGED vars
    <2>1. /\ next' = next /\ key' = key /\ count' = count /\ state' = state /\ height' = height
          /\ hazard' = hazard /\ th' = th /\ map' = map
      BY <1>6 DEF vars, heap
    <2>2. Types' /\ List' /\ DeadFirst'
      BY <2>1 DEF Types, List, DeadFirst, Follows, Linked, Before, MapInv, ListInv
    <2>3. Calls'
      <3> SUFFICES ASSUME NEW u \in Thread PROVE CallOf(th[u], hazard[u])'
        BY DEF Calls
      <3>1. PICK x \in ThreadState, y \in Slots : x = th'[u] /\ y = hazard'[u] /\ CallOf(x, y)
        BY <2>1, StateOf DEF CallOf
      <3> QED  BY <2>1, <3>1, HeapOnly
    <2>4. OneOwner'
      BY <2>1 DEF OneOwner, Busy, Owner, MapInv, ListInv
    <2>5. Counts'
      <3> SUFFICES ASSUME NEW n \in Node PROVE CountOf(n)'
        BY DEF Counts
      <3>1. Settling(n)' = Settling(n) /\ Dropping(n)' = Dropping(n) /\ \A u \in Settling(n) : th'[u] = th[u]
        BY <2>1 DEF Finishing, Settling, Dropping
      <3> QED  BY <2>1, <3>1, CountKept DEF MapInv, Counts
    <2> QED  BY <2>2, <2>3, <2>4, <2>5 DEF MapInv, ListInv
  <1> QED  BY <1>2, <1>3, <1>4, <1>5, <1>6 DEF Next

\* The invariant holds throughout.
THEOREM MapInvariant == Spec => []MapInv
  BY InitHolds, StepKeeps, PTL DEF Spec

-----------------------------------------------------------------------------
(* What follows from it *)

\* The level-0 list, live and dead nodes alike, is strictly ascending and loses none,
\* whatever inserts, marks and unlinks of neighbours interleave, for any number of threads.
THEOREM ListSorted == Spec => []Sorted
  <1>1. MapInv => Sorted
    <2> SUFFICES ASSUME MapInv PROVE Sorted
      OBVIOUS
    <2>1. TypeOK
      <3>1. Types
        BY DEF MapInv, ListInv
      <3>2. \A t \in Thread : th[t].op \in Op \cup {"none"} /\ th[t].ret \in {"none", "true", "false"}
        BY <3>1 DEF Types, ThreadState
      <3> QED  BY <3>1, <3>2 DEF Types, TypeOK, Pointers
    <2>2. List
      BY DEF MapInv, ListInv
    <2> QED  BY <2>1, <2>2 DEF Sorted, List, Follows
  <1> QED  BY <1>1, MapInvariant, PTL

\* No thread reads or exchanges through a pointer to a deleted node: a hazard slot that
\* was checked after it was set protects what find, insert and erase go on to use.
THEOREM NoDanglingRead == Spec => []DereferencesAllocated
  <1>1. MapInv => DereferencesAllocated
    <2> SUFFICES ASSUME MapInv, NEW t \in Thread
                 PROVE  /\ th[t].pc \in {"load", "check", "prev", "unlink", "link"} =>
                              th[t].prev = Head \/ state[th[t].prev] # "free"
                        /\ th[t].pc \in {"next", "check_next", "dead", "unlink", "drop"} =>
                              th[t].cur = Head \/ state[th[t].cur] # "free"
                        /\ th[t].pc \in {"overage", "mark", "mark_cas"} =>
                              th[t].n = Head \/ state[th[t].n] # "free"
      BY DEF DereferencesAllocated
    <2>1. PlaceOf(th[t], hazard[t])
      BY StateOf
    <2>2. \A h, i, n : Held(h, i, n) => state[n] # "free"
      BY DEF Held, Solid, SolidStates
    <2> QED  BY <2>1, <2>2 DEF PlaceOf, Searching, Loading, Reading, Deciding, Marking, Placing, Raising, Finishing, Start
  <1> QED  BY <1>1, MapInvariant, PTL

\* A node is retired exactly when its links are gone: unlinked, and its insert done with
\* the index levels; link_count never wraps and nothing in the list leads to it.
THEOREM RetiredOnce == Spec => []RetiredWhenUnlinked
  <1>1. MapInv => RetiredWhenUnlinked
    <2> SUFFICES ASSUME MapInv, map = "exists", NEW n \in Node
                 PROVE  /\ state[n] = "retired" => count[n] = 0 /\ Settling(n) = {} /\ Dropping(n) = {}
                        /\ state[n] = "unlinked" => Settling(n) # {} \/ Dropping(n) # {}
                        /\ state[n] \in {"unlinked", "retired"} => \A a \in Linked \cup {Head} : next[a].to # n
      BY DEF RetiredWhenUnlinked, Overage, Settling, Dropping, Finishing
    <2>1. CountOf(n)
      BY DEF MapInv, Counts
    <2>2. state[n] = "retired" => count[n] = 0 /\ Settling(n) = {} /\ Dropping(n) = {}
      BY <2>1 DEF CountOf, Base, Solid, SolidStates
    <2>3. ASSUME state[n] \in {"unlinked", "retired"}, NEW a \in Linked \cup {Head} PROVE next[a].to # n
      <3>1. n \notin Linked /\ n # Null
        BY <2>3, AddressAssumption DEF Linked
      <3> QED  BY <3>1, ListOf
    <2> QED  BY <2>1, <2>2, <2>3 DEF CountOf
  <1> QED  BY <1>1, MapInvariant, PTL

\* exists and erase say that a key is missing only if it was missing at some moment of
\* the call, or their find gave up behind a dead node it unlinked.
THEOREM MissesAreExplained == Spec => []MissesExplained
  <1>1. MapInv => MissesExplained
    <2> SUFFICES ASSUME MapInv, NEW t \in Thread, th[t].pc = "return", th[t].ret = "false",
                        th[t].op \in {"exists", "erase"}, th[t].n = Null
                 PROVE  th[t].gone \/ th[t].gaveUp
      BY DEF MissesExplained, Misses
    <2>1. KeyOf(th[t])
      BY StateOf
    <2> QED  BY <2>1 DEF KeyOf, Finder
  <1> QED  BY <1>1, MapInvariant, PTL

-----------------------------------------------------------------------------
(* The list implements OrderedMap: the keys of the nodes that are linked and
   not marked are a set that changes only when the compare-exchange of insert
   links a node and that of erase marks one. *)

\* What a caller sees of each call.
Answers == [t \in Thread |-> [op |-> th[t].op, key |-> th[t].key, ret |-> th[t].ret]]

\* Nothing the callers see changes.
Silent == Keys' = Keys /\ Answers' = Answers

\* A call's answer changes with its record.
LEMMA AnswersAfter ==
    ASSUME MapInv, NEW t \in Thread, NEW e \in ThreadState, th' = [th EXCEPT ![t] = e], Same(e, th[t])
    PROVE  /\ Answers' = [Answers EXCEPT ![t].ret = e.ret]
           /\ e.ret = th[t].ret => Answers' = Answers
  <1>1. th \in [Thread -> ThreadState]
    BY DEF MapInv, ListInv, Types
  <1>2. \A u \in Thread : th'[u] = IF u = t THEN e ELSE th[u]
    BY <1>1
  <1>3. e.op = th[t].op /\ e.key = th[t].key
    BY DEF Same
  <1>4. Answers' = [u \in Thread |-> IF u = t THEN [op |-> th[t].op, key |-> th[t].key, ret |-> e.ret]
                                     ELSE [op |-> th[u].op, key |-> th[u].key, ret |-> th[u].ret]]
    BY <1>2, <1>3 DEF Answers
  <1>5. Answers' = [Answers EXCEPT ![t].ret = e.ret]
    BY <1>4 DEF Answers
  <1>6. e.ret = th[t].ret => Answers' = Answers
    BY <1>4 DEF Answers
  <1> QED  BY <1>5, <1>6

\* The keys stay when the same nodes are live and keep their keys.
LEMMA KeysSame ==
    ASSUME \A n \in Node : (n \in Live' <=> n \in Live) /\ (n \in Live => key'[n] = key[n])
    PROVE  Keys' = Keys
  <1>1. Live' = Live /\ Live \subseteq Node
    BY DEF Live, Linked
  <1>2. \A n \in Live : key'[n] = key[n]
    BY <1>1
  <1> QED  BY <1>1, <1>2 DEF Keys

\* They stay when the heap does.
LEMMA HeapKeys == ASSUME UNCHANGED heap PROVE Keys' = Keys
  BY DEF heap, Keys, Live, Linked

\* A step that only moves a call on.
LEMMA SilentStep ==
    ASSUME MapInv, NEW t \in Thread, NEW e \in ThreadState, th' = [th EXCEPT ![t] = e], Same(e, th[t]),
           e.ret = th[t].ret, Keys' = Keys
    PROVE  Silent
  BY AnswersAfter DEF Silent

\* A restart moves a call on.
LEMMA SilentRestart ==
    ASSUME MapInv, NEW t \in Thread, Restart(t, th[t]), UNCHANGED heap
    PROVE  Silent
  <1> DEFINE e == Restarted(th[t])
  <1>0. th[t] \in ThreadState
    BY StateOf
  <1>1. e \in ThreadState /\ Same(e, th[t]) /\ e.ret = th[t].ret
    BY <1>0, RestartedState
  <1>2. th' = [th EXCEPT ![t] = e]
    BY DEF Restart, Restarted, Start
  <1> HIDE DEF e
  <1> QED  BY <1>1, <1>2, SilentStep, HeapKeys

\* The steps around the index and height_, which no caller sees.
LEMMA IndexSilent ==
    ASSUME MapInv, NEW t \in Thread, Descend(t) \/ Reread(t) \/ Raise(t) \/ Index(t) \/ OutOfBounds(t)
    PROVE  Silent
  <1>0. th[t] \in ThreadState /\ th \in [Thread -> ThreadState] /\ UNCHANGED heap
    BY StateOf DEF MapInv, ListInv, Types, Descend, Reread, Raise, Index, OutOfBounds
  <1>1. th' = th \/ \E e : /\ th' = [th EXCEPT ![t] = e] /\ e.op = th[t].op /\ e.key = th[t].key /\ e.ret = th[t].ret
    <2> DEFINE r == th[t]
    <2>1. CASE Descend(t) \/ Index(t)
      <3>1. PICK p : th' = [th EXCEPT ![t].pc = p]
        BY <2>1 DEF Descend, Index
      <3> DEFINE e == [r EXCEPT !.pc = p]
      <3>2. th' = [th EXCEPT ![t] = e] /\ e.op = r.op /\ e.key = r.key /\ e.ret = r.ret
        BY <1>0, <3>1 DEF ThreadState
      <3> HIDE DEF e
      <3> QED  BY <3>2
    <2>2. CASE Reread(t)
      <3> DEFINE e == [r EXCEPT !.level = height, !.pc = "write"]
      <3>1. th' = [th EXCEPT ![t] = e] /\ e.op = r.op /\ e.key = r.key /\ e.ret = r.ret
        BY <1>0, <2>2 DEF Reread, ThreadState
      <3> HIDE DEF e
      <3> QED  BY <3>1
    <2>3. CASE Raise(t)
      <3> DEFINE x == [r EXCEPT !.level = r.level + 1]
                 e == Restarted(x)
      <3>1. th' = [th EXCEPT ![t] = e]
        BY <2>3 DEF Raise, Restart, Restarted, Start
      <3>2. x \in ThreadState /\ x.op = r.op /\ x.key = r.key /\ x.ret = r.ret
        BY <1>0 DEF ThreadState
      <3> HIDE DEF x
      <3>3. e.op = r.op /\ e.key = r.key /\ e.ret = r.ret
        BY <3>2, RestartedState DEF Same
      <3> HIDE DEF e
      <3> QED  BY <3>1, <3>3
    <2>4. CASE OutOfBounds(t)
      BY <2>4 DEF OutOfBounds
    <2> QED  BY <2>1, <2>2, <2>3, <2>4
  <1>2. \A u \in Thread : th'[u].op = th[u].op /\ th'[u].key = th[u].key /\ th'[u].ret = th[u].ret
    BY <1>0, <1>1
  <1> QED  BY <1>0, <1>2, HeapKeys DEF Silent, Answers

\* The steps of a search that no caller sees.
LEMMA SearchSilent ==
    ASSUME MapInv, NEW t \in Thread,
           Load(t) \/ SetCur(t) \/ LoadNext(t) \/ SetNext(t) \/ CheckNext(t) \/ CheckPrev(t) \/ MarkLoad(t) \/ ValuesNext(t)
    PROVE  Silent
  <1>0. th[t] \in ThreadState /\ th \in [Thread -> ThreadState]
    BY StateOf DEF MapInv, ListInv, Types
  <1>h. UNCHANGED heap
    BY DEF Load, SetCur, LoadNext, SetNext, CheckNext, CheckPrev, MarkLoad, ValuesNext
  <1>g. ASSUME NEW u \in Thread PROVE PlaceOf(th[u], hazard[u]) /\ OpOf(th[u])
    BY StateOf
  <1>n. next \in [Node \cup {Head} -> Pointers]
    BY DEF MapInv, ListInv, Types
  <1> DEFINE r == th[t]
  <1>1. CASE Load(t)
    <2>1. CASE next[r.prev].dead
      BY <1>1, <1>h, <2>1, SilentRestart DEF Load
    <2>2. CASE ~next[r.prev].dead
      <3> DEFINE e == [r EXCEPT !.cur = next[r.prev].to, !.pc = "set"]
      <3>1. th' = [th EXCEPT ![t] = e]
        BY <1>0, <1>1, <2>2 DEF Load, ThreadState
      <3>2. r.prev \in Node \cup {Head}
        BY <1>1, <1>g DEF Load, PlaceOf, Held, Searching, Loading
      <3>3. next[r.prev].to \in Node \cup {Null}
        BY <1>n, <3>2 DEF Pointers
      <3>4. e \in ThreadState /\ Same(e, r) /\ e.ret = r.ret
        BY ZenonT(60), <1>0, <3>3 DEF ThreadState, Same, PCs, Searching, Loading
      <3> HIDE DEF e
      <3> QED  BY <1>h, <3>1, <3>4, SilentStep, HeapKeys
    <2> QED  BY <2>1, <2>2
  <1>2. CASE SetCur(t) \/ SetNext(t)
    <2>1. PICK p \in {"check", "check_next"} : th' = [th EXCEPT ![t].pc = p]
      BY <1>2 DEF SetCur, SetNext
    <2> DEFINE e == [r EXCEPT !.pc = p]
    <2>2. th' = [th EXCEPT ![t] = e]
      BY <1>0, <2>1 DEF ThreadState
    <2>3. e \in ThreadState /\ Same(e, r) /\ e.ret = r.ret
      BY <1>0 DEF ThreadState, Same, PCs, Searching, Loading, Reading
    <2> HIDE DEF e
    <2> QED  BY <1>h, <2>2, <2>3, SilentStep, HeapKeys
  <1>3. CASE LoadNext(t) \/ MarkLoad(t)
    <2>1. PICK c \in Node, p \in {"set_next", "mark_cas"} : th' = [th EXCEPT ![t].next = next[c], ![t].pc = p]
      <3>1. CASE LoadNext(t)
        BY <1>g, <3>1 DEF LoadNext, PlaceOf, Held, Reading
      <3>2. CASE MarkLoad(t)
        BY <1>g, <3>2 DEF MarkLoad, PlaceOf, Held, Marking
      <3> QED  BY <1>3, <3>1, <3>2
    <2> DEFINE e == [r EXCEPT !.next = next[c], !.pc = p]
    <2>2. th' = [th EXCEPT ![t] = e]
      BY <1>0, <2>1 DEF ThreadState
    <2>3. next[c] \in Pointers
      BY <1>n
    <2>4. e \in ThreadState /\ Same(e, r) /\ e.ret = r.ret
      BY ZenonT(60), <1>0, <2>3 DEF ThreadState, Same, PCs, Searching, Reading, Marking
    <2> HIDE DEF e
    <2> QED  BY <1>h, <2>2, <2>4, SilentStep, HeapKeys
  <1>4. CASE CheckNext(t) \/ CheckPrev(t)
    <2>1. CASE Restart(t, r)
      BY <1>h, <2>1, SilentRestart
    <2>2. CASE ~Restart(t, r)
      <3>1. PICK p \in {"prev", "dead"} : th' = [th EXCEPT ![t] = [Look(r) EXCEPT !.pc = p]]
        BY <1>4, <2>2 DEF CheckNext, CheckPrev
      <3> DEFINE x == Look(r)
                 e == [x EXCEPT !.pc = p]
      <3>2. x \in ThreadState /\ Same(x, r) /\ x.ret = r.ret
        BY <1>0, LookState
      <3>3. th' = [th EXCEPT ![t] = e]
        BY <3>1
      <3> HIDE DEF x
      <3>4. e \in ThreadState /\ Same(e, r) /\ e.ret = r.ret
        BY <3>2 DEF ThreadState, Same, PCs, Searching, Deciding
      <3> HIDE DEF e
      <3> QED  BY <1>h, <3>3, <3>4, SilentStep, HeapKeys
    <2> QED  BY <2>1, <2>2
  <1>5. CASE ValuesNext(t)
    <2>1. CASE ~(Unchanged(t) /\ ~r.next.dead)
      <3>1. PICK p \in {"load", "next"} : th' = [th EXCEPT ![t].pc = p]
        BY <1>5, <2>1 DEF ValuesNext
      <3> DEFINE e == [r EXCEPT !.pc = p]
      <3>2. th' = [th EXCEPT ![t] = e]
        BY <1>0, <3>1 DEF ThreadState
      <3>3. e \in ThreadState /\ Same(e, r) /\ e.ret = r.ret
        BY <1>0 DEF ThreadState, Same, PCs, Searching, Loading, Reading
      <3> HIDE DEF e
      <3> QED  BY <1>h, <3>2, <3>3, SilentStep, HeapKeys
    <2>2. CASE Unchanged(t) /\ ~r.next.dead
      <3> DEFINE y == [r EXCEPT !.prev = r.cur, !.cur = r.next.to]
      <3>1. th' = [th EXCEPT ![t] = Visit(y)]
        BY <1>5, <2>2 DEF ValuesNext
      <3>2. r.op = "values"
        BY <1>5 DEF ValuesNext
      <3>3. y \in ThreadState /\ Same(y, r) /\ y.ret = r.ret
        <4>1. r.cur \in Node \cup {Null, Head} /\ r.next.to \in Node \cup {Null}
          BY <1>0 DEF ThreadState, Pointers
        <4> QED  BY <1>0, <4>1 DEF ThreadState, Same
      <3> HIDE DEF y
      <3>4. PICK p \in PCs : Visit(y) = [y EXCEPT !.pc = p]
        BY <3>2, <3>3 DEF Visit, Same, PCs, Searching, Reading
      <3> DEFINE e == [y EXCEPT !.pc = p]
      <3>5. e \in ThreadState /\ Same(e, r) /\ e.ret = r.ret
        BY <3>3 DEF ThreadState, Same
      <3>6. th' = [th EXCEPT ![t] = e]
        BY <3>1, <3>4
      <3> HIDE DEF e
      <3> QED  BY <1>h, <3>5, <3>6, SilentStep, HeapKeys
    <2> QED  BY <2>1, <2>2
  <1> QED  BY <1>1, <1>2, <1>3, <1>4, <1>5

-----------------------------------------------------------------------------
(* Steps of the map *)

\* An insert that refuses a key, and a lookup, answer as the map allows.
LEMMA DoneMaps ==
    ASSUME MapInv, NEW t \in Thread, NEW x \in ThreadState, NEW match \in BOOLEAN,
           Same(x, th[t]), x.ret = th[t].ret, x.n = th[t].n, x.op \in Finder, th[t].pc \in Searching,
           th' = [th EXCEPT ![t] = Done(x, match)], Keys' = Keys, match => th[t].key \in Keys
    PROVE  Silent \/ Map!Hit(t) \/ Map!Miss(t)
  <1> DEFINE e == Done(x, match)
             r == th[t]
  <1>1. x.ret \in {"none", "true", "false"} /\ OpOf(r) /\ r.op = x.op
    BY FieldsOf, StateOf DEF Same
  <1>2. /\ e \in ThreadState /\ Same(e, x)
        /\ x.op = "insert" /\ match => e.ret = "false"
        /\ x.op = "insert" /\ ~match => e.ret = x.ret
        /\ x.op = "exists" => e.ret = (IF match THEN "true" ELSE "false")
        /\ x.op = "erase" /\ x.n # Null => e.ret = x.ret
        /\ x.op = "erase" /\ x.n = Null /\ match => e.ret = x.ret
        /\ x.op = "erase" /\ x.n = Null /\ ~match => e.ret = "false"
    BY <1>1, DoneState
  <1>3. th' = [th EXCEPT ![t] = e] /\ Same(e, r)
    BY <1>2 DEF Same
  <1> HIDE DEF e, r
  <1>4. Answers' = [Answers EXCEPT ![t].ret = e.ret] /\ (e.ret = r.ret => Answers' = Answers)
    BY <1>2, <1>3, AnswersAfter DEF r
  <1>5. Answers[t].op = r.op /\ Answers[t].key = r.key /\ Answers[t].ret = r.ret
    BY DEF Answers, r
  <1>6. /\ r.op = "insert" => r.ret = "none"
        /\ r.op = "exists" => r.ret = "none"
        /\ r.op = "erase" /\ r.n = Null => r.ret = "none"
    BY <1>1 DEF OpOf, Searching, Loading, Reading, Deciding, r
  <1>7. CASE e.ret = r.ret
    BY <1>4, <1>7 DEF Silent
  <1>8. CASE x.op = "insert" /\ match
    <2>1. e.ret = "false" /\ r.ret = "none" /\ r.op = "insert" /\ r.key \in Keys
      BY <1>1, <1>2, <1>6, <1>8 DEF r
    <2> QED  BY <1>4, <1>5, <2>1 DEF Answers, Map!Hit, Map!Answer
  <1>9. CASE x.op = "exists" /\ match
    <2>1. e.ret = "true" /\ r.ret = "none" /\ r.op = "exists" /\ r.key \in Keys
      BY <1>1, <1>2, <1>6, <1>9 DEF r
    <2> QED  BY <1>4, <1>5, <2>1 DEF Answers, Map!Hit, Map!Answer
  <1>10. CASE (x.op = "exists" \/ (x.op = "erase" /\ x.n = Null)) /\ ~match
    <2>1. e.ret = "false" /\ r.ret = "none" /\ r.op \in {"erase", "exists"}
      BY <1>1, <1>2, <1>6, <1>10 DEF r
    <2> QED  BY <1>4, <1>5, <2>1 DEF Answers, Map!Miss, Map!Answer
  <1>11. x.op \in {"insert", "erase", "exists"} /\ x.ret = r.ret
    BY DEF Finder, r
  <1> QED  BY <1>2, <1>7, <1>8, <1>9, <1>10, <1>11

\* The end of a search.
LEMMA CheckMaps == ASSUME MapInv, map = "exists", NEW t \in Thread, Check(t) PROVE Silent \/ Map!Hit(t) \/ Map!Miss(t)
  <1> DEFINE r == th[t]
             x == Look(r)
  <1>0. r \in ThreadState /\ OpOf(r) /\ r.pc = "check" /\ r.op \in Op /\ r.cur \in Node \cup {Null}
    BY StateOf, FieldsOf DEF Check, OpOf
  <1>k. Keys' = Keys
    BY HeapKeys DEF Check
  <1>1. CASE next[r.prev] # Ptr(r.cur)
    <2> DEFINE e == [r EXCEPT !.pc = "load"]
    <2>1. th' = [th EXCEPT ![t] = e]
      BY <1>1 DEF Check
    <2>2. e \in ThreadState /\ Same(e, r) /\ e.ret = r.ret
      BY <1>0 DEF ThreadState, Same, PCs, Searching, Loading
    <2> HIDE DEF e
    <2> QED  BY <1>k, <2>1, <2>2, SilentStep
  <1>2. CASE next[r.prev] = Ptr(r.cur)
    <2>1. th' = [th EXCEPT ![t] = Visit(x)]
      BY <1>2 DEF Check
    <2>2. x \in ThreadState /\ Same(x, r) /\ x.ret = r.ret /\ x.n = r.n /\ x.cur = r.cur
      BY <1>0, LookState
    <2>3. /\ r.op = "firstKey" \/ (r.op = "values" /\ r.cur = Null) => Visit(x) = [x EXCEPT !.pc = "return"]
          /\ r.op \in Finder /\ r.cur = Null => Visit(x) = Done(x, FALSE)
          /\ r.op # "firstKey" /\ r.cur # Null => Visit(x) = [x EXCEPT !.pc = "next"]
      <3> HIDE DEF x, Look, Visit, Done
      <3> QED  BY <1>0, <2>2, VisitState DEF Same
    <2> HIDE DEF x
    <2>4. CASE r.op \in Finder /\ r.cur = Null
      <3>1. th' = [th EXCEPT ![t] = Done(x, FALSE)] /\ r.pc \in Searching /\ x.op \in Finder
        BY <1>0, <2>1, <2>2, <2>3, <2>4 DEF Searching, Loading, Same
      <3> QED  BY <1>k, <2>2, <3>1, DoneMaps
    <2>5. CASE ~(r.op \in Finder /\ r.cur = Null)
      <3>1. PICK p \in {"return", "next"} : Visit(x) = [x EXCEPT !.pc = p]
        BY <1>0, <2>3, <2>5 DEF Op, Finder
      <3> DEFINE e == [x EXCEPT !.pc = p]
      <3>2. th' = [th EXCEPT ![t] = e]
        BY <2>1, <3>1
      <3>3. e \in ThreadState /\ Same(e, r) /\ e.ret = r.ret
        BY <2>2 DEF ThreadState, Same, PCs, Searching, Reading
      <3> HIDE DEF e
      <3> QED  BY <1>k, <3>2, <3>3, SilentStep
    <2> QED  BY <2>4, <2>5
  <1> QED  BY <1>1, <1>2

\* A node that is protected and not marked has a key of the map.
LEMMA LiveKey ==
    ASSUME MapInv, NEW n \in Node, Solid(n), ~next[n].dead
    PROVE  n \in Live /\ key[n] \in Keys
  BY LiveIsLinked DEF Live, Keys

\* The verdict on a node.
LEMMA ClassifyMaps == ASSUME MapInv, map = "exists", NEW t \in Thread, Classify(t) PROVE Silent \/ Map!Hit(t) \/ Map!Miss(t)
  <1> DEFINE r == th[t]
             s == hazard[t]
  <1>0. r \in ThreadState /\ OpOf(r) /\ r.pc = "dead" /\ r.op \in Op /\ PlaceOf(r, s)
    BY StateOf DEF Classify, OpOf
  <1>1. r.op \in Finder /\ r.pc \in Searching /\ r.cur \in Node /\ Solid(r.cur)
    <2>1. r.op \notin {"firstKey", "values"}
      BY <1>0 DEF OpOf, Loading, Reading
    <2>2. Held(s, 1, r.cur)
      BY <1>0 DEF PlaceOf, Deciding
    <2> QED  BY <1>0, <2>1, <2>2 DEF Op, Finder, Searching, Deciding, Held
  <1>k. Keys' = Keys
    BY HeapKeys DEF Classify
  <1>2. CASE r.next.dead \/ next[r.cur].dead
    <2> DEFINE e == [r EXCEPT !.pc = "unlink"]
    <2>1. th' = [th EXCEPT ![t] = e]
      BY <1>0, <1>2 DEF Classify, MapInv, ListInv, Types, ThreadState
    <2>2. e \in ThreadState /\ Same(e, r) /\ e.ret = r.ret
      BY <1>0 DEF ThreadState, Same, PCs, Searching, Deciding
    <2> HIDE DEF e
    <2> QED  BY <1>k, <2>1, <2>2, SilentStep
  <1>3. CASE ~(r.next.dead \/ next[r.cur].dead) /\ AtOrAfter(r.cur, r.key)
    <2> DEFINE match == key[r.cur] = r.key
    <2>1. th' = [th EXCEPT ![t] = Done(r, match)] /\ match \in BOOLEAN
      BY <1>3 DEF Classify
    <2>2. key[r.cur] \in Keys
      BY <1>1, <1>3, LiveKey
    <2>3. match => r.key \in Keys
      BY <2>2
    <2>4. Same(r, th[t]) /\ r.ret = th[t].ret /\ r.n = th[t].n
      BY DEF Same
    <2> HIDE DEF match
    <2> QED  BY <1>0, <1>1, <1>k, <2>1, <2>3, <2>4, DoneMaps
  <1>4. CASE ~(r.next.dead \/ next[r.cur].dead) /\ ~AtOrAfter(r.cur, r.key)
    <2> DEFINE y == [r EXCEPT !.prev = r.cur, !.cur = r.next.to]
    <2>1. th' = [th EXCEPT ![t] = Visit(y)]
      BY <1>4 DEF Classify
    <2>2. y \in ThreadState /\ Same(y, r) /\ y.ret = r.ret /\ y.n = r.n /\ y.cur = r.next.to
      <3>1. r.cur \in Node \cup {Null, Head} /\ r.next.to \in Node \cup {Null}
        BY <1>0 DEF ThreadState, Pointers
      <3> QED  BY <1>0, <3>1 DEF ThreadState, Same
    <2> HIDE DEF y
    <2>3. /\ y.cur = Null => Visit(y) = Done(y, FALSE)
          /\ y.cur # Null => Visit(y) = [y EXCEPT !.pc = "next"]
      <3>1. y.op \in Finder /\ y.op \in Op /\ y.op # "firstKey"
        BY <1>1, <2>2 DEF Same, Finder, Op
      <3> HIDE DEF Visit, Done
      <3> QED  BY <2>2, <3>1, VisitState
    <2>4. CASE y.cur = Null
      <3>1. th' = [th EXCEPT ![t] = Done(y, FALSE)] /\ y.op \in Finder
        BY <1>1, <2>1, <2>2, <2>3, <2>4 DEF Same
      <3> QED  BY <1>1, <1>k, <2>2, <3>1, DoneMaps
    <2>5. CASE y.cur # Null
      <3> DEFINE e == [y EXCEPT !.pc = "next"]
      <3>1. th' = [th EXCEPT ![t] = e]
        BY <2>1, <2>3, <2>5
      <3>2. e \in ThreadState /\ Same(e, r) /\ e.ret = r.ret
        BY <2>2 DEF ThreadState, Same, PCs, Searching, Reading
      <3> HIDE DEF e
      <3> QED  BY <1>k, <3>1, <3>2, SilentStep
    <2> QED  BY <2>4, <2>5
  <1> QED  BY <1>2, <1>3, <1>4

\* Taking a dead node out of the list changes no key.
LEMMA UnlinkMaps == ASSUME MapInv, map = "exists", NEW t \in Thread, Unlink(t) PROVE Silent
  <1> DEFINE r == th[t]
             s == hazard[t]
  <1>0. /\ r \in ThreadState /\ OpOf(r) /\ PlaceOf(r, s) /\ r.pc = "unlink"
        /\ next \in [Node \cup {Head} -> Pointers] /\ state \in [Node -> States]
    BY StateOf DEF Unlink, MapInv, ListInv, Types
  <1>1. r.cur \in Node /\ next[r.cur].dead /\ r.prev \in Node \cup {Head}
    BY <1>0 DEF PlaceOf, Held, Searching, Deciding
  <1>2. CASE next[r.prev] # Ptr(r.cur)
    BY <1>2, SilentRestart DEF Unlink, Expected, heap
  <1>3. CASE next[r.prev] = Ptr(r.cur)
    <2> DEFINE y == Look(r)
               e == [y EXCEPT !.pc = "drop"]
               c == r.cur
               p == r.prev
    <2>1. /\ th' = [th EXCEPT ![t] = e] /\ key' = key
          /\ next' = [next EXCEPT ![p] = Ptr(next[c].to)] /\ state' = [state EXCEPT ![c] = "unlinked"]
      BY <1>0, <1>3 DEF Unlink, Expected, MapInv, ListInv, Types, ThreadState
    <2>2. e \in ThreadState /\ Same(e, r) /\ e.ret = r.ret
      <3>1. y \in ThreadState /\ Same(y, r) /\ y.ret = r.ret
        BY <1>0, LookState
      <3> HIDE DEF y
      <3> QED  BY <3>1 DEF ThreadState, Same, PCs, Searching, Deciding
    <2>3. ~next[p].dead
      BY <1>3 DEF Ptr
    <2> HIDE DEF e, c, p
    <2>4. c \in Node /\ p \in Node \cup {Head} /\ next[c].dead
      BY <1>1 DEF c, p
    <2>5. /\ \A n \in Node : next'[n].dead <=> next[n].dead
          /\ \A n \in Node : n # c => state'[n] = state[n]
      BY <1>0, <2>1, <2>3, <2>4 DEF Ptr, Pointers
    <2>6. \A n \in Node : (n \in Live' <=> n \in Live)
      BY <2>4, <2>5 DEF Live, Linked
    <2> QED  BY <2>1, <2>2, <2>6, KeysSame, SilentStep
  <1> QED  BY <1>2, <1>3

\* Bringing a count down changes no key.
LEMMA DropKeys ==
    ASSUME MapInv, NEW n \in Node, NEW d, Drop(n, d), next' = next, key' = key, state[n] # "linked" \/ state'[n] = "linked"
    PROVE  Keys' = Keys
  <1>1. /\ state \in [Node -> States] /\ \A m \in Node : m # n => state'[m] = state[m]
        /\ state'[n] \in {"retired", state[n]}
    BY DEF Drop, MapInv, ListInv, Types
  <1>2. \A m \in Node : m \in Live' <=> m \in Live
    BY <1>1 DEF Live, Linked
  <1> QED  BY <1>2, KeysSame

\* A find that gives up after an unlinking answers that it met nothing.
LEMMA DropLinkMaps == ASSUME MapInv, map = "exists", NEW t \in Thread, DropLink(t) PROVE Silent \/ Map!Hit(t) \/ Map!Miss(t)
  <1> DEFINE r == th[t]
             x == [r EXCEPT !.cur = Null, !.gaveUp = @ \/ key[r.cur] < r.key]
  <1>0. r \in ThreadState /\ OpOf(r) /\ r.pc = "drop" /\ PlaceOf(r, hazard[t])
    BY StateOf DEF DropLink
  <1>1. r.op \in Finder /\ r.pc \in Searching /\ r.cur \in Node
    <2>1. r.op \in Op /\ r.op \notin {"firstKey", "values"}
      BY <1>0 DEF OpOf, Loading, Reading
    <2>2. Held(hazard[t], 1, r.cur)
      BY <1>0 DEF PlaceOf, Deciding
    <2> QED  BY <1>0, <2>1, <2>2 DEF Op, Finder, Searching, Deciding, Held
  <1>2. state[r.cur] = "unlinked"
    <2>1. CountOf(r.cur) /\ t \in Dropping(r.cur)
      BY <1>0, <1>1 DEF MapInv, Counts, Dropping
    <2> QED  BY <2>1 DEF CountOf
  <1>3. Drop(r.cur, 1) /\ next' = next /\ key' = key /\ th' = [th EXCEPT ![t] = Done(x, FALSE)]
    BY DEF DropLink
  <1>4. Keys' = Keys
    BY <1>1, <1>2, <1>3, DropKeys
  <1>5. x \in ThreadState /\ Same(x, r) /\ x.ret = r.ret /\ x.n = r.n /\ x.op \in Finder
    BY <1>0, <1>1 DEF ThreadState, Same
  <1> HIDE DEF x
  <1> QED  BY <1>1, <1>3, <1>4, <1>5, DoneMaps

\* Making a node changes no key of the map.
LEMMA MakeMaps == ASSUME MapInv, map = "exists", NEW t \in Thread, Make(t) PROVE Silent
  <1> DEFINE r == th[t]
  <1>0. /\ r \in ThreadState /\ OpOf(r) /\ r.pc = "make" /\ state \in [Node -> States]
        /\ next \in [Node \cup {Head} -> Pointers] /\ key \in [Node -> Nat]
    BY StateOf DEF Make, MapInv, ListInv, Types
  <1>1. r.op = "insert" /\ r.ret = "none"
    BY <1>0 DEF OpOf, Op, Searching, Loading, Reading, Deciding, Marking, Placing, Raising, Finishing, Start
  <1>2. PICK n \in Node :
           /\ IF r.n = Null THEN state[n] = "free" ELSE n = r.n
           /\ state' = [state EXCEPT ![n] = "private"] /\ key' = [key EXCEPT ![n] = r.key]
           /\ next' = [next EXCEPT ![n] = Ptr(r.cur)] /\ th' = [th EXCEPT ![t].n = n, ![t].pc = "link"]
    BY DEF Make
  <1>3. state[n] # "linked"
    <2>1. r.n # Null => Owner(r)
      BY <1>1 DEF Owner
    <2> QED  BY <1>2, <2>1, OwnerNode
  <1>4. \A m \in Node : (m \in Live' <=> m \in Live) /\ (m \in Live => key'[m] = key[m])
    <2>1. /\ \A m \in Node : m # n => state'[m] = state[m] /\ key'[m] = key[m] /\ next'[m] = next[m]
          /\ state'[n] = "private"
      BY <1>0, <1>2
    <2> QED  BY <1>3, <2>1 DEF Live, Linked
  <1> DEFINE e == [r EXCEPT !.n = n, !.pc = "link"]
  <1>5. th' = [th EXCEPT ![t] = e]
    BY <1>0, <1>2 DEF MapInv, ListInv, Types, ThreadState
  <1>6. e \in ThreadState /\ Same(e, r) /\ e.ret = r.ret
    BY <1>0 DEF ThreadState, Same, PCs, Placing
  <1> HIDE DEF e
  <1> QED  BY <1>4, <1>5, <1>6, KeysSame, SilentStep

\* The exchange that links a node puts its key, absent until then, into the map.
LEMMA LinkMaps == ASSUME MapInv, map = "exists", NEW t \in Thread, Link(t) PROVE Silent \/ Map!Insert(t)
  <1> DEFINE r == th[t]
             s == hazard[t]
  <1>0. /\ r \in ThreadState /\ OpOf(r) /\ PlaceOf(r, s) /\ KeyOf(r) /\ r.pc = "link"
        /\ next \in [Node \cup {Head} -> Pointers] /\ state \in [Node -> States] /\ key \in [Node -> Nat]
    BY StateOf DEF Link, MapInv, ListInv, Types
  <1>1. /\ r.op = "insert" /\ r.ret = "none" /\ r.n # Null /\ map = "exists" /\ Owner(r)
        /\ (r.prev = Head \/ (r.prev \in Node /\ Solid(r.prev) /\ key[r.prev] < r.key))
        /\ (r.cur # Null => r.key < key[r.cur]) /\ next[r.n] = Ptr(r.cur) /\ key[r.n] = r.key /\ r.key \in Nat
    <2>1. r.op = "insert" /\ r.ret = "none" /\ r.n # Null /\ map = "exists"
      BY <1>0 DEF OpOf, Op, Searching, Loading, Reading, Deciding, Marking, Placing, Raising, Finishing, Start
    <2> QED  BY <1>0, <2>1, FieldsOf DEF Owner, PlaceOf, Held, KeyOf, Finder, Placing
  <1>2. CASE next[r.prev] # Ptr(r.cur)
    BY <1>2, SilentRestart DEF Link, heap
  <1>3. CASE next[r.prev] = Ptr(r.cur)
    <2> DEFINE p == r.prev
               n == r.n
               e == [r EXCEPT !.ret = "true", !.pc = "index"]
    <2>1. /\ th' = [th EXCEPT ![t] = e] /\ key' = key
          /\ next' = [next EXCEPT ![p] = Ptr(n)] /\ state' = [state EXCEPT ![n] = "linked"]
      BY <1>0, <1>3 DEF Link, MapInv, ListInv, Types, ThreadState
    <2>2. e \in ThreadState /\ Same(e, r) /\ e.ret = "true"
      BY <1>0 DEF ThreadState, Same, PCs, Finishing
    <2>3. next[p].to = r.cur /\ ~next[p].dead /\ p \in Node \cup {Head} /\ (p = Head \/ Solid(p)) /\ ~next[n].dead
      BY <1>1, <1>3 DEF Ptr
    <2>4. p \in Linked \cup {Head} /\ Follows(p)
      BY <1>1, <2>3, NextOf
    <2>5. n \in Node /\ state[n] = "private"
      BY <1>1, OwnerNode
    <2>6. r.key \notin Keys
      <3>1. r.key \notin {key[m] : m \in Linked}
        BY <1>1, <2>3, <2>4, Absent
      <3> QED  BY <3>1, KeysLinked
    <2> HIDE DEF e, p, n
    <2>7. /\ \A m \in Node : next'[m].dead <=> next[m].dead
          /\ \A m \in Node : m # n => state'[m] = state[m]
          /\ state'[n] = "linked"
      BY <1>0, <2>1, <2>3, <2>5 DEF Ptr, Pointers
    <2>8. Live' = Live \cup {n}
      BY <2>3, <2>5, <2>7 DEF Live, Linked
    <2>9. Keys' = Keys \cup {r.key}
      <3>1. key[n] = r.key
        BY <1>1 DEF n
      <3> QED  BY <2>1, <2>8, <3>1 DEF Keys
    <2>10. Answers' = [Answers EXCEPT ![t].ret = "true"]
      <3>1. Answers' = [Answers EXCEPT ![t].ret = e.ret]
        BY <2>1, <2>2, AnswersAfter
      <3> QED  BY <2>2, <3>1
    <2> QED  BY <1>1, <2>6, <2>9, <2>10 DEF Answers, Map!Insert, Map!Answer
  <1> QED  BY <1>2, <1>3

\* Giving back the upper links changes no key.
LEMMA DropOverageMaps == ASSUME MapInv, map = "exists", NEW t \in Thread, DropOverage(t) PROVE Silent
  <1> DEFINE r == th[t]
             n == r.n
             e == [r EXCEPT !.pc = "return"]
  <1>0. r \in ThreadState /\ OpOf(r) /\ PlaceOf(r, hazard[t]) /\ r.pc = "overage"
    BY StateOf DEF DropOverage
  <1>1. n \in Node /\ r.level > 0
    BY <1>0 DEF PlaceOf, Held, OpOf, Op, Searching, Loading, Reading, Deciding, Marking, Finishing
  <1>2. Drop(n, r.level) /\ next' = next /\ key' = key /\ th' = [th EXCEPT ![t] = e]
    BY <1>0 DEF DropOverage, Overage, MapInv, ListInv, Types, ThreadState
  <1>3. e \in ThreadState /\ Same(e, r) /\ e.ret = r.ret
    BY <1>0 DEF ThreadState, Same, PCs
  <1>4. state[n] = "linked" => state'[n] = "linked"
    <2> SUFFICES ASSUME state[n] = "linked" PROVE state'[n] = "linked"
      OBVIOUS
    <2>1. CountOf(n) /\ t \in Settling(n)
      BY <1>0, <1>1 DEF MapInv, Counts, Settling, Finishing
    <2>2. count[n] = 1 + r.level /\ r.level \in Nat
      BY <1>0, <2>1, FieldsOf DEF CountOf, Base
    <2>3. (count[n] - r.level) % 256 = 1
      BY <2>2, HeightAssumption
    <2>4. state \in [Node -> States]
      BY DEF MapInv, ListInv, Types
    <2> QED  BY <1>1, <1>2, <2>3, <2>4 DEF Drop
  <1> HIDE DEF e, n
  <1>5. Keys' = Keys
    BY <1>1, <1>2, <1>4, DropKeys
  <1> QED  BY <1>2, <1>3, <1>5, SilentStep

\* The exchange that marks a live node takes its key out of the map; an erase that finds
\* the node marked already has missed the key.
LEMMA MarkCasMaps == ASSUME MapInv, map = "exists", NEW t \in Thread, MarkCas(t) PROVE Silent \/ Map!Erase(t) \/ Map!Miss(t)
  <1> DEFINE r == th[t]
             s == hazard[t]
             n == r.n
  <1>0. /\ r \in ThreadState /\ OpOf(r) /\ PlaceOf(r, s) /\ KeyOf(r) /\ r.pc = "mark_cas"
        /\ next \in [Node \cup {Head} -> Pointers] /\ state \in [Node -> States] /\ key \in [Node -> Nat]
    BY StateOf DEF MarkCas, MapInv, ListInv, Types
  <1>1. r.op = "erase" /\ r.ret = "none" /\ map = "exists" /\ n \in Node /\ Solid(n) /\ key[n] = r.key
    <2>1. r.op = "erase" /\ map = "exists"
      BY <1>0 DEF OpOf, Op, Searching, Loading, Reading, Deciding, Marking, Placing, Raising, Finishing, Start
    <2>2. r.n = r.cur /\ Held(s, 1, r.cur) /\ key[r.n] = r.key
      BY <1>0, <2>1 DEF PlaceOf, KeyOf, Finder, Marking
    <2>3. r.n # Null
      BY <2>2, AddressAssumption DEF Held
    <2> QED  BY <1>0, <2>1, <2>2, <2>3 DEF Held, OpOf, Marking
  <1>2. CASE next[n] # r.next
    <2> DEFINE e == [r EXCEPT !.pc = "mark"]
    <2>1. th' = [th EXCEPT ![t] = e] /\ UNCHANGED heap
      BY <1>0, <1>2 DEF MarkCas, heap, MapInv, ListInv, Types, ThreadState
    <2>2. e \in ThreadState /\ Same(e, r) /\ e.ret = r.ret
      BY <1>0 DEF ThreadState, Same, PCs, Marking
    <2> HIDE DEF e
    <2> QED  BY <2>1, <2>2, SilentStep, HeapKeys
  <1>3. CASE next[n] = r.next
    <2> DEFINE v == IF Marked(r.next) THEN "true" ELSE "false"
               x == [r EXCEPT !.ret = v]
               e == Restarted(x)
    <2>1. /\ th' = [th EXCEPT ![t] = e] /\ key' = key /\ state' = state
          /\ next' = [next EXCEPT ![n].dead = TRUE]
      BY <1>3 DEF MarkCas, Restart, Restarted, Start
    <2>x. x \in ThreadState /\ Same(x, r) /\ x.ret = v
      BY <1>0 DEF ThreadState, Same
    <2>v. v = (IF next[n].dead THEN "false" ELSE "true")
      BY <1>3 DEF Marked
    <2> HIDE DEF x, v
    <2>2. e \in ThreadState /\ Same(e, r) /\ e.ret = v
      BY <2>x, RestartedState DEF Same
    <2> HIDE DEF e
    <2>3. Answers' = [Answers EXCEPT ![t].ret = v]
      BY <2>1, <2>2, AnswersAfter
    <2>4. next'[n].dead /\ \A m \in Node : m # n => next'[m] = next[m]
      BY <1>0, <1>1, <2>1 DEF Pointers
    <2>5. CASE next[n].dead
      <3>1. \A m \in Node : m \in Live' <=> m \in Live
        BY <2>1, <2>4, <2>5 DEF Live, Linked
      <3>2. Keys' = Keys
        BY <2>1, <3>1, KeysSame
      <3> QED  BY <1>1, <2>3, <2>v, <2>5, <3>2 DEF Answers, Map!Miss, Map!Answer
    <2>6. CASE ~next[n].dead
      <3>1. n \in Live /\ r.key \in Keys /\ n \in Linked
        BY <1>1, <2>6, LiveKey DEF Live
      <3>2. Live' = Live \ {n}
        BY <1>1, <2>1, <2>4 DEF Live, Linked
      <3>3. \A m \in Live : m # n => key[m] # r.key
        <4> SUFFICES ASSUME NEW m \in Live, m # n PROVE key[m] # key[n]
          BY <1>1
        <4>1. m \in Linked \ {n} /\ key[m] \in Nat /\ key[n] \in Nat /\ n # Head
          BY <1>0, <1>1, AddressAssumption DEF Live, Linked
        <4>2. key[n] < key[m] \/ key[m] < key[n]
          BY <1>1, <3>1, <4>1, ListOf
        <4> QED  BY <4>1, <4>2
      <3>4. Keys' = Keys \ {r.key}
        <4>1. Keys' = {key[m] : m \in Live \ {n}}
          BY <2>1, <3>2 DEF Keys
        <4>2. \A k : k \in {key[m] : m \in Live \ {n}} <=> k \in {key[m] : m \in Live} /\ k # r.key
          BY <1>1, <3>3
        <4> QED  BY <4>1, <4>2 DEF Keys
      <3> QED  BY <1>1, <2>3, <2>v, <2>6, <3>1, <3>4 DEF Answers, Map!Erase, Map!Answer
    <2> QED  BY <2>5, <2>6
  <1> QED  BY <1>2, <1>3

\* A call returns with its answer.
LEMMA ReturnMaps == ASSUME MapInv, map = "exists", NEW t \in Thread, Return(t) PROVE Map!Return(t)
  <1> DEFINE r == th[t]
  <1>0. r \in ThreadState /\ OpOf(r) /\ r.pc = "return" /\ th \in [Thread -> ThreadState] /\ state \in [Node -> States]
    BY StateOf DEF Return, MapInv, ListInv, Types
  <1>1. r.ret # "none" \/ r.op \in {"firstKey", "values"}
    BY <1>0 DEF OpOf, Op, Searching, Loading, Reading, Deciding, Marking, Placing, Raising, Finishing, Start
  <1>2. th' = [th EXCEPT ![t] = Idle] /\ next' = next /\ key' = key
    BY DEF Return
  <1>3. Keys' = Keys
    <2>1. \A m \in Node : m \in Live' <=> m \in Live
      <3>1. CASE r.op = "insert" /\ r.n # Null /\ r.ret = "false"
        <4>1. state' = [state EXCEPT ![r.n] = "free"]
          BY <3>1 DEF Return
        <4>2. r.n \in Node /\ state[r.n] = "private"
          BY <3>1, OwnerNode DEF Owner
        <4>3. state'[r.n] = "free" /\ \A m \in Node : m # r.n => state'[m] = state[m]
          BY <1>0, <4>1, <4>2
        <4> QED  BY <1>2, <4>2, <4>3 DEF Live, Linked
      <3>2. CASE ~(r.op = "insert" /\ r.n # Null /\ r.ret = "false")
        <4>1. state' = state
          BY <3>2 DEF Return
        <4> QED  BY <1>2, <4>1 DEF Live, Linked
      <3> QED  BY <3>1, <3>2
    <2> QED  BY <1>2, <2>1, KeysSame
  <1>4. Answers' = [Answers EXCEPT ![t] = Map!Idle]
    <2>1. \A u \in Thread : th'[u] = IF u = t THEN Idle ELSE th[u]
      BY <1>0, <1>2
    <2>2. Idle.op = "none" /\ Idle.key = 0 /\ Idle.ret = "none"
      BY DEF Idle
    <2>3. Answers' = [u \in Thread |-> IF u = t THEN [op |-> "none", key |-> 0, ret |-> "none"]
                                       ELSE [op |-> th[u].op, key |-> th[u].key, ret |-> th[u].ret]]
      BY <2>1, <2>2 DEF Answers
    <2> QED  BY <2>3 DEF Answers, Map!Idle
  <1> QED  BY <1>1, <1>3, <1>4 DEF Answers, Map!Return

\* A call begins.
LEMMA CallMaps ==
    ASSUME MapInv, NEW t \in Thread, NEW op \in Op, NEW k \in Key, Call(t, op, k)
    PROVE  Map!Call(t, op, k)
  <1>0. th[t] = Idle /\ th \in [Thread -> ThreadState]
    BY StateOf DEF Call, OpOf, MapInv, ListInv, Types
  <1>1. PICK x : /\ th' = [th EXCEPT ![t] = x] /\ x.op = op /\ x.key = k /\ x.ret = "none"
    <2> DEFINE r == [Idle EXCEPT !.op = op, !.key = k]
    <2>1. CASE op # "insert"
      <3>1. Restart(t, r)
        BY <2>1 DEF Call
      <3>2. th' = [th EXCEPT ![t] = Restarted(r)]
        BY <3>1 DEF Restart, Restarted, Start
      <3>3. Restarted(r).op = op /\ Restarted(r).key = k /\ Restarted(r).ret = "none"
        BY DEF Restarted, Start, Idle
      <3> QED  BY <3>2, <3>3
    <2>2. CASE op = "insert"
      <3>1. PICK l : \/ th' = [th EXCEPT ![t] = [r EXCEPT !.level = height, !.pc = "raise"]]
                     \/ Restart(t, [r EXCEPT !.level = l])
        BY <2>2 DEF Call
      <3>2. CASE Restart(t, [r EXCEPT !.level = l])
        <4> DEFINE y == [r EXCEPT !.level = l]
        <4>1. th' = [th EXCEPT ![t] = Restarted(y)]
          BY <3>2 DEF Restart, Restarted, Start
        <4>2. Restarted(y).op = op /\ Restarted(y).key = k /\ Restarted(y).ret = "none"
          BY DEF Restarted, Start, Idle
        <4> QED  BY <4>1, <4>2
      <3>3. CASE th' = [th EXCEPT ![t] = [r EXCEPT !.level = height, !.pc = "raise"]]
        <4> DEFINE y == [r EXCEPT !.level = height, !.pc = "raise"]
        <4>1. y.op = op /\ y.key = k /\ y.ret = "none"
          BY DEF Idle
        <4> QED  BY <3>3, <4>1
      <3> QED  BY <3>1, <3>2, <3>3
    <2> QED  BY <2>1, <2>2
  <1>2. \A u \in Thread : th'[u] = IF u = t THEN x ELSE th[u]
    BY <1>0, <1>1
  <1>3. Answers' = [Answers EXCEPT ![t] = [op |-> op, key |-> k, ret |-> "none"]]
    <2>1. Answers' = [u \in Thread |-> IF u = t THEN [op |-> op, key |-> k, ret |-> "none"]
                                       ELSE [op |-> th[u].op, key |-> th[u].key, ret |-> th[u].ret]]
      BY <1>1, <1>2 DEF Answers
    <2> QED  BY <2>1 DEF Answers
  <1>4. Answers[t] = Map!Idle
    BY <1>0 DEF Answers, Idle, Map!Idle
  <1>5. Keys' = Keys
    BY HeapKeys DEF Call
  <1> QED  BY <1>3, <1>4, <1>5 DEF Answers, Map!Call

\* Deleting a retired node changes no key.
LEMMA ReclaimMaps == ASSUME MapInv, NEW n \in Node, Reclaim(n) PROVE Silent
  <1>1. /\ state[n] = "retired" /\ state' = [state EXCEPT ![n] = "free"] /\ next' = next /\ key' = key /\ th' = th
        /\ state \in [Node -> States]
    BY DEF Reclaim, MapInv, ListInv, Types
  <1>2. \A m \in Node : m \in Live' <=> m \in Live
    BY <1>1 DEF Live, Linked
  <1>3. Keys' = Keys
    BY <1>1, <1>2, KeysSame
  <1> QED  BY <1>1, <1>3 DEF Silent, Answers

\* The destructor leaves no key.
LEMMA DestroyMaps == ASSUME MapInv, Destroy PROVE Map!Destroy
  <1>1. /\ \A t \in Thread : th[t].pc = "idle"
        /\ state' = [n \in Node |-> IF n \in Live THEN "free" ELSE state[n]] /\ next' = next /\ th' = th
    BY DEF Destroy
  <1>2. \A t \in Thread : th[t] = Idle
    BY <1>1, StateOf DEF OpOf
  <1>3. Live' = {}
    <2>1. \A n \in Node : n \in Live => state'[n] = "free"
      BY <1>1
    <2>2. \A n \in Node : n \notin Live => state'[n] # "linked" \/ next'[n].dead
      BY <1>1 DEF Live, Linked
    <2> QED  BY <2>1, <2>2 DEF Live, Linked
  <1>4. Keys' = {}
    BY <1>3 DEF Keys
  <1>5. Answers = [t \in Thread |-> Map!Idle] /\ Answers' = Answers
    BY <1>1, <1>2 DEF Answers, Idle, Map!Idle
  <1> QED  BY <1>4, <1>5 DEF Answers, Map!Destroy

-----------------------------------------------------------------------------

\* The map starts with the keys of InitKeys and nobody in a call.
LEMMA InitMaps == ASSUME Init PROVE Map!Init
  <1> DEFINE at == CHOOSE f \in [InitKeys -> Node] : IsInjective(f)
             used == {at[k] : k \in InitKeys}
  <1>1. /\ key = [n \in Node |-> IF n \in used THEN CHOOSE k \in InitKeys : at[k] = n ELSE 0]
        /\ state = [n \in Node |-> IF n \in used THEN "linked" ELSE "free"]
        /\ th = [t \in Thread |-> Idle]
    BY DEF Init
  <1> HIDE DEF at
  <1>2. \A n \in Linked : key[n] \in Key
    <2> SUFFICES ASSUME NEW n \in Linked PROVE key[n] \in InitKeys
      BY KeyAssumption
    <2>1. n \in Node /\ n \in used
      BY <1>1 DEF Linked
    <2>2. key[n] = CHOOSE k \in InitKeys : at[k] = n
      BY <1>1, <2>1
    <2>3. \E k \in InitKeys : at[k] = n
      BY <2>1
    <2> QED  BY <2>2, <2>3
  <1>3. Keys \subseteq Key
    BY <1>2 DEF Keys, Live
  <1>4. Answers = [t \in Thread |-> Map!Idle]
    BY <1>1 DEF Answers, Idle, Map!Idle
  <1> QED  BY <1>3, <1>4 DEF Answers, Map!Init

\* Every step of the list is a step of the map, or none.
LEMMA NextMaps == ASSUME MapInv, [Next]_vars PROVE [Map!Next]_(Map!vars)
  <1>s. Silent => UNCHANGED Map!vars
    BY DEF Silent, Answers, Map!vars
  <1>1. ASSUME NEW t \in Thread, Map!Insert(t) \/ Map!Erase(t) \/ Map!Hit(t) \/ Map!Miss(t) \/ Map!Return(t)
        PROVE  Map!Next
    BY <1>1 DEF Map!Next
  <1>2. ASSUME NEW t \in Thread, Step(t) PROVE [Map!Next]_(Map!vars)
    <2>0. map = "exists"
      BY <1>2 DEF Step
    <2>1. CASE Load(t) \/ SetCur(t) \/ LoadNext(t) \/ SetNext(t) \/ CheckNext(t) \/ CheckPrev(t) \/ MarkLoad(t) \/ ValuesNext(t)
      BY <1>s, <2>1, SearchSilent
    <2>2. CASE Unlink(t) \/ Make(t) \/ DropOverage(t)
      BY <1>s, <2>0, <2>2, UnlinkMaps, MakeMaps, DropOverageMaps
    <2>3. CASE Check(t) \/ Classify(t) \/ DropLink(t)
      BY <1>s, <1>1, <2>0, <2>3, CheckMaps, ClassifyMaps, DropLinkMaps
    <2>4. CASE Link(t) \/ MarkCas(t) \/ Return(t)
      BY <1>s, <1>1, <2>0, <2>4, LinkMaps, MarkCasMaps, ReturnMaps
    <2>5. CASE Descend(t) \/ Reread(t) \/ Raise(t) \/ Index(t) \/ OutOfBounds(t)
      BY <1>s, <2>5, IndexSilent
    <2> QED  BY <1>2, <2>1, <2>2, <2>3, <2>4, <2>5 DEF Step, FindStep
  <1>3. ASSUME NEW t \in Thread, NEW op \in Op, NEW k \in Key, Call(t, op, k) PROVE Map!Next
    <2>1. Map!Call(t, op, k)
      BY <1>3, CallMaps
    <2>2. op \in Map!Op
      BY DEF Op, Map!Op
    <2> QED  BY <2>1, <2>2 DEF Map!Next
  <1>4. ASSUME NEW n \in Node, Reclaim(n) PROVE [Map!Next]_(Map!vars)
    BY <1>s, <1>4, ReclaimMaps
  <1>5. CASE Destroy
    BY <1>5, DestroyMaps DEF Map!Next
  <1>6. CASE UNCHANGED vars
    <2>1. UNCHANGED heap /\ th' = th
      BY <1>6 DEF vars
    <2> QED  BY <1>s, <2>1, HeapKeys DEF Silent, Answers
  <1> QED  BY <1>2, <1>3, <1>4, <1>5, <1>6 DEF Next

\* The list implements the map: a key enters it at the exchange that links its node and
\* leaves it at the one that marks it, each between the call and the return that answers
\* true; insert refuses and exists reports only keys that are present at that moment.
THEOREM ImplementsOrderedMap == Spec => MapSpec
  <1>1. Init => Map!Init
    BY InitMaps
  <1>2. MapInv /\ [Next]_vars => [Map!Next]_(Map!vars)
    BY NextMaps
  <1> QED  BY <1>1, <1>2, MapInvariant, PTL DEF Spec, MapSpec, Map!Spec
=============================================================================
