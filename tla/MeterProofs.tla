---------------------------- MODULE MeterProofs ----------------------------
(***************************************************************************)
(* Proofs about Meter, for any number of threads, averages and marks, any  *)
(* tick interval and any scale of the rates.                               *)
(***************************************************************************)
EXTENDS Meter, TLAPS

\* The program counters of tick.
TickPCs == {"value", "reset", "first", "init", "rate", "average"}

ThreadState ==
    [pc : {"idle", "add", "now", "last", "cas"} \cup TickPCs, op : {"none", "mark", "rate"}, i : 1..Rates,
     now : Nat, prev : Nat, iters : Nat, uncounted : Nat, rate : Nat]

Types ==
    /\ clock \in 0..MaxTime
    /\ buffer \in [1..Rates -> Nat]
    /\ rate \in [1..Rates -> Nat]
    /\ init \in [1..Rates -> BOOLEAN]
    /\ lastTick \in [1..Rates -> Nat]
    /\ th \in [Thread -> ThreadState]
    /\ added \in [1..Rates -> Nat]
    /\ counted \in [1..Rates -> Nat]
    /\ ticks \in [1..Rates -> Nat]
    /\ peak \in [1..Rates -> Nat]

\* What a call knows: the clock it read is past, the rates it has in hand are not
\* above the peak, and it has intervals to tick exactly while it is in tick.
CallOf(t) ==
    LET r == th[t] IN
    /\ r.now <= clock
    /\ r.iters # 0 <=> r.pc \in TickPCs
    /\ r.iters <= MaxTime \div KInterval
    /\ r.uncounted <= added[r.i]
    /\ r.pc \in {"reset", "first", "rate", "average"} => Instant(r.uncounted) <= peak[r.i]
    /\ r.pc = "average" => r.rate <= peak[r.i]
    /\ r.pc = "cas" => r.now - r.prev >= KInterval

Calls == \A t \in Thread : CallOf(t)

AverageOf(i) ==
    /\ buffer[i] <= added[i]
    /\ rate[i] <= peak[i]
    /\ lastTick[i] <= clock
    /\ ticks[i] * KInterval <= lastTick[i]

Averages == \A i \in 1..Rates : AverageOf(i)

MeterInv == Types /\ Calls /\ Averages

\* Without overlap an average has one ticking thread at a time ...
OneTicker ==
    ~overlapped => \A t, u \in Thread : t # u /\ th[t].iters # 0 /\ th[u].iters # 0 => th[t].i # th[u].i

\* ... and everything added is counted or in the buffer, but for what came between
\* value() and reset().
Balanced(i, n) ==
    /\ counted[i] + buffer[i] - n <= added[i]
    /\ ~raced => counted[i] + buffer[i] - n = added[i]

Balance ==
    ~overlapped => \A i \in 1..Rates :
        /\ Resetting(i) = {} => Balanced(i, 0)
        /\ \A t \in Resetting(i) : /\ th[t].uncounted <= buffer[i]
                                   /\ ~raced => th[t].uncounted = buffer[i]
                                   /\ Balanced(i, th[t].uncounted)

CountInv == MeterInv /\ OneTicker /\ Balance

-----------------------------------------------------------------------------
(* Arithmetic *)

\* Intervals and instant rates are natural numbers, and grow with what they count.
LEMMA Dividing ==
    ASSUME NEW a \in Nat, NEW b \in Nat, a <= b
    PROVE  /\ a \div KInterval \in Nat /\ a \div KInterval <= b \div KInterval
           /\ (a \div KInterval) * KInterval <= a
           /\ a >= KInterval => a \div KInterval >= 1
  BY MeterAssumption

\* An instant rate is a natural number.
LEMMA InstantNat == ASSUME NEW n \in Nat PROVE Instant(n) \in Nat
  <1>1. n * Unit \in Nat
    BY MeterAssumption
  <1> QED  BY <1>1, Dividing DEF Instant

\* Averaging stays between zero and a bound of both rates.
LEMMA AverageBetween ==
    ASSUME NEW a \in Nat, NEW b \in Nat, NEW p \in Nat, a <= p, b <= p
    PROVE  Average(a, b) \in Nat /\ Average(a, b) <= p
  BY DEF Average

\* The maximum of two numbers.
LEMMA MaxOfTwo ==
    ASSUME NEW a \in Nat, NEW b \in Nat
    PROVE  Max({a, b}) \in Nat /\ Max({a, b}) >= a /\ Max({a, b}) >= b
  <1>1. \E x \in {a, b} : \A y \in {a, b} : x >= y
    OBVIOUS
  <1>2. Max({a, b}) \in {a, b} /\ \A y \in {a, b} : Max({a, b}) >= y
    BY <1>1 DEF Max
  <1> QED  BY <1>2

-----------------------------------------------------------------------------
(* The calls *)

\* The bounds of the clock.
LEMMA ClockNat == ASSUME Types PROVE clock \in Nat /\ clock <= MaxTime /\ MaxTime \div KInterval \in Nat
  <1>1. clock \in Nat /\ clock <= MaxTime
    BY MeterAssumption DEF Types
  <1>2. MaxTime \div KInterval \in Nat
    BY MeterAssumption, Dividing
  <1> QED  BY <1>1, <1>2

\* A thread's record replaced.
LEMMA ThreadSet ==
    ASSUME Types, NEW t \in Thread, NEW e \in ThreadState, th' = [th EXCEPT ![t] = e]
    PROVE  /\ th' \in [Thread -> ThreadState] /\ th'[t] = e
           /\ \A u \in Thread : u # t => th'[u] = th[u]
  BY DEF Types

\* The records of a thread outside tick.
LEMMA TickedState ==
    ASSUME NEW r \in ThreadState
    PROVE  /\ Ticked(r) \in ThreadState /\ Ticked(r).pc \in {"idle", "add"}
           /\ Ticked(r).now = 0 /\ Ticked(r).iters = 0 /\ Ticked(r).uncounted = 0
  <1> USE MeterAssumption DEF Idle, ThreadState
  <1>1. CASE r.op = "mark" /\ r.i < Rates
    <2>1. r.i + 1 \in 1..Rates
      BY <1>1
    <2> QED  BY <1>1, <2>1 DEF Ticked
  <1>2. CASE ~(r.op = "mark" /\ r.i < Rates)
    BY <1>2 DEF Ticked
  <1> QED  BY <1>1, <1>2

\* The next interval, or the end of tickIfNecessary.
LEMMA RepeatState ==
    ASSUME NEW r \in ThreadState
    PROVE  /\ Repeat(r) \in ThreadState
           /\ \/ /\ r.iters > 1 /\ Repeat(r).pc = "value" /\ Repeat(r).iters = r.iters - 1 /\ Repeat(r).i = r.i
                 /\ Repeat(r).now = r.now /\ Repeat(r).uncounted = 0
              \/ /\ Repeat(r).pc \in {"idle", "add"} /\ Repeat(r).now = 0 /\ Repeat(r).iters = 0
                 /\ Repeat(r).uncounted = 0
  <1>1. CASE r.iters > 1
    <2>1. r.iters - 1 \in Nat
      BY <1>1 DEF ThreadState
    <2> QED  BY <1>1, <2>1 DEF Repeat, ThreadState, TickPCs
  <1>2. CASE ~(r.iters > 1)
    BY <1>2, TickedState DEF Repeat
  <1> QED  BY <1>1, <1>2

\* The calls of the other threads are not disturbed: time, the events added and the
\* peak only grow.
LEMMA OtherCalls ==
    ASSUME Types, Types', Calls, NEW t \in Thread, clock <= clock',
           \A i \in 1..Rates : added[i] <= added'[i] /\ peak[i] <= peak'[i],
           \A u \in Thread : u # t => th'[u] = th[u], CallOf(t)'
    PROVE  Calls'
  <1> SUFFICES ASSUME NEW u \in Thread, u # t PROVE CallOf(u)'
    BY DEF Calls
  <1>1. th'[u] = th[u] /\ th[u] \in ThreadState /\ CallOf(u)
    BY DEF Types, Calls
  <1>2. th[u].i \in 1..Rates /\ th[u].now \in Nat /\ th[u].uncounted \in Nat /\ th[u].rate \in Nat
    BY <1>1 DEF ThreadState
  <1>3. /\ added[th[u].i] \in Nat /\ added'[th[u].i] \in Nat /\ peak[th[u].i] \in Nat /\ peak'[th[u].i] \in Nat
        /\ added[th[u].i] <= added'[th[u].i] /\ peak[th[u].i] <= peak'[th[u].i]
    BY <1>2, ClockNat DEF Types
  <1>c. clock \in Nat /\ clock' \in Nat
    BY MeterAssumption DEF Types
  <1>4. Instant(th[u].uncounted) \in Nat
    BY <1>2, InstantNat
  <1> HIDE DEF Instant
  <1>5. (Instant(th[u].uncounted))' = Instant(th'[u].uncounted)
    BY DEF Instant
  <1> QED  BY <1>1, <1>2, <1>3, <1>c, <1>4, <1>5 DEF CallOf

\* The record of a thread is well typed.
LEMMA RecordOf ==
    ASSUME Types, NEW t \in Thread
    PROVE  /\ th[t] \in ThreadState /\ th[t].i \in 1..Rates
           /\ th[t].now \in Nat /\ th[t].prev \in Nat /\ th[t].iters \in Nat
           /\ th[t].uncounted \in Nat /\ th[t].rate \in Nat
  BY DEF Types, ThreadState

\* A call of mark or of a rate reader begins.
LEMMA BeginStep ==
    ASSUME MeterInv, NEW t \in Thread, Mark(t) \/ ReadRate(t)
    PROVE  MeterInv'
  <1> USE DEF MeterInv
  <1> DEFINE r == th[t]
  <1>0. /\ r \in ThreadState /\ r.i \in 1..Rates /\ CallOf(t)
        /\ r.now \in Nat /\ r.prev \in Nat /\ r.iters \in Nat /\ r.uncounted \in Nat /\ r.rate \in Nat
    BY RecordOf DEF Calls
  <1>1. PICK e \in ThreadState :
           /\ th' = [th EXCEPT ![t] = e] /\ UNCHANGED <<clock, buffer, rate, init, lastTick, added, counted, ticks, peak>>
           /\ e.pc \in {"add", "now"} /\ e.now = 0 /\ e.iters = 0 /\ e.uncounted = 0
    <2>1. CASE Mark(t)
      <3> DEFINE e == [Idle EXCEPT !.op = "mark", !.pc = "add"]
      <3>1. e \in ThreadState /\ e.pc = "add" /\ e.now = 0 /\ e.iters = 0 /\ e.uncounted = 0
        <4>1. 1 \in 1..Rates
          BY MeterAssumption
        <4> QED  BY <4>1 DEF Idle, ThreadState
      <3>2. th' = [th EXCEPT ![t] = e] /\ UNCHANGED <<clock, buffer, rate, init, lastTick, added, counted, ticks, peak>>
        BY <2>1 DEF Mark, ewma, ghost
      <3> HIDE DEF e
      <3> QED  BY <3>1, <3>2
    <2>2. CASE ReadRate(t)
      <3>1. PICK i \in 1..Rates : th' = [th EXCEPT ![t] = [Idle EXCEPT !.op = "rate", !.i = i, !.pc = "now"]]
        BY <2>2 DEF ReadRate
      <3> DEFINE e == [Idle EXCEPT !.op = "rate", !.i = i, !.pc = "now"]
      <3>2. e \in ThreadState /\ e.pc = "now" /\ e.now = 0 /\ e.iters = 0 /\ e.uncounted = 0
        BY DEF Idle, ThreadState
      <3>3. th' = [th EXCEPT ![t] = e] /\ UNCHANGED <<clock, buffer, rate, init, lastTick, added, counted, ticks, peak>>
        BY <2>2, <3>1 DEF ReadRate, ewma, ghost
      <3> HIDE DEF e
      <3> QED  BY <3>2, <3>3
    <2> QED  BY <2>1, <2>2
  <1>2. e \in ThreadState /\ e.i \in 1..Rates
    BY DEF ThreadState
  <1>3. /\ th' \in [Thread -> ThreadState] /\ th'[t] = e
        /\ \A u \in Thread : u # t => th'[u] = th[u]
    BY <1>1, <1>2, ThreadSet
  <1>4. Types'
    BY <1>1, <1>3 DEF Types
  <1> HIDE DEF r
  <1>5. CallOf(t)'
    <2>1. MaxTime \div KInterval \in Nat /\ clock \in Nat /\ added[e.i] \in Nat
      BY <1>2, ClockNat DEF Types
    <2> QED  BY <1>1, <1>3, <2>1 DEF CallOf, TickPCs
  <1>6. Calls'
    BY <1>1, <1>3, <1>4, <1>5, OtherCalls DEF Types
  <1>7. Averages'
    BY <1>1 DEF Averages, AverageOf

  <1> QED  BY <1>4, <1>6, <1>7

\* The clock is read.
LEMMA NowStep ==
    ASSUME MeterInv, NEW t \in Thread, Now(t)
    PROVE  MeterInv'
  <1> USE DEF MeterInv
  <1> DEFINE r == th[t]
  <1>0. /\ r \in ThreadState /\ r.i \in 1..Rates /\ CallOf(t)
        /\ r.now \in Nat /\ r.prev \in Nat /\ r.iters \in Nat /\ r.uncounted \in Nat /\ r.rate \in Nat
    BY RecordOf DEF Calls
  <1> DEFINE e == [r EXCEPT !.now = clock, !.pc = "last"]
  <1>1. th' = [th EXCEPT ![t] = e] /\ UNCHANGED <<clock, buffer, rate, init, lastTick, added, counted, ticks, peak>> /\ r.pc = "now"
    BY DEF Now, Types, ThreadState, ewma, ghost
  <1>2. /\ e \in ThreadState /\ e.pc = "last" /\ e.now = clock /\ e.i = r.i /\ e.iters = r.iters
        /\ e.uncounted = r.uncounted
    BY <1>0, ClockNat DEF ThreadState
  <1>3. /\ th' \in [Thread -> ThreadState] /\ th'[t] = e
        /\ \A u \in Thread : u # t => th'[u] = th[u]
    BY <1>1, <1>2, ThreadSet
  <1>4. Types'
    BY <1>1, <1>3 DEF Types
  <1> HIDE DEF e, r
  <1>5. CallOf(t)'
    BY <1>0, <1>1, <1>2, <1>3, ClockNat DEF r, CallOf, TickPCs
  <1>6. Calls'
    BY <1>1, <1>3, <1>4, <1>5, OtherCalls DEF Types
  <1>7. Averages'
    BY <1>1 DEF Averages, AverageOf

  <1> QED  BY <1>4, <1>6, <1>7

\* The last tick is read, and the call goes on if one is due.
LEMMA LoadLastStep ==
    ASSUME MeterInv, NEW t \in Thread, LoadLast(t)
    PROVE  MeterInv'
  <1> USE DEF MeterInv
  <1> DEFINE r == th[t]
  <1>0. /\ r \in ThreadState /\ r.i \in 1..Rates /\ CallOf(t)
        /\ r.now \in Nat /\ r.prev \in Nat /\ r.iters \in Nat /\ r.uncounted \in Nat /\ r.rate \in Nat
    BY RecordOf DEF Calls
  <1> DEFINE e == IF r.now - lastTick[r.i] < KInterval THEN Ticked(r)
                  ELSE [r EXCEPT !.prev = lastTick[r.i], !.pc = "cas"]
  <1>1. th' = [th EXCEPT ![t] = e] /\ UNCHANGED <<clock, buffer, rate, init, lastTick, added, counted, ticks, peak>> /\ r.pc = "last"
    BY DEF LoadLast, ewma, ghost
  <1>2. /\ e \in ThreadState
        /\ \/ /\ e.pc = "cas" /\ e.i = r.i /\ e.now = r.now /\ e.iters = r.iters /\ e.uncounted = r.uncounted
              /\ e.now - e.prev >= KInterval
           \/ e.pc \in {"idle", "add"} /\ e.now = 0 /\ e.iters = 0 /\ e.uncounted = 0
    <2>1. CASE r.now - lastTick[r.i] < KInterval
      BY <1>0, <2>1, TickedState
    <2>2. CASE ~(r.now - lastTick[r.i] < KInterval)
      <3> DEFINE f == [r EXCEPT !.prev = lastTick[r.i], !.pc = "cas"]
      <3>1. lastTick[r.i] \in Nat
        BY <1>0 DEF Types
      <3>2. /\ f \in ThreadState /\ f.pc = "cas" /\ f.i = r.i /\ f.now = r.now /\ f.iters = r.iters
            /\ f.uncounted = r.uncounted /\ f.prev = lastTick[r.i]
        BY <1>0, <3>1 DEF ThreadState
      <3>3. e = f
        BY <2>2
      <3> HIDE DEF e, f
      <3> QED  BY <1>0, <2>2, <3>1, <3>2, <3>3, MeterAssumption
    <2> QED  BY <2>1, <2>2
  <1>3. /\ th' \in [Thread -> ThreadState] /\ th'[t] = e
        /\ \A u \in Thread : u # t => th'[u] = th[u]
    BY <1>1, <1>2, ThreadSet
  <1>4. Types'
    BY <1>1, <1>3 DEF Types
  <1> HIDE DEF e, r
  <1>5. CallOf(t)'
    <2>1. MaxTime \div KInterval \in Nat /\ clock \in Nat /\ e.i \in 1..Rates /\ added[e.i] \in Nat
      <3>1. e.i \in 1..Rates
        BY <1>2 DEF ThreadState
      <3> QED  BY <3>1, ClockNat DEF Types
    <2> QED  BY <1>0, <1>1, <1>2, <1>3, <2>1 DEF r, CallOf, TickPCs
  <1>6. Calls'
    BY <1>1, <1>3, <1>4, <1>5, OtherCalls DEF Types
  <1>7. Averages'
    BY <1>1 DEF Averages, AverageOf

  <1> QED  BY <1>4, <1>6, <1>7

\* An event is added to the buffer.
LEMMA AddStep ==
    ASSUME MeterInv, NEW t \in Thread, Add(t)
    PROVE  MeterInv'
  <1> USE DEF MeterInv
  <1> DEFINE r == th[t]
  <1>0. /\ r \in ThreadState /\ r.i \in 1..Rates /\ CallOf(t)
        /\ r.now \in Nat /\ r.prev \in Nat /\ r.iters \in Nat /\ r.uncounted \in Nat /\ r.rate \in Nat
    BY RecordOf DEF Calls
  <1> DEFINE e == [r EXCEPT !.pc = "now"]
  <1>1. /\ th' = [th EXCEPT ![t] = e] /\ r.pc = "add"
        /\ buffer' = [buffer EXCEPT ![r.i] = @ + 1] /\ added' = [added EXCEPT ![r.i] = @ + 1]
        /\ UNCHANGED <<clock, rate, init, lastTick, counted, ticks, peak>>
    BY DEF Add, Types, ThreadState
  <1>2. /\ e \in ThreadState /\ e.pc = "now" /\ e.now = r.now /\ e.i = r.i /\ e.iters = r.iters
        /\ e.uncounted = r.uncounted
    BY <1>0 DEF ThreadState
  <1>3. /\ th' \in [Thread -> ThreadState] /\ th'[t] = e
        /\ \A u \in Thread : u # t => th'[u] = th[u]
    BY <1>1, <1>2, ThreadSet
  <1>4. Types'
    <2> HIDE DEF e, r
    <2>0. r.i \in 1..Rates /\ buffer[r.i] + 1 \in Nat
      BY SMTT(40), <1>0 DEF Types
    <2>1. buffer' \in [1..Rates -> Nat]
      BY <1>1, <2>0 DEF Types
    <2>a. added[r.i] + 1 \in Nat
      BY SMTT(40), <1>0 DEF Types
    <2>2. added' \in [1..Rates -> Nat]
      BY <1>1, <2>0, <2>a DEF Types
    <2> QED  BY <1>1, <1>3, <2>1, <2>2 DEF Types
  <1> HIDE DEF e, r
  <1>5. CallOf(t)'
    <2>1. added[r.i] \in Nat /\ added'[r.i] = added[r.i] + 1
      BY <1>0, <1>1 DEF Types
    <2> QED  BY <1>0, <1>1, <1>2, <1>3, <2>1 DEF r, CallOf, TickPCs
  <1>6. Calls'
    <2>1. clock <= clock' /\ \A i \in 1..Rates : added[i] <= added'[i] /\ peak[i] <= peak'[i]
      <3> SUFFICES ASSUME NEW i \in 1..Rates PROVE added[i] <= added'[i]
        BY <1>1, ClockNat DEF Types
      <3>1. added[i] \in Nat /\ added'[i] = IF i = r.i THEN added[i] + 1 ELSE added[i]
        BY <1>0, <1>1 DEF Types
      <3> QED  BY <3>1
    <2> QED  BY <1>3, <1>4, <1>5, <2>1, OtherCalls
  <1>7. Averages'
    <2> SUFFICES ASSUME NEW i \in 1..Rates PROVE AverageOf(i)'
      BY DEF Averages
    <2>1. AverageOf(i) /\ buffer[i] \in Nat /\ added[i] \in Nat
      BY DEF Averages, Types
    <2>2. buffer'[i] = IF i = r.i THEN buffer[i] + 1 ELSE buffer[i]
      BY <1>0, <1>1 DEF Types
    <2>3. added'[i] = IF i = r.i THEN added[i] + 1 ELSE added[i]
      BY <1>0, <1>1 DEF Types
    <2> QED  BY <1>1, <2>1, <2>2, <2>3 DEF AverageOf
  <1> QED  BY <1>4, <1>6, <1>7

\* The compare and exchange of last_tick_: the winner takes the intervals.
LEMMA AdvanceStep ==
    ASSUME MeterInv, NEW t \in Thread, Advance(t)
    PROVE  MeterInv'
  <1> USE DEF MeterInv
  <1> DEFINE r == th[t]
  <1>0. /\ r \in ThreadState /\ r.i \in 1..Rates /\ CallOf(t)
        /\ r.now \in Nat /\ r.prev \in Nat /\ r.iters \in Nat /\ r.uncounted \in Nat /\ r.rate \in Nat
    BY RecordOf DEF Calls
  <1>a. CASE ~Wins(r)
    <2> DEFINE e == Ticked(r)
    <2>1. th' = [th EXCEPT ![t] = e] /\ UNCHANGED <<clock, buffer, rate, init, lastTick, added, counted, ticks, peak>>
      BY <1>a DEF Advance
    <2>2. e \in ThreadState /\ e.pc \in {"idle", "add"} /\ e.now = 0 /\ e.iters = 0 /\ e.uncounted = 0
      BY <1>0, TickedState
    <2>3. /\ th' \in [Thread -> ThreadState] /\ th'[t] = e
          /\ \A u \in Thread : u # t => th'[u] = th[u]
      BY <2>1, <2>2, ThreadSet
    <2>4. Types'
      BY <2>1, <2>3 DEF Types
    <2> HIDE DEF e, r
    <2>5. CallOf(t)'
      <3>1. MaxTime \div KInterval \in Nat /\ clock \in Nat /\ e.i \in 1..Rates /\ added[e.i] \in Nat
        <4>1. e.i \in 1..Rates
          BY <2>2 DEF ThreadState
        <4> QED  BY <4>1, ClockNat DEF Types
      <3> QED  BY <2>1, <2>2, <2>3, <3>1 DEF CallOf, TickPCs
    <2>6. Calls'
      BY <2>1, <2>3, <2>4, <2>5, OtherCalls DEF Types
    <2>7. Averages'
      BY <2>1 DEF Averages, AverageOf
    <2> QED  BY <2>4, <2>6, <2>7
  <1>b. SUFFICES ASSUME Wins(r) PROVE MeterInv'
    BY <1>a
  <1> DEFINE e == [r EXCEPT !.iters = Iterations(r), !.prev = 0, !.now = 0, !.pc = "value"]
  <1>1. /\ th' = [th EXCEPT ![t] = e] /\ r.pc = "cas" /\ lastTick[r.i] = r.prev
        /\ lastTick' = [lastTick EXCEPT ![r.i] = r.now] /\ ticks' = [ticks EXCEPT ![r.i] = @ + Iterations(r)]
        /\ UNCHANGED <<clock, buffer, rate, init, added, counted, peak>>
    BY <1>b DEF Advance, Types, ThreadState, Wins
  <1>c. /\ Iterations(r) \in Nat /\ Iterations(r) >= 1 /\ Iterations(r) <= MaxTime \div KInterval
        /\ Iterations(r) * KInterval <= r.now - r.prev
    <2>1. r.now - r.prev >= KInterval /\ r.now <= clock /\ clock \in 0..MaxTime
      BY <1>0, <1>1 DEF CallOf, Types
    <2>2. r.now - r.prev \in Nat /\ r.now - r.prev <= MaxTime
      BY <1>0, <2>1, MeterAssumption
    <2> HIDE DEF r
    <2> QED  BY <1>0, <2>1, <2>2, Dividing, MeterAssumption DEF Iterations
  <1>2. /\ e \in ThreadState /\ e.pc = "value" /\ e.now = 0 /\ e.i = r.i /\ e.iters = Iterations(r)
        /\ e.uncounted = r.uncounted
    <2> HIDE DEF Iterations
    <2> QED  BY <1>0, <1>c DEF ThreadState, TickPCs
  <1>3. /\ th' \in [Thread -> ThreadState] /\ th'[t] = e
        /\ \A u \in Thread : u # t => th'[u] = th[u]
    BY <1>1, <1>2, ThreadSet
  <1>4. Types'
    <2> HIDE DEF e, Iterations
    <2>1. lastTick' \in [1..Rates -> Nat]
      BY <1>0, <1>1 DEF Types
    <2>2. ticks' \in [1..Rates -> Nat]
      BY SMTT(40), <1>0, <1>1, <1>c DEF Types
    <2> QED  BY <1>1, <1>3, <2>1, <2>2 DEF Types
  <1> HIDE DEF e, r
  <1>5. CallOf(t)'
    <2> HIDE DEF Iterations
    <2> QED  BY <1>0, <1>1, <1>2, <1>3, <1>c, ClockNat DEF r, CallOf, TickPCs
  <1>6. Calls'
    <2>1. clock <= clock' /\ \A i \in 1..Rates : added[i] <= added'[i] /\ peak[i] <= peak'[i]
      BY <1>1 DEF Types
    <2> QED  BY <1>3, <1>4, <1>5, <2>1, OtherCalls
  <1>7. Averages'
    <2> SUFFICES ASSUME NEW i \in 1..Rates PROVE AverageOf(i)'
      BY DEF Averages
    <2>1. AverageOf(i) /\ lastTick[i] \in Nat /\ ticks[i] \in Nat /\ clock \in Nat
      BY DEF Averages, Types
    <2>2. lastTick'[i] = IF i = r.i THEN r.now ELSE lastTick[i]
      BY <1>0, <1>1 DEF Types
    <2>3. ticks'[i] = IF i = r.i THEN ticks[i] + Iterations(r) ELSE ticks[i]
      BY <1>0, <1>1 DEF Types
    <2>4. CASE i # r.i
      BY <1>1, <2>1, <2>2, <2>3, <2>4 DEF AverageOf
    <2>5. CASE i = r.i
      <3> HIDE DEF Iterations
      <3>1. (ticks[i] + Iterations(r)) * KInterval = ticks[i] * KInterval + Iterations(r) * KInterval
        BY <2>1, <1>c, MeterAssumption
      <3>2. ticks[i] * KInterval \in Nat /\ Iterations(r) * KInterval \in Nat
        BY <2>1, <1>c, MeterAssumption
      <3>3. ticks[i] * KInterval <= r.prev
        BY <1>1, <2>1, <2>5 DEF AverageOf
      <3>4. ticks'[i] * KInterval <= r.now
        BY <1>0, <1>c, <2>3, <2>5, <3>1, <3>2, <3>3
      <3>5. r.now <= clock
        BY <1>0 DEF r, CallOf
      <3> QED  BY <1>1, <2>1, <2>2, <2>5, <3>4, <3>5 DEF AverageOf
    <2> QED  BY <2>4, <2>5
  <1> QED  BY <1>4, <1>6, <1>7

\* tick reads the buffer; the peak follows its instant rate.
LEMMA ReadBufferStep ==
    ASSUME MeterInv, NEW t \in Thread, ReadBuffer(t)
    PROVE  MeterInv'
  <1> USE DEF MeterInv
  <1> DEFINE r == th[t]
  <1>0. /\ r \in ThreadState /\ r.i \in 1..Rates /\ CallOf(t)
        /\ r.now \in Nat /\ r.prev \in Nat /\ r.iters \in Nat /\ r.uncounted \in Nat /\ r.rate \in Nat
    BY RecordOf DEF Calls
  <1> DEFINE e == [r EXCEPT !.uncounted = buffer[r.i], !.pc = "reset"]
  <1>1. /\ th' = [th EXCEPT ![t] = e] /\ r.pc = "value"
        /\ counted' = [counted EXCEPT ![r.i] = @ + buffer[r.i]]
        /\ peak' = [peak EXCEPT ![r.i] = Max({@, Instant(buffer[r.i])})]
        /\ UNCHANGED <<clock, buffer, rate, init, lastTick, added, ticks>>
    BY DEF ReadBuffer, Types, ThreadState, ewma
  <1>2. /\ e \in ThreadState /\ e.pc = "reset" /\ e.now = r.now /\ e.i = r.i /\ e.iters = r.iters
        /\ e.uncounted = buffer[r.i]
    <2>1. buffer[r.i] \in Nat
      BY <1>0 DEF Types
    <2> QED  BY <1>0, <2>1 DEF ThreadState, TickPCs
  <1>c. /\ Instant(buffer[r.i]) \in Nat /\ peak[r.i] \in Nat /\ buffer[r.i] \in Nat /\ counted[r.i] \in Nat
        /\ Max({peak[r.i], Instant(buffer[r.i])}) \in Nat /\ Max({peak[r.i], Instant(buffer[r.i])}) >= peak[r.i]
        /\ Max({peak[r.i], Instant(buffer[r.i])}) >= Instant(buffer[r.i])
    <2>1. peak[r.i] \in Nat /\ buffer[r.i] \in Nat /\ counted[r.i] \in Nat
      BY <1>0 DEF Types
    <2>2. Instant(buffer[r.i]) \in Nat
      BY <2>1, InstantNat
    <2> HIDE DEF Instant, Max, r
    <2> QED  BY <2>1, <2>2, MaxOfTwo
  <1> DEFINE m == Max({peak[r.i], Instant(buffer[r.i])})
  <1>d. peak' = [peak EXCEPT ![r.i] = m]
    BY <1>1
  <1>3. /\ th' \in [Thread -> ThreadState] /\ th'[t] = e
        /\ \A u \in Thread : u # t => th'[u] = th[u]
    BY <1>1, <1>2, ThreadSet
  <1>4. Types'
    <2> HIDE DEF e, m, Instant, Max
    <2>m. m \in Nat
      BY <1>c DEF m
    <2> HIDE DEF r
    <2>0. r.i \in 1..Rates /\ counted[r.i] + buffer[r.i] \in Nat
      BY <1>0, <1>c
    <2>1. counted' \in [1..Rates -> Nat]
      BY <1>1, <2>0 DEF Types
    <2>2. peak' \in [1..Rates -> Nat]
      BY <1>0, <1>d, <2>m DEF Types
    <2> QED  BY <1>1, <1>3, <2>1, <2>2 DEF Types
  <1> HIDE DEF e, r
  <1>5. CallOf(t)'
    <2>1. peak'[r.i] = m /\ m >= Instant(buffer[r.i])
      BY <1>0, <1>c, <1>d DEF Types
    <2>2. buffer[r.i] <= added[r.i]
      BY <1>0 DEF Averages, AverageOf
    <2>3. (Instant(th[t].uncounted))' = Instant(th'[t].uncounted)
      BY DEF Instant
    <2> HIDE DEF Instant, m
    <2> QED  BY <1>0, <1>1, <1>2, <1>3, <2>1, <2>2, <2>3 DEF r, CallOf, TickPCs
  <1>6. Calls'
    <2>1. clock <= clock' /\ \A i \in 1..Rates : added[i] <= added'[i] /\ peak[i] <= peak'[i]
      <3> HIDE DEF m
      <3>1. m \in Nat /\ m >= peak[r.i]
        BY <1>c DEF m
      <3> SUFFICES ASSUME NEW i \in 1..Rates PROVE added[i] <= added'[i] /\ peak[i] <= peak'[i]
        <4>1. clock <= clock'
          BY <1>1, ClockNat
        <4> QED  BY <4>1
      <3>2. peak[i] \in Nat /\ peak'[i] = IF i = r.i THEN m ELSE peak[i]
        BY <1>0, <1>d DEF Types
      <3>3. added[i] \in Nat
        BY DEF Types
      <3> QED  BY <1>1, <3>1, <3>2, <3>3
    <2> QED  BY <1>3, <1>4, <1>5, <2>1, OtherCalls
  <1>7. Averages'
    <2> SUFFICES ASSUME NEW i \in 1..Rates PROVE AverageOf(i)'
      BY DEF Averages
    <2> HIDE DEF m
    <2>1. peak[i] \in Nat /\ rate[i] \in Nat /\ m \in Nat /\ m >= peak[r.i] /\ AverageOf(i)
      BY <1>c DEF Types, Averages, m
    <2>2. peak'[i] = IF i = r.i THEN m ELSE peak[i]
      BY <1>0, <1>d DEF Types
    <2> QED  BY <1>1, <2>1, <2>2 DEF AverageOf
  <1> QED  BY <1>4, <1>6, <1>7

\* tick empties the buffer.
LEMMA ResetBufferStep ==
    ASSUME MeterInv, NEW t \in Thread, ResetBuffer(t)
    PROVE  MeterInv'
  <1> USE DEF MeterInv
  <1> DEFINE r == th[t]
  <1>0. /\ r \in ThreadState /\ r.i \in 1..Rates /\ CallOf(t)
        /\ r.now \in Nat /\ r.prev \in Nat /\ r.iters \in Nat /\ r.uncounted \in Nat /\ r.rate \in Nat
    BY RecordOf DEF Calls
  <1> DEFINE e == [r EXCEPT !.pc = IF init[r.i] THEN "rate" ELSE "first"]
  <1>1. /\ th' = [th EXCEPT ![t] = e] /\ r.pc = "reset"
        /\ buffer' = [buffer EXCEPT ![r.i] = 0]
        /\ UNCHANGED <<clock, rate, init, lastTick, added, counted, ticks, peak>>
    BY DEF ResetBuffer, Types, ThreadState, Emptied, ghost
  <1>2. /\ e \in ThreadState /\ e.pc \in {"rate", "first"} /\ e.now = r.now /\ e.i = r.i /\ e.iters = r.iters
        /\ e.uncounted = r.uncounted
    BY <1>0 DEF ThreadState, TickPCs
  <1>3. /\ th' \in [Thread -> ThreadState] /\ th'[t] = e
        /\ \A u \in Thread : u # t => th'[u] = th[u]
    BY <1>1, <1>2, ThreadSet
  <1>4. Types'
    BY <1>0, <1>1, <1>3 DEF Types
  <1> HIDE DEF e, r
  <1>5. CallOf(t)'
    <2>3. (Instant(th[t].uncounted))' = Instant(th'[t].uncounted)
      BY DEF Instant
    <2> HIDE DEF Instant
    <2> QED  BY <1>0, <1>1, <1>2, <1>3, <2>3 DEF r, CallOf, TickPCs
  <1>6. Calls'
    <2>1. clock <= clock' /\ \A i \in 1..Rates : added[i] <= added'[i] /\ peak[i] <= peak'[i]
      BY <1>1 DEF Types
    <2> QED  BY <1>3, <1>4, <1>5, <2>1, OtherCalls
  <1>7. Averages'
    <2> SUFFICES ASSUME NEW i \in 1..Rates PROVE AverageOf(i)'
      BY DEF Averages
    <2>1. AverageOf(i) /\ added[i] \in Nat /\ buffer'[i] = IF i = r.i THEN 0 ELSE buffer[i]
      BY <1>0, <1>1 DEF Averages, Types
    <2> QED  BY <1>1, <2>1 DEF AverageOf
  <1> QED  BY <1>4, <1>6, <1>7

\* The first tick stores its instant rate.
LEMMA FirstRateStep ==
    ASSUME MeterInv, NEW t \in Thread, FirstRate(t)
    PROVE  MeterInv'
  <1> USE DEF MeterInv
  <1> DEFINE r == th[t]
  <1>0. /\ r \in ThreadState /\ r.i \in 1..Rates /\ CallOf(t)
        /\ r.now \in Nat /\ r.prev \in Nat /\ r.iters \in Nat /\ r.uncounted \in Nat /\ r.rate \in Nat
    BY RecordOf DEF Calls
  <1> DEFINE e == [r EXCEPT !.pc = "init"]
  <1>1. /\ th' = [th EXCEPT ![t] = e] /\ r.pc = "first"
        /\ rate' = [rate EXCEPT ![r.i] = Instant(r.uncounted)]
        /\ UNCHANGED <<clock, buffer, init, lastTick, added, counted, ticks, peak>>
    BY DEF FirstRate, Types, ThreadState, ghost
  <1>2. /\ e \in ThreadState /\ e.pc = "init" /\ e.now = r.now /\ e.i = r.i /\ e.iters = r.iters
        /\ e.uncounted = r.uncounted
    BY <1>0 DEF ThreadState, TickPCs
  <1>c. Instant(r.uncounted) \in Nat /\ Instant(r.uncounted) <= peak[r.i]
    <2>1. Instant(r.uncounted) \in Nat
      BY <1>0, InstantNat
    <2> HIDE DEF Instant
    <2> QED  BY <1>0, <1>1, <2>1 DEF CallOf
  <1>3. /\ th' \in [Thread -> ThreadState] /\ th'[t] = e
        /\ \A u \in Thread : u # t => th'[u] = th[u]
    BY <1>1, <1>2, ThreadSet
  <1>4. Types'
    <2> HIDE DEF Instant
    <2> QED  BY <1>0, <1>1, <1>3, <1>c DEF Types
  <1> HIDE DEF e, r
  <1>5. CallOf(t)'
    <2> HIDE DEF Instant
    <2> QED  BY <1>0, <1>1, <1>2, <1>3 DEF r, CallOf, TickPCs
  <1>6. Calls'
    <2>1. clock <= clock' /\ \A i \in 1..Rates : added[i] <= added'[i] /\ peak[i] <= peak'[i]
      BY <1>1 DEF Types
    <2> QED  BY <1>3, <1>4, <1>5, <2>1, OtherCalls
  <1>7. Averages'
    <2> SUFFICES ASSUME NEW i \in 1..Rates PROVE AverageOf(i)'
      BY DEF Averages
    <2> HIDE DEF Instant
    <2>1. AverageOf(i) /\ rate'[i] = IF i = r.i THEN Instant(r.uncounted) ELSE rate[i]
      BY <1>0, <1>1 DEF Averages, Types
    <2> QED  BY <1>1, <1>c, <2>1 DEF AverageOf
  <1> QED  BY <1>4, <1>6, <1>7

\* The first tick sets init_ and goes on.
LEMMA SetInitStep ==
    ASSUME MeterInv, NEW t \in Thread, SetInit(t)
    PROVE  MeterInv'
  <1> USE DEF MeterInv
  <1> DEFINE r == th[t]
  <1>0. /\ r \in ThreadState /\ r.i \in 1..Rates /\ CallOf(t)
        /\ r.now \in Nat /\ r.prev \in Nat /\ r.iters \in Nat /\ r.uncounted \in Nat /\ r.rate \in Nat
    BY RecordOf DEF Calls
  <1> DEFINE e == Repeat(r)
  <1>1. /\ th' = [th EXCEPT ![t] = e]
        /\ init' = [init EXCEPT ![r.i] = TRUE]
        /\ UNCHANGED <<clock, buffer, rate, lastTick, added, counted, ticks, peak>>
    BY DEF SetInit, ghost
  <1>c. /\ Repeat(r) \in ThreadState
        /\ \/ /\ r.iters > 1 /\ Repeat(r).pc = "value" /\ Repeat(r).iters = r.iters - 1 /\ Repeat(r).i = r.i
              /\ Repeat(r).now = r.now /\ Repeat(r).uncounted = 0
           \/ /\ Repeat(r).pc \in {"idle", "add"} /\ Repeat(r).now = 0 /\ Repeat(r).iters = 0
              /\ Repeat(r).uncounted = 0
    BY <1>0, RepeatState
  <1>2. /\ e \in ThreadState
        /\ \/ e.iters > 0 /\ e.pc = "value" /\ e.iters = r.iters - 1 /\ e.now = r.now /\ e.uncounted = 0
           \/ e.pc \in {"idle", "add"} /\ e.now = 0 /\ e.iters = 0 /\ e.uncounted = 0
    <2> HIDE DEF Repeat, r
    <2> QED  BY <1>0, <1>c
  <1>3. /\ th' \in [Thread -> ThreadState] /\ th'[t] = e
        /\ \A u \in Thread : u # t => th'[u] = th[u]
    BY <1>1, <1>2, ThreadSet
  <1>4. Types'
    <2>1. init' \in [1..Rates -> BOOLEAN]
      BY <1>1, Zenon DEF Types
    <2> QED  BY <1>1, <1>3, <2>1 DEF Types
  <1> HIDE DEF e, r
  <1>5. CallOf(t)'
    <2>1. MaxTime \div KInterval \in Nat /\ clock \in Nat /\ e.i \in 1..Rates /\ added[e.i] \in Nat
      <3>1. e.i \in 1..Rates
        BY <1>2 DEF ThreadState
      <3> QED  BY <3>1, ClockNat DEF Types
    <2>2. r.now <= clock /\ r.iters <= MaxTime \div KInterval
      BY <1>0 DEF r, CallOf
    <2> QED  BY <1>0, <1>1, <1>2, <1>3, <2>1, <2>2 DEF CallOf, TickPCs
  <1>6. Calls'
    <2>1. clock <= clock' /\ \A i \in 1..Rates : added[i] <= added'[i] /\ peak[i] <= peak'[i]
      BY <1>1 DEF Types
    <2> QED  BY <1>3, <1>4, <1>5, <2>1, OtherCalls
  <1>7. Averages'
    BY <1>1 DEF Averages, AverageOf
  <1> QED  BY <1>4, <1>6, <1>7

\* tick reads the average.
LEMMA LoadRateStep ==
    ASSUME MeterInv, NEW t \in Thread, LoadRate(t)
    PROVE  MeterInv'
  <1> USE DEF MeterInv
  <1> DEFINE r == th[t]
  <1>0. /\ r \in ThreadState /\ r.i \in 1..Rates /\ CallOf(t)
        /\ r.now \in Nat /\ r.prev \in Nat /\ r.iters \in Nat /\ r.uncounted \in Nat /\ r.rate \in Nat
    BY RecordOf DEF Calls
  <1> DEFINE e == [r EXCEPT !.rate = rate[r.i], !.pc = "average"]
  <1>1. /\ th' = [th EXCEPT ![t] = e] /\ r.pc = "rate"
        /\ UNCHANGED <<clock, buffer, rate, init, lastTick, added, counted, ticks, peak>>
    BY DEF LoadRate, Types, ThreadState, ewma, ghost
  <1>2. /\ e \in ThreadState /\ e.pc = "average" /\ e.now = r.now /\ e.i = r.i /\ e.iters = r.iters
        /\ e.uncounted = r.uncounted /\ e.rate = rate[r.i]
    BY <1>0 DEF ThreadState, TickPCs, Types
  <1>3. /\ th' \in [Thread -> ThreadState] /\ th'[t] = e
        /\ \A u \in Thread : u # t => th'[u] = th[u]
    BY <1>1, <1>2, ThreadSet
  <1>4. Types'
    BY <1>1, <1>3 DEF Types
  <1> HIDE DEF e, r
  <1>5. CallOf(t)'
    <2>1. rate[r.i] <= peak[r.i]
      BY <1>0 DEF Averages, AverageOf
    <2>3. (Instant(th[t].uncounted))' = Instant(th'[t].uncounted)
      BY DEF Instant
    <2> HIDE DEF Instant
    <2> QED  BY <1>0, <1>1, <1>2, <1>3, <2>1, <2>3 DEF r, CallOf, TickPCs
  <1>6. Calls'
    <2>1. clock <= clock' /\ \A i \in 1..Rates : added[i] <= added'[i] /\ peak[i] <= peak'[i]
      BY <1>1 DEF Types
    <2> QED  BY <1>3, <1>4, <1>5, <2>1, OtherCalls
  <1>7. Averages'
    BY <1>1 DEF Averages, AverageOf
  <1> QED  BY <1>4, <1>6, <1>7

\* tick exchanges the average if nobody changed it, or reads it again.
LEMMA SetRateStep ==
    ASSUME MeterInv, NEW t \in Thread, SetRate(t)
    PROVE  MeterInv'
  <1> USE DEF MeterInv
  <1> DEFINE r == th[t]
  <1>0. /\ r \in ThreadState /\ r.i \in 1..Rates /\ CallOf(t)
        /\ r.now \in Nat /\ r.prev \in Nat /\ r.iters \in Nat /\ r.uncounted \in Nat /\ r.rate \in Nat
    BY RecordOf DEF Calls
  <1>a. CASE rate[r.i] # r.rate
    <2> DEFINE e == [r EXCEPT !.pc = "rate"]
    <2>1. /\ th' = [th EXCEPT ![t] = e] /\ r.pc = "average"
          /\ UNCHANGED <<clock, buffer, rate, init, lastTick, added, counted, ticks, peak>>
      BY <1>a DEF SetRate, Types, ThreadState, ghost
    <2>2. /\ e \in ThreadState /\ e.pc = "rate" /\ e.now = r.now /\ e.i = r.i /\ e.iters = r.iters
          /\ e.uncounted = r.uncounted
      BY <1>0 DEF ThreadState, TickPCs
    <2>3. /\ th' \in [Thread -> ThreadState] /\ th'[t] = e
          /\ \A u \in Thread : u # t => th'[u] = th[u]
      BY <2>1, <2>2, ThreadSet
    <2>4. Types'
      BY <2>1, <2>3 DEF Types
    <2> HIDE DEF e, r
    <2>5. CallOf(t)'
      <3>3. (Instant(th[t].uncounted))' = Instant(th'[t].uncounted)
        BY DEF Instant
      <3> HIDE DEF Instant
      <3> QED  BY <1>0, <2>1, <2>2, <2>3, <3>3 DEF r, CallOf, TickPCs
    <2>6. Calls'
      BY <2>1, <2>3, <2>4, <2>5, OtherCalls DEF Types
    <2>7. Averages'
      BY <2>1 DEF Averages, AverageOf
    <2> QED  BY <2>4, <2>6, <2>7
  <1>b. SUFFICES ASSUME rate[r.i] = r.rate PROVE MeterInv'
    BY <1>a
  <1> DEFINE e == Repeat(r)
             x == Average(r.rate, Instant(r.uncounted))
  <1>1. /\ th' = [th EXCEPT ![t] = e] /\ r.pc = "average"
        /\ rate' = [rate EXCEPT ![r.i] = x]
        /\ UNCHANGED <<clock, buffer, init, lastTick, added, counted, ticks, peak>>
    BY <1>b DEF SetRate, ghost
  <1>c. /\ Repeat(r) \in ThreadState
        /\ \/ /\ r.iters > 1 /\ Repeat(r).pc = "value" /\ Repeat(r).iters = r.iters - 1 /\ Repeat(r).i = r.i
              /\ Repeat(r).now = r.now /\ Repeat(r).uncounted = 0
           \/ /\ Repeat(r).pc \in {"idle", "add"} /\ Repeat(r).now = 0 /\ Repeat(r).iters = 0
              /\ Repeat(r).uncounted = 0
    BY <1>0, RepeatState
  <1>2. /\ e \in ThreadState
        /\ \/ e.iters > 0 /\ e.pc = "value" /\ e.iters = r.iters - 1 /\ e.now = r.now /\ e.uncounted = 0
           \/ e.pc \in {"idle", "add"} /\ e.now = 0 /\ e.iters = 0 /\ e.uncounted = 0
    <2> HIDE DEF Repeat, r
    <2> QED  BY <1>0, <1>c
  <1>d. x \in Nat /\ x <= peak[r.i]
    <2>1. Instant(r.uncounted) \in Nat
      BY <1>0, InstantNat
    <2>2. peak[r.i] \in Nat /\ Instant(r.uncounted) <= peak[r.i] /\ r.rate <= peak[r.i]
      BY <1>0, <1>1 DEF CallOf, Types
    <2> HIDE DEF Instant, r
    <2> QED  BY <1>0, <2>1, <2>2, AverageBetween
  <1>3. /\ th' \in [Thread -> ThreadState] /\ th'[t] = e
        /\ \A u \in Thread : u # t => th'[u] = th[u]
    BY <1>1, <1>2, ThreadSet
  <1>4. Types'
    <2> HIDE DEF x, e
    <2>1. rate' \in [1..Rates -> Nat]
      BY <1>0, <1>1, <1>d DEF Types
    <2> QED  BY <1>1, <1>3, <2>1 DEF Types
  <1> HIDE DEF e, r
  <1>5. CallOf(t)'
    <2>1. MaxTime \div KInterval \in Nat /\ clock \in Nat /\ e.i \in 1..Rates /\ added[e.i] \in Nat
      <3>1. e.i \in 1..Rates
        BY <1>2 DEF ThreadState
      <3> QED  BY <3>1, ClockNat DEF Types
    <2>2. r.now <= clock /\ r.iters <= MaxTime \div KInterval
      BY <1>0 DEF r, CallOf
    <2> QED  BY <1>0, <1>1, <1>2, <1>3, <2>1, <2>2 DEF CallOf, TickPCs
  <1>6. Calls'
    <2>1. clock <= clock' /\ \A i \in 1..Rates : added[i] <= added'[i] /\ peak[i] <= peak'[i]
      BY <1>1 DEF Types
    <2> QED  BY <1>3, <1>4, <1>5, <2>1, OtherCalls
  <1>7. Averages'
    <2> SUFFICES ASSUME NEW i \in 1..Rates PROVE AverageOf(i)'
      BY DEF Averages
    <2> HIDE DEF x
    <2>1. AverageOf(i) /\ rate'[i] = IF i = r.i THEN x ELSE rate[i]
      BY <1>0, <1>1 DEF Averages, Types
    <2> QED  BY <1>1, <1>d, <2>1 DEF AverageOf
  <1> QED  BY <1>4, <1>6, <1>7

\* Time passes.
LEMMA TimeStep ==
    ASSUME MeterInv, Tick
    PROVE  MeterInv'
  <1> USE DEF MeterInv
  <1>1. /\ clock < MaxTime /\ clock' = clock + 1 /\ clock \in 0..MaxTime
        /\ UNCHANGED <<buffer, rate, init, lastTick, th, added, counted, ticks, peak>>
    BY DEF Tick, ewma, ghost, Types
  <1>2. Types'
    <2>1. clock' \in 0..MaxTime
      BY <1>1, MeterAssumption
    <2> QED  BY <1>1, <2>1 DEF Types
  <1>3. Calls'
    <2> SUFFICES ASSUME NEW t \in Thread PROVE CallOf(t)'
      BY DEF Calls
    <2>1. CallOf(t) /\ th[t].now \in Nat
      BY RecordOf DEF Calls
    <2>2. (Instant(th[t].uncounted))' = Instant(th[t].uncounted)
      BY <1>1 DEF Instant
    <2> HIDE DEF Instant
    <2> QED  BY <1>1, <2>1, <2>2 DEF CallOf
  <1>4. Averages'
    <2>1. clock \in Nat /\ \A i \in 1..Rates : lastTick[i] \in Nat
      BY ClockNat DEF Types
    <2> QED  BY <1>1, <2>1 DEF Averages, AverageOf
  <1> QED  BY <1>2, <1>3, <1>4

\* The initial state.
LEMMA MeterInit == Init => MeterInv
  <1> SUFFICES ASSUME Init PROVE MeterInv
    OBVIOUS
  <1> USE MeterAssumption
  <1>1. Types
    BY DEF Init, Types, Idle, ThreadState
  <1>2. Calls
    <2> SUFFICES ASSUME NEW t \in Thread PROVE CallOf(t)
      BY DEF Calls
    <2>1. th[t] = Idle /\ clock = 0 /\ added[1] = 0 /\ MaxTime \div KInterval \in Nat
      BY Dividing DEF Init
    <2>2. /\ Idle.now = 0 /\ Idle.iters = 0 /\ Idle.pc = "idle" /\ Idle.uncounted = 0 /\ Idle.i = 1
      BY DEF Idle
    <2> HIDE DEF Idle, Instant
    <2> QED  BY <2>1, <2>2 DEF CallOf, TickPCs
  <1>3. Averages
    BY DEF Init, Averages, AverageOf
  <1> QED  BY <1>1, <1>2, <1>3 DEF MeterInv

\* Every step.
LEMMA MeterStep == MeterInv /\ [Next]_vars => MeterInv'
  <1> SUFFICES ASSUME MeterInv, [Next]_vars PROVE MeterInv'
    OBVIOUS
  <1>1. CASE UNCHANGED vars
    BY <1>1 DEF vars, ewma, ghost, MeterInv, Types, Calls, CallOf, Averages, AverageOf, Instant
  <1>2. CASE Next
    BY <1>2, TimeStep, BeginStep, AddStep, NowStep, LoadLastStep, AdvanceStep, ReadBufferStep, ResetBufferStep,
       FirstRateStep, SetInitStep, LoadRateStep, SetRateStep DEF Next, Step
  <1> QED  BY <1>1, <1>2

-----------------------------------------------------------------------------
(* Counting *)

\* A step of t that neither starts nor ends the time between value() and reset(),
\* and takes no interval.
Quiet(t) ==
    /\ \A u \in Thread : u # t => th'[u] = th[u]
    /\ th[t].pc # "reset" /\ th'[t].pc # "reset"
    /\ th'[t].iters # 0 => th[t].iters # 0 /\ th'[t].i = th[t].i
    /\ UNCHANGED <<buffer, counted, added, raced, overlapped>>

\* Most steps are quiet.
LEMMA QuietSteps ==
    ASSUME MeterInv, NEW t \in Thread,
           \/ Mark(t) \/ ReadRate(t) \/ Now(t) \/ LoadLast(t) \/ FirstRate(t) \/ SetInit(t)
           \/ LoadRate(t) \/ SetRate(t) \/ (Advance(t) /\ ~Wins(th[t]))
    PROVE  Quiet(t)
  <1> DEFINE r == th[t]
  <1> USE DEF ewma, ghost
  <1>0. r \in ThreadState
    BY RecordOf DEF MeterInv
  <1>s. \A e \in ThreadState : th' = [th EXCEPT ![t] = e] =>
          th'[t] = e /\ \A u \in Thread : u # t => th'[u] = th[u]
    BY ThreadSet DEF MeterInv
  <1>t. /\ Ticked(r) \in ThreadState /\ Ticked(r).pc \in {"idle", "add"} /\ Ticked(r).iters = 0
    BY <1>0, TickedState
  <1>p. /\ Repeat(r) \in ThreadState /\ Repeat(r).pc # "reset"
        /\ Repeat(r).iters # 0 => r.iters # 0 /\ Repeat(r).i = r.i
    <2>1. /\ Repeat(r) \in ThreadState
          /\ \/ r.iters > 1 /\ Repeat(r).pc = "value" /\ Repeat(r).iters = r.iters - 1 /\ Repeat(r).i = r.i
             \/ Repeat(r).pc \in {"idle", "add"} /\ Repeat(r).iters = 0
      BY <1>0, RepeatState
    <2> HIDE DEF Repeat, r
    <2> QED  BY <2>1
  <1>1. CASE Mark(t)
    <2> DEFINE e == [Idle EXCEPT !.op = "mark", !.pc = "add"]
    <2>1. /\ th' = [th EXCEPT ![t] = e] /\ r.pc = "idle"
          /\ UNCHANGED <<buffer, counted, added, raced, overlapped>>
      BY <1>0, <1>1 DEF Mark, MeterInv, Types, ThreadState
    <2>2. e \in ThreadState /\ e.pc # "reset" /\ (e.iters # 0 => r.iters # 0 /\ e.i = r.i)
      <3>1. 1 \in 1..Rates
        BY MeterAssumption
      <3> QED  BY <3>1 DEF Idle, ThreadState
    <2> HIDE DEF e
    <2> QED  BY <1>s, <2>1, <2>2 DEF Quiet
  <1>2. CASE ReadRate(t)
    <2>0. PICK i \in 1..Rates : th' = [th EXCEPT ![t] = [Idle EXCEPT !.op = "rate", !.i = i, !.pc = "now"]]
      BY <1>2 DEF ReadRate
    <2> DEFINE e == [Idle EXCEPT !.op = "rate", !.i = i, !.pc = "now"]
    <2>1. /\ th' = [th EXCEPT ![t] = e] /\ r.pc = "idle"
          /\ UNCHANGED <<buffer, counted, added, raced, overlapped>>
      BY <1>2, <2>0 DEF ReadRate
    <2>2. e \in ThreadState /\ e.pc # "reset" /\ e.iters = 0
      BY DEF Idle, ThreadState
    <2> HIDE DEF e
    <2> QED  BY <1>s, <2>1, <2>2 DEF Quiet
  <1>3. CASE Now(t)
    <2> DEFINE e == [r EXCEPT !.now = clock, !.pc = "last"]
    <2>1. /\ th' = [th EXCEPT ![t] = e] /\ r.pc = "now"
          /\ UNCHANGED <<buffer, counted, added, raced, overlapped>>
      BY <1>0, <1>3 DEF Now, MeterInv, Types, ThreadState
    <2>2. e \in ThreadState /\ e.pc # "reset" /\ (e.iters # 0 => r.iters # 0 /\ e.i = r.i)
      BY <1>0, ClockNat DEF ThreadState, MeterInv
    <2> HIDE DEF e
    <2> QED  BY <1>s, <2>1, <2>2 DEF Quiet
  <1>4. CASE LoadLast(t)
    <2> DEFINE e == IF r.now - lastTick[r.i] < KInterval THEN Ticked(r)
                    ELSE [r EXCEPT !.prev = lastTick[r.i], !.pc = "cas"]
    <2>1. /\ th' = [th EXCEPT ![t] = e] /\ r.pc = "last"
          /\ UNCHANGED <<buffer, counted, added, raced, overlapped>>
      BY <1>4 DEF LoadLast
    <2>2. e \in ThreadState /\ e.pc # "reset" /\ (e.iters # 0 => r.iters # 0 /\ e.i = r.i)
      <3> DEFINE f == [r EXCEPT !.prev = lastTick[r.i], !.pc = "cas"]
      <3>0. r.i \in 1..Rates
        BY <1>0 DEF ThreadState
      <3>1. lastTick[r.i] \in Nat
        BY <3>0 DEF Types, MeterInv
      <3>2. f \in ThreadState /\ f.pc = "cas" /\ f.iters = r.iters /\ f.i = r.i
        BY <1>0, <3>1 DEF ThreadState
      <3>3. e = Ticked(r) \/ e = f
        OBVIOUS
      <3> HIDE DEF e, f, r
      <3> QED  BY <1>t, <3>2, <3>3
    <2> HIDE DEF e
    <2> QED  BY <1>s, <2>1, <2>2 DEF Quiet
  <1>5. CASE FirstRate(t)
    <2> DEFINE e == [r EXCEPT !.pc = "init"]
    <2>1. /\ th' = [th EXCEPT ![t] = e] /\ r.pc = "first"
          /\ UNCHANGED <<buffer, counted, added, raced, overlapped>>
      BY <1>0, <1>5 DEF FirstRate, MeterInv, Types, ThreadState
    <2>2. e \in ThreadState /\ e.pc # "reset" /\ (e.iters # 0 => r.iters # 0 /\ e.i = r.i)
      BY <1>0 DEF ThreadState, TickPCs
    <2> HIDE DEF e
    <2> QED  BY <1>s, <2>1, <2>2 DEF Quiet
  <1>6. CASE SetInit(t)
    <2>1. /\ th' = [th EXCEPT ![t] = Repeat(r)] /\ r.pc = "init"
          /\ UNCHANGED <<buffer, counted, added, raced, overlapped>>
      BY <1>6 DEF SetInit
    <2> HIDE DEF Repeat
    <2> QED  BY <1>s, <1>p, <2>1 DEF Quiet
  <1>7. CASE LoadRate(t)
    <2> DEFINE e == [r EXCEPT !.rate = rate[r.i], !.pc = "average"]
    <2>1. /\ th' = [th EXCEPT ![t] = e] /\ r.pc = "rate"
          /\ UNCHANGED <<buffer, counted, added, raced, overlapped>>
      BY <1>0, <1>7 DEF LoadRate, MeterInv, Types, ThreadState
    <2>2. e \in ThreadState /\ e.pc # "reset" /\ (e.iters # 0 => r.iters # 0 /\ e.i = r.i)
      <3>0. r.i \in 1..Rates
        BY <1>0 DEF ThreadState
      <3>1. rate[r.i] \in Nat
        BY <3>0 DEF Types, MeterInv
      <3> QED  BY <1>0, <3>1 DEF ThreadState, TickPCs
    <2> HIDE DEF e
    <2> QED  BY <1>s, <2>1, <2>2 DEF Quiet
  <1>8. CASE SetRate(t)
    <2>1. CASE rate[r.i] = r.rate
      <3>1. /\ th' = [th EXCEPT ![t] = Repeat(r)] /\ r.pc = "average"
            /\ UNCHANGED <<buffer, counted, added, raced, overlapped>>
        BY <1>8, <2>1 DEF SetRate
      <3> HIDE DEF Repeat
      <3> QED  BY <1>s, <1>p, <3>1 DEF Quiet
    <2>2. CASE rate[r.i] # r.rate
      <3> DEFINE e == [r EXCEPT !.pc = "rate"]
      <3>1. /\ th' = [th EXCEPT ![t] = e] /\ r.pc = "average"
            /\ UNCHANGED <<buffer, counted, added, raced, overlapped>>
        BY <1>8, <2>2 DEF SetRate, MeterInv, Types, ThreadState
      <3>2. e \in ThreadState /\ e.pc = "rate" /\ e.iters = r.iters /\ e.i = r.i
        BY <1>0 DEF ThreadState, TickPCs
      <3> HIDE DEF e
      <3> QED  BY <1>s, <3>1, <3>2 DEF Quiet
    <2> QED  BY <2>1, <2>2
  <1>9. CASE Advance(t) /\ ~Wins(r)
    <2>1. /\ th' = [th EXCEPT ![t] = Ticked(r)] /\ r.pc = "cas"
          /\ UNCHANGED <<buffer, counted, added, raced, overlapped>>
      BY <1>9 DEF Advance
    <2> HIDE DEF Ticked
    <2> QED  BY <1>s, <1>t, <2>1 DEF Quiet
  <1> QED  BY <1>1, <1>2, <1>3, <1>4, <1>5, <1>6, <1>7, <1>8, <1>9

\* The threads that took no part keep their places between value() and reset().
LEMMA SameResetting ==
    ASSUME NEW t \in Thread, \A u \in Thread : u # t => th'[u] = th[u],
           th[t].pc # "reset", th'[t].pc # "reset", NEW i \in 1..Rates
    PROVE  Resetting(i)' = Resetting(i) /\ \A u \in Resetting(i) : th'[u] = th[u]
  BY DEF Resetting

\* A quiet step preserves the account.
LEMMA QuietCounts ==
    ASSUME CountInv, NEW t \in Thread, Quiet(t)
    PROVE  OneTicker' /\ Balance'
  <1>1. OneTicker'
    BY DEF CountInv, OneTicker, Quiet
  <1>2. Balance'
    <2> SUFFICES ASSUME ~overlapped, NEW i \in 1..Rates
                 PROVE  /\ Resetting(i)' = {} => Balanced(i, 0)'
                        /\ \A u \in Resetting(i)' : /\ th'[u].uncounted <= buffer'[i]
                                                    /\ ~raced' => th'[u].uncounted = buffer'[i]
                                                    /\ Balanced(i, th[u].uncounted)'
      BY DEF Balance, Quiet
    <2>1. Resetting(i)' = Resetting(i) /\ \A u \in Resetting(i) : th'[u] = th[u]
      BY SameResetting DEF Quiet
    <2>2. /\ Resetting(i) = {} => Balanced(i, 0)
          /\ \A u \in Resetting(i) : /\ th[u].uncounted <= buffer[i]
                                     /\ ~raced => th[u].uncounted = buffer[i]
                                     /\ Balanced(i, th[u].uncounted)
      BY DEF CountInv, Balance
    <2>3. UNCHANGED <<buffer, counted, added, raced>>
      BY DEF Quiet
    <2>4. ASSUME Resetting(i)' = {} PROVE Balanced(i, 0)'
      BY <2>1, <2>2, <2>3, <2>4 DEF Balanced
    <2>5. ASSUME NEW u \in Resetting(i)'
          PROVE  /\ th'[u].uncounted <= buffer'[i] /\ (~raced' => th'[u].uncounted = buffer'[i])
                 /\ Balanced(i, th[u].uncounted)'
      <3>1. u \in Resetting(i) /\ th'[u] = th[u]
        BY <2>1
      <3> QED  BY <2>2, <2>3, <3>1 DEF Balanced
    <2> QED  BY <2>4, <2>5
  <1> QED  BY <1>1, <1>2

\* An event added is in the account; added between value() and reset() it is a race.
LEMMA AddCounts ==
    ASSUME CountInv, NEW t \in Thread, Add(t)
    PROVE  OneTicker' /\ Balance'
  <1> USE DEF CountInv
  <1> DEFINE r == th[t]
  <1>0. r \in ThreadState /\ r.i \in 1..Rates /\ CallOf(t)
    BY RecordOf DEF MeterInv, Calls
  <1>s. \A e \in ThreadState : th' = [th EXCEPT ![t] = e] =>
          th'[t] = e /\ \A u \in Thread : u # t => th'[u] = th[u]
    BY ThreadSet DEF MeterInv
  <1>1. /\ \A u \in Thread : u # t => th'[u] = th[u]
        /\ r.pc = "add" /\ th'[t].pc = "now" /\ th'[t].iters = r.iters /\ th'[t].i = r.i
        /\ buffer' = [buffer EXCEPT ![r.i] = @ + 1] /\ added' = [added EXCEPT ![r.i] = @ + 1]
        /\ raced' = (raced \/ Resetting(r.i) # {}) /\ UNCHANGED <<counted, overlapped>>
    <2> DEFINE e == [r EXCEPT !.pc = "now"]
    <2>1. e \in ThreadState /\ e.pc = "now" /\ e.iters = r.iters /\ e.i = r.i
      BY <1>0 DEF ThreadState
    <2>2. th' = [th EXCEPT ![t] = e]
      BY DEF Add, MeterInv, Types, ThreadState
    <2>3. th'[t] = e /\ \A u \in Thread : u # t => th'[u] = th[u]
      BY <1>s, <2>1, <2>2
    <2> HIDE DEF e
    <2> QED  BY <2>1, <2>3 DEF Add
  <1> HIDE DEF r
  <1>2. OneTicker'
    BY <1>1 DEF OneTicker, r
  <1>3. Balance'
    <2> SUFFICES ASSUME ~overlapped, NEW i \in 1..Rates
                 PROVE  /\ Resetting(i)' = {} => Balanced(i, 0)'
                        /\ \A u \in Resetting(i)' : /\ th'[u].uncounted <= buffer'[i]
                                                    /\ ~raced' => th'[u].uncounted = buffer'[i]
                                                    /\ Balanced(i, th[u].uncounted)'
      BY <1>1 DEF Balance
    <2>b. /\ Resetting(i) = {} => Balanced(i, 0)
          /\ \A u \in Resetting(i) : /\ th[u].uncounted <= buffer[i]
                                     /\ ~raced => th[u].uncounted = buffer[i]
                                     /\ Balanced(i, th[u].uncounted)
      BY DEF CountInv, Balance
    <2>n. /\ buffer[i] \in Nat /\ counted[i] \in Nat /\ added[i] \in Nat
          /\ \A u \in Thread : th[u].uncounted \in Nat
      BY RecordOf DEF MeterInv, Types
    <2>1. Resetting(i)' = Resetting(i) /\ \A u \in Resetting(i) : th'[u] = th[u]
      BY <1>1, SameResetting DEF r
    <2>2. /\ buffer'[i] = IF i = r.i THEN buffer[i] + 1 ELSE buffer[i]
          /\ added'[i] = IF i = r.i THEN added[i] + 1 ELSE added[i]
      BY <1>0, <1>1 DEF MeterInv, Types
    <2>3. /\ counted' = counted /\ (~raced' => ~raced) /\ (i = r.i /\ Resetting(i) # {} => raced')
      BY <1>1
    <2>4. ASSUME Resetting(i)' = {} PROVE Balanced(i, 0)'
      <3>1. Balanced(i, 0)
        BY <2>b, <2>1, <2>4
      <3> QED  BY <2>n, <2>2, <2>3, <3>1 DEF Balanced
    <2>5. ASSUME NEW u \in Resetting(i)'
          PROVE  /\ th'[u].uncounted <= buffer'[i] /\ (~raced' => th'[u].uncounted = buffer'[i])
                 /\ Balanced(i, th[u].uncounted)'
      <3>1. u \in Resetting(i) /\ th'[u] = th[u] /\ th[u].uncounted \in Nat
        BY <2>1, <2>n DEF Resetting
      <3>2. /\ th[u].uncounted <= buffer[i] /\ (~raced => th[u].uncounted = buffer[i])
            /\ Balanced(i, th[u].uncounted)
        BY <2>b, <3>1
      <3>3. i = r.i => raced'
        BY <2>3, <3>1
      <3> QED  BY <2>n, <2>2, <2>3, <3>1, <3>2, <3>3 DEF Balanced
    <2> QED  BY <2>4, <2>5
  <1> QED  BY <1>2, <1>3

\* A thread that takes intervals is the only one ticking, or the ticks overlap.
LEMMA AdvanceCounts ==
    ASSUME CountInv, NEW t \in Thread, Advance(t), Wins(th[t])
    PROVE  OneTicker' /\ Balance'
  <1> USE DEF CountInv
  <1> DEFINE r == th[t]
  <1>0. r \in ThreadState /\ r.i \in 1..Rates /\ CallOf(t)
    BY RecordOf DEF MeterInv, Calls
  <1>s. \A e \in ThreadState : th' = [th EXCEPT ![t] = e] =>
          th'[t] = e /\ \A u \in Thread : u # t => th'[u] = th[u]
    BY ThreadSet DEF MeterInv
  <1>1. /\ \A u \in Thread : u # t => th'[u] = th[u]
        /\ r.pc = "cas" /\ th'[t].pc = "value" /\ th'[t].i = r.i
        /\ UNCHANGED <<buffer, added, counted, raced>>
        /\ overlapped' = (overlapped \/ Ticking(r.i) # {})
    <2> DEFINE e == [r EXCEPT !.iters = Iterations(r), !.prev = 0, !.now = 0, !.pc = "value"]
    <2>1. e.pc = "value" /\ e.i = r.i
      BY <1>0 DEF ThreadState
    <2>2. th' = [th EXCEPT ![t] = e]
      BY DEF Advance, MeterInv, Types, ThreadState
    <2>3. th'[t] = e /\ \A u \in Thread : u # t => th'[u] = th[u]
      BY <2>2 DEF MeterInv, Types
    <2> HIDE DEF e
    <2> QED  BY <2>1, <2>3 DEF Advance
  <1>2. OneTicker'
    <2> SUFFICES ASSUME ~overlapped', NEW u \in Thread, NEW w \in Thread, u # w,
                        th'[u].iters # 0, th'[w].iters # 0
                 PROVE  th'[u].i # th'[w].i
      BY DEF OneTicker
    <2>1. ~overlapped /\ Ticking(r.i) = {}
      BY <1>1
    <2>2. \A v \in Thread : th[v].iters # 0 => th[v].i # r.i
      <3> SUFFICES ASSUME NEW v \in Thread, th[v].iters # 0 PROVE th[v].i # r.i
        OBVIOUS
      <3>1. th[v].iters > 0
        BY RecordOf DEF MeterInv
      <3> QED  BY <2>1, <3>1 DEF Ticking
    <2>3. CASE u = t
      <3>1. th'[w] = th[w] /\ th'[u].i = r.i
        BY <1>1, <2>3
      <3> QED  BY <2>2, <3>1
    <2>4. CASE w = t
      <3>1. th'[u] = th[u] /\ th'[w].i = r.i
        BY <1>1, <2>4
      <3> QED  BY <2>2, <3>1
    <2>5. CASE u # t /\ w # t
      BY <1>1, <2>1, <2>5 DEF OneTicker
    <2> QED  BY <2>3, <2>4, <2>5
  <1> HIDE DEF r
  <1>3. Balance'
    <2> SUFFICES ASSUME ~overlapped, NEW i \in 1..Rates
                 PROVE  /\ Resetting(i)' = {} => Balanced(i, 0)'
                        /\ \A u \in Resetting(i)' : /\ th'[u].uncounted <= buffer'[i]
                                                    /\ ~raced' => th'[u].uncounted = buffer'[i]
                                                    /\ Balanced(i, th[u].uncounted)'
      BY <1>1 DEF Balance
    <2>b. /\ Resetting(i) = {} => Balanced(i, 0)
          /\ \A u \in Resetting(i) : /\ th[u].uncounted <= buffer[i]
                                     /\ ~raced => th[u].uncounted = buffer[i]
                                     /\ Balanced(i, th[u].uncounted)
      BY DEF CountInv, Balance
    <2>n. /\ buffer[i] \in Nat /\ counted[i] \in Nat /\ added[i] \in Nat
          /\ \A u \in Thread : th[u].uncounted \in Nat
      BY RecordOf DEF MeterInv, Types
    <2>1. Resetting(i)' = Resetting(i) /\ \A u \in Resetting(i) : th'[u] = th[u]
      BY <1>1, SameResetting DEF r
    <2>4. ASSUME Resetting(i)' = {} PROVE Balanced(i, 0)'
      BY <1>1, <2>b, <2>1, <2>4 DEF Balanced
    <2>5. ASSUME NEW u \in Resetting(i)'
          PROVE  /\ th'[u].uncounted <= buffer'[i] /\ (~raced' => th'[u].uncounted = buffer'[i])
                 /\ Balanced(i, th[u].uncounted)'
      <3>1. u \in Resetting(i) /\ th'[u] = th[u]
        BY <2>1
      <3> QED  BY <1>1, <2>b, <3>1 DEF Balanced
    <2> QED  BY <2>4, <2>5
  <1> QED  BY <1>2, <1>3

\* What value() read is counted, and in hand until reset().
LEMMA ReadBufferCounts ==
    ASSUME CountInv, NEW t \in Thread, ReadBuffer(t)
    PROVE  OneTicker' /\ Balance'
  <1> USE DEF CountInv
  <1> DEFINE r == th[t]
  <1>0. r \in ThreadState /\ r.i \in 1..Rates /\ CallOf(t)
    BY RecordOf DEF MeterInv, Calls
  <1>s. \A e \in ThreadState : th' = [th EXCEPT ![t] = e] =>
          th'[t] = e /\ \A u \in Thread : u # t => th'[u] = th[u]
    BY ThreadSet DEF MeterInv
  <1>1. /\ \A u \in Thread : u # t => th'[u] = th[u]
        /\ r.pc = "value" /\ th'[t].pc = "reset" /\ th'[t].iters = r.iters /\ th'[t].i = r.i
        /\ th'[t].uncounted = buffer[r.i]
        /\ counted' = [counted EXCEPT ![r.i] = @ + buffer[r.i]]
        /\ UNCHANGED <<buffer, added, raced, overlapped>>
    <2> DEFINE e == [r EXCEPT !.uncounted = buffer[r.i], !.pc = "reset"]
    <2>0. buffer[r.i] \in Nat
      BY <1>0 DEF MeterInv, Types
    <2>1. e \in ThreadState /\ e.pc = "reset" /\ e.iters = r.iters /\ e.i = r.i /\ e.uncounted = buffer[r.i]
      BY <1>0, <2>0 DEF ThreadState, TickPCs
    <2>2. th' = [th EXCEPT ![t] = e]
      BY DEF ReadBuffer, MeterInv, Types, ThreadState
    <2>3. th'[t] = e /\ \A u \in Thread : u # t => th'[u] = th[u]
      BY <1>s, <2>1, <2>2
    <2> HIDE DEF e
    <2> QED  BY <2>1, <2>3 DEF ReadBuffer, ewma
  <1> HIDE DEF r
  <1>2. OneTicker'
    BY <1>1 DEF OneTicker, r
  <1>3. Balance'
    <2> SUFFICES ASSUME ~overlapped, NEW i \in 1..Rates
                 PROVE  /\ Resetting(i)' = {} => Balanced(i, 0)'
                        /\ \A u \in Resetting(i)' : /\ th'[u].uncounted <= buffer'[i]
                                                    /\ ~raced' => th'[u].uncounted = buffer'[i]
                                                    /\ Balanced(i, th[u].uncounted)'
      BY <1>1 DEF Balance
    <2>b. /\ Resetting(i) = {} => Balanced(i, 0)
          /\ \A u \in Resetting(i) : /\ th[u].uncounted <= buffer[i]
                                     /\ ~raced => th[u].uncounted = buffer[i]
                                     /\ Balanced(i, th[u].uncounted)
      BY DEF CountInv, Balance
    <2>n. /\ buffer[i] \in Nat /\ counted[i] \in Nat /\ added[i] \in Nat
          /\ \A u \in Thread : th[u].uncounted \in Nat
      BY RecordOf DEF MeterInv, Types
    <2>a. i = r.i => \A u \in Resetting(i) : u = t
      <3> SUFFICES ASSUME i = r.i, NEW u \in Resetting(i), u # t PROVE FALSE
        OBVIOUS
      <3>1. u \in Thread /\ th[u].i = r.i /\ th[u].pc = "reset"
        BY DEF Resetting
      <3>2. th[u].iters # 0 /\ r.iters # 0
        BY <1>0, <1>1, <3>1 DEF MeterInv, Calls, CallOf, TickPCs, r
      <3> QED  BY <3>1, <3>2 DEF OneTicker, r
    <2>1. i = r.i => Resetting(i) = {}
      <3>1. t \notin Resetting(i)
        BY <1>1 DEF Resetting, r
      <3> QED  BY <2>a, <3>1
    <2>2. counted'[i] = IF i = r.i THEN counted[i] + buffer[i] ELSE counted[i]
      BY <1>0, <1>1 DEF MeterInv, Types
    <2>3. \A u \in Thread : u \in Resetting(i)' <=> (u # t /\ u \in Resetting(i)) \/ (u = t /\ i = r.i)
      BY <1>1 DEF Resetting, r
    <2>4. ASSUME Resetting(i)' = {} PROVE Balanced(i, 0)'
      <3>1. i # r.i /\ Resetting(i) = {}
        BY <1>1, <2>3, <2>4 DEF Resetting, r
      <3> QED  BY <1>1, <2>b, <2>2, <3>1 DEF Balanced
    <2>5. ASSUME NEW u \in Resetting(i)'
          PROVE  /\ th'[u].uncounted <= buffer'[i] /\ (~raced' => th'[u].uncounted = buffer'[i])
                 /\ Balanced(i, th[u].uncounted)'
      <3>0. u \in Thread
        BY DEF Resetting
      <3>1. CASE u # t
        <4>1. u \in Resetting(i) /\ i # r.i /\ th'[u] = th[u]
          BY <1>1, <2>1, <2>3, <3>0, <3>1
        <4> QED  BY <1>1, <2>b, <2>2, <4>1 DEF Balanced
      <3>2. CASE u = t
        <4>1. i = r.i /\ Resetting(i) = {} /\ Balanced(i, 0)
          BY <1>1, <2>b, <2>1, <2>3, <3>2
        <4>2. th'[u].uncounted = buffer[i] /\ buffer'[i] = buffer[i] /\ counted'[i] = counted[i] + buffer[i]
          BY <1>1, <2>2, <3>2, <4>1
        <4> QED  BY <1>1, <2>n, <4>1, <4>2 DEF Balanced
      <3> QED  BY <3>1, <3>2
    <2> QED  BY <2>4, <2>5
  <1> QED  BY <1>2, <1>3

\* reset() takes what was counted, and what came since value().
LEMMA ResetBufferCounts ==
    ASSUME CountInv, NEW t \in Thread, ResetBuffer(t)
    PROVE  OneTicker' /\ Balance'
  <1> USE DEF CountInv
  <1> DEFINE r == th[t]
  <1>0. r \in ThreadState /\ r.i \in 1..Rates /\ CallOf(t)
    BY RecordOf DEF MeterInv, Calls
  <1>s. \A e \in ThreadState : th' = [th EXCEPT ![t] = e] =>
          th'[t] = e /\ \A u \in Thread : u # t => th'[u] = th[u]
    BY ThreadSet DEF MeterInv
  <1>1. /\ \A u \in Thread : u # t => th'[u] = th[u]
        /\ r.pc = "reset" /\ th'[t].pc # "reset" /\ th'[t].iters = r.iters /\ th'[t].i = r.i
        /\ buffer' = [buffer EXCEPT ![r.i] = 0]
        /\ UNCHANGED <<counted, added, raced, overlapped>>
    <2> DEFINE e == [r EXCEPT !.pc = IF init[r.i] THEN "rate" ELSE "first"]
    <2>1. e \in ThreadState /\ e.pc # "reset" /\ e.iters = r.iters /\ e.i = r.i
      BY <1>0 DEF ThreadState, TickPCs
    <2>2. th' = [th EXCEPT ![t] = e]
      BY DEF ResetBuffer, MeterInv, Types, ThreadState
    <2>3. th'[t] = e /\ \A u \in Thread : u # t => th'[u] = th[u]
      BY <1>s, <2>1, <2>2
    <2> HIDE DEF e
    <2> QED  BY <2>1, <2>3 DEF ResetBuffer, Emptied, ghost
  <1> HIDE DEF r
  <1>2. OneTicker'
    BY <1>1 DEF OneTicker, r
  <1>3. Balance'
    <2> SUFFICES ASSUME ~overlapped, NEW i \in 1..Rates
                 PROVE  /\ Resetting(i)' = {} => Balanced(i, 0)'
                        /\ \A u \in Resetting(i)' : /\ th'[u].uncounted <= buffer'[i]
                                                    /\ ~raced' => th'[u].uncounted = buffer'[i]
                                                    /\ Balanced(i, th[u].uncounted)'
      BY <1>1 DEF Balance
    <2>b. /\ Resetting(i) = {} => Balanced(i, 0)
          /\ \A u \in Resetting(i) : /\ th[u].uncounted <= buffer[i]
                                     /\ ~raced => th[u].uncounted = buffer[i]
                                     /\ Balanced(i, th[u].uncounted)
      BY DEF CountInv, Balance
    <2>n. /\ buffer[i] \in Nat /\ counted[i] \in Nat /\ added[i] \in Nat
          /\ \A u \in Thread : th[u].uncounted \in Nat
      BY RecordOf DEF MeterInv, Types
    <2>a. i = r.i => \A u \in Resetting(i) : u = t
      <3> SUFFICES ASSUME i = r.i, NEW u \in Resetting(i), u # t PROVE FALSE
        OBVIOUS
      <3>1. u \in Thread /\ th[u].i = r.i /\ th[u].pc = "reset"
        BY DEF Resetting
      <3>2. th[u].iters # 0 /\ r.iters # 0
        BY <1>0, <1>1, <3>1 DEF MeterInv, Calls, CallOf, TickPCs, r
      <3> QED  BY <3>1, <3>2 DEF OneTicker, r
    <2>2. buffer'[i] = IF i = r.i THEN 0 ELSE buffer[i]
      BY <1>0, <1>1 DEF MeterInv, Types
    <2>3. \A u \in Thread : u \in Resetting(i)' <=> u # t /\ u \in Resetting(i)
      BY <1>1 DEF Resetting, r
    <2>4. ASSUME Resetting(i)' = {} PROVE Balanced(i, 0)'
      <3>1. CASE i = r.i
        <4>1. t \in Resetting(i) /\ r.uncounted \in Nat
          BY <1>1, <2>n, <3>1 DEF Resetting, r
        <4>2. r.uncounted <= buffer[i] /\ (~raced => r.uncounted = buffer[i]) /\ Balanced(i, r.uncounted)
          BY <2>b, <4>1 DEF r
        <4> QED  BY <1>1, <2>n, <2>2, <3>1, <4>1, <4>2 DEF Balanced
      <3>2. CASE i # r.i
        <4>1. Resetting(i) = {}
          BY <2>3, <2>4, <3>2 DEF Resetting, r
        <4> QED  BY <1>1, <2>b, <2>2, <3>2, <4>1 DEF Balanced
      <3> QED  BY <3>1, <3>2
    <2>5. ASSUME NEW u \in Resetting(i)'
          PROVE  /\ th'[u].uncounted <= buffer'[i] /\ (~raced' => th'[u].uncounted = buffer'[i])
                 /\ Balanced(i, th[u].uncounted)'
      <3>0. u \in Thread
        BY DEF Resetting
      <3>1. u # t /\ u \in Resetting(i) /\ i # r.i /\ th'[u] = th[u]
        BY <1>1, <2>a, <2>3, <3>0
      <3> QED  BY <1>1, <2>b, <2>2, <3>1 DEF Balanced
    <2> QED  BY <2>4, <2>5
  <1> QED  BY <1>2, <1>3

\* Every step preserves the account.
LEMMA CountStep == CountInv /\ [Next]_vars => CountInv'
  <1> SUFFICES ASSUME CountInv, [Next]_vars PROVE CountInv'
    OBVIOUS
  <1>1. MeterInv'
    BY MeterStep DEF CountInv
  <1>2. OneTicker' /\ Balance'
    <2>1. CASE UNCHANGED vars \/ Tick
      <3>1. UNCHANGED <<th, buffer, counted, added, raced, overlapped>>
        BY <2>1 DEF vars, ewma, ghost, Tick
      <3> QED  BY <3>1 DEF CountInv, OneTicker, Balance, Balanced, Resetting
    <2>2. CASE \E t \in Thread : Step(t) \/ Mark(t) \/ ReadRate(t)
      <3>1. PICK t \in Thread : Step(t) \/ Mark(t) \/ ReadRate(t)
        BY <2>2
      <3>2. CASE \/ Mark(t) \/ ReadRate(t) \/ Now(t) \/ LoadLast(t) \/ FirstRate(t) \/ SetInit(t)
                 \/ LoadRate(t) \/ SetRate(t) \/ (Advance(t) /\ ~Wins(th[t]))
        <4>1. MeterInv
          BY DEF CountInv
        <4>2. Quiet(t)
          BY <3>2, <4>1, QuietSteps
        <4> QED  BY <4>2, QuietCounts
      <3>3. CASE Add(t)
        BY <3>3, AddCounts
      <3>4. CASE Advance(t)
        <4>1. CASE Wins(th[t])
          BY <3>4, <4>1, AdvanceCounts
        <4>2. CASE ~Wins(th[t])
          BY <3>2, <3>4, <4>2
        <4> QED  BY <4>1, <4>2
      <3>5. CASE ReadBuffer(t)
        BY <3>5, ReadBufferCounts
      <3>6. CASE ResetBuffer(t)
        BY <3>6, ResetBufferCounts
      <3> QED  BY <3>1, <3>2, <3>3, <3>4, <3>5, <3>6 DEF Step
    <2> QED  BY <2>1, <2>2 DEF Next
  <1> QED  BY <1>1, <1>2 DEF CountInv

\* Nothing is added, counted or ticking at first.
LEMMA CountInit == Init => CountInv
  <1> SUFFICES ASSUME Init PROVE CountInv
    OBVIOUS
  <1>1. MeterInv
    BY MeterInit
  <1>2. \A t \in Thread : th[t].iters = 0 /\ th[t].pc = "idle"
    BY DEF Init, Idle
  <1>3. OneTicker
    BY <1>2 DEF OneTicker
  <1>4. Balance
    <2>1. \A i \in 1..Rates : Resetting(i) = {} /\ counted[i] = 0 /\ buffer[i] = 0 /\ added[i] = 0
      BY <1>2 DEF Resetting, Init
    <2> QED  BY <2>1 DEF Balance, Balanced
  <1> QED  BY <1>1, <1>3, <1>4 DEF CountInv

-----------------------------------------------------------------------------

\* An average ticks at most once per interval of its life, however many threads find
\* a tick due at the same time (tickIfNecessary).
THEOREM Paced == Spec => []TicksPaced
  <1>1. MeterInv => TicksPaced
    <2> SUFFICES ASSUME MeterInv PROVE TicksPaced
      OBVIOUS
    <2>1. ASSUME NEW i \in 1..Rates
          PROVE  /\ buffer[i] \in 0..added[i] /\ rate[i] \in Nat /\ init[i] \in BOOLEAN
                 /\ lastTick[i] \in 0..clock /\ ticks[i] * KInterval <= lastTick[i]
      <3>1. buffer[i] \in Nat /\ added[i] \in Nat /\ rate[i] \in Nat /\ lastTick[i] \in Nat
        BY DEF MeterInv, Types
      <3>2. init[i] \in BOOLEAN
        BY Zenon DEF MeterInv, Types
      <3>3. AverageOf(i) /\ clock \in Nat
        BY ClockNat DEF MeterInv, Averages
      <3> QED  BY <3>1, <3>2, <3>3 DEF AverageOf
    <2>2. ASSUME NEW t \in Thread
          PROVE  th[t].iters \in 0..(MaxTime \div KInterval) /\ th[t].uncounted \in 0..added[th[t].i]
      <3>1. th[t].iters \in Nat /\ th[t].uncounted \in Nat /\ th[t].i \in 1..Rates
        BY RecordOf DEF MeterInv
      <3>2. added[th[t].i] \in Nat /\ MaxTime \div KInterval \in Nat
        BY <3>1, ClockNat DEF MeterInv, Types
      <3>3. th[t].iters <= MaxTime \div KInterval /\ th[t].uncounted <= added[th[t].i]
        BY DEF MeterInv, Calls, CallOf
      <3> QED  BY <3>1, <3>2, <3>3
    <2> QED  BY <2>1, <2>2 DEF TicksPaced, TypeOK
  <1> QED  BY <1>1, MeterInit, MeterStep, PTL DEF Spec

\* The average lies between zero and the highest instant rate, also when ticks overlap
\* and the first one stores rate_ and init_ apart (tick).
THEOREM Bounded == Spec => []RateBounded
  <1>1. MeterInv => RateBounded
    <2> SUFFICES ASSUME MeterInv, NEW i \in 1..Rates PROVE rate[i] \in 0..peak[i]
      BY DEF RateBounded
    <2>1. rate[i] \in Nat /\ peak[i] \in Nat /\ rate[i] <= peak[i]
      BY DEF MeterInv, Types, Averages, AverageOf
    <2> QED  BY <2>1
  <1> QED  BY <1>1, MeterInit, MeterStep, PTL DEF Spec

\* While no two ticks of an average run at a time no event is counted twice, and none
\* is lost except those added between value() and reset() (tick).
THEOREM Counted == Spec => []CountedOnce
  <1>1. CountInv => CountedOnce
    <2> SUFFICES ASSUME CountInv, ~overlapped, NEW i \in 1..Rates, NEW n \in InHand(i) PROVE Balanced(i, n)
      BY DEF CountedOnce, Balanced
    <2>1. CASE Resetting(i) = {}
      BY <2>1 DEF InHand, CountInv, Balance
    <2>2. CASE Resetting(i) # {}
      <3>1. PICK t \in Resetting(i) : n = th[t].uncounted
        BY <2>2 DEF InHand
      <3> QED  BY <3>1 DEF CountInv, Balance
    <2> QED  BY <2>1, <2>2
  <1> QED  BY <1>1, CountInit, CountStep, PTL DEF Spec

=============================================================================
