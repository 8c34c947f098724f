------------------------------- MODULE Meter -------------------------------
(***************************************************************************)
(* The rates of src/metrics/meter_impl.{h,cc}: RateEWMA's update, rate,    *)
(* tickIfNecessary and tick, and MeterImpl, which feeds several of them    *)
(* (three in the code) one after the other.                                *)
(*                                                                         *)
(* The buffer of events is a Striped64 whose add, value and reset take     *)
(* effect at one moment.  Rates are integers, in units of 1/Unit, and      *)
(* alpha_ is 1/2: with Unit = 2^MaxTime the decay of MaxTime intervals is  *)
(* exact.  Time is counted in units of which kInterval is a multiple.      *)
(***************************************************************************)
EXTENDS Integers, FiniteSets, FiniteSetsExt

CONSTANTS
    Thread,
    Rates,      \* the averages of the meter are 1..Rates
    KInterval,  \* kInterval
    Unit,       \* the rate 1
    MaxTime,    \* bound on the clock
    MaxMarks,   \* bound on the calls of mark of each thread
    MaxReads    \* bound on the calls that read a rate, per thread

ASSUME MeterAssumption ==
    /\ Rates \in Nat \ {0} /\ KInterval \in Nat \ {0}
    /\ Unit \in Nat \ {0} /\ MaxTime \in Nat

VARIABLES
    clock,
    buffer, rate, init, lastTick,   \* buffer_, rate_, init_ and last_tick_ of each average
    th,                             \* each thread's program counter and locals
    marks, reads,                   \* the calls each thread made
    added, counted, ticks,          \* events added, events ticks counted, ticks due, per average
    peak,                           \* the highest instant rate so far, per average
    overlapped, raced               \* two ticks ran at a time; an event came between value() and reset()

ewma == <<buffer, rate, init, lastTick>>
calls == <<marks, reads>>
ghost == <<added, counted, ticks, peak, overlapped, raced>>
vars == <<clock, ewma, th, calls, ghost>>

Idle == [pc |-> "idle", op |-> "none", i |-> 1, now |-> 0, prev |-> 0, iters |-> 0, uncounted |-> 0, rate |-> 0]

Ticking(i) == {t \in Thread : th[t].i = i /\ th[t].iters > 0}
Resetting(i) == {t \in Thread : th[t].i = i /\ th[t].pc = "reset"}

-----------------------------------------------------------------------------

Tick ==
    /\ clock < MaxTime
    /\ clock' = clock + 1
    /\ UNCHANGED <<ewma, th, calls, ghost>>

Mark(t) ==
    /\ th[t].pc = "idle"
    /\ marks[t] < MaxMarks[t]
    /\ marks' = [marks EXCEPT ![t] = @ + 1]
    /\ th' = [th EXCEPT ![t] = [Idle EXCEPT !.op = "mark", !.pc = "add"]]
    /\ UNCHANGED <<clock, ewma, reads, ghost>>

\* oneMinuteRate, fiveMinuteRate, fifteenMinuteRate.
ReadRate(t) ==
    /\ th[t].pc = "idle"
    /\ reads[t] < MaxReads[t]
    /\ reads' = [reads EXCEPT ![t] = @ + 1]
    /\ \E i \in 1..Rates : th' = [th EXCEPT ![t] = [Idle EXCEPT !.op = "rate", !.i = i, !.pc = "now"]]
    /\ UNCHANGED <<clock, ewma, marks, ghost>>

Add(t) ==
    LET i == th[t].i IN
    /\ th[t].pc = "add"
    /\ buffer' = [buffer EXCEPT ![i] = @ + 1]
    /\ added' = [added EXCEPT ![i] = @ + 1]
    /\ raced' = (raced \/ Resetting(i) # {})
    /\ th' = [th EXCEPT ![t].pc = "now"]
    /\ UNCHANGED <<clock, rate, init, lastTick, calls, counted, ticks, peak, overlapped>>

\* After tickIfNecessary mark goes on to the next average; rate reads rate_.
Ticked(r) ==
    IF r.op = "mark" /\ r.i < Rates THEN [Idle EXCEPT !.op = "mark", !.i = r.i + 1, !.pc = "add"]
    ELSE Idle

Now(t) ==
    /\ th[t].pc = "now"
    /\ th' = [th EXCEPT ![t].now = clock, ![t].pc = "last"]
    /\ UNCHANGED <<clock, ewma, calls, ghost>>

\* The clock was read before last_tick_: the difference may be negative.
LoadLast(t) ==
    LET r == th[t] IN
    /\ r.pc = "last"
    /\ th' = [th EXCEPT ![t] = IF r.now - lastTick[r.i] < KInterval THEN Ticked(r)
                               ELSE [r EXCEPT !.prev = lastTick[r.i], !.pc = "cas"]]
    /\ UNCHANGED <<clock, ewma, calls, ghost>>

\* Mutant: last_tick_ is stored without comparing.
Wins_Store(r) == TRUE

Wins(r) == lastTick[r.i] = r.prev

Iterations(r) == (r.now - r.prev) \div KInterval

\* One thread takes the intervals up to now and ticks once for each.
Advance(t) ==
    LET r == th[t] IN
    /\ r.pc = "cas"
    /\ IF Wins(r)
       THEN /\ lastTick' = [lastTick EXCEPT ![r.i] = r.now]
            /\ th' = [th EXCEPT ![t].iters = Iterations(r), ![t].prev = 0, ![t].now = 0, ![t].pc = "value"]
            /\ ticks' = [ticks EXCEPT ![r.i] = @ + Iterations(r)]
            /\ overlapped' = (overlapped \/ Ticking(r.i) # {})
       ELSE /\ th' = [th EXCEPT ![t] = Ticked(r)]
            /\ UNCHANGED <<lastTick, ticks, overlapped>>
    /\ UNCHANGED <<clock, buffer, rate, init, calls, added, counted, peak, raced>>

-----------------------------------------------------------------------------
(* tick *)

Instant(n) == (n * Unit) \div KInterval

ReadBuffer(t) ==
    LET r == th[t] IN
    /\ r.pc = "value"
    /\ th' = [th EXCEPT ![t].uncounted = buffer[r.i], ![t].pc = "reset"]
    /\ counted' = [counted EXCEPT ![r.i] = @ + buffer[r.i]]
    /\ peak' = [peak EXCEPT ![r.i] = Max({@, Instant(buffer[r.i])})]
    /\ UNCHANGED <<clock, ewma, calls, added, ticks, overlapped, raced>>

\* Mutant: what was counted stays in the buffer.
Emptied_Kept(n) == n

\* buffer_.reset() also takes the events added since value().
Emptied(n) == 0

ResetBuffer(t) ==
    LET r == th[t] IN
    /\ r.pc = "reset"
    /\ buffer' = [buffer EXCEPT ![r.i] = Emptied(@)]
    /\ th' = [th EXCEPT ![t].pc = IF init[r.i] THEN "rate" ELSE "first"]
    /\ UNCHANGED <<clock, rate, init, lastTick, calls, ghost>>

\* Mutant: the iterations are not counted down.
Repeat_Forever(r) == [r EXCEPT !.uncounted = 0, !.rate = 0, !.pc = "value"]

\* The loop in tickIfNecessary.
Repeat(r) ==
    IF r.iters > 1 THEN [r EXCEPT !.iters = @ - 1, !.uncounted = 0, !.rate = 0, !.pc = "value"]
    ELSE Ticked(r)

FirstRate(t) ==
    LET r == th[t] IN
    /\ r.pc = "first"
    /\ rate' = [rate EXCEPT ![r.i] = Instant(r.uncounted)]
    /\ th' = [th EXCEPT ![t].pc = "init"]
    /\ UNCHANGED <<clock, buffer, init, lastTick, calls, ghost>>

SetInit(t) ==
    LET r == th[t] IN
    /\ r.pc = "init"
    /\ init' = [init EXCEPT ![r.i] = TRUE]
    /\ th' = [th EXCEPT ![t] = Repeat(r)]
    /\ UNCHANGED <<clock, buffer, rate, lastTick, calls, ghost>>

LoadRate(t) ==
    LET r == th[t] IN
    /\ r.pc = "rate"
    /\ th' = [th EXCEPT ![t].rate = rate[r.i], ![t].pc = "average"]
    /\ UNCHANGED <<clock, ewma, calls, ghost>>

\* Mutant: the old rate is not taken off.
Average_Adds(old, instant) == old + instant \div 2

\* rate + alpha_ * (instant - rate).
Average(old, instant) == old + (instant - old) \div 2

SetRate(t) ==
    LET r == th[t] IN
    /\ r.pc = "average"
    /\ IF rate[r.i] = r.rate
       THEN /\ rate' = [rate EXCEPT ![r.i] = Average(r.rate, Instant(r.uncounted))]
            /\ th' = [th EXCEPT ![t] = Repeat(r)]
       ELSE th' = [th EXCEPT ![t].pc = "rate"] /\ UNCHANGED rate
    /\ UNCHANGED <<clock, buffer, init, lastTick, calls, ghost>>

Init ==
    /\ clock = 0
    /\ buffer = [i \in 1..Rates |-> 0]
    /\ rate = [i \in 1..Rates |-> 0]
    /\ init = [i \in 1..Rates |-> FALSE]
    /\ lastTick = [i \in 1..Rates |-> 0]
    /\ th = [t \in Thread |-> Idle]
    /\ marks = [t \in Thread |-> 0] /\ reads = [t \in Thread |-> 0]
    /\ added = [i \in 1..Rates |-> 0] /\ counted = [i \in 1..Rates |-> 0]
    /\ ticks = [i \in 1..Rates |-> 0] /\ peak = [i \in 1..Rates |-> 0]
    /\ overlapped = FALSE /\ raced = FALSE

Step(t) ==
    \/ Add(t) \/ Now(t) \/ LoadLast(t) \/ Advance(t)
    \/ ReadBuffer(t) \/ ResetBuffer(t) \/ FirstRate(t) \/ SetInit(t) \/ LoadRate(t) \/ SetRate(t)

Next == Tick \/ \E t \in Thread : Step(t) \/ Mark(t) \/ ReadRate(t)

Spec == Init /\ [][Next]_vars

\* A thread in a call is scheduled again; time need not pass.
FairSpec == Spec /\ \A t \in Thread : WF_vars(Step(t))

-----------------------------------------------------------------------------

\* The variables stay in their types.
TypeOK ==
    /\ \A i \in 1..Rates :
          /\ buffer[i] \in 0..added[i] /\ rate[i] \in Nat /\ init[i] \in BOOLEAN
          /\ lastTick[i] \in 0..clock
    /\ \A t \in Thread : th[t].iters \in 0..(MaxTime \div KInterval) /\ th[t].uncounted \in 0..added[th[t].i]

\* An average ticks at most once per interval of its life, however many threads
\* find a tick due at the same time (tickIfNecessary).
TicksPaced ==
    /\ TypeOK
    /\ \A i \in 1..Rates : ticks[i] * KInterval <= lastTick[i]

\* What is counted and in the buffer still, between value() and reset().
InHand(i) ==
    IF Resetting(i) = {} THEN {0} ELSE {th[t].uncounted : t \in Resetting(i)}

\* While no two ticks of an average run at a time no event is counted twice,
\* and none is lost except those added between value() and reset() (tick).
CountedOnce ==
    ~overlapped => \A i \in 1..Rates : \A n \in InHand(i) :
        /\ counted[i] + buffer[i] - n <= added[i]
        /\ ~raced => counted[i] + buffer[i] - n = added[i]

\* The average lies between zero and the highest instant rate, also when ticks
\* overlap and the first one stores rate_ and init_ apart (tick).
RateBounded == \A i \in 1..Rates : rate[i] \in 0..peak[i]

\* mark and the rate readers return: the loop that updates rate_ ends.
CallsReturn == \A t \in Thread : th[t].pc # "idle" ~> th[t].pc = "idle"
=============================================================================
