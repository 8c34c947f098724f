------------------------------ MODULE Snapshot ------------------------------
(***************************************************************************)
(* The statistics of src/snapshot.cc on a sorted sequence of values.       *)
(* Quantiles are given in thousandths and results scaled by a thousand, so *)
(* that the interpolation is exact.                                        *)
(***************************************************************************)
EXTENDS Integers, Sequences, FiniteSets, Functions, Sums

Scale == 1000

\* The constructor sorts what the map's values() returned.
Sorted(vs) ==
    {[i \in DOMAIN vs |-> vs[p[i]]] :
        p \in {p \in Bijection(DOMAIN vs, DOMAIN vs) :
                  \A i, j \in DOMAIN vs : i < j => vs[p[i]] <= vs[p[j]]}}

\* The values by their position in the vector.
At(vs) == [i \in Nat |-> IF i < Len(vs) THEN vs[i + 1] ELSE 0]

MinOf(vs) == IF vs = << >> THEN 0 ELSE vs[1]
MaxOf(vs) == IF vs = << >> THEN 0 ELSE vs[Len(vs)]
SumOf(vs) == SumBelow(At(vs), Len(vs))
MeanOf(vs) == IF vs = << >> THEN 0 ELSE (Scale * SumOf(vs)) \div Len(vs)

\* Mutant: the interpolation uses the position, not its fractional part.
Fraction_Whole(idx) == idx

\* idx - floor(idx), scaled.
Fraction(idx) == idx % Scale

ValueAt(vs, quantile) ==
    LET n == Len(vs)
        idx == quantile * (n + 1)
        h == idx \div Scale
    IN  IF n = 0 THEN 0
        ELSE CASE idx < Scale -> Scale * vs[1]
               [] idx >= Scale * n -> Scale * vs[n]
               [] OTHER -> Scale * vs[h] + Fraction(idx) * (vs[h + 1] - vs[h])

\* delta * (value - mean) for the n-th value x after values with sum s: the
\* mean is s / (n - 1) before and (s + x) / n after, and varsum is an int64_t.
Spread(x, s, n) == ((x * (n - 1) - s) * (x * (n - 1) - s)) \div ((n - 1) * n)

\* varsum of stdev: what each value after the first adds to it.
VarSum(vs) ==
    SumBelow([k \in Nat |-> IF k = 0 THEN 0 ELSE Spread(At(vs)[k], SumBelow(At(vs), k), k + 1)],
             Len(vs))
=============================================================================
