-------------------------------- MODULE Sums --------------------------------
(* Sums of numbers that are given by position. *)
EXTENDS Naturals

\* f[0] + ... + f[n - 1].
SumBelow(f, n) == LET p[k \in Nat] == IF k = 0 THEN 0 ELSE p[k - 1] + f[k - 1] IN p[n]
=============================================================================
