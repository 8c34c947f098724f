----------------------------- MODULE MCReporter -----------------------------
(* Instances of Reporter for TLC: two call sites share a timer and one has a *)
(* timer of its own.                                                         *)
EXTENDS Reporter, TLC

CONSTANTS s1, s2, s3, n1, n2

Kinds == s1 :> "timer" @@ s2 :> "timer" @@ s3 :> "timer"
Names == s1 :> n1 @@ s2 :> n1 @@ s3 :> n2
=============================================================================
