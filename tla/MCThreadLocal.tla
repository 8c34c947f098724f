---------------------------- MODULE MCThreadLocal ----------------------------
(* Instances of ThreadLocal for TLC. *)
EXTENDS ThreadLocal, TLC

\* Threads, objects and addresses are interchangeable.
Symmetry ==
    Permutations(Thread) \cup Permutations(Object) \cup Permutations(Value) \cup Permutations(Array)
=============================================================================
