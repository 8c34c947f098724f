---------------------- MODULE MCConcurrentSkipListMap ----------------------
(* Instances of ConcurrentSkipListMap for TLC. *)
EXTENDS ConcurrentSkipListMap, TLC

CONSTANTS
    First, FirstOps, FirstCalls,    \* one thread, and what it may call
    OtherOps, OtherCalls            \* what every other thread may call

MCOps == [t \in Thread |-> IF t = First THEN FirstOps ELSE OtherOps]
MCMaxCalls == [t \in Thread |-> IF t = First THEN FirstCalls ELSE OtherCalls]

Symmetry == Permutations(Node)
=============================================================================
