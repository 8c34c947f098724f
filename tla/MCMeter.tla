------------------------------ MODULE MCMeter ------------------------------
(* Instances of Meter for TLC. *)
EXTENDS Meter

CONSTANTS First, FirstMarks, OtherMarks, FirstReads

MCUnit == 2 ^ MaxTime
MCMaxMarks == [t \in Thread |-> IF t = First THEN FirstMarks ELSE OtherMarks]
MCMaxReads == [t \in Thread |-> IF t = First THEN FirstReads ELSE 0]
=============================================================================
