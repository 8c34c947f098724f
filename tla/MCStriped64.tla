----------------------------- MODULE MCStriped64 -----------------------------
(* Instances of Striped64 for TLC. *)
EXTENDS Striped64, TLC

CONSTANTS Adds, First, FirstAdds

\* First adds FirstAdds times, every other thread Adds times.
MCMaxAdds == [t \in Thread |-> IF t = First THEN FirstAdds ELSE Adds]

\* First stays itself; the other threads are interchangeable, as are storages.
Symmetry == Permutations(Thread \ {First}) \cup Permutations(Storage)
=============================================================================
