----------------------- MODULE MCExponentialReservoir -----------------------
(* Instances of ExponentialReservoir for TLC. *)
EXTENDS ExponentialReservoir

CONSTANTS First, FirstUpdates, OtherUpdates, FirstSnapshots

MCMaxUpdates == [t \in Thread |-> IF t = First THEN FirstUpdates ELSE OtherUpdates]
MCMaxSnapshots == [t \in Thread |-> IF t = First THEN FirstSnapshots ELSE 0]
=============================================================================
