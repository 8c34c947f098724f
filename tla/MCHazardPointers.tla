-------------------------- MODULE MCHazardPointers --------------------------
(* Instances of HazardPointers for TLC. *)
EXTENDS HazardPointers, TLC

\* Threads and addresses are interchangeable.
Symmetry == Permutations(Thread) \cup Permutations(Node)

\* One thread keeps running; the others may stop anywhere.
Worker == CHOOSE t \in Thread : TRUE

WorkerRunsSpec == Spec /\ WF_vars(RetireNodeStep(Worker)) /\ WF_vars(Flush(Worker))

\* The worker's retireNode returns, however the other threads stop.
WorkerRetireNodeEnds == RetireNodeEnds(Worker)

=============================================================================
