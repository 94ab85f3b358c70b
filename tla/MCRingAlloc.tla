---------------------------- MODULE MCRingAlloc ----------------------------
(* RingAlloc for TLC. *)
EXTENDS RingAlloc, TLC

ConsumerSymmetry == Permutations(Consumers)

\* A step of Release never laps anything, so the two conjuncts do not conflict.
NoLapFairSpec == NoLapSpec /\ \A t \in Threads : WF_vars(ReleaseStep(t))
=============================================================================
