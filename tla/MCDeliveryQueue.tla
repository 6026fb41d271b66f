-------------------------- MODULE MCDeliveryQueue --------------------------
(* DeliveryQueue on small sets: every delivery names the same candidate,   *)
(* so that deliveries meet on its runs.                                    *)
EXTENDS DeliveryQueue, TLC

CONSTANTS d1, d2, r1, r2, w1, w2, c1

MCCandidateOf == [d \in Delivery |-> c1]
Symmetry == Permutations(Run) \cup Permutations(Token)
=============================================================================
