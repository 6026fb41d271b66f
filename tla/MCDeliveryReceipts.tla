------------------------- MODULE MCDeliveryReceipts -------------------------
(* DeliveryReceipts on small sets.  Deliveries d1 and d2 name the same     *)
(* candidate and race for its runs, d3 names another one.                  *)
EXTENDS DeliveryReceipts, TLC

CONSTANTS d1, d2, d3, r1, r2, t1, t2, c1, c2

MCCandidateOf == [d \in Delivery |-> IF d = d3 THEN c2 ELSE c1]
Symmetry == Permutations(Run) \cup Permutations(Token)
=============================================================================
