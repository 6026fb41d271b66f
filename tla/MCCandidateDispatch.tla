------------------------ MODULE MCCandidateDispatch ------------------------
(* CandidateDispatch on small sets: p1 and p2 are what the deployment       *)
(* resolves to before and after its policy changes.                         *)
EXTENDS CandidateDispatch

CONSTANTS p1, p2, q1, q2

MCRequirementsOf == [p \in Plan |-> IF p = p1 THEN {q1} ELSE {q1, q2}]
=============================================================================
