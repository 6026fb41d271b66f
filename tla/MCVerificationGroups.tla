---------------------- MODULE MCVerificationGroups ----------------------
(* Instances of VerificationGroups for TLC.                              *)
EXTENDS VerificationGroups, TLC

\* All requirements are alike, except whether a verdict depends on them.
Symmetry == Permutations(Requirement \ Required) \cup Permutations(Required)
=========================================================================
