---------------------------- MODULE MCPublication ----------------------------
(* Publication on two attempts, with interchangeable publishers.           *)
EXTENDS Publication, TLC

Symmetry == Permutations(Publisher)
=============================================================================
