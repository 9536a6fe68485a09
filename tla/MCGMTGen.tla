------------------------------ MODULE MCGMTGen ------------------------------
(* A small instance of GMTGen for TLC: workers are interchangeable. *)
EXTENDS GMTGen, TLC

CONSTANTS w1, w2, w3

Symmetry == Permutations(Workers)
=============================================================================
