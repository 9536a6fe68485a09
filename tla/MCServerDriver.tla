--------------------------- MODULE MCServerDriver ---------------------------
(* Small instances of ServerDriver for TLC. *)
EXTENDS ServerDriver, TLC

CONSTANTS w1, w2, w3, c1, c2, c3

(* Workers are interchangeable, and so are connections. *)
Symmetry == Permutations(Workers) \cup Permutations(Conns)
=============================================================================
