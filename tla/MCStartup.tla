----------------------------- MODULE MCStartup -----------------------------
(* A small instance of Startup for TLC: its counts are -1, 0 and 2. *)
EXTENDS Startup

SomeCounts == {-1, 0, 2}
=============================================================================
