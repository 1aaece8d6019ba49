--------------------------- MODULE MCModelRouting ---------------------------
(* Threads for model checking ModelRouting. *)
EXTENDS ModelRouting

CONSTANTS t1, t2, t3
=============================================================================
