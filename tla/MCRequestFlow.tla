--------------------------- MODULE MCRequestFlow ---------------------------
(* A small instance of RequestFlow. *)
EXTENDS RequestFlow, TLC

Symmetry == Permutations(Task)
=============================================================================
