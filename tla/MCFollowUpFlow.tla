--------------------------- MODULE MCFollowUpFlow ---------------------------
(* A small instance of FollowUpFlow. *)
EXTENDS FollowUpFlow, TLC

Symmetry == Permutations(Worker)
=============================================================================
