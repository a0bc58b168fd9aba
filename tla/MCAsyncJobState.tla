-------------------------- MODULE MCAsyncJobState --------------------------
(* A small instance of AsyncJobState: three lease holders, three tasks. *)
EXTENDS AsyncJobState, TLC

Symmetry == Permutations(Token) \cup Permutations(Task) \cup Permutations(Ref)
=============================================================================
