--------------------------- MODULE MCPrunaLimiter ---------------------------
(* Small instances of PrunaLimiter: three jobs of two generations. *)
EXTENDS PrunaLimiter, TLC

Symmetry == Permutations(Job)

=============================================================================
