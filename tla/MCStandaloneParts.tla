-------------------------- MODULE MCStandaloneParts --------------------------
(* Small instances of StandaloneParts. *)
EXTENDS StandaloneParts
=============================================================================
