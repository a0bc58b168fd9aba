-------------------------- MODULE FittingContract --------------------------
(***************************************************************************)
(* What one fitting request is promised, seen from outside: at most        *)
(* PrunaSubmitLimit tries of the paid generation and at most one fallback, *)
(* both only while the outcome is open; one outcome, which says REJECTED   *)
(* only after every try was used up and no fallback ran; and one message   *)
(* to BE, which tells that outcome.  AsyncJobState implements it.          *)
(***************************************************************************)
EXTENDS Naturals

CONSTANTS NULL, PrunaSubmitLimit

VARIABLES
    tries,     \* submissions that were made and not taken back unsent
    fallback,  \* the one fallback generation was started
    outcome,   \* NULL, "COMPLETED", "FAILED" or "REJECTED"
    told       \* NULL, or the status the message to BE carried

vars == <<tries, fallback, outcome, told>>

\* A job stored before attempts were counted may already have one try.
Init ==
    /\ tries \in {0, 1} /\ fallback = FALSE
    /\ outcome = NULL /\ told = NULL

Try ==
    /\ outcome = NULL /\ ~fallback /\ tries < PrunaSubmitLimit
    /\ tries' = tries + 1
    /\ UNCHANGED <<fallback, outcome, told>>

\* The provider refused the input before anything was sent.
TakeBack ==
    /\ tries > 0 /\ ~fallback /\ told = NULL
    /\ tries' = tries - 1
    /\ UNCHANGED <<fallback, outcome, told>>

FallBack ==
    /\ outcome = NULL /\ ~fallback /\ tries > 0
    /\ fallback' = TRUE
    /\ UNCHANGED <<tries, outcome, told>>

Decide(o) ==
    /\ outcome = NULL
    /\ o = "COMPLETED" => tries > 0
    /\ o = "REJECTED" => tries = PrunaSubmitLimit /\ ~fallback
    /\ outcome' = o
    /\ UNCHANGED <<tries, fallback, told>>

Tell ==
    /\ outcome # NULL /\ told = NULL
    /\ told' = IF outcome = "COMPLETED" THEN "COMPLETED" ELSE "FAILED"
    /\ UNCHANGED <<tries, fallback, outcome>>

Next ==
    \/ Try \/ TakeBack \/ FallBack \/ Tell
    \/ \E o \in {"COMPLETED", "FAILED", "REJECTED"} : Decide(o)

Spec == Init /\ [][Next]_vars
=============================================================================
