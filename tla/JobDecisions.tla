---------------------------- MODULE JobDecisions ----------------------------
(***************************************************************************)
(* What the callers of the repository decide from a job's row: the next    *)
(* step of a job, whether its request message may be deleted, and which    *)
(* jobs the Watchdog selects.                                              *)
(***************************************************************************)
EXTENDS AsyncJobRow

AuthHoldActive(j) ==
    /\ j.authHold # NULL /\ j.authHold = j.task
    /\ j.status \in {"RECEIVED", "WAITING_PRUNA"}
    /\ j.result = NULL
    /\ j.nextAction \in {NULL, "SUBMIT_PRUNA"}

AwaitingResultUrl(j) ==
    /\ j.aiStores /\ ~j.verified /\ j.url = NULL
    /\ j.status = "POSTPROCESSING" /\ j.nextAction = "POSTPROCESS"
    /\ j.result = NULL

NotAcceptedPending(j) ==
    /\ j.status = "RECEIVED" /\ j.nextAction = "SUBMIT_PRUNA"
    /\ j.result = NULL
    /\ j.notAccepted

WaitingForFallback(j) ==
    /\ j.status = "FALLBACK_RUNNING" /\ j.nextAction = "RUN_FALLBACK"
    /\ j.result = NULL

\* Watchdog._submit_unknown: sent, perhaps, and nothing known about it.
SubmitUnknown(j) ==
    /\ j.status = "RECEIVED" /\ j.nextAction = "SUBMIT_PRUNA"
    /\ j.started /\ ~j.accepted /\ ~j.notAccepted

AwaitingWebhook(j) == j.status = "WAITING_PRUNA" /\ j.nextAction = NULL

\* next_step_for: the hold comes first, the other cases exclude each other.
NextStep(j) ==
    IF j.status \in Terminal THEN NULL
    ELSE IF AuthHoldActive(j) THEN "OPERATOR_REVIEW"
    ELSE CASE j.nextAction = "PUBLISH_RESULT" /\ j.result # NULL -> "PUBLISH_RESULT"
           [] WaitingForFallback(j) -> "RUN_FALLBACK"
           [] AwaitingResultUrl(j) -> "RECOVER_RESULT_REF"
           [] j.nextAction = "POSTPROCESS" /\ ~AwaitingResultUrl(j) -> "POSTPROCESS"
           [] AwaitingWebhook(j) /\ j.accepted -> "AWAIT_WEBHOOK"
           [] NotAcceptedPending(j) ->
                 IF j.retryAt = NULL THEN "OPERATOR_REVIEW" ELSE "RESUBMIT_PRUNA"
           [] SubmitUnknown(j) /\ j.task # NULL -> "RECOVER_UNKNOWN"
           [] OTHER -> NULL

\* The steps that some running actor answers for (AnyFollowUpPaths): the
\* publisher, the postprocess Worker and the Watchdog.  The fallback and the
\* operator never do.
Followed == {"PUBLISH_RESULT", "POSTPROCESS", "RECOVER_RESULT_REF",
             "AWAIT_WEBHOOK", "RESUBMIT_PRUNA", "RECOVER_UNKNOWN"}

\* deletion_allowed with every actor running; one that is not keeps the message.
DeletionAllowed(j) ==
    \/ j.status \in Terminal /\ j.msgStatus = "PUBLISHED"
    \/ /\ NextStep(j) \in Followed
       /\ NextStep(j) = "PUBLISH_RESULT" => j.msgStatus = "PENDING"

\* WatchdogRepository.candidates without the ages: the open jobs that the
\* Watchdog selects once they have stayed long enough.
Candidate(j) ==
    /\ j.status \notin Terminal
    /\ \/ AwaitingWebhook(j) /\ j.accepted
       \/ SubmitUnknown(j)
       \/ NotAcceptedPending(j)
       \/ j.nextAction \in {"POSTPROCESS", "RUN_FALLBACK"}
       \/ j.nextAction = "PUBLISH_RESULT" /\ j.result # NULL
=============================================================================
