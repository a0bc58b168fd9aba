---------------------------- MODULE AsyncJobRow ----------------------------
(***************************************************************************)
(* One row of virtual_fitting_async_jobs and what each repository method   *)
(* of AsyncJobStateRepository does to it.                                  *)
(*                                                                         *)
(* Every method is one PostgreSQL transaction: lock the row, then one      *)
(* conditional UPDATE.  A method is modelled by its WHERE clause           *)
(* (the operator CanX) and its SET clause (the operator X, a new row); a   *)
(* call whose WHERE clause fails leaves the row as it is.  The modules     *)
(* that own a row turn the pairs into actions.                             *)
(*                                                                         *)
(* Timestamps are abstracted to "recorded or not", except for the two      *)
(* that are compared with the database clock: the lease expiry (leaseLive) *)
(* and the earliest time of the next submission (retryAt, "later" until    *)
(* the clock passes it, then "due").                                       *)
(***************************************************************************)
EXTENDS Naturals

CONSTANTS
    NULL,               \* SQL NULL
    Token,              \* lease tokens (one fresh uuid4 per acquisition)
    Task,               \* Runware taskUUIDs
    Ref,                \* result references reported by Runware (URL / UUID)
    S3CheckLimit,       \* S3_CHECK_LIMIT = 2
    LlmGenerationLimit, \* LLM_GENERATION_LIMIT = 4
    FallbackLimit,      \* FALLBACK_LIMIT = 1
    PrunaSubmitLimit,   \* PRUNA_SUBMIT_LIMIT = 4
    ResultMessageLimit  \* RESULT_MESSAGE_LIMIT = 3

ASSUME LimitAssumption ==
    /\ S3CheckLimit \in Nat \ {0}
    /\ LlmGenerationLimit \in Nat \ {0}
    /\ FallbackLimit \in Nat \ {0}
    /\ PrunaSubmitLimit \in Nat \ {0}
    /\ ResultMessageLimit \in Nat \ {0}

Terminal == {"COMPLETED", "FAILED"}

Status == {"RECEIVED", "WAITING_PRUNA", "POSTPROCESSING", "FALLBACK_RUNNING"}
            \cup Terminal

NextAction == {"SUBMIT_PRUNA", "POSTPROCESS", "RUN_FALLBACK", "PUBLISH_RESULT"}

\* result_payload, abstracted to its status and, for the exhausted submission
\* (FITTING_SUBMISSION_REJECTED), its error code.
Payload == {"COMPLETED", "FAILED", "REJECTED"}

PayloadStatus(p) == IF p = "COMPLETED" THEN "COMPLETED" ELSE "FAILED"

MessageStatus == {"PENDING", "PUBLISHED", "RETRY_EXHAUSTED"}

ASSUME NullAssumption ==
    /\ NULL \notin Token /\ NULL \notin Task /\ NULL \notin Ref
    /\ NULL \notin NextAction \cup Payload \cup {"later", "due"}

JobRow ==
    [status       : Status,
     nextAction   : NextAction \cup {NULL},
     task         : Task \cup {NULL},     \* task_uuid
     aiStores     : BOOLEAN,              \* ai_stores_result
     started      : BOOLEAN,              \* pruna_submit_started_at
     accepted     : BOOLEAN,              \* runware_accepted_at
     notAccepted  : BOOLEAN,              \* pruna_not_accepted_at
     retryAt      : {NULL, "later", "due"},
     authHold     : Task \cup {NULL},     \* auth_hold_task_uuid
     url          : Ref \cup {NULL},      \* runware_image_url
     uuid         : Ref \cup {NULL},      \* runware_image_uuid
     verified     : BOOLEAN,              \* verified_image_key
     s3Checks     : 0..S3CheckLimit,
     llmCalls     : 0..LlmGenerationLimit,
     fbTask       : Task \cup {NULL},     \* fallback_task_uuid
     fbStarted    : BOOLEAN,              \* fallback_started_at
     fbAttempts   : 0..FallbackLimit,
     fbImage      : BOOLEAN,              \* fallback_image_key
     result       : Payload \cup {NULL},  \* result_payload
     msgStatus    : MessageStatus,
     msgAttempts  : 0..ResultMessageLimit,
     lease        : Token \cup {NULL},    \* worker_lease_token
     leaseLive    : BOOLEAN]              \* worker_lease_until > now

\* AsyncJobRepository.create: the row a new BE request starts with.
NewJob ==
    [status |-> "RECEIVED", nextAction |-> "SUBMIT_PRUNA", task |-> NULL,
     aiStores |-> FALSE, started |-> FALSE, accepted |-> FALSE,
     notAccepted |-> FALSE, retryAt |-> NULL, authHold |-> NULL,
     url |-> NULL, uuid |-> NULL, verified |-> FALSE, s3Checks |-> 0,
     llmCalls |-> 0, fbTask |-> NULL, fbStarted |-> FALSE, fbAttempts |-> 0,
     fbImage |-> FALSE, result |-> NULL, msgStatus |-> "PENDING",
     msgAttempts |-> 0, lease |-> NULL, leaseLive |-> FALSE]

-----------------------------------------------------------------------------
(* The worker lease. *)

\* _LEASE_VALID: the caller's token is the recorded one and has not expired.
LeaseValid(j, tok) == j.lease = tok /\ j.leaseLive

CanAcquireLease(j, action) ==
    /\ j.status \notin Terminal
    /\ j.nextAction = action
    /\ j.lease = NULL \/ ~j.leaseLive

AcquireLease(j, tok) == [j EXCEPT !.lease = tok, !.leaseLive = TRUE]

ReleaseLease(j) == [j EXCEPT !.lease = NULL, !.leaseLive = FALSE]

ExpireLease(j) == [j EXCEPT !.leaseLive = FALSE]

-----------------------------------------------------------------------------
(* Pruna submission. *)

CanPreparePruna(j, tok) ==
    /\ LeaseValid(j, tok)
    /\ j.status = "RECEIVED" /\ j.nextAction = "SUBMIT_PRUNA"
    /\ j.task = NULL /\ ~j.started

PreparePruna(j, t, ai) == [j EXCEPT !.task = t, !.aiStores = ai]

\* _event_update: the common guard of the methods that are called with a
\* task uuid instead of a lease token.
EventApplies(j, t) ==
    /\ j.task = t /\ j.started
    /\ j.status \notin Terminal

CanRecordAccepted(j, t) == EventApplies(j, t)

\* Mutant: the CASE of the UPDATE is left out.
RecordAccepted_Always(j) ==
    [j EXCEPT !.accepted = TRUE, !.status = "WAITING_PRUNA", !.nextAction = NULL]

RecordAccepted(j) ==
    IF j.status = "RECEIVED" /\ j.nextAction = "SUBMIT_PRUNA"
    THEN [j EXCEPT !.accepted = TRUE, !.status = "WAITING_PRUNA",
                   !.nextAction = NULL]
    ELSE [j EXCEPT !.accepted = TRUE]

AwaitingResult(j) ==
    j.status \in {"RECEIVED", "WAITING_PRUNA"} /\ j.result = NULL

CanRecordAuthHold(j, t) ==
    /\ EventApplies(j, t) /\ AwaitingResult(j)
    /\ j.nextAction \in {NULL, "SUBMIT_PRUNA"}
    /\ j.authHold = NULL

RecordAuthHold(j) == [j EXCEPT !.authHold = j.task]

CanRecordSucceeded(j, t) == EventApplies(j, t) /\ AwaitingResult(j)

RecordSucceeded(j, url, uuid) ==
    [j EXCEPT !.status = "POSTPROCESSING", !.nextAction = "POSTPROCESS",
              !.accepted = TRUE, !.url = url, !.uuid = uuid]

\* The columns the fill_pruna_image_ref UPDATE may complete: never a
\* conflicting value, and only with evidence that it is the same result.
CanFillImageRef(j, t, url, uuid, confirmed) ==
    /\ j.task = t /\ j.started
    /\ j.status = "POSTPROCESSING" /\ j.nextAction = "POSTPROCESS"
    /\ j.result = NULL
    /\ NULL \in {j.url, url} \/ j.url = url
    /\ NULL \in {j.uuid, uuid} \/ j.uuid = uuid
    /\ \/ j.url # NULL /\ j.url = url
       \/ j.uuid # NULL /\ j.uuid = uuid
       \/ confirmed /\ j.aiStores
    /\ \/ j.url = NULL /\ url # NULL
       \/ j.uuid = NULL /\ uuid # NULL

FillImageRef(j, url, uuid) ==
    [j EXCEPT !.url = IF j.url = NULL THEN url ELSE j.url,
              !.uuid = IF j.uuid = NULL THEN uuid ELSE j.uuid]

CanRecordFailed(j, t) ==
    /\ EventApplies(j, t) /\ AwaitingResult(j)
    /\ ~j.verified /\ j.fbAttempts < FallbackLimit

\* recoverable=True hands the job to the V1 fallback.
RecordFailedRecoverable(j) ==
    [j EXCEPT !.status = "FALLBACK_RUNNING", !.nextAction = "RUN_FALLBACK",
              !.accepted = TRUE]

RecordFailedFinal(j) ==
    [j EXCEPT !.result = "FAILED", !.nextAction = "PUBLISH_RESULT",
              !.accepted = TRUE]

-----------------------------------------------------------------------------
(* Postprocessing. *)

Postprocessing(j) ==
    /\ j.status = "POSTPROCESSING" /\ j.nextAction = "POSTPROCESS"
    /\ j.result = NULL

CanClaimS3Check(j, tok) ==
    /\ LeaseValid(j, tok) /\ Postprocessing(j) /\ ~j.verified
    /\ j.s3Checks < S3CheckLimit

ClaimS3Check(j) == [j EXCEPT !.s3Checks = @ + 1]

\* Mutant: a Worker that lost its lease still records.
CanRecordVerified_Anyone(j, tok) == ~j.verified

CanRecordVerified(j, tok) ==
    LeaseValid(j, tok) /\ Postprocessing(j) /\ ~j.verified

RecordVerified(j) == [j EXCEPT !.verified = TRUE]

Fallback(j) ==
    /\ j.status = "FALLBACK_RUNNING" /\ j.nextAction = "RUN_FALLBACK"
    /\ j.result = NULL

\* One LLM call needs an image of the job: the verified or the fallback one.
CanClaimLlm(j, tok) ==
    /\ LeaseValid(j, tok)
    /\ \/ Postprocessing(j) /\ j.verified
       \/ Fallback(j) /\ j.fbImage
    /\ j.llmCalls < LlmGenerationLimit

ClaimLlm(j) == [j EXCEPT !.llmCalls = @ + 1]

\* Callers pass NOT_FOUND only after the last S3 check of their own lease.
CanMoveToFallback(j, tok) ==
    /\ LeaseValid(j, tok) /\ Postprocessing(j) /\ ~j.verified
    /\ j.s3Checks >= S3CheckLimit
    /\ j.fbAttempts < FallbackLimit

MoveToFallback(j) ==
    [j EXCEPT !.status = "FALLBACK_RUNNING", !.nextAction = "RUN_FALLBACK"]

-----------------------------------------------------------------------------
(* The V1 fallback. *)

CanPrepareFallback(j, tok, t) ==
    LeaseValid(j, tok) /\ Fallback(j) /\ j.fbTask = NULL /\ j.task # t

PrepareFallback(j, t) == [j EXCEPT !.fbTask = t]

CanRecordFallbackImage(j, tok) ==
    LeaseValid(j, tok) /\ Fallback(j) /\ j.fbStarted /\ ~j.fbImage

RecordFallbackImage(j) == [j EXCEPT !.fbImage = TRUE]

-----------------------------------------------------------------------------
(* The final result and its publication. *)

\* Mutant: a later result replaces the stored one.
CanSaveResult_Replace(j, tok) == LeaseValid(j, tok) /\ j.status \notin Terminal

CanSaveResult(j, tok) ==
    LeaseValid(j, tok) /\ j.status \notin Terminal /\ j.result = NULL

SaveResult(j, p) == [j EXCEPT !.result = p, !.nextAction = "PUBLISH_RESULT"]

Publishing(j, tok) ==
    /\ LeaseValid(j, tok)
    /\ j.status \notin Terminal /\ j.nextAction = "PUBLISH_RESULT"
    /\ j.result # NULL /\ j.msgStatus = "PENDING"

\* Mutant: the limit of the sends is off by one.
CanClaimMessage_OneMore(j, tok) ==
    Publishing(j, tok) /\ j.msgAttempts <= ResultMessageLimit

CanClaimMessage(j, tok) ==
    Publishing(j, tok) /\ j.msgAttempts < ResultMessageLimit

ClaimMessage(j) == [j EXCEPT !.msgAttempts = @ + 1]

CanMarkPublished(j, tok, final) ==
    /\ Publishing(j, tok) /\ j.msgAttempts >= 1
    /\ PayloadStatus(j.result) = final

MarkPublished(j, final) ==
    [j EXCEPT !.msgStatus = "PUBLISHED", !.status = final,
              !.nextAction = NULL, !.lease = NULL, !.leaseLive = FALSE]

\* Mutant: the publication is given up one send too late.
CanMarkExhausted_Late(j, tok) ==
    Publishing(j, tok) /\ j.msgAttempts > ResultMessageLimit

CanMarkExhausted(j, tok) ==
    Publishing(j, tok) /\ j.msgAttempts >= ResultMessageLimit

MarkExhausted(j) ==
    [j EXCEPT !.msgStatus = "RETRY_EXHAUSTED", !.lease = NULL,
              !.leaseLive = FALSE]

=============================================================================
