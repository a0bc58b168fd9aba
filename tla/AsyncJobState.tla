--------------------------- MODULE AsyncJobState ---------------------------
(***************************************************************************)
(* The database side of one virtual-fitting job: its row, the rows of its  *)
(* submission attempts and its in-flight slot, with every transaction of   *)
(* AsyncJobStateRepository and PrunaLimiter that changes them.             *)
(*                                                                         *)
(* The callers are left open: any holder of a live lease may call any      *)
(* method, in any order, and Runware may report anything, any number of    *)
(* times and late, about a task that was really sent.  What the callers    *)
(* do promise (their contracts) is in the guards that mention `sent` and   *)
(* `unsent`: an event names a task that was sent, and a submission is      *)
(* cancelled only by the process that got the grant and has not sent it.   *)
(* The limits shared by several jobs are in PrunaLimiter; here a grant may *)
(* always be refused, which is a stuttering step.                          *)
(***************************************************************************)
EXTENDS AsyncJobTransactions

VARIABLES
    sent,      \* tasks whose HTTP request left this process
    unsent     \* the grant not yet sent: NULL or <<task, token>>

vars == <<job, attempts, rejected, conflict, slot, sent, unsent>>

callVars == <<sent, unsent>>

Unused(t) ==
    /\ t # job.task /\ t # job.fbTask
    /\ attempts[t] = 0 /\ t \notin sent

\* Every acquisition makes a new uuid4: a token nobody acts with any more
\* stands for a new one.
FreshToken(tok) == unsent # NULL => tok # unsent[2]

TypeOK ==
    /\ job \in JobRow
    /\ attempts \in [Task -> 0..PrunaSubmitLimit]
    /\ rejected \in SUBSET Task
    /\ conflict \in SUBSET Task
    /\ slot \in Task \cup {NULL}
    /\ sent \in SUBSET Task
    /\ unsent \in (Task \X Token) \cup {NULL}

\* A job whose request has just been stored, or one that was submitted
\* before the attempts table existed (started and sent, no attempt row).
Init ==
    /\ attempts = [t \in Task |-> 0]
    /\ rejected = {} /\ conflict = {} /\ unsent = NULL
    /\ \/ job = NewJob /\ slot = NULL /\ sent = {}
       \/ \E t \in Task :
            /\ job = [NewJob EXCEPT !.task = t, !.started = TRUE]
            /\ slot = t /\ sent = {t}

-----------------------------------------------------------------------------
(* Leases and the database clock. *)

AcquireLeaseStep(tok, action) ==
    /\ FreshToken(tok)
    /\ CanAcquireLease(job, action)
    /\ job' = AcquireLease(job, tok)
    /\ UNCHANGED <<attemptVars, slot, callVars>>

ReleaseLeaseStep(tok) ==
    /\ LeaseValid(job, tok)
    /\ job' = ReleaseLease(job)
    /\ UNCHANGED <<attemptVars, slot, callVars>>

\* The lease was not renewed in time (a slow, stopped or crashed worker).
LeaseExpires ==
    /\ job.leaseLive
    /\ job' = ExpireLease(job)
    /\ UNCHANGED <<attemptVars, slot, callVars>>

\* The clock passes pruna_retry_at.
RetryTimeComes ==
    /\ job.retryAt = "later"
    /\ job' = [job EXCEPT !.retryAt = "due"]
    /\ UNCHANGED <<attemptVars, slot, callVars>>

\* A transaction that changes only the row, under the token's live lease.
RowChange(guard, row) ==
    /\ guard
    /\ job' = row
    /\ UNCHANGED <<attemptVars, slot, callVars>>

-----------------------------------------------------------------------------
(* Submission. *)

\* PrunaSubmitter prepares every new job with ai_stores_result=True.
PrepareStep(tok, t) ==
    /\ Unused(t)
    /\ RowChange(CanPreparePruna(job, tok), PreparePruna(job, t, TRUE))

\* PrunaLimiter.begin_submission: slot, start record and attempt 1.
BeginSubmission(tok) ==
    /\ BeginSubmissionTx(tok)
    /\ unsent' = <<job.task, tok>>
    /\ UNCHANGED sent

\* PrunaLimiter.begin_retry_submission: a new task after a rejected one.
BeginRetry(tok, t) ==
    /\ Unused(t)
    /\ BeginRetryTx(tok, t)
    /\ unsent' = <<t, tok>>
    /\ UNCHANGED sent

\* The granted process sends the HTTP request.
Send ==
    /\ unsent # NULL
    /\ sent' = sent \cup {unsent[1]}
    /\ unsent' = NULL
    /\ UNCHANGED <<job, attemptVars, slot>>

\* The granted process dies before it sends: nothing is undone.
CrashBeforeSend ==
    /\ unsent # NULL
    /\ unsent' = NULL
    /\ UNCHANGED <<job, attemptVars, slot, sent>>

\* PrunaLimiter.cancel_unsent, called by the granted process only.
CancelUnsent ==
    /\ unsent # NULL
    /\ CancelUnsentTx(unsent[1], unsent[2])
    /\ unsent' = NULL
    /\ UNCHANGED sent

-----------------------------------------------------------------------------
(* What Runware reports: the submit response, a Webhook, a status query. *)

RecordAcceptedStep(t) ==
    /\ t \in sent
    /\ RowChange(CanRecordAccepted(job, t), RecordAccepted(job))

RecordAuthHoldStep(t) ==
    /\ t \in sent
    /\ RowChange(CanRecordAuthHold(job, t), RecordAuthHold(job))

RecordSucceededStep(t, url, uuid) ==
    /\ t \in sent
    /\ RowChange(CanRecordSucceeded(job, t), RecordSucceeded(job, url, uuid))

FillImageRefStep(t, url, uuid, confirmed) ==
    /\ t \in sent
    /\ RowChange(CanFillImageRef(job, t, url, uuid, confirmed),
                 FillImageRef(job, url, uuid))

RecordFailedRecoverableStep(t) ==
    /\ t \in sent
    /\ RowChange(CanRecordFailed(job, t), RecordFailedRecoverable(job))

RecordFailedFinalStep(t) ==
    /\ t \in sent
    /\ RowChange(CanRecordFailed(job, t), RecordFailedFinal(job))

RecordNotAccepted(t, retryAt) ==
    /\ t \in sent
    /\ RecordNotAcceptedTx(t, retryAt)
    /\ UNCHANGED callVars

RecordContradiction(t) ==
    /\ t \in sent
    /\ RecordContradictionTx(t)
    /\ UNCHANGED callVars

ReleaseSlot(t) ==
    /\ t \in sent
    /\ ReleaseSlotTx(t)
    /\ UNCHANGED callVars

-----------------------------------------------------------------------------
(* Postprocessing, fallback, result, publication. *)

ClaimS3CheckStep(tok) == RowChange(CanClaimS3Check(job, tok), ClaimS3Check(job))

RecordVerifiedStep(tok) ==
    RowChange(CanRecordVerified(job, tok), RecordVerified(job))

ClaimLlmStep(tok) == RowChange(CanClaimLlm(job, tok), ClaimLlm(job))

MoveToFallbackStep(tok) ==
    RowChange(CanMoveToFallback(job, tok), MoveToFallback(job))

PrepareFallbackStep(tok, t) ==
    /\ Unused(t)
    /\ RowChange(CanPrepareFallback(job, tok, t), PrepareFallback(job, t))

\* The request is sent in the same step: after the start record nothing
\* tells a fallback that was sent from one that was not.
BeginFallback(tok) ==
    /\ BeginFallbackTx(tok)
    /\ sent' = sent \cup {job.fbTask}
    /\ UNCHANGED unsent

RecordFallbackImageStep(tok) ==
    RowChange(CanRecordFallbackImage(job, tok), RecordFallbackImage(job))

\* A success names an image of the job: the verified or the fallback one.
SaveResultStep(tok, p) ==
    /\ p = "COMPLETED" => job.verified \/ job.fbImage
    /\ RowChange(CanSaveResult(job, tok), SaveResult(job, p))

ClaimMessageStep(tok) == RowChange(CanClaimMessage(job, tok), ClaimMessage(job))

MarkPublishedStep(tok, final) ==
    RowChange(CanMarkPublished(job, tok, final), MarkPublished(job, final))

MarkExhaustedStep(tok) ==
    RowChange(CanMarkExhausted(job, tok), MarkExhausted(job))

-----------------------------------------------------------------------------

LeaseStep ==
    \/ \E tok \in Token :
         \/ \E action \in NextAction : AcquireLeaseStep(tok, action)
         \/ ReleaseLeaseStep(tok)
    \/ LeaseExpires
    \/ RetryTimeComes

SubmitStep ==
    \/ \E tok \in Token :
         \/ \E t \in Task : PrepareStep(tok, t)
         \/ BeginSubmission(tok)
         \/ \E t \in Task : BeginRetry(tok, t)
    \/ Send
    \/ CrashBeforeSend
    \/ CancelUnsent

EventStep ==
    \E t \in Task :
      \/ RecordAcceptedStep(t)
      \/ RecordAuthHoldStep(t)
      \/ \E url, uuid \in Ref \cup {NULL} :
           \/ RecordSucceededStep(t, url, uuid)
           \/ \E confirmed \in BOOLEAN : FillImageRefStep(t, url, uuid, confirmed)
      \/ RecordFailedRecoverableStep(t)
      \/ RecordFailedFinalStep(t)
      \/ \E retryAt \in {NULL, "later"} : RecordNotAccepted(t, retryAt)
      \/ RecordContradiction(t)
      \/ ReleaseSlot(t)

WorkStep ==
    \E tok \in Token :
      \/ ClaimS3CheckStep(tok)
      \/ RecordVerifiedStep(tok)
      \/ ClaimLlmStep(tok)
      \/ MoveToFallbackStep(tok)
      \/ \E t \in Task : PrepareFallbackStep(tok, t)
      \/ BeginFallback(tok)
      \/ RecordFallbackImageStep(tok)
      \/ \E p \in {"COMPLETED", "FAILED"} : SaveResultStep(tok, p)
      \/ ClaimMessageStep(tok)
      \/ \E final \in Terminal : MarkPublishedStep(tok, final)
      \/ MarkExhaustedStep(tok)

Next == LeaseStep \/ SubmitStep \/ EventStep \/ WorkStep

Spec == Init /\ [][Next]_vars

-----------------------------------------------------------------------------
(* Properties. *)

\* The pair (status, next_action) that every Worker dispatches on always
\* agrees with the stored result, whatever order Workers' and Runware's
\* transactions commit in: a job with a result waits to be published and for
\* nothing else, and work is requested only in the status that allows it.
ActionMatchesStatus(j) ==
    /\ j.nextAction = "PUBLISH_RESULT"
          <=> j.result # NULL /\ j.status \notin Terminal
    /\ j.nextAction = "SUBMIT_PRUNA" => j.status = "RECEIVED"
    /\ j.nextAction = "POSTPROCESS" => j.status = "POSTPROCESSING"
    /\ j.nextAction = "RUN_FALLBACK" => j.status = "FALLBACK_RUNNING"
    /\ j.nextAction = NULL =>
          \/ j.status = "WAITING_PRUNA" /\ j.accepted
          \/ j.status \in Terminal

NextActionMatchesStatus == ActionMatchesStatus(job)

\* A job is COMPLETED or FAILED exactly when its result was published, after
\* at least one counted send, and the status is the one BE was told; the
\* publication is given up only when every allowed send was used.
EndMatchesPublication(j) ==
    /\ j.status \in Terminal <=> j.msgStatus = "PUBLISHED"
    /\ j.status \in Terminal =>
          /\ j.result # NULL /\ PayloadStatus(j.result) = j.status
          /\ j.msgAttempts >= 1
    /\ j.msgStatus = "RETRY_EXHAUSTED" =>
          j.result # NULL /\ j.msgAttempts = ResultMessageLimit

TerminalIffPublished == EndMatchesPublication(job)

\* Paid submissions of one job are a chain 1..n (n at most the limit): only
\* the newest may be undecided, every earlier one was recorded as not
\* accepted, the newest is the row's current task, and a retry is scheduled
\* only after a rejection (virtual_fitting_async_jobs_pruna_retry_check).
AttemptNumbersUnique ==
    \A t, u \in Task : attempts[t] = attempts[u] /\ attempts[t] # 0 => t = u

EarlierRejected ==
    \A t \in Task : attempts[t] > 1 =>
        \E p \in rejected : attempts[p] = attempts[t] - 1

OldAttemptsRejected ==
    \A t \in Task : attempts[t] # 0 /\ t # job.task => t \in rejected

CurrentIsNewest ==
    \A t \in Task : attempts[t] # 0 =>
        job.task # NULL /\ attempts[t] <= attempts[job.task]

AttemptChain ==
    /\ AttemptNumbersUnique
    /\ EarlierRejected
    /\ OldAttemptsRejected
    /\ CurrentIsNewest
    /\ job.retryAt # NULL => job.notAccepted

\* The in-flight slot of the job belongs to a generation that may still be
\* running: the current, not rejected submission or the fallback.  A slot
\* kept for anything else would block other jobs for ever.
SlotHasOwner ==
    slot # NULL =>
      \/ slot = job.task /\ job.started /\ slot \notin rejected
      \/ slot = job.fbTask /\ job.fbStarted

\* The submission that got a grant and is not yet sent is still the current
\* task and nobody has rejected it: no other process can have started one.
UnsentIsCurrent ==
    unsent # NULL =>
      /\ job.task = unsent[1] /\ job.started
      /\ unsent[1] \notin sent \cup rejected

\* Runware is asked for a new generation of a job (a first submission, a
\* retry or the fallback) only while the job has no result.  A submission is
\* made only for a job that is not held for an authentication error and of
\* which every submission sent so far was rejected; the fallback only for a job
\* that the flow has given over to it.
StartsGeneration ==
    \/ \E t \in Task : attempts'[t] # 0 /\ attempts[t] = 0 /\ unsent' # unsent
    \/ job'.fbStarted /\ ~job.fbStarted

GenerationAllowed ==
    /\ job.result = NULL
    /\ job.status \in {"RECEIVED", "FALLBACK_RUNNING"}
    /\ job.status = "RECEIVED" => job.authHold = NULL /\ sent \subseteq rejected

GenerationOnlyWhenAllowed == [][StartsGeneration => GenerationAllowed]_vars

\* What was recorded first stands, whichever Worker, Webhook or status query
\* commits later: the result, the reported image, the hold, the fallback task
\* and the evidence of acceptance are never replaced or lost.
KeepsRecords(j, k) ==
    /\ j.result # NULL => k.result = j.result
    /\ j.url # NULL => k.url = j.url
    /\ j.uuid # NULL => k.uuid = j.uuid
    /\ j.authHold # NULL => k.authHold = j.authHold
    /\ j.fbTask # NULL => k.fbTask = j.fbTask
    /\ j.accepted => k.accepted
    /\ j.verified => k.verified
    /\ j.fbStarted => k.fbStarted
    /\ j.fbImage => k.fbImage

FirstRecordWins == [][KeepsRecords(job, job')]_vars

\* The authentication hold an operator must clear stays on the current task,
\* which was really sent: no retry or cancellation moves the job away from it
\* (auth_hold_active compares the two columns).
HoldIsOnCurrentTask ==
    job.authHold # NULL => job.authHold = job.task /\ job.authHold \in sent

\* Once an image was verified the job never goes to the paid fallback.
VerifiedNeverFallsBack ==
    job.verified => job.status # "FALLBACK_RUNNING" /\ ~job.fbStarted

-----------------------------------------------------------------------------
(* The inductive invariant: the invariants above and what they rest on. *)

\* What the row's own columns say about each other.
RowConsistent(j) ==
    /\ j.started => j.task # NULL
    /\ j.status \in {"WAITING_PRUNA", "POSTPROCESSING", "FALLBACK_RUNNING"}
          => j.started
    /\ j.fbTask # NULL =>
          j.fbTask # j.task /\ j.status \in {"FALLBACK_RUNNING"} \cup Terminal
    /\ j.fbStarted => j.fbTask # NULL
    /\ j.fbImage => j.fbStarted
    /\ j.verified => j.status \in {"POSTPROCESSING"} \cup Terminal
    /\ j.status \in {"RECEIVED", "WAITING_PRUNA"} => j.url = NULL /\ j.uuid = NULL

\* A job that was not started, or whose start was taken back, left no trace.
UnstartedIsClean ==
    ~job.started =>
      /\ \A t \in Task : attempts[t] = 0
      /\ sent = {} /\ slot = NULL /\ unsent = NULL /\ job.authHold = NULL

\* Attempt rows, their rejections and the row agree.
RejectionsAgree ==
    /\ job.notAccepted <=> job.task \in rejected
    /\ \A t \in rejected : attempts[t] # 0
    /\ unsent # NULL => attempts[unsent[1]] # 0 /\ job.authHold = NULL

SentIsAccountedFor ==
    \A t \in sent : t \in rejected \/ t = job.task \/ (t = job.fbTask /\ job.fbStarted)

\* What makes the invariants inductive: every safety invariant of the job,
\* with the facts about the row, the attempts and the slot that each
\* transaction relies on (TLC checks it, AsyncJobState_proofs proves it).
IInv ==
    /\ TypeOK
    /\ NextActionMatchesStatus /\ TerminalIffPublished
    /\ RowConsistent(job)
    /\ UnstartedIsClean /\ RejectionsAgree /\ SentIsAccountedFor
    /\ AttemptChain
    /\ SlotHasOwner /\ UnsentIsCurrent
    /\ HoldIsOnCurrentTask /\ VerifiedNeverFallsBack

-----------------------------------------------------------------------------
(* The contract this job implements. *)

\* Submissions made so far; one made before attempts were counted is one.
Tries ==
    IF ~job.started THEN 0
    ELSE IF attempts[job.task] = 0 THEN 1 ELSE attempts[job.task]

Told == IF job.status \in Terminal THEN job.status ELSE NULL

Contract == INSTANCE FittingContract
    WITH tries <- Tries, fallback <- job.fbStarted,
         outcome <- job.result, told <- Told

\* Every step of the job is a step of FittingContract or invisible to it: the
\* tries, the fallback, the outcome and the message are as promised whatever
\* order the transactions of Workers and of Runware's reports commit in.
ImplementsContract == Contract!Spec
=============================================================================
