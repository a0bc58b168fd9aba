------------------------ MODULE AsyncJobTransactions ------------------------
(***************************************************************************)
(* The tables of one job (its row, its attempt rows, its in-flight slot)   *)
(* and the transactions of AsyncJobStateRepository and PrunaLimiter that   *)
(* change more than the row, as the SQL makes them: a transaction checks   *)
(* what it reads under the row lock and nothing about who calls it.        *)
(***************************************************************************)
EXTENDS AsyncJobRow

VARIABLES
    job,       \* the row of virtual_fitting_async_jobs
    attempts,  \* virtual_fitting_pruna_attempts: task -> attempt_no, 0: no row
    rejected,  \* attempts with not_accepted_at
    conflict,  \* attempts with conflict_at
    slot       \* task_uuid of the job's row in virtual_fitting_pruna_in_flight

attemptVars == <<attempts, rejected, conflict>>

dbVars == <<job, attempts, rejected, conflict, slot>>

LastAttempt(n) ==
    /\ \E t \in Task : attempts[t] = n
    /\ \A t \in Task : attempts[t] <= n

\* A transaction that changes only the row: nothing if its WHERE clause fails.
TryRow(can, row) ==
    /\ job' = IF can THEN row ELSE job
    /\ UNCHANGED <<attemptVars, slot>>

-----------------------------------------------------------------------------
(* Submission. *)

\* PrunaLimiter.begin_submission: slot, start record and attempt 1.
CanBeginSubmission(tok) ==
    /\ LeaseValid(job, tok)
    /\ ~job.started
    /\ job.status = "RECEIVED" /\ job.nextAction = "SUBMIT_PRUNA"
    /\ job.task # NULL

BeginSubmissionTx(tok) ==
    /\ CanBeginSubmission(tok)
    /\ job' = [job EXCEPT !.started = TRUE]
    /\ attempts' = [attempts EXCEPT ![job.task] = 1]
    /\ slot' = IF slot = NULL THEN job.task ELSE slot
    /\ UNCHANGED <<rejected, conflict>>

\* PrunaLimiter.begin_retry_submission: a new task after a rejected one.
\* Mutant: the previous attempt need not have been rejected.
CanBeginRetry_Undecided(tok, t) ==
    /\ LeaseValid(job, tok)
    /\ job.status = "RECEIVED" /\ job.nextAction = "SUBMIT_PRUNA"
    /\ job.started /\ ~job.accepted /\ job.result = NULL
    /\ job.authHold = NULL
    /\ slot \in {NULL, t}

\* Mutant: the authentication hold does not stop the retry.
CanBeginRetry_NoHold(tok, t) ==
    /\ LeaseValid(job, tok)
    /\ job.status = "RECEIVED" /\ job.nextAction = "SUBMIT_PRUNA"
    /\ job.started /\ ~job.accepted /\ job.result = NULL
    /\ job.notAccepted /\ job.retryAt = "due"
    /\ job.task \in rejected
    /\ slot \in {NULL, t}

CanBeginRetry(tok, t) ==
    /\ LeaseValid(job, tok)
    /\ job.status = "RECEIVED" /\ job.nextAction = "SUBMIT_PRUNA"
    /\ job.started /\ ~job.accepted /\ job.result = NULL
    /\ job.authHold = NULL /\ job.notAccepted /\ job.retryAt = "due"
    /\ job.task \in rejected
    /\ slot \in {NULL, t}

BeginRetryTx(tok, t) ==
    /\ CanBeginRetry(tok, t)
    /\ \E n \in 1..(PrunaSubmitLimit - 1) :
         /\ LastAttempt(n)
         /\ attempts' = [attempts EXCEPT ![t] = n + 1]
    /\ job' = [job EXCEPT !.task = t, !.notAccepted = FALSE, !.retryAt = NULL]
    /\ slot' = t
    /\ UNCHANGED <<rejected, conflict>>

\* PrunaLimiter.cancel_unsent: the provider refused the input before sending.
\* A retry goes back to the previous attempt; pruna_retry_at becomes its
\* next_attempt_at, which is in the past, or the present time.
\* Mutant: the lease may have expired.
CancelApplies_Expired(t, tok) ==
    /\ job.task = t /\ job.started /\ ~job.accepted
    /\ job.status = "RECEIVED"

CancelApplies(t, tok) ==
    /\ job.task = t /\ job.started /\ ~job.accepted
    /\ job.status = "RECEIVED"
    /\ LeaseValid(job, tok)

CancelUnsentTx(t, tok) ==
    IF CancelApplies(t, tok)
    THEN /\ \/ /\ ~\E p \in Task : attempts[p] >= 1 /\ attempts[p] = attempts[t] - 1
               /\ job' = [job EXCEPT !.started = FALSE]
            \/ \E p \in Task :
                 /\ attempts[p] >= 1 /\ attempts[p] = attempts[t] - 1
                 /\ job' = [job EXCEPT !.task = p, !.retryAt = "due",
                                       !.notAccepted = (p \in rejected)]
         /\ attempts' = [attempts EXCEPT ![t] = 0]
         /\ rejected' = rejected \ {t}
         /\ conflict' = conflict \ {t}
         /\ slot' = NULL
    ELSE UNCHANGED dbVars

-----------------------------------------------------------------------------
(* What Runware reports about an attempt. *)

\* DELETE ... WHERE task_uuid = t: another task's slot is left alone.
\* Mutant: the slot is not given back.
SlotWithout_Kept(t) == slot

SlotWithout(t) == IF slot = t THEN NULL ELSE slot

\* record_not_accepted: the row of a job older than the attempts table is
\* made first, and stays even when the rejection is then not applied.
WithLegacyAttempt(t) ==
    IF \A p \in Task : attempts[p] = 0
    THEN [attempts EXCEPT ![t] = 1]
    ELSE attempts

\* Mutant: the last allowed submission is never made.
Exhausted_Early(n) == n >= PrunaSubmitLimit - 1

Exhausted(n) == n >= PrunaSubmitLimit

Progressed(j) == j.accepted \/ j.verified \/ j.status # "RECEIVED"

NotAcceptedApplies(t) ==
    /\ job.task = t /\ job.started
    /\ WithLegacyAttempt(t)[t] # 0 /\ t \notin rejected

\* The delay after a rejection: a time, or none when Runware's guidance
\* cannot be represented as one (the retry is then held).
RecordNotAcceptedTx(t, retryAt) ==
    /\ NotAcceptedApplies(t)
    /\ attempts' = WithLegacyAttempt(t)
    /\ \/ /\ job.status \in Terminal
          /\ UNCHANGED <<job, rejected, conflict, slot>>
       \/ /\ job.status \notin Terminal /\ Progressed(job)
          /\ conflict' = conflict \cup {t}
          /\ UNCHANGED <<job, rejected, slot>>
       \/ /\ job.status \notin Terminal /\ ~Progressed(job)
          /\ \/ job.nextAction # "SUBMIT_PRUNA"
             \/ job.result # NULL \/ job.authHold # NULL
          /\ UNCHANGED <<job, rejected, conflict, slot>>
       \/ /\ job.status \notin Terminal /\ ~Progressed(job)
          /\ job.nextAction = "SUBMIT_PRUNA"
          /\ job.result = NULL /\ job.authHold = NULL
          /\ rejected' = rejected \cup {t}
          /\ job' = IF Exhausted(attempts'[t])
                    THEN [job EXCEPT !.result = "REJECTED",
                                     !.nextAction = "PUBLISH_RESULT",
                                     !.notAccepted = TRUE, !.retryAt = NULL]
                    ELSE [job EXCEPT !.notAccepted = TRUE, !.retryAt = retryAt]
          /\ slot' = SlotWithout(t)
          /\ UNCHANGED conflict

\* record_attempt_contradiction: evidence of progress for a task recorded as
\* not accepted, the current or a past one.
ContradictionApplies(t) == attempts[t] # 0 /\ t \in rejected

RecordContradictionTx(t) ==
    /\ ContradictionApplies(t)
    /\ conflict' = conflict \cup {t}
    /\ job' = IF /\ job.status = "RECEIVED" /\ job.nextAction = "SUBMIT_PRUNA"
                 /\ job.result = NULL
              THEN [job EXCEPT !.retryAt = NULL]
              ELSE job
    /\ UNCHANGED <<attempts, rejected, slot>>

\* PrunaLimiter.release_in_flight with the task of the ended generation.
ReleaseSlotTx(t) ==
    /\ slot' = SlotWithout(t)
    /\ UNCHANGED <<job, attemptVars>>

-----------------------------------------------------------------------------
(* The fallback. *)

\* PrunaLimiter.begin_fallback: slot, the one fallback attempt, start record.
CanBeginFallback(tok) ==
    /\ LeaseValid(job, tok)
    /\ ~job.fbStarted /\ job.fbAttempts < FallbackLimit
    /\ Fallback(job) /\ job.fbTask # NULL
    /\ slot \in {NULL, job.fbTask}

BeginFallbackTx(tok) ==
    /\ CanBeginFallback(tok)
    /\ job' = [job EXCEPT !.fbAttempts = @ + 1, !.fbStarted = TRUE]
    /\ slot' = job.fbTask
    /\ UNCHANGED attemptVars
=============================================================================
