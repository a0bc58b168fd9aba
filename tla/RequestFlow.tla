---------------------------- MODULE RequestFlow ----------------------------
(***************************************************************************)
(* One job from its SQS request to the recorded end of its Pruna           *)
(* generation: Request Workers with the submitter, Watchdogs with the      *)
(* resubmitter and the status query, and Webhook requests, as processes    *)
(* that run one transaction, message or HTTP call per step and decide from *)
(* rows they read before.                                                  *)
(*                                                                         *)
(* The process itself is its lease token: it starts to act with a new one  *)
(* only when it no longer acts with the last.                              *)
(***************************************************************************)
EXTENDS AsyncJobTransactions, JobDecisions, FiniteSets

CONSTANTS
    Worker,       \* Request Workers
    Watchdog,     \* Watchdogs, one per server
    Hook,         \* Webhook requests handled at the same time
    Publisher,    \* the result publisher
    MayContradict,\* Runware may report progress of a task it refused
    MayCrash,     \* processes that may die
    MaxFaults     \* crashes, failed calls and late renewals in a behaviour

ASSUME ProcessAssumption ==
    /\ Worker \cup Watchdog \cup {Publisher} \subseteq Token
    /\ Worker \cap Watchdog = {} /\ Publisher \notin Worker \cup Watchdog
    /\ Hook \cap Token = {}
    /\ NULL \notin Task \X Token /\ Ref # {}
    /\ MayContradict \in BOOLEAN /\ MaxFaults \in Nat

Holder == Worker \cup Watchdog

Process == Holder \cup Hook \cup {Publisher}

VARIABLES
    msg,       \* the request message is in the queue
    followUp,  \* actions published to ai-fitting-response
    claimed,   \* claim_republish_once of this postprocess stage
    fate,      \* what Runware made of each task
    loc,       \* where each process is, and what it has read
    faults     \* faults so far

flowVars == <<msg, followUp, claimed, fate, loc, faults>>

vars == <<dbVars, flowVars>>

Ended == {"done", "timedOut", "refused"}

Fate == {"none", "lost", "refused", "auth", "balance", "other", "running",
         "done", "timedOut"}

Report == {"processing", "done", "doneNoUrl", "timedOut", "refused", "auth",
           "unclear"}

\* What a status query answers about a task, and what a Webhook may say of it,
\* also late: that it was still processing.
Answers(f) ==
    CASE f = "running" -> {"processing"}
      [] f = "done" -> {"done", "doneNoUrl"}
      [] f = "timedOut" -> {"timedOut"}
      [] f = "refused" ->
            {"refused"} \cup IF MayContradict THEN {"processing", "done"} ELSE {}
      [] f = "auth" -> {"auth"}
      [] f = "other" -> {"unclear"}
      [] OTHER -> {}

Reports(f) ==
    Answers(f) \cup IF f \in {"done", "timedOut"} THEN {"processing"} ELSE {}

\* The claim is free or taken, or taken for nothing: its inspection ended before
\* the message was out.  The code sees no difference between the last two.
Claim == {"no", "yes", "stranded"}

Pc == {"idle", "handover", "acquire", "check", "precheck", "prepare", "grant",
       "regrant", "send", "http", "rejected", "decide", "release",
       "releaseDelete", "delete", "query", "event", "apply", "fill",
       "conflict", "slot", "publish", "republish", "claim", "mark"}

\* A process: the task and the report it handles, whether it read the task as
\* not accepted, and the follow-up it will publish.
Local == [pc : Pc, task : Task \cup {NULL}, ev : Report \cup {NULL},
          was : BOOLEAN, next : {NULL, "POSTPROCESS", "RUN_FALLBACK"}]

AtRest == [pc |-> "idle", task |-> NULL, ev |-> NULL, was |-> FALSE, next |-> NULL]

TypeOK ==
    /\ job \in JobRow
    /\ attempts \in [Task -> 0..PrunaSubmitLimit]
    /\ rejected \in SUBSET Task /\ conflict \in SUBSET Task
    /\ slot \in Task \cup {NULL}
    /\ msg \in BOOLEAN /\ claimed \in Claim
    /\ followUp \in SUBSET {"POSTPROCESS", "RUN_FALLBACK"}
    /\ fate \in [Task -> Fate]
    /\ loc \in [Process -> Local]
    /\ faults \in 0..MaxFaults

Init ==
    /\ job = NewJob /\ attempts = [t \in Task |-> 0]
    /\ rejected = {} /\ conflict = {} /\ slot = NULL
    /\ msg = TRUE /\ followUp = {} /\ claimed = "no"
    /\ fate = [t \in Task |-> "none"]
    /\ loc = [p \in Process |-> AtRest] /\ faults = 0

-----------------------------------------------------------------------------
(* Helpers. *)

At(p, pc) == loc[p].pc = pc

Go(p, pc) ==
    loc' = [loc EXCEPT ![p] = IF pc = "idle" THEN AtRest ELSE [@ EXCEPT !.pc = pc]]

\* Only process p moves; the rest of the flow stays as it is.
Moves(p, pc) ==
    /\ Go(p, pc)
    /\ UNCHANGED <<msg, followUp, claimed, fate, faults>>

Fault ==
    /\ faults < MaxFaults
    /\ faults' = faults + 1

Owns(p) == LeaseValid(job, p)

\* What becomes of the claim when p ends where it is: nobody gives it back.
ClaimLeft(p) ==
    IF At(p, "republish") /\ loc[p].next = "POSTPROCESS" /\ claimed = "yes"
    THEN "stranded" ELSE claimed

\* A failed call (database, SQS, HTTP) that sends p to pc and changes nothing.
Fails(p, pc) ==
    /\ Fault /\ Go(p, pc)
    /\ claimed' = ClaimLeft(p)
    /\ UNCHANGED <<dbVars, msg, followUp, fate>>

\* publish_follow_up: SQS has the message, or the call failed or is unknown.
Publish(p, action, published, failed) ==
    \/ /\ followUp' = followUp \cup {action}
       /\ Go(p, published)
       /\ UNCHANGED <<dbVars, msg, claimed, fate, faults>>
    \/ Fails(p, failed)

-----------------------------------------------------------------------------
(* RequestProcessor: one delivery of the request message. *)

\* The queue delivers the message again whenever its visibility ends, also
\* while another Worker still handles it.  create returns the row.
Receive(w) ==
    /\ At(w, "idle") /\ msg
    /\ Moves(w, CASE job.status \in Terminal /\ job.msgStatus = "PUBLISHED" -> "delete"
                  [] job.status \notin Terminal /\ job.nextAction = "SUBMIT_PRUNA" -> "acquire"
                  [] OTHER -> "handover")
    /\ UNCHANGED dbVars

\* The decision whether to delete, from the latest row: `yes` or `no`.  It is
\* also `no` when an actor the job would be left to does not run.
DecideDelete(w, yes, no) ==
    \/ WaitingForFallback(job) /\ Publish(w, "RUN_FALLBACK", yes, no)
    \/ /\ ~WaitingForFallback(job)
       /\ \/ DeletionAllowed(job) /\ Moves(w, yes)
          \/ Moves(w, no)
       /\ UNCHANGED dbVars

\* The job is past SUBMIT_PRUNA: no lease is taken.
HandOver(w) ==
    /\ At(w, "handover")
    /\ DecideDelete(w, "delete", "idle")

\* A started job is left to the recovery, also one recorded as not accepted.
WorkerAcquires(w) ==
    /\ At(w, "acquire") /\ w \in Worker
    /\ IF CanAcquireLease(job, "SUBMIT_PRUNA")
       THEN Moves(w, IF job.started THEN "check" ELSE "precheck")
       ELSE Moves(w, "idle")
    /\ TryRow(CanAcquireLease(job, "SUBMIT_PRUNA"), AcquireLease(job, w))

Check(w) ==
    /\ At(w, "check")
    /\ \/ DeletionAllowed(job) /\ Moves(w, "releaseDelete")
       \/ Moves(w, "release")
    /\ UNCHANGED dbVars

\* RequestPrecheck.run: passed, or a final failure.  A failure that cannot be
\* decided now is a fault.
PrecheckPasses(p) ==
    /\ At(p, "precheck")
    /\ Moves(p, "prepare")
    /\ UNCHANGED dbVars

PrecheckFails(p) ==
    /\ At(p, "precheck")
    /\ TryRow(CanSaveResult(job, p), SaveResult(job, "FAILED"))
    /\ Moves(p, IF p \in Worker /\ Owns(p) THEN "check" ELSE "release")

\* finally: release_lease.  The Watchdog ignores what its submitter decided.
Release(p) ==
    /\ loc[p].pc \in {"release", "releaseDelete"}
    /\ TryRow(Owns(p), ReleaseLease(job))
    /\ Moves(p, IF At(p, "releaseDelete") /\ p \in Worker THEN "delete" ELSE "idle")

\* The deletion may fail; the message is then delivered again.
Delete(w) ==
    /\ At(w, "delete")
    /\ msg' \in {msg, FALSE}
    /\ Go(w, "idle")
    /\ UNCHANGED <<dbVars, followUp, claimed, fate, faults>>

-----------------------------------------------------------------------------
(* PrunaSubmitter, called by a Worker or by the Watchdog's resubmitter. *)

NewTask(t) ==
    /\ t # job.task /\ attempts[t] = 0 /\ fate[t] = "none"
    /\ \A q \in Process : loc[q].task # t

AfterPrepare(j) ==
    IF NotAcceptedPending(j)
    THEN IF j.retryAt = NULL THEN "release" ELSE "regrant"
    ELSE IF j.started THEN "decide" ELSE "grant"

Prepare(p) ==
    /\ At(p, "prepare")
    /\ \/ \E t \in Task :
            /\ NewTask(t) /\ CanPreparePruna(job, p)
            /\ TryRow(TRUE, PreparePruna(job, t, TRUE))
            /\ Moves(p, "grant")
       \/ /\ ~CanPreparePruna(job, p)
          /\ Moves(p, IF Owns(p) /\ job.task # NULL THEN AfterPrepare(job) ELSE "release")
          /\ UNCHANGED dbVars

\* The HTTP request for task t may now be sent by p.
Granted(p, t) ==
    /\ loc' = [loc EXCEPT ![p].pc = "send", ![p].task = t]
    /\ UNCHANGED <<msg, followUp, claimed, fate, faults>>

Grant(p) ==
    /\ At(p, "grant")
    /\ \/ BeginSubmissionTx(p) /\ Granted(p, job.task)
       \/ /\ ~CanBeginSubmission(p)
          /\ Moves(p, "release") /\ UNCHANGED dbVars

\* More tasks than Task are not modelled: the retry then waits.
Regrant(p) ==
    /\ At(p, "regrant")
    /\ \/ \E t \in Task : NewTask(t) /\ BeginRetryTx(p, t) /\ Granted(p, t)
       \/ /\ ~\E t \in Task : NewTask(t) /\ CanBeginRetry(p, t)
          /\ Moves(p, "release") /\ UNCHANGED dbVars

\* _recheck while it waits for a slot: the budget or the balance is used up.
RecheckFails(p) ==
    /\ loc[p].pc \in {"grant", "regrant"}
    /\ TryRow(CanSaveResult(job, p), SaveResult(job, "FAILED"))
    /\ Moves(p, "release")

\* The provider refuses the input before sending.
InputRefused(p) ==
    /\ At(p, "send")
    /\ CancelUnsentTx(loc[p].task, p)
    /\ Fault /\ Go(p, "release")
    /\ UNCHANGED <<msg, followUp, claimed, fate>>

Send(p) ==
    /\ At(p, "send")
    /\ \E f \in {"lost", "refused", "auth", "balance", "other", "running"} :
         fate' = [fate EXCEPT ![loc[p].task] = f]
    /\ Go(p, "http")
    /\ UNCHANGED <<dbVars, msg, followUp, claimed, faults>>

RetryGuidance == {NULL, "later"}

RecordRefused(t) ==
    \/ \E r \in RetryGuidance : RecordNotAcceptedTx(t, r)
    \/ ~NotAcceptedApplies(t) /\ UNCHANGED dbVars

\* The request timed out or its answer says nothing: the task stays as it is.
\* Mutant: a request without an answer counts as not sent.
NoAnswer_Cancel(p) ==
    CancelUnsentTx(loc[p].task, p) /\ Moves(p, "decide")

NoAnswer(p) == Moves(p, "decide") /\ UNCHANGED dbVars

\* The HTTP response and the first transaction that records it.
Accepted(p, t) ==
    /\ fate[t] \in {"running", "done", "timedOut"}
    /\ TryRow(CanRecordAccepted(job, t), RecordAccepted(job))
    /\ Moves(p, IF CanRecordAccepted(job, t) THEN "decide" ELSE "release")

Respond(p) ==
    /\ At(p, "http")
    /\ LET t == loc[p].task IN
         \/ Accepted(p, t)
         \/ fate[t] = "refused" /\ RecordRefused(t) /\ Moves(p, "decide")
         \/ /\ fate[t] \in {"timedOut", "auth", "balance", "other"}
            /\ ReleaseSlotTx(t) /\ Moves(p, "rejected")
         \/ NoAnswer(p)

\* _rejected, after the slot of the task was released.
Rejected(p) ==
    /\ At(p, "rejected")
    /\ LET t == loc[p].task IN
         CASE fate[t] = "timedOut" ->
                TryRow(CanRecordFailed(job, t), RecordFailedRecoverable(job))
           [] fate[t] = "auth" ->
                TryRow(CanRecordAuthHold(job, t), RecordAuthHold(job))
           [] fate[t] = "balance" ->
                TryRow(CanSaveResult(job, p), SaveResult(job, "FAILED"))
           [] OTHER -> UNCHANGED dbVars
    /\ Moves(p, "decide")

Decide(p) ==
    /\ At(p, "decide")
    /\ DecideDelete(p, "releaseDelete", "release")

-----------------------------------------------------------------------------
(* RunwareWebhookService.handle: one report, from a Webhook or a query. *)

Handles(p, t, e) ==
    /\ loc' = [loc EXCEPT ![p] = [AtRest EXCEPT !.pc = "event", !.task = t, !.ev = e]]
    /\ UNCHANGED <<dbVars, msg, followUp, claimed, fate, faults>>

ReceiveWebhook(h) ==
    /\ At(h, "idle") /\ h \in Hook
    /\ \E t \in Task : \E e \in Reports(fate[t]) : Handles(h, t, e)

Progress == {"processing", "done", "doneNoUrl", "timedOut"}

\* handle reads the job of the task before it changes anything: the current
\* task, a past attempt (only evidence against its rejection matters), or an
\* unknown one, which is refused.
ReadJob(p) ==
    /\ At(p, "event")
    /\ LET t == loc[p].task
           e == loc[p].ev
           current == job.task = t /\ job.started
           pastEvidence == ~current /\ attempts[t] # 0 /\ t \in rejected /\ e \in Progress
       IN  IF current /\ e # "processing"
           THEN loc' = [loc EXCEPT ![p].pc = "apply", ![p].was = job.notAccepted]
           ELSE IF current \/ pastEvidence
           THEN loc' = [loc EXCEPT ![p].pc = "conflict", ![p].ev = "processing"]
           ELSE Go(p, "idle")
    /\ UNCHANGED <<dbVars, msg, followUp, claimed, fate, faults>>

\* _follow_up_action, from the row the recording transaction returned; it
\* returns none when the task is not the current one any more.
FollowUpAction(e, t, j) ==
    IF j.task # t THEN NULL
    ELSE IF e \in {"done", "doneNoUrl"} /\ j.status = "POSTPROCESSING"
         /\ j.nextAction = "POSTPROCESS" /\ ~AwaitingResultUrl(j)
    THEN "POSTPROCESS"
    ELSE IF e = "timedOut" /\ j.status = "FALLBACK_RUNNING"
              /\ j.nextAction = "RUN_FALLBACK"
    THEN "RUN_FALLBACK"
    ELSE NULL

TheRef == CHOOSE r \in Ref : TRUE

Url(e) == IF e = "done" THEN TheRef ELSE NULL

\* After the state was recorded: the conflict of a task that the row read
\* before calls not accepted, then the slot, then the follow-up.
Recorded(p, applied) ==
    /\ loc' = [loc EXCEPT ![p].pc = IF applied /\ loc[p].was THEN "conflict" ELSE "slot",
                         ![p].next = FollowUpAction(loc[p].ev, loc[p].task, job')]
    /\ UNCHANGED <<msg, followUp, claimed, fate, faults>>

\* A success that cannot be recorded again may still complete the reference.
ApplySuccess(p, t, url) ==
    /\ loc[p].ev \in {"done", "doneNoUrl"}
    /\ TryRow(CanRecordSucceeded(job, t), RecordSucceeded(job, url, TheRef))
    /\ IF ~CanRecordSucceeded(job, t) /\ job.task = t /\ Postprocessing(job)
          /\ job.url = NULL /\ url # NULL
       THEN Moves(p, "fill")
       ELSE Recorded(p, CanRecordSucceeded(job, t))

Apply(p) ==
    /\ At(p, "apply")
    /\ LET t == loc[p].task IN
         \/ ApplySuccess(p, t, Url(loc[p].ev))
         \/ /\ loc[p].ev = "timedOut"
            /\ TryRow(CanRecordFailed(job, t), RecordFailedRecoverable(job))
            /\ Recorded(p, CanRecordFailed(job, t))
         \/ /\ loc[p].ev = "auth"
            /\ TryRow(CanRecordAuthHold(job, t), RecordAuthHold(job))
            /\ Moves(p, "slot")
         \/ loc[p].ev = "refused" /\ RecordRefused(t) /\ Moves(p, "idle")
         \/ loc[p].ev = "unclear" /\ Moves(p, "idle") /\ UNCHANGED dbVars

\* _fill_image_ref; a status query of an AI-stored job confirms the result.
Fill(p) ==
    /\ At(p, "fill")
    /\ LET can == CanFillImageRef(job, loc[p].task, Url(loc[p].ev), TheRef, p \in Watchdog)
       IN  TryRow(can, FillImageRef(job, Url(loc[p].ev), TheRef))
    /\ Recorded(p, FALSE)

RecordConflict(p) ==
    /\ At(p, "conflict")
    /\ \/ RecordContradictionTx(loc[p].task)
       \/ ~ContradictionApplies(loc[p].task) /\ UNCHANGED dbVars
    /\ Moves(p, IF loc[p].ev = "processing" THEN "idle" ELSE "slot")

ReleaseSlot(p) ==
    /\ At(p, "slot")
    /\ ReleaseSlotTx(loc[p].task)
    /\ Moves(p, IF loc[p].next = NULL THEN "idle" ELSE "publish")

PublishFollowUp(p) ==
    /\ At(p, "publish")
    /\ Publish(p, loc[p].next, "idle", "idle")

-----------------------------------------------------------------------------
(* Watchdog.inspect; each branch may be taken once the job is old enough. *)

\* The jobs it asks Runware about: a slot held for long, a submission nobody
\* answered, a Webhook or a result URL that does not come, a cost to settle.
\* Mutant: only a slot is a reason, not an answer that was never recorded.
AsksAbout_NoUnknown(j) ==
    \/ slot # NULL /\ slot = j.task
    \/ j.status \in Terminal /\ j.accepted
    \/ ~AuthHoldActive(j) /\ AwaitingWebhook(j)
    \/ AwaitingResultUrl(j) /\ ~j.leaseLive

\* Mutant: a slot that is held for long is not a reason.
AsksAbout_NoSlot(j) ==
    \/ j.status \in Terminal /\ j.accepted
    \/ /\ ~AuthHoldActive(j)
       /\ SubmitUnknown(j) \/ AwaitingWebhook(j)
    \/ AwaitingResultUrl(j) /\ ~j.leaseLive

AsksAbout(j) ==
    \/ slot # NULL /\ slot = j.task
    \/ j.status \in Terminal /\ j.accepted
    \/ /\ ~AuthHoldActive(j)
       /\ SubmitUnknown(j) \/ AwaitingWebhook(j)
    \/ AwaitingResultUrl(j) /\ ~j.leaseLive

InspectAsks(d) ==
    /\ At(d, "idle") /\ d \in Watchdog
    /\ AsksAbout(job)
    /\ loc' = [loc EXCEPT ![d].pc = "query", ![d].task = job.task]
    /\ UNCHANGED <<dbVars, msg, followUp, claimed, fate, faults>>

\* _query with the task read before: what is not determined changes nothing.
Query(d) ==
    /\ At(d, "query")
    /\ LET t == loc[d].task IN
         \/ /\ "processing" \in Answers(fate[t])
            /\ \/ RecordContradictionTx(t)
               \/ ~ContradictionApplies(t) /\ UNCHANGED dbVars
            /\ Moves(d, "idle")
         \/ \E e \in Answers(fate[t]) \ {"processing"} : Handles(d, t, e)
         \/ Answers(fate[t]) = {} /\ Moves(d, "idle") /\ UNCHANGED dbVars

\* _resubmit_due: a rejected attempt whose time has come.
RetryIsDue(j) ==
    /\ NotAcceptedPending(j) /\ ~AuthHoldActive(j)
    /\ j.retryAt = "due" /\ ~j.leaseLive

InspectResubmits(d) ==
    /\ At(d, "idle") /\ d \in Watchdog
    /\ RetryIsDue(job)
    /\ Moves(d, "acquire") /\ UNCHANGED dbVars

\* PrunaResubmitter._run looks at the row its lease returned.
WatchdogAcquires(d) ==
    /\ At(d, "acquire") /\ d \in Watchdog
    /\ IF CanAcquireLease(job, "SUBMIT_PRUNA")
       THEN Moves(d, IF NotAcceptedPending(job) /\ job.retryAt # NULL
                     THEN "precheck" ELSE "release")
       ELSE Moves(d, "idle")
    /\ TryRow(CanAcquireLease(job, "SUBMIT_PRUNA"), AcquireLease(job, d))

\* _postprocess publishes once per stage, _fallback once per interval.
InspectRepublishes(d) ==
    /\ At(d, "idle") /\ d \in Watchdog
    /\ ~job.leaseLive /\ job.result = NULL
    /\ \/ job.nextAction = "POSTPROCESS" /\ ~AwaitingResultUrl(job) /\ claimed = "no"
       \/ job.nextAction = "RUN_FALLBACK" /\ (job.fbImage \/ ~job.fbStarted)
    /\ claimed' = "yes"
    /\ loc' = [loc EXCEPT ![d].pc = "republish", ![d].next = job.nextAction]
    /\ UNCHANGED <<dbVars, msg, followUp, fate, faults>>

\* forget_republish when there is nothing to publish any more, or when the
\* message was not, or perhaps not, published.
\* Mutant: a failed publication is not forgotten.
ClaimAfter_Kept(published) == claimed

ClaimAfter(published) == IF published THEN claimed ELSE "no"

\* _republish after its claim: the row is read again, the message published and
\* the claim given back if it was not.  A database call that fails in between
\* is CallFails: run_once goes on and the claim stays.
Republish(d) ==
    /\ At(d, "republish")
    /\ Go(d, "idle")
    /\ \/ /\ job.nextAction = loc[d].next /\ job.result = NULL
          /\ \/ /\ followUp' = followUp \cup {loc[d].next}
                /\ claimed' = ClaimAfter(TRUE)
                /\ UNCHANGED faults
             \/ /\ Fault
                /\ followUp' \in {followUp, followUp \cup {loc[d].next}}
                /\ claimed' = ClaimAfter(FALSE)
       \/ /\ job.nextAction # loc[d].next \/ job.result # NULL
          /\ claimed' = ClaimAfter(FALSE)
          /\ UNCHANGED <<followUp, faults>>
    /\ UNCHANGED <<dbVars, msg, fate>>

-----------------------------------------------------------------------------
(* The publisher of the result, the environment and the faults. *)

PublisherAcquires(p) ==
    /\ p = Publisher /\ At(p, "idle")
    /\ CanAcquireLease(job, "PUBLISH_RESULT") /\ job.msgStatus = "PENDING"
    /\ TryRow(TRUE, AcquireLease(job, p))
    /\ Moves(p, "claim")

\* Sends already used up are never sent again.
PublisherClaims(p) ==
    /\ At(p, "claim")
    /\ IF CanClaimMessage(job, p)
       THEN TryRow(TRUE, ClaimMessage(job)) /\ Moves(p, "mark")
       ELSE TryRow(CanMarkExhausted(job, p), MarkExhausted(job)) /\ Moves(p, "release")

\* Not sent, perhaps sent, or sent and not recorded: given up after the last
\* send, else the lease is held until the next one.
NotPublished(p) ==
    /\ TryRow(CanMarkExhausted(job, p), MarkExhausted(job))
    /\ Go(p, IF Owns(p) /\ ~CanMarkExhausted(job, p) THEN "idle" ELSE "release")
    /\ UNCHANGED <<msg, followUp, claimed, fate>>

PublisherMarks(p) ==
    /\ At(p, "mark")
    /\ LET final == PayloadStatus(job.result)
           can == CanMarkPublished(job, p, final) IN
         \/ can /\ TryRow(TRUE, MarkPublished(job, final)) /\ Moves(p, "idle")
         \/ ~can /\ NotPublished(p) /\ UNCHANGED faults
         \/ can /\ NotPublished(p) /\ Fault

\* Runware ends a generation.
Generate(t) ==
    /\ fate[t] = "running"
    /\ \E f \in {"done", "timedOut"} : fate' = [fate EXCEPT ![t] = f]
    /\ UNCHANGED <<dbVars, msg, followUp, claimed, loc, faults>>

RetryTimeComes ==
    /\ job.retryAt = "later"
    /\ TryRow(TRUE, [job EXCEPT !.retryAt = "due"])
    /\ UNCHANGED flowVars

\* p acts with a lease it acquired; a new delivery begins without one.
ActsWithLease(p) ==
    loc[p].pc \in {"check", "precheck", "prepare", "grant", "regrant", "send",
                  "http", "rejected", "decide", "release", "releaseDelete",
                  "claim", "mark"}

\* A lease nobody acts with expires.
AbandonedLeaseExpires ==
    /\ job.leaseLive /\ ~ActsWithLease(job.lease)
    /\ TryRow(TRUE, ExpireLease(job))
    /\ UNCHANGED flowVars

\* keepalive and the heartbeat renew a lease in use; once they do not.
UsedLeaseExpires ==
    /\ job.leaseLive /\ ActsWithLease(job.lease)
    /\ Fault
    /\ TryRow(TRUE, ExpireLease(job))
    /\ UNCHANGED <<msg, followUp, claimed, fate, loc>>

\* A transaction or a call fails: with a lease the process releases it and
\* keeps the message, a report is answered with an error, an inspection is
\* given up until the next cycle.
CallFails(p) ==
    \/ /\ loc[p].pc \in {"check", "precheck", "prepare", "grant", "regrant",
                         "http", "rejected", "decide", "claim", "mark"}
       /\ Fails(p, "release")
    \/ /\ loc[p].pc \in {"query", "event", "apply", "fill", "conflict", "slot",
                         "republish", "release", "releaseDelete"}
       /\ Fails(p, "idle")

\* The process dies and starts again without what it had in memory.
Crash(p) ==
    /\ p \in MayCrash /\ ~At(p, "idle")
    /\ Fails(p, "idle")

-----------------------------------------------------------------------------

\* What a process does once it has begun.
Step(p) ==
    \/ HandOver(p) \/ WorkerAcquires(p) \/ WatchdogAcquires(p) \/ Check(p)
    \/ PrecheckPasses(p) \/ PrecheckFails(p) \/ Release(p) \/ Delete(p)
    \/ Prepare(p) \/ Grant(p) \/ Regrant(p) \/ RecheckFails(p)
    \/ Send(p) \/ Respond(p) \/ Rejected(p) \/ Decide(p)
    \/ ReadJob(p) \/ Apply(p) \/ Fill(p) \/ RecordConflict(p) \/ ReleaseSlot(p)
    \/ PublishFollowUp(p) \/ Query(p) \/ Republish(p)
    \/ PublisherClaims(p) \/ PublisherMarks(p)

Begin(p) ==
    \/ p \in Worker /\ Receive(p)
    \/ ReceiveWebhook(p)
    \/ InspectAsks(p) \/ InspectResubmits(p) \/ InspectRepublishes(p)
    \/ PublisherAcquires(p)

Next ==
    \/ \E p \in Process :
         Begin(p) \/ Step(p) \/ InputRefused(p) \/ CallFails(p) \/ Crash(p)
    \/ \E t \in Task : Generate(t)
    \/ RetryTimeComes
    \/ AbandonedLeaseExpires
    \/ UsedLeaseExpires

Spec == Init /\ [][Next]_vars

\* Processes go on until they end or die, the queue delivers, the Watchdog
\* inspects every job it selects again and again, Runware ends what it
\* began, and time passes.  A Watchdog that tries for the lease again and
\* again gets it some time: a delivery of the message holds it only for a
\* moment of each visibility timeout.  No Webhook need ever arrive.
Fairness ==
    /\ \A p \in Process : WF_vars(Step(p))
    /\ \A w \in Worker : WF_vars(Receive(w))
    /\ \A d \in Watchdog :
         /\ SF_vars(InspectAsks(d))
         /\ SF_vars(InspectResubmits(d))
         /\ SF_vars(WatchdogAcquires(d) /\ CanAcquireLease(job, "SUBMIT_PRUNA"))
         /\ SF_vars(InspectRepublishes(d))
    /\ \A t \in Task : WF_vars(Generate(t))
    /\ WF_vars(RetryTimeComes)
    /\ WF_vars(AbandonedLeaseExpires)

FairSpec == Spec /\ Fairness

-----------------------------------------------------------------------------
(* Properties. *)

Sent == {t \in Task : fate[t] # "none"}

Sender == {p \in Holder : At(p, "send")}

Unsent ==
    IF Sender = {} THEN NULL
    ELSE LET p == CHOOSE q \in Sender : TRUE IN <<loc[p].task, p>>

DB == INSTANCE AsyncJobState WITH sent <- Sent, unsent <- Unsent

\* The callers keep the contract AsyncJobState is checked and proved under:
\* every report names a task that was really sent, and a submission is taken
\* back only by the process that was granted it and has not sent it, also
\* when leases expire, processes die and rows are read before they change.
CallersKeepContract == DB!Spec

\* Runware generates at most once for a job: a second submission is made only
\* when no earlier one was or ever will be generated (Runware's refusals
\* being true).
PaidOnce ==
    ~MayContradict =>
      \A t, u \in Task :
        {fate[t], fate[u]} \subseteq {"running", "done", "timedOut"} => t = u

\* A generation that runs holds the job's slot, whatever timed out, crashed or
\* was reported late.
RunningHoldsSlot ==
    \A t \in Task : fate[t] = "running" => slot = t

\* The request message is deleted only when the job has ended or the Watchdog
\* selects it: no interleaving of the decision, the deletion and the other
\* actors leaves a job that nobody looks at.
NoJobForgotten ==
    ~msg => Candidate(job) \/ job.status \in Terminal

\* Evidence of a generation that contradicts a recorded rejection of the
\* current attempt is recorded by the time its slot is given back
\* (runware_webhook.py:765).  It is not: the rejection may be recorded after
\* the handler read the row.
EvidenceKept ==
    \A p \in Process :
      loc[p].pc = "slot" /\ loc[p].ev \in Progress /\ job.task = loc[p].task
          /\ job.notAccepted /\ job.accepted
        => job.task \in conflict

\* The submission of a job ends: it goes on to postprocessing, the fallback or
\* a result, or waits for the operator (an authentication hold, a retry that
\* was held, or a request Runware does not know and nobody answered).
Unanswered ==
    SubmitUnknown(job) /\ fate[job.task] \in {"none", "lost", "balance", "other"}

Settled ==
    \/ job.status \notin {"RECEIVED", "WAITING_PRUNA"} \/ job.result # NULL
    \/ AuthHoldActive(job)
    \/ NotAcceptedPending(job) /\ job.retryAt = NULL
    \/ Unanswered

EventuallySettled == <>[]Settled

\* The slot of a generation that ended is given back although no Webhook ever
\* arrives and the process that knew of the end died.
SlotReturned ==
    \A t \in Task : fate[t] \in Ended ~> slot # t

\* A job that waits for postprocessing or the fallback.
Waits(action) ==
    job.nextAction = action /\ ~AwaitingResultUrl(job)

\* A job that waits gets its message, although the publication failed (the
\* Webhook's, the Watchdog's, or both) or its process died.  The one exception
\* is POSTPROCESS whose only claim an inspection took that then died or lost
\* the database (watchdog.py:733): all that is left of it is an alert.
\* Publications that fail never lead there, each gives its claim back.
FollowUpPublished ==
    \A a \in {"POSTPROCESS", "RUN_FALLBACK"} :
      Waits(a) ~> \/ a \in followUp \/ ~Waits(a)
                  \/ a = "POSTPROCESS" /\ claimed = "stranded"

-----------------------------------------------------------------------------
(* The inductive invariant: what each process knows where it stands, and   *)
(* what the processes, Runware and the database agree on.                  *)

\* A process is where its kind can be: a Webhook request never holds a lease.
KindAllows(p, pc) ==
    /\ p \in Hook =>
          pc \in {"idle", "event", "apply", "fill", "conflict", "slot", "publish"}
    /\ p = Publisher => pc \in {"idle", "claim", "mark", "release"}

KindsKept == \A p \in Process : KindAllows(p, loc[p].pc)

\* A report that is handled is true, perhaps late, and what was recorded as
\* ended or rejected does not run.
KnowsTheTruth(l) ==
    /\ l.pc \in {"query", "http", "rejected", "event", "apply", "fill",
                 "conflict", "slot"} => l.task \in Task
    /\ l.pc \in {"http", "rejected"} => fate[l.task] # "none"
    /\ l.pc = "rejected" => fate[l.task] # "running"
    /\ l.pc \in {"event", "apply", "fill", "conflict", "slot"} =>
          l.ev \in Reports(fate[l.task])
    /\ l.pc \in {"apply", "fill", "slot"} => l.ev # "processing"
    /\ l.pc \in {"publish", "republish"} => l.next # NULL

ReportsAreTrue == \A p \in Process : KnowsTheTruth(loc[p])

\* One process at a time may send; its task is unknown to Runware and holds
\* the slot, and while its lease is valid nothing else moves the job on.
SenderIsAlone ==
    \A p \in Sender :
      /\ loc[p].task \in Task /\ fate[loc[p].task] = "none"
      /\ slot = loc[p].task
      /\ Owns(p) => job.nextAction = "SUBMIT_PRUNA"
      /\ \A q \in Sender : q = p

\* Only refused tasks are recorded as rejected, and at most one task of the
\* job was ever generated.
Generated(t) == fate[t] \in {"running", "done", "timedOut"}

RefusalsAreTrue ==
    /\ \A t \in rejected : fate[t] = "refused"
    /\ \A t, u \in Task : Generated(t) /\ Generated(u) => t = u

\* A job that still waits for its submission was not accepted, only one that
\* was started can be; no fallback was begun here.
RowFitsFlow ==
    /\ job.status = "RECEIVED" /\ job.nextAction = "SUBMIT_PRUNA" => ~job.accepted
    /\ job.accepted => job.started
    /\ job.fbTask = NULL

\* The job went past the state only its request message leads out of, and no
\* process can take it back there: a first submission can be cancelled.
PastRequest ==
    /\ job.started \/ job.nextAction # "SUBMIT_PRUNA"
    /\ \A p \in Sender : Owns(p) => attempts[loc[p].task] > 1

\* Whoever is on the way to delete the message, or has deleted it, is past it.
DeletePc == {"check", "http", "rejected", "decide", "handover", "releaseDelete",
             "delete"}

MessageUntilPast ==
    ~msg \/ (\E p \in Process : loc[p].pc \in DeletePc) => PastRequest

\* The invariants above and what they rest on (TLC checks it,
\* RequestFlow_proofs proves it).
FlowInvariant ==
    /\ TypeOK
    /\ DB!IInv
    /\ KindsKept /\ ReportsAreTrue
    /\ SenderIsAlone /\ RefusalsAreTrue /\ RunningHoldsSlot
    /\ RowFitsFlow /\ MessageUntilPast
=============================================================================
