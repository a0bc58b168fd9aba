---------------------------- MODULE FollowUpFlow ----------------------------
(***************************************************************************)
(* One job from the recorded end of its Pruna generation to the message    *)
(* that tells BE: postprocess Workers with the POSTPROCESS and the         *)
(* RUN_FALLBACK handlers, and result publishers.  A process runs one       *)
(* transaction, S3, Runware, LLM or SQS call per step and decides from the *)
(* row it read before; its lease token is the process itself.              *)
(*                                                                         *)
(* Messages for another task or job, and unreadable ones, are kept in the  *)
(* queue and change nothing: they are left out.  A publication adds the    *)
(* action to a set, and a deletion may leave another copy behind.          *)
(***************************************************************************)
EXTENDS AsyncJobTransactions, JobDecisions, FiniteSets

CONSTANTS
    Worker,           \* postprocess Workers
    Publisher,        \* result publishers, one per server
    Heads,            \* HEAD requests of one bundle (S3_CHECK_OFFSETS)
    CommentAttempts,  \* COMMENT_ATTEMPT_LIMIT
    TitleAttempts,    \* TITLE_ATTEMPT_LIMIT
    MayCrash,         \* processes that may die
    MaxFaults         \* crashes, failed calls and late renewals in a behaviour

ASSUME FollowUpAssumption ==
    /\ Worker \cup Publisher \subseteq Token /\ Worker \cap Publisher = {}
    /\ IsFiniteSet(Worker \cup Publisher)
    /\ {Heads, CommentAttempts, TitleAttempts} \subseteq Nat \ {0}
    /\ MaxFaults \in Nat

Process == Worker \cup Publisher

Action == {"POSTPROCESS", "RUN_FALLBACK"}

VARIABLES
    queue,   \* actions with a message in ai-fitting-response
    image,   \* the result image is in S3 under async_image_key
    fb,      \* what Runware made of the fallback request
    spent,   \* fallback requests, LLM calls and result messages really sent
    loc,     \* where each process is
    faults   \* faults so far

flowVars == <<queue, image, fb, spent, loc, faults>>

vars == <<dbVars, flowVars>>

Pc == {"idle", "handOff", "acquire", "reread", "fetch", "download", "put",
       "confirm", "record", "s3claim", "head", "move", "comment",
       "claimComment", "callComment", "title", "claimTitle", "callTitle",
       "save", "input", "prepare", "slot", "send", "answer", "store",
       "recordFallback", "fail", "finish", "finishMoved", "handOffHeld",
       "release", "releaseDelete", "delete", "claim", "post", "mark",
       "notSent", "exhaust"}

\* n counts the HEADs of a bundle, the attempts of a text or the sends of a
\* result; bundle is the number of the S3 bundle.
Local == [pc : Pc, act : Action \cup {NULL}, n : Nat, bundle : 0..S3CheckLimit]

AtRest == [pc |-> "idle", act |-> NULL, n |-> 0, bundle |-> 0]

TypeOK ==
    /\ job \in JobRow
    /\ attempts \in [Task -> 0..PrunaSubmitLimit]
    /\ slot \in Task \cup {NULL}
    /\ queue \in SUBSET Action /\ image \in BOOLEAN
    /\ fb \in {"none", "lost", "refused", "generating", "ended"}
    /\ spent \in [fallback : Nat, llm : Nat, results : Nat]
    /\ loc \in [Process -> Local]
    /\ faults \in 0..MaxFaults

\* What the request flow leaves: a generation that succeeded, stored by the AI
\* or uploaded by Runware, or one that failed; its slot perhaps not yet
\* returned, its message published.
SubmittedJob(t, ai) ==
    [NewJob EXCEPT !.task = t, !.aiStores = ai, !.started = TRUE, !.accepted = TRUE]

Init ==
    /\ \E t \in Task : \E r \in Ref :
         /\ job \in {RecordSucceeded(SubmittedJob(t, TRUE), r, r),
                     RecordSucceeded(SubmittedJob(t, FALSE), r, r),
                     RecordFailedRecoverable(SubmittedJob(t, TRUE))}
         /\ attempts = [u \in Task |-> IF u = t THEN 1 ELSE 0]
         /\ slot \in {NULL, t}
    /\ rejected = {} /\ conflict = {}
    /\ queue = {job.nextAction} /\ image = FALSE /\ fb = "none"
    /\ spent = [fallback |-> 0, llm |-> 0, results |-> 0]
    /\ loc = [p \in Process |-> AtRest] /\ faults = 0

-----------------------------------------------------------------------------
(* Helpers. *)

At(p, pc) == loc[p].pc = pc

Go(p, pc) ==
    loc' = [loc EXCEPT ![p] = IF pc = "idle" THEN AtRest ELSE [@ EXCEPT !.pc = pc]]

\* Only process p moves; the rest of the flow stays as it is.
Moves(p, pc) ==
    /\ Go(p, pc)
    /\ UNCHANGED <<queue, image, fb, spent, faults>>

Fault ==
    /\ faults < MaxFaults
    /\ faults' = faults + 1

Owns(p) == LeaseValid(job, p)

\* A transaction on the row and where p goes if it was applied, if the row
\* already says so (ALREADY_RECORDED, for the holder of the lease), or else.
Transaction(p, can, row, applied, already, there) ==
    /\ TryRow(can, row)
    /\ Moves(p, CASE can -> applied
                  [] ~can /\ Owns(p) /\ already -> there
                  [] OTHER -> "release")

-----------------------------------------------------------------------------
(* FollowUpProcessor: one delivery of a message. *)

Published(j) == j.status \in Terminal /\ j.msgStatus = "PUBLISHED"

ExpectedStatus(a) ==
    IF a = "POSTPROCESS" THEN "POSTPROCESSING" ELSE "FALLBACK_RUNNING"

WaitingFor(j, a) == j.status = ExpectedStatus(a) /\ j.nextAction = a

Finished(j) == Published(j) \/ DeletionAllowed(j)

\* Mutant: a message that leads to the next step is not handed over.
Disposition_NoHandOff(j, a) ==
    CASE WaitingFor(j, a) -> "acquire"
      [] ~WaitingFor(j, a) -> "delete"

Disposition(j, a) ==
    CASE Published(j) -> "delete"
      [] WaitingFor(j, a) -> "acquire"
      [] a = "POSTPROCESS" /\ WaitingFor(j, "RUN_FALLBACK") -> "handOff"
      [] OTHER -> IF DeletionAllowed(j) THEN "delete" ELSE "idle"

\* SQS delivers a message again and again until it is deleted, also while
\* another Worker handles it.
Receive(w, a) ==
    /\ At(w, "idle") /\ w \in Worker /\ a \in queue
    /\ LET pc == Disposition(job, a) IN
         loc' = [loc EXCEPT ![w] =
                   IF pc = "idle" THEN AtRest ELSE [AtRest EXCEPT !.pc = pc, !.act = a]]
    /\ UNCHANGED <<dbVars, queue, image, fb, spent, faults>>

\* Publishes RUN_FALLBACK; the message at hand is deleted only if SQS
\* confirmed.  A call without an answer may have published.
\* Mutant: the message at hand is deleted whatever became of the publication.
HandOffFailed_Deletes(w) ==
    /\ Fault /\ queue' \in {queue, queue \cup {"RUN_FALLBACK"}}
    /\ Go(w, IF At(w, "handOff") THEN "delete" ELSE "releaseDelete")

HandOffFailed(w) ==
    /\ Fault /\ queue' \in {queue, queue \cup {"RUN_FALLBACK"}}
    /\ Go(w, IF At(w, "handOff") THEN "idle" ELSE "release")

HandOff(w) ==
    /\ loc[w].pc \in {"handOff", "handOffHeld"}
    /\ \/ /\ queue' = queue \cup {"RUN_FALLBACK"}
          /\ Go(w, IF At(w, "handOff") THEN "delete" ELSE "releaseDelete")
          /\ UNCHANGED faults
       \/ HandOffFailed(w)
    /\ UNCHANGED <<dbVars, image, fb, spent>>

\* The first step of the handler, from the row the lease returned.
HandlerStart(j, a) ==
    IF a = "POSTPROCESS"
    THEN CASE j.verified -> "comment"
           [] ~j.verified /\ ~j.aiStores -> "s3claim"
           [] OTHER -> IF j.url = NULL THEN "release" ELSE "fetch"
    ELSE CASE j.fbImage -> "comment"
           [] ~j.fbImage /\ (j.fbStarted \/ j.fbAttempts >= FallbackLimit) -> "release"
           [] OTHER -> "input"

Acquire(w) ==
    /\ At(w, "acquire")
    /\ LET a == loc[w].act IN
         /\ TryRow(CanAcquireLease(job, a), AcquireLease(job, w))
         /\ Moves(w, CASE CanAcquireLease(job, a) -> HandlerStart(job, a)
                       [] job.status \notin Terminal /\ job.nextAction # a -> "reread"
                       [] OTHER -> "idle")

\* Another Worker ended the step before the lease: the latest row decides.
Reread(w) ==
    /\ At(w, "reread")
    /\ \/ Finished(job) /\ Moves(w, "delete")
       \/ Moves(w, "idle")
    /\ UNCHANGED dbVars

\* The handler is done: the latest row decides, unless keepalive saw the
\* lease go, or nobody runs who would answer for what is left.
Finish(w) ==
    /\ loc[w].pc \in {"finish", "finishMoved"}
    /\ \/ /\ ~WaitingFor(job, loc[w].act)
          /\ IF At(w, "finishMoved") /\ WaitingFor(job, "RUN_FALLBACK")
             THEN Moves(w, "handOffHeld")
             ELSE Finished(job) /\ Moves(w, "releaseDelete")
       \/ Moves(w, "release")
    /\ UNCHANGED dbVars

\* Mutant: release_lease does not compare the token.
Release_Anyone(p) ==
    /\ loc[p].pc \in {"release", "releaseDelete"}
    /\ TryRow(TRUE, ReleaseLease(job))
    /\ Moves(p, IF At(p, "releaseDelete") THEN "delete" ELSE "idle")

Release(p) ==
    /\ loc[p].pc \in {"release", "releaseDelete"}
    /\ TryRow(Owns(p), ReleaseLease(job))
    /\ Moves(p, IF At(p, "releaseDelete") THEN "delete" ELSE "idle")

\* The deletion may fail.
Delete(w) ==
    /\ At(w, "delete")
    /\ queue' \in {queue, queue \ {loc[w].act}}
    /\ Go(w, "idle")
    /\ UNCHANGED <<dbVars, image, fb, spent, faults>>

-----------------------------------------------------------------------------
(* PostprocessHandler, AI-stored result: store_runware_result_image. *)

\* The object is there already, or S3 does not say (403) and the conditional
\* PUT will tell.
Fetch(w) ==
    /\ At(w, "fetch")
    /\ \/ Moves(w, IF image THEN "record" ELSE "download")
       \/ Fault /\ Go(w, "download") /\ UNCHANGED <<queue, image, fb, spent>>
    /\ UNCHANGED dbVars

Download(w) ==
    /\ At(w, "download")
    /\ Moves(w, "put") /\ UNCHANGED dbVars

\* put_object_if_absent: created, refused because an object exists, or without
\* an answer (created or not).
Put(w) ==
    /\ At(w, "put")
    /\ \/ /\ image' = TRUE
          /\ Go(w, IF image THEN "confirm" ELSE "record")
          /\ UNCHANGED faults
       \/ /\ Fault
          /\ image' \in {image, TRUE}
          /\ Go(w, "confirm")
    /\ UNCHANGED <<dbVars, queue, fb, spent>>

Confirm(w) ==
    /\ At(w, "confirm")
    /\ Moves(w, IF image THEN "record" ELSE "release")
    /\ UNCHANGED dbVars

Record(w) ==
    /\ At(w, "record")
    /\ Transaction(w, CanRecordVerified(job, w), RecordVerified(job), "comment",
                   job.verified, "comment")

-----------------------------------------------------------------------------
(* PostprocessHandler, result uploaded by Runware: _verify_image. *)

ClaimS3(w) ==
    /\ At(w, "s3claim")
    /\ LET can == CanClaimS3Check(job, w) IN
         /\ TryRow(can, ClaimS3Check(job))
         /\ IF can
            THEN /\ loc' = [loc EXCEPT ![w].pc = "head", ![w].n = 1,
                                       ![w].bundle = job.s3Checks + 1]
                 /\ UNCHANGED <<queue, image, fb, spent, faults>>
            ELSE Moves(w, IF Owns(w) /\ job.s3Checks < S3CheckLimit /\ job.verified
                          THEN "comment" ELSE "release")

\* One HEAD.  Only the last of the last bundle, if it found no object, leads
\* to the fallback; an answer that does not say is a failed call.
AfterLastHead(w) == IF loc[w].bundle >= S3CheckLimit THEN "move" ELSE "s3claim"

HeadObject(w) ==
    /\ At(w, "head")
    /\ IF image THEN Moves(w, "record")
       ELSE IF loc[w].n = Heads THEN Moves(w, AfterLastHead(w))
       ELSE /\ loc' = [loc EXCEPT ![w].n = @ + 1]
            /\ UNCHANGED <<queue, image, fb, spent, faults>>
    /\ UNCHANGED dbVars

Move(w) ==
    /\ At(w, "move")
    /\ Transaction(w, CanMoveToFallback(job, w), MoveToFallback(job), "finishMoved",
                   FALSE, "release")

-----------------------------------------------------------------------------
(* title_and_comment and save_completed, for both handlers. *)

\* stage_ok: the step is still the one begun, with an image of the job.
StageOk(j, a) ==
    /\ WaitingFor(j, a)
    /\ IF a = "POSTPROCESS" THEN j.verified ELSE j.fbImage

\* gate, before each text: the first comment also needs product summaries, and
\* no URL is signed when the calls are used up.
Gate(w) ==
    /\ loc[w].pc \in {"comment", "title"}
    /\ \/ /\ job.result # NULL /\ Moves(w, "finish")
       \/ /\ job.result = NULL /\ (~StageOk(job, loc[w].act) \/ ~Owns(w))
          /\ Moves(w, "release")
       \/ /\ job.result = NULL /\ StageOk(job, loc[w].act) /\ Owns(w)
          /\ IF At(w, "comment") /\ job.llmCalls >= LlmGenerationLimit
             THEN Moves(w, "save")
             ELSE /\ loc' = [loc EXCEPT ![w].pc = IF At(w, "comment") THEN "claimComment"
                                                  ELSE "claimTitle",
                                        ![w].n = @ + 1]
                  /\ UNCHANGED <<queue, image, fb, spent, faults>>
       \/ At(w, "comment") /\ loc[w].n = 0 /\ Moves(w, "save")
    /\ UNCHANGED dbVars

\* claim_llm_generation_attempt; at the limit the default text is used.
\* Mutant: the call is made although the claim was refused.
ClaimText_Anyway(w) ==
    /\ loc[w].pc \in {"claimComment", "claimTitle"}
    /\ TryRow(CanClaimLlm(job, w), ClaimLlm(job))
    /\ Moves(w, IF At(w, "claimComment") THEN "callComment" ELSE "callTitle")

ClaimText(w) ==
    /\ loc[w].pc \in {"claimComment", "claimTitle"}
    /\ Transaction(w, CanClaimLlm(job, w), ClaimLlm(job),
                   IF At(w, "claimComment") THEN "callComment" ELSE "callTitle",
                   job.llmCalls >= LlmGenerationLimit, "save")

Text(w, pc, n) ==
    /\ loc' = [loc EXCEPT ![w].pc = pc, ![w].n = n]
    /\ spent' = [spent EXCEPT !.llm = @ + 1]
    /\ UNCHANGED <<dbVars, queue, image, fb, faults>>

\* A comment leads to its title; what fails is tried again, then left out.
CallComment(w) ==
    /\ At(w, "callComment")
    /\ \/ Text(w, "title", 0)
       \/ Text(w, IF loc[w].n < CommentAttempts THEN "comment" ELSE "save", loc[w].n)

CallTitle(w) ==
    /\ At(w, "callTitle")
    /\ \/ Text(w, "save", 0)
       \/ Text(w, IF loc[w].n < TitleAttempts THEN "title" ELSE "save", loc[w].n)

\* save_completed and RunFallbackHandler._fail.
Save(w) ==
    /\ loc[w].pc \in {"save", "fail"}
    /\ Transaction(w, CanSaveResult(job, w),
                   SaveResult(job, IF At(w, "save") THEN "COMPLETED" ELSE "FAILED"),
                   "finish", job.result # NULL, "finish")

-----------------------------------------------------------------------------
(* RunFallbackHandler. *)

\* The input, the user's image, the budget and the balance: fine, or a final
\* failure; what cannot be decided now is a failed call.
Input(w) ==
    /\ At(w, "input")
    /\ \/ Moves(w, "prepare")
       \/ Moves(w, "fail")
    /\ UNCHANGED dbVars

Prepare(w) ==
    /\ At(w, "prepare")
    /\ \E t \in Task :
         /\ attempts[t] = 0 /\ t # job.task
         /\ Transaction(w, CanPrepareFallback(job, w, t), PrepareFallback(job, t), "slot",
                        job.fbTask # NULL, "slot")

\* The grant; while it waits for one the budget may run out.  Shared limits
\* that stay full until the wait ends are a failed call.
Slot(w) ==
    /\ At(w, "slot")
    /\ \/ BeginFallbackTx(w) /\ Moves(w, "send")
       \/ ~CanBeginFallback(w) /\ Moves(w, "release") /\ UNCHANGED dbVars
       \/ Moves(w, "fail") /\ UNCHANGED dbVars

SendFallback(w) ==
    /\ At(w, "send")
    /\ fb' \in {"lost", "refused", "generating"}
    /\ spent' = [spent EXCEPT !.fallback = @ + 1]
    /\ Go(w, "answer")
    /\ UNCHANGED <<dbVars, queue, image, faults>>

\* Mutant: the slot is returned whatever became of the request.
Answer_FreesSlot(w) ==
    /\ At(w, "answer")
    /\ ReleaseSlotTx(job.fbTask)
    /\ Moves(w, IF fb = "ended" THEN "store" ELSE "release")

\* The answer to try_on: an image, a refusal (its input or the balance: a
\* final failure; the authentication: held), or nothing certain: the slot is
\* kept and nothing is sent again.
Answer(w) ==
    /\ At(w, "answer")
    /\ \/ fb = "ended" /\ ReleaseSlotTx(job.fbTask) /\ Moves(w, "store")
       \/ /\ fb = "refused" /\ ReleaseSlotTx(job.fbTask)
          /\ \/ Moves(w, "fail")
             \/ Moves(w, "release")
       \/ Moves(w, "release") /\ UNCHANGED dbVars

StoreFallback(w) ==
    /\ At(w, "store")
    /\ Moves(w, "recordFallback") /\ UNCHANGED dbVars

RecordFallback(w) ==
    /\ At(w, "recordFallback")
    /\ Transaction(w, CanRecordFallbackImage(job, w), RecordFallbackImage(job), "comment",
                   job.fbImage, "comment")

-----------------------------------------------------------------------------
(* ResultPublishProcessor. *)

PublisherAcquires(p) ==
    /\ At(p, "idle") /\ p \in Publisher
    /\ CanAcquireLease(job, "PUBLISH_RESULT") /\ job.msgStatus = "PENDING"
    /\ TryRow(TRUE, AcquireLease(job, p))
    /\ Moves(p, IF job.msgAttempts >= ResultMessageLimit THEN "exhaust" ELSE "claim")

PublisherClaims(p) ==
    /\ At(p, "claim")
    /\ LET can == CanClaimMessage(job, p) IN
         /\ TryRow(can, ClaimMessage(job))
         /\ IF can
            THEN /\ loc' = [loc EXCEPT ![p].pc = "post", ![p].n = job.msgAttempts + 1]
                 /\ UNCHANGED <<queue, image, fb, spent, faults>>
            ELSE Moves(p, IF Owns(p) /\ job.msgAttempts >= ResultMessageLimit
                          THEN "exhaust" ELSE "release")

\* SendMessage: taken and confirmed, taken without an answer, or not taken.
Post(p) ==
    /\ At(p, "post")
    /\ \E taken, confirmed \in BOOLEAN :
         /\ confirmed => taken
         /\ spent' = [spent EXCEPT !.results = IF taken THEN @ + 1 ELSE @]
         /\ Go(p, IF confirmed THEN "mark" ELSE "notSent")
    /\ UNCHANGED <<dbVars, queue, image, fb, faults>>

Mark(p) ==
    /\ At(p, "mark")
    /\ LET final == PayloadStatus(job.result)
           can == CanMarkPublished(job, p, final)
       IN  /\ TryRow(can, MarkPublished(job, final))
           /\ Moves(p, IF can THEN "idle" ELSE "notSent")

\* Given up after the last send, else the lease is held for the backoff.
NotSent(p) ==
    /\ At(p, "notSent")
    /\ IF loc[p].n >= ResultMessageLimit THEN Moves(p, "exhaust")
       ELSE Moves(p, IF Owns(p) THEN "idle" ELSE "release")
    /\ UNCHANGED dbVars

Exhaust(p) ==
    /\ At(p, "exhaust")
    /\ TryRow(CanMarkExhausted(job, p), MarkExhausted(job))
    /\ Moves(p, "release")

-----------------------------------------------------------------------------
(* The environment and the faults. *)

\* Runware uploads the result; it ends the generation of the fallback.
Upload ==
    /\ ~image /\ ~job.aiStores /\ job.url # NULL
    /\ image' = TRUE
    /\ UNCHANGED <<dbVars, queue, fb, spent, loc, faults>>

FallbackEnds ==
    /\ fb = "generating" /\ fb' = "ended"
    /\ UNCHANGED <<dbVars, queue, image, spent, loc, faults>>

\* The slot of the ended generation is returned by its Webhook or the Watchdog.
SlotReturned ==
    /\ slot # NULL /\ slot = job.task
    /\ ReleaseSlotTx(slot)
    /\ UNCHANGED flowVars

ActsWithLease(p) ==
    loc[p].pc \notin {"idle", "handOff", "acquire", "reread", "delete"}

\* A lease nobody acts with expires; that of a publisher ends its backoff.
AbandonedLeaseExpires ==
    /\ job.leaseLive /\ ~ActsWithLease(job.lease)
    /\ TryRow(TRUE, ExpireLease(job))
    /\ UNCHANGED flowVars

UsedLeaseExpires ==
    /\ job.leaseLive /\ ActsWithLease(job.lease)
    /\ Fault
    /\ TryRow(TRUE, ExpireLease(job))
    /\ UNCHANGED <<queue, image, fb, spent, loc>>

Fails(p, pc) ==
    /\ Fault /\ Go(p, pc)
    /\ UNCHANGED <<dbVars, queue, image, fb, spent>>

\* A call or a transaction fails, or may_continue says no: the message is kept
\* and the lease given back, if that does not fail.
CallFails(p) ==
    \/ ActsWithLease(p) /\ loc[p].pc \notin {"send", "answer"} /\ Fails(p, "release")
    \/ loc[p].pc \in {"acquire", "reread", "release", "releaseDelete"} /\ Fails(p, "idle")

Crash(p) == p \in MayCrash /\ ~At(p, "idle") /\ Fails(p, "idle")

-----------------------------------------------------------------------------

Step(p) ==
    \/ HandOff(p) \/ Acquire(p) \/ Reread(p) \/ Finish(p) \/ Release(p) \/ Delete(p)
    \/ Fetch(p) \/ Download(p) \/ Put(p) \/ Confirm(p) \/ Record(p)
    \/ ClaimS3(p) \/ HeadObject(p) \/ Move(p)
    \/ Gate(p) \/ ClaimText(p) \/ CallComment(p) \/ CallTitle(p) \/ Save(p)
    \/ Input(p) \/ Prepare(p) \/ Slot(p) \/ SendFallback(p) \/ Answer(p)
    \/ StoreFallback(p) \/ RecordFallback(p)
    \/ PublisherClaims(p) \/ Post(p) \/ Mark(p) \/ NotSent(p) \/ Exhaust(p)

Next ==
    \/ \E p \in Process :
         \/ \E a \in Action : Receive(p, a)
         \/ PublisherAcquires(p)
         \/ Step(p) \/ CallFails(p) \/ Crash(p)
    \/ Upload \/ FallbackEnds \/ SlotReturned
    \/ AbandonedLeaseExpires \/ UsedLeaseExpires

Spec == Init /\ [][Next]_vars

\* SQS delivers every message that is in the queue, every process takes its steps, Runware
\* ends what it generates, and a lease nobody renews expires.
Fairness ==
    /\ \A p \in Process : WF_vars(Step(p))
    /\ \A a \in Action : SF_vars(\E w \in Worker : Receive(w, a))
    /\ \A p \in Publisher : WF_vars(PublisherAcquires(p))
    /\ WF_vars(FallbackEnds) /\ WF_vars(SlotReturned)
    /\ WF_vars(AbandonedLeaseExpires)

FairSpec == Spec /\ Fairness

-----------------------------------------------------------------------------
(* Properties. *)

\* Nothing is paid or told more often than the row allows, whichever process
\* died or lost its lease in between: every call is counted before it is made
\* (claim_llm_generation_attempt, begin_fallback, claim_result_message_attempt).
SpentWithinLimits ==
    /\ spent.fallback <= job.fbAttempts
    /\ spent.llm <= job.llmCalls
    /\ spent.results <= job.msgAttempts

\* A user whose verified image exists never costs a second, synchronous
\* generation: also not when the image appeared between the HEADs of one
\* Worker while another held the lease.
ImageOrFallback == ~(job.verified /\ spent.fallback > 0)

\* A job that waits for a Worker has a message in the queue that leads to it:
\* its own, or a POSTPROCESS that will hand over.
MessageForWork ==
    job.nextAction \in Action =>
        {job.nextAction, "POSTPROCESS"} \cap queue # {}

\* Every transaction of the Workers and publishers is one AsyncJobState allows
\* its callers, from states that satisfy its inductive invariant: what is
\* proved there holds here.
DB == INSTANCE AsyncJobState
    WITH sent <- {job.task} \cup (IF job.fbStarted THEN {job.fbTask} ELSE {}),
         unsent <- NULL

KeepsContract == DB!IInv /\ [][DB!Next]_DB!vars

\* The row of a job that was submitted and accepted: never resubmitted, and
\* until it has its result it waits for a Worker.
RowFitsFollowUp ==
    /\ rejected = {} /\ conflict = {}
    /\ job.task # NULL /\ job.started
    /\ job.result = NULL => job.nextAction \in Action
    /\ job.fbStarted => job.fbAttempts > 0

\* The one request is sent by the process that started the fallback, which
\* holds the job's slot until the generation has ended.
FallbackIsOne ==
    /\ spent.fallback = IF fb = "none" THEN 0 ELSE 1
    /\ fb # "none" => job.fbStarted
    /\ fb = "generating" => slot = job.fbTask
    /\ \A p \in Process :
         /\ At(p, "send") => fb = "none" /\ job.fbStarted /\ slot = job.fbTask
         /\ At(p, "answer") => fb # "none"
    /\ \A p, q \in Process : At(p, "send") /\ At(q, "send") => p = q

\* A call that was counted and is not yet made belongs to the process that
\* counted it.
Calling == {p \in Process : loc[p].pc \in {"callComment", "callTitle"}}

Posting == {p \in Process : At(p, "post")}

CallsAreCounted ==
    /\ spent.llm + Cardinality(Calling) <= job.llmCalls
    /\ spent.results + Cardinality(Posting) <= job.msgAttempts

PublisherPc == {"idle", "claim", "post", "mark", "notSent", "exhaust", "release"}

TextPc == {"comment", "claimComment", "callComment", "title", "claimTitle",
           "callTitle", "save"}

\* What a process may rely on where it is: texts are made for an image of the
\* job, and a message is deleted only when its step is behind the job and the
\* next one has a message.
FitsJob(l) ==
    /\ l.act = NULL => l.pc \in PublisherPc
    /\ l.act = "RUN_FALLBACK" => job.nextAction # "POSTPROCESS"
    /\ l.pc \in TextPc => job.verified \/ job.fbImage
    /\ l.pc = "reread" => job.nextAction # l.act
    /\ l.pc \in {"handOff", "handOffHeld"} =>
          l.act = "POSTPROCESS" /\ job.nextAction # "POSTPROCESS"
    /\ l.pc \in {"delete", "releaseDelete"} =>
          \/ job.result # NULL
          \/ /\ l.act = "POSTPROCESS" /\ job.nextAction # "POSTPROCESS"
             /\ "RUN_FALLBACK" \in queue

ProcessesFit ==
    /\ \A p \in Process : FitsJob(loc[p])
    /\ "RUN_FALLBACK" \in queue => job.nextAction # "POSTPROCESS"

\* What makes the properties above inductive, with what AsyncJobState knows of
\* the row and its slot.
FollowUpInvariant ==
    /\ TypeOK /\ DB!IInv
    /\ RowFitsFollowUp /\ FallbackIsOne /\ CallsAreCounted
    /\ ProcessesFit /\ MessageForWork

\* The job gets a result, or is held for the operator: the checks of the image
\* were claimed by a Worker that failed before it saw their end, or the
\* fallback was sent and its image not recorded.
Held ==
    \/ Postprocessing(job) /\ ~job.verified /\ job.s3Checks = S3CheckLimit /\ faults > 0
    \/ job.fbStarted /\ ~job.fbImage

EventuallyFinished == <>(job.result # NULL) \/ <>[]Held

\* A result reaches BE, or every allowed send was used: the publisher that
\* died or could not confirm is followed by another one.
ResultDelivered == job.result # NULL ~> job.msgStatus # "PENDING"
=============================================================================
