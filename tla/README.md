# Verification of the AI server (virtual fitting, body image validation, chat)

TLA+ modules beside the FastAPI service in `src/app`: what the service keeps, what each
operation does to it, which properties must hold, small instances checked by TLC and theorems
checked by TLAPS. Paths below are relative to the repository; `async_job_state.py` and similar
names are files of `src/app/virtual_fitting` and its `repositories`.

## 1. Inventory

| Component | State | Operations | Talks to |
|---|---|---|---|
| Async job row (`repositories/async_job_state.py`, `async_job_repository.py`) | one row of `virtual_fitting_async_jobs` per request, one row of `virtual_fitting_pruna_attempts` per submission | one PostgreSQL transaction per method: lock the row, one conditional `UPDATE` | every Worker, the Webhook, the Watchdog |
| Shared limits (`repositories/pruna_limiter.py`) | one limiter row, in-flight rows, send rows | grant, retry grant, fallback grant, `finish_send`, `defer_sends`, `hold_sends`, `cancel_unsent`, `release_in_flight` | job row, submitter, Webhook |
| Cost ledger and daily budget (`TaskCostRepository` in `pruna_limiter.py`, `budget.py`, `usage_repository.py`) | one cost per task, one total per day | record a cost once, reconcile, check before a submission | submitter, Webhook |
| Request Worker (`request_worker.py`) | one SQS message, one lease, a heartbeat thread | receive, create or read the job, precheck, submit, delete or keep | SQS, job row, submitter |
| Pruna submitter, resubmitter | local: grant, response | wait for a slot, one HTTP request, record the answer | limiter, job row, Runware |
| Runware Webhook (`webhook_router.py`, `runware_webhook.py`) | none of its own | one event: read, record, record cost, release the slot, publish the follow-up | job row, limiter, SQS |
| Watchdog (`watchdog.py`) | alert claims | find jobs that stay too long, ask Runware, resubmit, publish a follow-up again, alert | all of the above |
| Follow-up queue | SQS messages | publish `POSTPROCESS`, `RUN_FALLBACK` | Workers |
| Postprocess handler and worker | counters of the job row | check the stored image at most twice, call the LLM at most four times, save the result | S3, LLM, job row |
| Fallback handler | fallback columns of the job row | one paid V1 generation, its image, its result | limiter, Runware, S3 |
| Result publisher | message columns of the job row | claim a send, send, mark published or exhausted | SQS (result queue) |
| Result image | none | download, check, store | Runware, S3 |
| V1 synchronous fitting (`service.py`, `concurrency.py`) | running counter, queue of futures | enter, wait, check the budget, run, leave, record the cost | Runware, budget |
| Body image validation: request limits (`concurrency.py` for threads, `async_concurrency.py` for the event loop) | counters, waiters of a condition | enter, wait until a deadline, run, leave | remote worker |
| Body image validation: warm-up (`warmup_manager.py`) | the running task, times of the last success, failure and starts | request, call, record, close | GPU worker |
| Body image validation: remote worker (`remote.py`, `deadline_middleware.py`, `router.py`, `service.py`) | the request's deadline and its owner, a shared HTTP client with its calls | receive, hand over the deadline, take a place, post, answer or time out; close the client | limits, GPU worker |
| GPU worker (`worker.py`, `runtime.py`, `inference.py`, `deploy/modal/body_image_worker.py`) | detectors, models, runtime of one container | prepare before the snapshot, start after it, serve, close | Modal, S3 |
| Rules, diagnostics of the validation | none | validate an image | GPU worker |
| Deployment (`deploy/modal/deploy_checks.py`) | report of one test | preflight, deploy, check what is registered, smoke test, rollback or stop | Modal |
| Repeating loops (`RequestWorker`, `ResultPublisherWorker`, `WatchdogWorker`) and lifespan (`main.py`) | a task, its thread, a stop event, a status each | start, fetch, work, back off, stop with a timeout; start and stop of the server | SQS, DB pool |
| Readers of Runware's answers (`providers/runware_*.py`, `runware_webhook.py`) | none | classify a submission response, a status, a Webhook body | submitter, Watchdog, Webhook |
| SQS and S3 clients (`src/app/clients`) | none | send, receive, delete, change visibility; put if absent, head, get | SQS, S3 |
| Chat and recommendation (`src/app/chat`, `src/app/recommendation`) | LangGraph state of one turn | route, extract, search, answer over SSE | LLM, PostgreSQL |
| Configuration, scripts | settings | - | everything |

How they interact: BE puts a request into SQS; a Request Worker stores it as a job, takes the
job's lease, asks the limiter for a grant and sends one paid HTTP request to Runware. Runware
answers the request, calls the Webhook, and can be asked for the status; the three reports come
in any order, repeated, late, or not at all. A report moves the job to `POSTPROCESSING` or
`FALLBACK_RUNNING` and publishes a follow-up message; the Worker that takes it ends with a stored
result, which the publisher tells BE. The Watchdog finds every job no other actor moves on.
Nothing but the database is shared, so each hazard is about the order in which transactions of
different actors commit.

What is hard, and which properties make each component correct:

* **Job row** - three reports and any number of Workers race. Status, next action, stored result
  and publication must always agree; what is recorded first must stand; no submission may
  be made while an earlier one of the job is undecided; the attempts must be one chain.
* **Limits** - several servers count in one table, processes die between the grant and the
  response, rows expire by the clock, reports come late. The number of running generations, the
  number of open HTTP requests and the spacing of grants must hold, and nobody may be blocked for
  ever by what a dead process left behind.
* **Request Worker, submitter, Watchdog** - a message may be deleted only when some other actor is
  responsible for the job; every job must end or wait for the operator.
* **Webhook** - one event is several transactions on a row that was read before the first one.
* **Postprocess, fallback, publisher** - every external effect (LLM call, paid generation, send)
  is counted before it is made, so a crash after it must not repeat it above its limit.
* **Concurrency of V1 and of body image validation** - a waiter that is cancelled at the moment
  its turn comes must not leak a place.
* **Cost ledger** - a cost is added to the day's total exactly once.
* **Remote validation** - middleware, service and GPU worker each watch one deadline; exactly one of
  them answers, nobody keeps a place or a call, and no image is stored for a caller who has gone.
* **Loops and lifespan** - a step in a thread cannot be cancelled; what its status says and what the
  server closes must agree with what still runs.
* **Readers and clients** - "failed" may be told only of what was not done, because a second paid
  generation, or a second message, follows from it.
* **Deployment** - settings come to a container on several ways, log lines late and in part; a
  container must serve as it was deployed or not at all, and a test must not pass by mistake.

The list of hazards with their lines, and the properties that cover each, is `hazards` in
`PROJECT.json`. One of them no run covers, the retry after a contradiction that is named under
"Violations".

## 2. Modules and how they correspond to the code

### AsyncJobRow, AsyncJobTransactions, AsyncJobState

`AsyncJobRow` has the row as a record and, for each repository method, its `WHERE` clause (`CanX`)
and its `SET` clause (`X`). Timestamps are "recorded or not", except the lease expiry and
`pruna_retry_at`, which are compared with the database clock: `leaseLive`, and `retryAt` that is
"later" until the clock passes it and then "due". `AsyncJobTransactions` has the transactions that
change more than the row: those that also write the attempt rows or the in-flight slot.

`AsyncJobState` owns one row, its attempt rows (`attempts`, `rejected`, `conflict`), its in-flight
slot, and two facts that are not in the database: which tasks were really sent to Runware (`sent`)
and the grant that was given and not used yet (`unsent`). Each transaction that changes any of
them is one action. The callers are open: any holder of a live lease calls any method in any
order; Runware may report anything, any number of times and late, about a task that was sent. So
what holds here holds for the Request Worker, the Watchdog, the Webhook and the other Workers
whatever they do, as long as they keep two contracts that the guards name: a report names a sent
task, and only the process that got a grant and has not sent it calls `cancel_unsent`.

`FittingContract` is the abstract specification: bounded tries, at most one fallback, one outcome,
one message that tells it. `AsyncJobState` implements it (`ImplementsContract`), which TLC checks
and `AsyncJobState_proofs` proves.

### PrunaLimiter

The limits all servers share, for several jobs, each of which makes generations 1, 2, ... one
after the other. A grant is one action, because every method locks the limiter row first. Times
are what is left until them. The granted process sends, is answered, stores guidance, or dies at
any point; Runware reports the end of a generation before or after its HTTP response, and its slot
is released in a transaction of its own, any number of times and late.

### JobDecisions, RequestFlow

`JobDecisions` has what the callers decide from a row they read: `next_step_for`,
`deletion_allowed`, and the Watchdog's selection (`Candidate`). `RequestFlow` runs the callers as
processes over the transactions of `AsyncJobTransactions`. `loc[p]` is the process's program
counter and what it has read; one step is one transaction, one message or one HTTP call.

| Process | Steps | Code |
|---|---|---|
| Request Worker | `Receive`, `HandOver`, `WorkerAcquires`, `Check`, precheck, then the submitter, `Decide`, `Release`, `Delete` | `request_worker.py` |
| submitter (in a Worker or a Watchdog) | `Prepare`, `Grant` / `Regrant`, `InputRefused`, `Send`, `Respond`, `Accepted`, `Rejected`, `NoAnswer`, `RecordRefused` | `pruna_submitter.py`, `pruna_resubmit.py` |
| Webhook request | `ReceiveWebhook`, `ReadJob`, `Apply`, `Fill`, `RecordConflict`, `ReleaseSlot`, `PublishFollowUp` | `runware_webhook.py` |
| Watchdog | `InspectAsks`, `Query`, `InspectResubmits`, `WatchdogAcquires`, `InspectRepublishes`, `Republish`, `ClaimAfter`, `ClaimLeft` | `watchdog.py` |
| publisher | `PublisherAcquires`, `PublisherClaims`, `PublisherMarks`, `NotPublished` | `result_publisher.py` |
| Runware, SQS, time | `Generate`, leases and retry times that expire, crashes, failed calls | - |

A Webhook applies its report to the job as the row it read said (`was`), so a decision may be
stale when it is used, as in the code. `DB == INSTANCE AsyncJobState` with the sent tasks read off
`fate` and the unsent grant read off the process that is about to send: `CallersKeepContract` says
that every step of the flow is a step of `AsyncJobState` or a stutter, so what is proved there
for open callers holds for these.

Left out of `RequestFlow`: costs, alerts, ages and throttles of the Watchdog (it may inspect any
candidate at any time); jobs whose image the client uploads, and their recovery by HEAD; the
legacy start without attempt rows (only in `AsyncJobState`); refused messages. A precheck that is
retried, postponed or fails with an unexpected error counts as a failed call. The response of
Runware and the first record of it are one step (`Respond`): between them lies only local parsing.
So are the Watchdog's second look at the row, its publication and the return of its claim
(`Republish`); that one of these calls fails is `CallFails`, and that the Watchdog dies is `Crash`:
both leave the claim taken. The column has two values, free and taken; `claimed` tells a
third, a POSTPROCESS claim that was stranded so, which no guard looks at and only properties
name. The set of codes that would give `GENERATION_FAILED` for a submit response is empty in the code, so
that branch is not modelled. A message that is not deleted may be delivered at any time, also
while another delivery is handled, which includes every visibility timeout.

### FollowUpFlow

One job from the recorded end of its Pruna generation to the message that tells BE. The processes
are postprocess Workers, which run the `POSTPROCESS` and `RUN_FALLBACK` handlers, and publishers; as
in `RequestFlow` each has a program counter and the row it read last, and one step is one
transaction of `AsyncJobTransactions` or one call to S3, Runware, the LLM or SQS.

| Part | Steps | Code |
|---|---|---|
| delivery | `Receive` with its `Disposition`, `HandOff`, `Acquire`, `Reread`, the handler, `Finish`, `Release`, `Delete` | `postprocess_worker.py` |
| image | `Fetch`, `Download`, `Put`, `Confirm`, `Record`; for images Runware uploads itself `ClaimS3`, `HeadObject`, `AfterLastHead`, `Move` | `postprocess_handler.py`, `result_image.py` |
| text and result | `Gate`, `ClaimText`, `CallComment`, `CallTitle`, `Save` | `title_and_comment`, `save_completed` |
| fallback | `Input`, `Prepare`, `Slot`, `SendFallback`, `Answer`, `StoreFallback`, `RecordFallback` | `fallback_handler.py` |
| publisher | `PublisherAcquires`, `PublisherClaims`, `Post`, `Mark`, `NotSent`, `Exhaust` | `result_publisher.py` |
| around them | `Upload`, `FallbackEnds`, leases that expire, `CallFails`, `Crash` | Runware, SQS, the machine |

`image` is the object in S3, `queue` the messages, `fb` the fallback generation, and `spent` counts
what was really asked for, whatever the row says. A lease expires when nobody acts with it (its
process died, or a publisher backs off), or by a fault (`UsedLeaseExpires`): the heartbeat renews it
otherwise. `DB == INSTANCE AsyncJobState` again: each transaction is one the proved
contract allows (`KeepsContract`). `HandlerContext.may_continue`, which stops a handler before the
next external call, is a failed call. Left out: messages for another task or job and unreadable
ones, the checks of image bytes and texts, costs, and which of several due jobs a publisher takes.

### RemoteValidation

One request per `r`: `mw` is the ASGI middleware with the deadline it owns, `app` the
route and `RemoteBodyImageValidationService` on the same event loop, `run` the GPU worker that was
sent the rest of the deadline in a header, `sent` the responses, `log` the summaries and `client` the
shared HTTP client the lifespan closes. `age` is the time since the request began; both
clocks agree, and the header is the deadline at the moment of the post. A cancellation ends
an await and nothing else: who was handed a place in the same moment still gives it back. Between
the hand-over (`RequestDeadline.hand_over`) and its end the service owns the deadline, before it the
middleware. A GPU worker never hears that its caller has gone; only `deadline.check` stops it.
The redirects with which Modal answers a long call are one call, and the two clocks of a real
deployment may differ by what `UPLOAD_MARGIN_SECONDS` is for.

### FifoSlots, ConcurrencyLimiter, AsyncBodyValidationLimiter, BodyValidationLimiter

`FifoSlots` is what a limiter promises: bounded places and queue, admission in order, nobody
passes those who wait, and who gives up takes no place along. The two limiters of the event loop
implement it by different means: `ConcurrencyLimiter` hands a place over by completing the oldest
pending future, and the counter does not fall meanwhile; `AsyncBodyValidationLimiter` keeps a queue
of tickets around a condition and wakes everybody. Between two awaits nothing else runs, so such a
piece is one action; the condition's lock is free at every await, so taking it never waits (which
makes the loop in `_release` that survives a cancellation one step). What makes them hard is a
wait that times out or is cancelled after it was woken and before it goes on: the states
`handedStopped`, `expired` and `cancelled`.

`BodyValidationLimiter` is the limiter for threads. One hold of the lock is one action; a
notified thread has to get the lock like any other, and a thread whose wait timed out may still be
picked by `notify`. It does not implement `FifoSlots`: a new thread may pass (see "Violations").

### FittingBudget

The row of one day: `recorded`, `reconciled`, `amount` and whether the reconciliation is
`fresh`. Synchronous fittings check and generate inside a VTON place and record their cost after
it; asynchronous generations check before they are submitted, and any number of reports record
their cost under the task's row. `spent` is what Runware charged, `listed` what its usage query
tells, which follows later. Each generation costs 1 and the day does not change. The amount left
by the time before the columns were split (`Legacy`) is taken to be right. A place is given back
before the cost of its fitting is recorded (`service.py:97`), so the next fitting may pass the check
without it: the limit is approximate, as `usage_repository.py:10-12` says, and no property claims
more.

### BodyImageWarmup

The manager's fields, with times as what is left until them. `call` is where each asyncio task is:
created, calling or gone; a task cancelled before it begins never runs its `finally`. `recent` is a
ghost: every start within the window, whatever the bounded deque remembers.

### WorkerLoops

The three kinds of loop (`Consumer` for the Workers of the two queues, `Publisher`, `Watchdog`), each
an asyncio task (`pc`) whose blocking steps run in a thread (`thread`); the two are separate, because a
cancelled task leaves its thread running. `rest` is the rest of a batch, `status` what the
done callback writes, `stopper` where `stop(timeout)` is, `lifespan` the phases of `main.py`. The
Watchdog's check is two steps (`Look`, then the components), as its thread reads `should_stop` before
it reads the statuses: a server that begins to stop in between may report a loop that ended with it.
`FetchEnds` stands for receive, `find_due` and the global checks; what a step does is elsewhere.

### RunwareAnswers

One answer, chosen from all bodies of up to two results and two errors, of this or another
task, and read by the three readers: `ReadSubmission` (`classify_response`), `ReadStatus`
(`parse_status`), `ReadWebhook` (`parse_webhook` with `_without_conflicting_results`). `reading` is what
they make of it, with the image reference and the wait they take from it. A result with the status
"error" in a submission response is not looked at by the code, so neither by `ReadSubmission`. The
spelling of UUIDs, the forms of `Retry-After` and amounts are left out.

### CloudCalls

One call of the SQS or the S3 client: the checks before it, the requests the SDK sends (one for SQS,
up to `MaxTries` for S3), what the service did (`acted`, `object`), the answer that arrives and
what the client tells. Another Worker may store the same key at any time. A conditional put the SDK
repeated may report a failure although an earlier request stored the object; the callers look
at the object again before they act on it (`Confirm` in `FollowUpFlow`), so `PutTellsTheTruth` claims
no more of a failure than that a single request stored nothing.

### DeploySmoke, WorkerDeployment

`DeploySmoke` is the smoke test of `deploy_checks.py`: `Send`, the watch of the log while the
request runs, the judgement, further attempts after a miss, the look into S3 and the action on
failure. Modal is the environment: containers with the lines they write, which show up late but in
order, requests that are answered, refused or broken, containers that die and are replaced.
`SnapshotState` and `Judgement` are the code's; the properties compare them with how the container
really started.

`WorkerDeployment` follows one deployment: arguments and shell, `PreflightPasses`, what is registered,
the environment of a container (`Arrives`: one of its ways may be broken), and then the life of
that container: `PrepareModels` or `PrepareDetectors` before the snapshot, `MakeModels`, `Register` after
it, `Lookup` and `Exit`. `open` is the set of open detectors; who closes which is the code's. The
branch of `start_gpu` for a runtime that exists already cannot be reached from `BodyImageWorker` and
is left out, as are the static checks of the worker's source.

### StandaloneParts

The parts that share no state with each other or with the job: the three limiters, the warm-up
manager, the loops, the budget, the readers, the clients, the smoke test and the deployment. A
behaviour picks one of them and the others rest, so one run reaches every state of each without
the product of all.

## 3. Runs

| Run | Question | Bounds and why they are enough |
|---|---|---|
| `job` | Every interleaving of the transactions on one job | three lease holders: the one that was granted, the one that took over, and one more; three tasks: a first submission, a retry and the last allowed one or the fallback; `PrunaSubmitLimit` 3 of 4, `S3CheckLimit` and `LlmGenerationLimit` 1, `ResultMessageLimit` 2, so that every limit is reached from below and hit; two references, so that a report may agree, complete or conflict. Tokens, tasks and references are symmetric. `CHECK_DEADLOCK FALSE`: a published job really stops |
| `limits` | Limits and spacing over several servers; can what a dead process left block everybody? | three jobs of two generations, two slots, one HTTP request at a time, guidance of 1 tick (stored when the interval since the last grant may be over), a lease that outlasts its request (it has to for `HttpWithinLimit`); no symmetry, because of the liveness property |
| `flow` | Do the callers keep the contract, pay once and never forget a job? Does each process know what it relies on (the inductive invariant)? | two Workers, so that a delivery meets another; one Watchdog; one publisher; two tasks with `PrunaSubmitLimit` 2 (first submission and one retry); two faults: a crash and a failed call, or a lease lost twice |
| `flow_webhook` | The same with a Webhook that decides from the row it read | one Worker, one Watchdog, one Webhook request at a time (any number one after the other), one fault; Runware may contradict a refusal |
| `flow_progress` | Does every submission end, its slot come back, its follow-up go out without a Webhook? | one Worker and one Watchdog that may die, two faults: a publication and its repetition fail, or what follows the claim of the repetition |
| `followup` | Is each paid call and each message within its limits, is the work never without a message? | two Workers, so that one takes a job over from the other, one publisher, two faults (two crashes, a lost lease and a crash, ...), one look for the image per delivery and two checks, one fallback, one LLM call, one send: every limit is reached and hit; the Workers are symmetric |
| `followup_progress` | Does every job get a result or an operator, and every result its end? | one Worker and one publisher that may die, one fault; two LLM calls and two sends, so that a retry happens |
| `remote` | One answer, one summary, no place or call left, no image for nobody? | two requests, one place and a queue of one, so that a request waits, is admitted or is refused; a deadline of two ticks with a margin of one, so that it passes at every step; the server may begin to close at any time |
| `parts` | The invariants and refinements of each standalone part | limiters: five requests (a request may come again), two places, a queue of two, so that both fill and a request is refused. Warm-up: two tasks, two closings, two starts in a window of four ticks, cooldown and retry 1, after a timeout 2, so that the rate limit and not the cooldown is what holds a start back. Loops: one Worker, the publisher and the Watchdog with batches of two. Budget: two synchronous and one asynchronous generation, one place, limit 3, a legacy amount of 1, so that the limit is met from below and exceeded. Readers: bodies of two results and two errors over two references and eight statuses. Clients: three requests of the SDK. Smoke test: one retry after a miss, three containers, so that two startup failures and a success fit in. Deployment: one leftover in the shell and one broken way into the container, container limits below, at and above what is accepted |
| `parts_end` | Do waits, closings, the shutdown and the smoke test end? | the same, with two containers |
| `evidence_kept` | `runware_webhook.py:765`, violated | no fault is needed |
| `pool_closed` | `request_worker.py:679`, violated | the loops alone |

Fairness. `limits`: servers poll for a slot as long as a job waits (`_wait_for_slot` is a
loop), a granted process goes on, times out or dies (HTTP has a timeout), Runware reports every
generation it was sent (by response, Webhook, or an answer to the Watchdog's status query), the
slot of a reported end is released (by whoever handled the report, retried by the Watchdog), and
time passes. Nothing is assumed about a process that died: its slot stays, and `GrantsGoOn` excludes
exactly that case (`Abandoned`) and the operator's hold.

`flow_progress` (`FairSpec` of `RequestFlow`): a process that is not dead goes
on and an undeleted message is delivered again (weak fairness). Each inspection of the Watchdog is
strongly fair: `run_once` inspects every candidate in each cycle, so a candidate that comes and
goes is met again and again; so is its taking of the lease, which a redelivered message holds
for a moment of each visibility timeout only. Runware ends what it generates, retry times and
leases expire. No Webhook need ever arrive. Crashes and failed calls are bounded by `MaxFaults`, so
the properties say what happens once failures stop. Any process may die and any call fail, also
the Watchdog between its claim and the publication. `FollowUpPublished` names the one state this
leaves a job in, a stranded claim: publications that fail, however often, never lead there, as
each gives its claim back. The comments promise another publication there too (see "Violations").

`followup_progress` (`FairSpec` of `FollowUpFlow`): processes that live go on, due results are looked
at, Runware ends the fallback, its slot is returned and leases nobody renews expire. The delivery of
each message is strongly fair: a Worker that is busy receives again when it is done, and SQS keeps a
message that was not deleted visible again and again until it is taken.

`remote`: the event loop runs what is ready, the deadline's timers fire and time passes. Nothing
is assumed of the GPU worker or of Modal, which may never answer.

`parts_end`: the event loop runs what is ready, what holds a VTON place ends (HTTP timeout), the
warm-up call has a timeout, the timers of `stop` fire; a step in a thread may take for ever. The smoke
test has a timeout at each wait, so it goes on whatever Modal does.

`CHECK_DEADLOCK FALSE` stands where the system stops: a published job, a day whose generations are
over.

### Violations

Two runs show disagreements between the code and what a comment says of it.

* `evidence_kept`: the Webhook looks for a contradiction in the row it read first; a rejection
  committed between that read and its own record leaves no conflict.
* `pool_closed`: `stop` cancels the loop's task after its timeout. The comments of
  `request_worker.py:681`, `watchdog.py:918` and `result_publisher.py:296` say that a step which uses the
  database is waited for; the shield of `to_thread.run_sync` does not hold off
  `Task.cancel()`, so the task ends at once, and `main.py` closes the pool while the thread goes on.

Five more differences were met while modelling and have no run of their own:

* `claim_republish_once` (`watchdog.py:733`) commits before the row is read again and the message
  published. If that read (742) or `forget_republish` (744, 752) raises, `run_once` goes on (452) and the
  claim stays: of a `POSTPROCESS` job every later inspection only alerts, although `watchdog.py:723`, 453
  and 1043 say that it is published again. A Watchdog that dies there leaves the same.
  `FollowUpPublished` without its exception is violated so, by two failed calls and no crash.
  `RUN_FALLBACK` is claimed per interval and not lost.
* `cancel_unsent` (`pruna_limiter.py:460`) sets `pruna_retry_at` of the attempt it goes back to without
  looking whether that attempt was contradicted meanwhile (a retry is granted, the attempt before
  it contradicted, the retry taken back), so the retry the operator should decide on
  (`virtual_fitting_pruna_retry.sql:15`) is made by itself.
* The Watchdog's thread reads `should_stop` (`watchdog.py:464`) before the statuses of the loops, so a loop
  that ends with the server in between is reported as stopped, which the comment of line 465 rules
  out. `AlertIsTrue` says what does hold: a loop that is reported has ended.
* An acceptance recorded after the rejection of the same attempt (`async_job_state.py:349`) moves the
  job on and records no conflict (`virtual_fitting_pruna_retry.sql:41`).
* In the limiter for threads (`body_image_validation/concurrency.py:57`) a thread that arrives while
  others wait counts itself as waiting, but then takes any free place, also the one a notified
  thread is about to take.

`AsyncJobState`, `RequestFlow` and `BodyValidationLimiter` do what the code does there.

## 4. Theorems

`AsyncJobState_proofs`: the inductive invariant `IInv` for every number of tasks, tokens and
references and every value of the limits, with the assumptions `LimitAssumption` and
`NullAssumption`. The invariants alone are not inductive: that a retry cannot be granted while an
earlier submission runs rests on the agreement of the attempt rows with the row (`RejectionsAgree`),
on nothing being left behind by a start that was taken back (`UnstartedIsClean`) and on every sent
task being rejected, current or the fallback (`SentIsAccountedFor`). From it follow the type,
`NextActionMatchesStatus`, `TerminalIffPublished`, `AttemptChain`, `SlotHasOwner`,
`UnsentIsCurrent`, `HoldIsOnCurrentTask` and `VerifiedNeverFallsBack`; those that no run lists by
name are conjuncts of `IInv`, which the run `job` checks. There is one lemma per
action, in the order of the module.

The same module proves the contract: with that invariant, every step maps to a step of `FittingContract` or
to a stutter (`ContractImplemented`); what was recorded first stands (`RecordsKept`); a generation
is started only while it is allowed (`GenerationsAllowed`).

`PrunaLimiter_proofs`: the invariant `LimiterIInv` for any finite set of jobs and any limits. The
bound on running generations follows by mapping each running generation to its job: two of one
job cannot run (`OneAfterTheOther`), and each holds the slot (`RunningHasSlot`). The bound on open
HTTP requests (`HttpBounded`) needs that a send row outlives the request it stands for
(`RowOutlivesRequest`), which holds only if a lease outlasts a request. The code's defaults have it
(lease 120 s, renewed before the grant; HTTP timeout 30 s) but nothing enforces it, so it is the
named constant `LeaseOutlastsRequest`; without it TLC finds a Webhook rejection and an expired lease
that let a second request of the same job start, both counted by one send row.

`RequestFlow_proofs`: the invariant `FlowInvariant` for any number of Workers, Watchdogs, Webhook
requests, tasks, crashes and failed calls. `PaidOnce`, `RunningHoldsSlot` and `NoJobForgotten` are not
inductive: what carries them is what each process knows where it stands. A report that is handled is
true of Runware, perhaps late (`ReportsAreTrue`); one process at a time may send, its task is
unknown to Runware and holds the slot (`SenderIsAlone`); only refused tasks are recorded as rejected
(`RefusalsAreTrue`); and whoever is on the way to delete the request message has seen the job past the
state only that message leads out of, to which nobody can take it back (`MessageUntilPast`: a
first submission may be cancelled, a retry goes back to a started job). Three kinds of
steps are told apart: quiet ones, of processes that are not sending, which leave those that may
send and the generations that run alone; the two grants, after which one process may send; and the
ends of that - the request, the cancellation, the crash. The invariant of `AsyncJobState` (`DB!IInv`)
is a conjunct and is kept because every step is one of its steps (`ContractKept`), so the theorems
about open callers carry over to the running system. Nothing is assumed but the named assumptions of the modules.

`FollowUpFlow_proofs`: the invariant `FollowUpInvariant` for any finite set of Workers and publishers
(`FollowUpAssumption`; the calls on the way are counted with `Cardinality`). `Later` says what every
transaction leaves of the row for the processes that read it before: a result, an image, a started
fallback and a counted call stay. From it each process keeps what it relies on (`FitsJob`): texts are
made for an image the job has, a message is deleted only when its step is behind the job and the next
one has a message. The one paid request belongs to the process that began the fallback
(`FallbackIsOne`: nobody else is at `send`, the slot is held until the generation ends), and
each counted call that is not made yet belongs to the process that counted it (`CallsAreCounted`), so
what is spent never exceeds what the row counted, whoever dies in between. From it follow
`SpentOnlyWithinLimits`, `NeverImageAndFallback`, `WorkAlwaysHasMessage`, and `ContractKept` as for the
request flow.

`RequestParts_proofs` has the parts of `StandaloneParts` that requests go through. Whatever part
runs, a step is one of that part or leaves it alone (`BudgetStep`, `BodyStep`, ...), so each part is
proved alone.

* Daily budget (`BudgetIsRight`, `SpendingIsRemembered`): for any set of fittings and tasks. The
  amount is never more than what was spent because what a fitting still owes was spent and is not
  counted yet: the legacy amount, what was recorded and what is owed together are at most what was
  spent, and a total that lags behind is at most what Runware lists, which is at most that.
* Limiters (`SlotsAreRight`): nobody stands twice in a queue, those in it are those who wait and
  those whose wait ended and who have not run since,
  and the counters are the sizes of these sets. That no wakeup of a thread is lost is an argument
  about numbers, which `FreePlacesLookedFor` makes inductive: a notification may be spent on a thread
  whose wait has just timed out, so not every awake thread can be counted on. While a thread waits,
  for every free place one is awake that no later notification can pick any more.
* `BodyIsFifo`: every step of the limiter of the remote validation maps to one of `FifoSlots` or to a
  stutter. The mapping takes those who run and the queue of tickets as it stands: who was told to go
  keeps its ticket until it takes the place, who gives up keeps it until it leaves.
* `VtonIsFifo`: the same for the limiter of the VTON and LLM calls, whose queue also holds waiters that
  stopped. The mapped queue (`StillWaiting`) is those whose future is pending in the order of the
  waiters. There is at most one such order (`OneOrder`: where two first differ, one of the two comes
  before the other both ways), and each step leads from the order there is to one of the next state
  (`OrderAppended`, `OrderWithout`, `AheadBehind`), so no induction over the queue is needed.
* Readers of Runware's answers (`AnswersAreRight`): for bodies of any number of entries, over any
  references and waits. Each reader's verdict is a function of the body (`ReadBy`); if it spends, all
  codes of the task are of one kind (`KindsOfCodes`), an error and a result exclude each other, and
  so the readers agree. The SQS and S3 clients call "not sent" only what no try can have done
  (`AnswerFits`).

`LifecycleParts_proofs` has the parts that start, run and stop a process.

* Loops (`TasksAreRight`): one invariant per loop (`LoopFits`) for any set of loops, batches and
  queues, with what the lifespan knows of those it started and stopped.
* Warm-up (`TasksAreRight`): `recent` is the end of the sequence of all starts that is still in the
  window (`StillInIsTheEnd`), so its length bounds the starts of every window; a closing waits for
  the last call there can be.
* GPU worker (`DeploymentIsRight`): the configuration that is registered is the one the
  arguments and the preflight give (`SettingsFit`), the settings of a container are those but for one
  way that broke (`Arriving`), and wherever they do not agree with each other no snapshot is
  taken or restored; so whatever serves is in the deployed mode.
* Smoke test (`DeploymentIsRight`): the lines of a container of this phase are those of its start,
  with those of one answer behind them if it is the last one (`LinesFit`). A container of which the
  answer is shown has shown all its lines (`HitIsRestored`), so a hit was restored; and a startup
  failure that is shown is one of a container that did not start (`BlamedAreBroken`).

`RemoteValidation_proofs` (`RemoteIsRight`, `NothingUploadedForNobody`): for any number of requests
and places and every deadline and margin. How far middleware, route, service and GPU worker can be
with one request at the same time is one relation (`RequestFits`); who was told that the deadline
passed has no time left or a worker that stopped for it (`AnswerFits`); and places belong to those in
the service, each once (`PlacesFit`), also when one is handed over at the moment its waiter is
cancelled. `NoUploadForNobody` follows because an upload needs time left.

`QueueLemmas` is what these need of finite sets and of queues in which nobody stands twice: the
elements and the order after an append, a removal at the head, in the middle or up to an element.

Model-checked only: every liveness property (`GrantsGoOn`, `EventuallySettled`, `SlotReturned`,
`FollowUpPublished`, `EventuallyFinished`, `ResultDelivered`, `RemoteEnds`, `PartsEnd`), which is out of
the prover's reach, as is `ENABLED`; and the two violations.

## 5. What is not modelled, and why

The state of each component is in `PROJECT.json`. Not modelled:

* model inference and the numeric rules of the detectors, decoding and encoding of images: floating
  point over pixels, nothing a state machine says anything about;
* chat, recommendation, product selection and prompts: each is one pass over text or catalogue
  rows whose decisions a language model or one SQL query makes, with no state two actors share;
* the format of messages, bodies, keys and errors, authentication of requests, logging, metrics and
  diagnostics; the development scripts;
* the ages, throttles and alerts by which the Watchdog picks its candidates (it may pick any), and the
  recovery of directly uploaded images by the Watchdog's HEAD;
* the redirects of Modal's long calls and the validation without a remote worker.

External: Runware, SQS, S3, Modal and PostgreSQL; a transaction is atomic and serialised by the
row lock it takes first. That a cancelled task does not wait for its thread is the behaviour of the
`anyio` the repository pins (`WorkerLoops`).

Bounds stand in the configurations only, except `MaxGen`, `SendMargin`, `HttpTimeout` and
`MaxGuidance`, which are constants of `PrunaLimiter`, `MaxFaults` of `RequestFlow` and `FollowUpFlow`, and `MaxTries`,
`MaxEntries`, `MaxBatch` and `MaxBoxes` of the standalone parts.

## 6. Plan

Done: `AsyncJobRow`, `AsyncJobTransactions`, `AsyncJobState`, `FittingContract` and their proofs;
`PrunaLimiter` and its proofs; `JobDecisions` and `RequestFlow` (Worker, submitter, Watchdog,
Webhook, publisher of one job); `FollowUpFlow` (postprocess Workers, fallback, publishers);
`RemoteValidation`; `FifoSlots` and the limiters of a process; `FittingBudget`; `BodyImageWarmup`;
`WorkerLoops`; `RunwareAnswers`; `CloudCalls`; `DeploySmoke` and `WorkerDeployment`.

Proved: every invariant and every action property of the passing runs, and the three refinements
`ImplementsContract`, `CallersKeepContract` and `KeepsContract` and those of the two event-loop
limiters (section 4).

Next: several jobs of one queue in `FollowUpFlow` (the order of due results); the Watchdog's recovery of
directly uploaded images.
