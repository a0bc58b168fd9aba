---------------------------- MODULE StandaloneParts ----------------------------
(***************************************************************************)
(* The parts of the repository that share no state with each other: the    *)
(* limits one server process keeps in memory and its warm-up manager, its  *)
(* repeating loops, the daily budget, the readers of what Runware, SQS and *)
(* S3 answer, and the two deployment programs.  A behaviour picks one of   *)
(* them and the others rest: every reachable state of each part is         *)
(* reached, and a property of one part says nothing of another.            *)
(***************************************************************************)
EXTENDS Naturals, FiniteSets

CONSTANTS
    Part,                                      \* the parts a behaviour may pick
    Request, MaxRunning, MaxWaiting,           \* of each limiter
    NULL, Call, Closer, Cooldown, RetryInterval, TimeoutRetryInterval, Window,
    MaxStarts,                                 \* of the warm-up manager
    Consumer, Publisher, Watchdog, MaxBatch,   \* of the loops
    Fit, Task, FitPlaces, DailyLimit, Legacy,  \* of the budget
    Ref, Http, Seconds, TooLarge, MaxEntries,     \* of the answers of Runware
    MaxTries,                                  \* of the calls of SQS and S3
    MaxMissRetries, MaxInitFailures, MaxSnapshotFailures, MaxBoxes,  \* of the smoke test
    Containers                                 \* of the deployment

ASSUME PartAssumption ==
    Part # {} /\ Part \subseteq {"vton", "body", "threads", "warmup", "loops", "budget",
                                 "answers", "cloud", "smoke", "deployment"}

VARIABLES
    part,                                      \* the part that runs
    vtonRunning, vtonWaiters, vtonState,
    bodyRunning, bodyQueue, bodyState,
    threadsRunning, threadsWaiting, threadsAsleep, threadsState,
    task, closed, cooldown, retryIn, starts, call, cancelled, closer, recent,
    lifespan, loopPc, thread, rest, stop, status, stopper, looked, alerted,
    recorded, reconciled, amount, fresh, costs, budgetPc, total, spent, listed,
    answer, reading,
    op, queue, phase, tries, acted, object, seen, cloudAnswer, outcome,
    smokePc, smokePhase, target, request, boxes, live, verdict, touched,
    cmd, shell, step, deployed, env, open, models, runtime, gpuMode

Vton == INSTANCE ConcurrencyLimiter WITH
          running <- vtonRunning, waiters <- vtonWaiters, state <- vtonState

Body == INSTANCE AsyncBodyValidationLimiter WITH
          running <- bodyRunning, queue <- bodyQueue, state <- bodyState

Threads == INSTANCE BodyValidationLimiter WITH
             running <- threadsRunning, waiting <- threadsWaiting,
             asleep <- threadsAsleep, state <- threadsState

Warmup == INSTANCE BodyImageWarmup

Loops == INSTANCE WorkerLoops WITH pc <- loopPc

Budget == INSTANCE FittingBudget WITH pc <- budgetPc, MaxRunning <- FitPlaces

Answers == INSTANCE RunwareAnswers

Cloud == INSTANCE CloudCalls WITH answer <- cloudAnswer

Smoke == INSTANCE DeploySmoke WITH pc <- smokePc, phase <- smokePhase

Deployment == INSTANCE WorkerDeployment

ASSUME LimitAssumption ==
    /\ Vton!LimiterAssumption /\ Body!LimiterAssumption
    /\ Threads!LimiterAssumption /\ Warmup!WarmupAssumption

ASSUME OtherAssumption ==
    /\ Loops!LoopsAssumption /\ Budget!BudgetAssumption
    /\ Answers!AnswersAssumption /\ Cloud!CloudAssumption
    /\ Smoke!SmokeAssumption /\ Deployment!DeploymentAssumption

vton == <<vtonRunning, vtonWaiters, vtonState>>
body == <<bodyRunning, bodyQueue, bodyState>>
threads == <<threadsRunning, threadsWaiting, threadsAsleep, threadsState>>
warmup == <<task, closed, cooldown, retryIn, starts, call, cancelled, closer, recent>>
loops == <<lifespan, loopPc, thread, rest, stop, status, stopper, looked, alerted>>
budget == <<recorded, reconciled, amount, fresh, costs, budgetPc, total, spent, listed>>
answers == <<answer, reading>>
cloud == <<op, queue, phase, tries, acted, object, seen, cloudAnswer, outcome>>
smoke == <<smokePc, smokePhase, target, request, boxes, live, verdict, touched>>
deployment == <<cmd, shell, step, deployed, env, open, models, runtime, gpuMode>>

vars == <<part, vton, body, threads, warmup, loops, budget, answers, cloud,
          smoke, deployment>>

Init ==
    /\ part \in Part
    /\ Vton!Init /\ Body!Init /\ Threads!Init /\ Warmup!Init /\ Loops!Init
    /\ Budget!Init /\ Answers!Init /\ Cloud!Init /\ Smoke!Init /\ Deployment!Init

OthersRest ==
    /\ part # "vton" => UNCHANGED vton
    /\ part # "body" => UNCHANGED body
    /\ part # "threads" => UNCHANGED threads
    /\ part # "warmup" => UNCHANGED warmup
    /\ part # "loops" => UNCHANGED loops
    /\ part # "budget" => UNCHANGED budget
    /\ part # "answers" => UNCHANGED answers
    /\ part # "cloud" => UNCHANGED cloud
    /\ part # "smoke" => UNCHANGED smoke
    /\ part # "deployment" => UNCHANGED deployment

Next ==
    /\ OthersRest /\ UNCHANGED part
    /\ \/ part = "vton" /\ Vton!Next
       \/ part = "body" /\ Body!Next
       \/ part = "threads" /\ Threads!Next
       \/ part = "warmup" /\ Warmup!Next
       \/ part = "loops" /\ Loops!Next
       \/ part = "budget" /\ Budget!Next
       \/ part = "answers" /\ Answers!Next
       \/ part = "cloud" /\ Cloud!Next
       \/ part = "smoke" /\ Smoke!Next
       \/ part = "deployment" /\ Deployment!Next

Spec == Init /\ [][Next]_vars

\* The smoke test goes on only where it is the part that runs; every other part
\* that rests has nothing to do that its fairness would ask for.
FairSpec ==
    /\ Spec
    /\ Vton!Fairness /\ Body!Fairness /\ Warmup!Fairness /\ Loops!Fairness
    /\ WF_smoke(part = "smoke" /\ Smoke!Tool)

-----------------------------------------------------------------------------
(* The properties of the parts. *)

\* virtual_fitting/concurrency.py, body_image_validation/async_concurrency.py
\* and concurrency.py: no place is lost or given twice, nobody waits while one
\* is free, and notify, which wakes one thread, loses no wakeup, however the
\* waits end.
SlotsInvariant ==
    Vton!LimiterInvariant /\ Body!LimiterInvariant /\ Threads!LimiterInvariant

\* virtual_fitting/concurrency.py: bounded, first come first served, nobody
\* passes those who wait.
VtonImplementsFifoSlots == Vton!ImplementsFifoSlots

\* body_image_validation/async_concurrency.py: the same, with places that are
\* handed over when their owner leaves.
BodyImplementsFifoSlots == Body!ImplementsFifoSlots

\* body_image_validation/warmup_manager.py: one call at a time, no more starts
\* in a window than allowed, and nothing runs after aclose returned.  main.py
\* and the loops it starts: their status and what is reported of them is true,
\* and the pool is closed after their tasks.
TasksInvariant == Warmup!WarmupInvariant /\ Loops!LoopsInvariant

\* budget.py, usage_repository.py: every cost that was reported counts once,
\* and the amount is what is known and no more.
BudgetInvariant == Budget!BudgetInvariant

\* usage_repository.py: what was known to be spent is never forgotten by a
\* total that arrives late.
NothingForgotten == Budget!NothingForgotten

\* The readers of Runware's answers, and the SQS and S3 clients: only what is
\* proven is told as definite.
AnswersInvariant == Answers!ReadInvariant /\ Cloud!CloudInvariant

\* deploy_checks.py and the GPU worker: what passes was restored, what serves
\* is what was checked, and every detector has one owner.
DeploymentInvariant == Smoke!SmokeInvariant /\ Deployment!DeploymentInvariant

\* Who waits for a VTON place gets one or gives up, aclose returns, a shutdown
\* comes to its end, and so does the smoke test.
PartsEnd ==
    /\ Vton!WaitEnds /\ Warmup!CloseEnds /\ Loops!ShutDownEnds
    /\ part = "smoke" => Smoke!SmokeEnds

\* request_worker.py:679, watchdog.py:918, result_publisher.py:296: the pool is
\* closed after the running step, of which only a receive may be left behind.
PoolClosedAfterSteps == Loops!PoolClosedAfterSteps
=============================================================================
