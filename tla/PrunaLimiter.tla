---------------------------- MODULE PrunaLimiter ----------------------------
(***************************************************************************)
(* The limits every AI server shares when it asks Runware for a generation *)
(* (PrunaLimiter and its three tables): how many generations are in        *)
(* flight, how many HTTP requests are open, and how far apart they start.  *)
(*                                                                         *)
(* Each job makes its generations one after the other, numbered 1, 2, ...  *)
(* (submissions, retries and the fallback; which of them a job may make is *)
(* AsyncJobState's business).  A process that was granted a generation     *)
(* sends one HTTP request, may die at any point, and Runware may report    *)
(* the end of a generation before or after its HTTP response.              *)
(*                                                                         *)
(* Every method is one transaction that locks the limiter row first, so a  *)
(* grant is one action.  Times are what is left until them on the database *)
(* clock; a row of virtual_fitting_pruna_sends whose held_until has passed *)
(* is the same as no row (every grant deletes such rows before it counts). *)
(***************************************************************************)
EXTENDS Naturals, FiniteSets

CONSTANTS
    Job,
    MaxGen,         \* bound: generations of one job
    MaxInFlight,    \* VIRTUAL_FITTING_PRUNA_MAX_IN_FLIGHT = 3
    MaxSends,       \* VIRTUAL_FITTING_PRUNA_MAX_CONCURRENT_SENDS = 2
    MinInterval,    \* VIRTUAL_FITTING_PRUNA_MIN_SEND_INTERVAL_SECONDS = 10
    SendHold,       \* send_hold_seconds = the HTTP timeout + 30 s
    SendMargin,     \* bound: from the grant to the start of the request
    HttpTimeout,    \* bound: DEFAULT_SUBMIT_TIMEOUT, the longest request
    MaxGuidance,    \* bound: the longest retry-after that is a time
    LeaseOutlastsRequest  \* the lease (120 s, renewed before the grant) is
                          \* longer than a request (30 s); not enforced

ASSUME LimiterAssumption ==
    /\ IsFiniteSet(Job)
    /\ MaxGen \in Nat \ {0}
    /\ MaxInFlight \in Nat \ {0} /\ MaxSends \in Nat \ {0}
    /\ MinInterval \in Nat /\ MaxGuidance \in Nat
    /\ SendHold \in Nat /\ SendMargin \in Nat /\ HttpTimeout \in Nat
    /\ SendHold > SendMargin + HttpTimeout
    /\ LeaseOutlastsRequest \in BOOLEAN

Gen == 1..MaxGen

VARIABLES
    inFlight,   \* virtual_fitting_pruna_in_flight: the generation, 0: no row
    held,       \* virtual_fitting_pruna_sends: time left to held_until
    wait,       \* time left to next_send_at
    sendHold,   \* send_hold_reason is not NULL
    newest,     \* the job's newest generation that was granted
    req,        \* the granted process and its HTTP request
    left,       \* time it may still take to send, then to be answered
    over,       \* generations Runware reported the end of
    sinceGrant, \* time since the last grant, counted up to MinInterval
    guidance    \* time left of the retry-after guidance stored so far

vars == <<inFlight, held, wait, sendHold, newest, req, left, over,
          sinceGrant, guidance>>

limiterVars == <<inFlight, held, wait, sendHold>>
clockVars == <<sinceGrant, guidance>>

\* none: not granted; granted: not yet sent; open: HTTP request under way;
\* replied: it ended, its response is being handled; done: handled, or the
\* process died after sending; lost: the process died before sending.
ReqState == {"none", "granted", "open", "replied", "done", "lost"}

TypeOK ==
    /\ inFlight \in [Job -> 0..MaxGen]
    /\ held \in [Job -> 0..SendHold]
    /\ wait \in Nat
    /\ sendHold \in BOOLEAN
    /\ newest \in [Job -> 0..MaxGen]
    /\ req \in [Job \X Gen -> ReqState]
    /\ left \in [Job \X Gen -> Nat]
    /\ over \in SUBSET (Job \X Gen)
    /\ sinceGrant \in 0..MinInterval
    /\ guidance \in Nat

Init ==
    /\ inFlight = [j \in Job |-> 0] /\ held = [j \in Job |-> 0]
    /\ wait = 0 /\ sendHold = FALSE
    /\ newest = [j \in Job |-> 0]
    /\ req = [g \in Job \X Gen |-> "none"]
    /\ left = [g \in Job \X Gen |-> 0]
    /\ over = {}
    /\ sinceGrant = MinInterval /\ guidance = 0

Holders == {j \in Job : inFlight[j] # 0}

Sending == {j \in Job : held[j] > 0}

\* Granted and not yet answered: the process behind it keeps the job's lease.
Active(g) == req[g] \in {"granted", "open"}

-----------------------------------------------------------------------------
(* Grants. *)

\* Mutant: the limit is off by one.
SlotFree_OneMore(j) ==
    inFlight[j] # 0 \/ Cardinality(Holders \ {j}) <= MaxInFlight

SlotFree(j) == inFlight[j] # 0 \/ Cardinality(Holders \ {j}) < MaxInFlight

\* Mutant: the requests under way are not counted.
SendFree_NotCounted(j) == held[j] = 0

SendFree(j) == Cardinality(Sending \ {j}) < MaxSends

\* Mutant: the shared waiting time is not looked at.
MaySendNow_NoWait == ~sendHold

MaySendNow == ~sendHold /\ wait = 0

\* _take_slot: the checks and the three writes of a grant.
TakeSlot(j, n) ==
    /\ SlotFree(j) /\ MaySendNow /\ SendFree(j)
    /\ inFlight' = [inFlight EXCEPT ![j] = IF @ = 0 THEN n ELSE @]
    /\ held' = [held EXCEPT ![j] = SendHold]
    /\ wait' = MinInterval
    /\ newest' = [newest EXCEPT ![j] = n]
    /\ req' = [req EXCEPT ![<<j, n>>] = "granted"]
    /\ left' = [left EXCEPT ![<<j, n>>] = SendMargin]
    /\ sinceGrant' = 0
    /\ UNCHANGED <<sendHold, over, guidance>>

\* The first generation.
BeginSubmission(j) == newest[j] = 0 /\ TakeSlot(j, 1)

\* begin_retry_submission after a rejection, begin_fallback after a failure:
\* only once the newest generation is over, and never while the job's slot
\* still belongs to it.  The caller needs the job's lease, which the process
\* of an unanswered request keeps: if nothing else, until it expires.
CanBeginNext(j, n) ==
    /\ newest[j] = n /\ n \in 1..(MaxGen - 1) /\ <<j, n>> \in over
    /\ inFlight[j] \in {0, n + 1}
    /\ LeaseOutlastsRequest => ~Active(<<j, n>>)

BeginNext(j) == \E n \in Gen : CanBeginNext(j, n) /\ TakeSlot(j, n + 1)

-----------------------------------------------------------------------------
(* The granted process. *)

SendRequest(g) ==
    /\ req[g] = "granted"
    /\ req' = [req EXCEPT ![g] = "open"]
    /\ left' = [left EXCEPT ![g] = HttpTimeout]
    /\ UNCHANGED <<limiterVars, newest, over, clockVars>>

\* finish_send, when the response, an error or the timeout came.  The row it
\* deletes is the job's, whichever request made it.
FinishSend(g) ==
    /\ req[g] = "open"
    /\ req' = [req EXCEPT ![g] = "replied"]
    /\ held' = [held EXCEPT ![g[1]] = 0]
    /\ left' = [left EXCEPT ![g] = 0]
    /\ UNCHANGED <<inFlight, wait, sendHold, newest, over, clockVars>>

\* GREATEST(next_send_at, now + seconds): never brought forward.
Later(a, b) == IF a >= b THEN a ELSE b

\* defer_sends with the guidance of the response.
DeferSends(g, seconds) ==
    /\ req[g] = "replied"
    /\ req' = [req EXCEPT ![g] = "done"]
    /\ wait' = Later(wait, seconds)
    /\ guidance' = IF guidance >= seconds THEN guidance ELSE seconds
    /\ UNCHANGED <<inFlight, held, sendHold, newest, left, over, sinceGrant>>

\* hold_sends: the guidance cannot be stored as a time.
HoldSends(g) ==
    /\ req[g] = "replied"
    /\ req' = [req EXCEPT ![g] = "done"]
    /\ sendHold' = TRUE
    /\ UNCHANGED <<inFlight, held, wait, newest, left, over, clockVars>>

\* No guidance, or the process dies before it stores any.
NoGuidance(g) ==
    /\ req[g] = "replied"
    /\ req' = [req EXCEPT ![g] = "done"]
    /\ UNCHANGED <<limiterVars, newest, left, over, clockVars>>

\* Nothing is undone: the slot stays, the send row until held_until.
Crash(g) ==
    /\ Active(g)
    /\ req' = [req EXCEPT ![g] = IF @ = "granted" THEN "lost" ELSE "done"]
    /\ left' = [left EXCEPT ![g] = 0]
    /\ UNCHANGED <<limiterVars, newest, over, clockVars>>

\* cancel_unsent: the provider refused the input before it sent anything.
\* Everything of the job is given back; with an expired lease nothing is,
\* but finish_send still runs.
CancelUnsent(g) ==
    /\ req[g] = "granted" /\ newest[g[1]] = g[2]
    /\ left' = [left EXCEPT ![g] = 0]
    /\ held' = [held EXCEPT ![g[1]] = 0]
    /\ \/ /\ req' = [req EXCEPT ![g] = "none"]
          /\ newest' = [newest EXCEPT ![g[1]] = @ - 1]
          /\ inFlight' = [inFlight EXCEPT ![g[1]] = 0]
       \/ /\ ~LeaseOutlastsRequest
          /\ req' = [req EXCEPT ![g] = "lost"]
          /\ UNCHANGED <<newest, inFlight>>
    /\ UNCHANGED <<wait, sendHold, over, clockVars>>

-----------------------------------------------------------------------------
(* What Runware reports about a generation it was sent. *)

Sent(g) == req[g] \in {"open", "replied", "done"}

\* Mutant: the slot is given back whoever holds it.
SlotAfter_AnyTask(g) == [inFlight EXCEPT ![g[1]] = 0]

\* DELETE ... WHERE fitting_job_id and task_uuid: only the slot of this task.
SlotAfter(g) == [inFlight EXCEPT ![g[1]] = IF @ = g[2] THEN 0 ELSE @]

\* record_not_accepted: the rejection and the slot in one transaction.
RecordNotAccepted(g) ==
    /\ Sent(g) /\ g \notin over
    /\ over' = over \cup {g}
    /\ inFlight' = SlotAfter(g)
    /\ UNCHANGED <<held, wait, sendHold, newest, req, left, clockVars>>

\* A success or a failure is reported (response, Webhook, status query) ...
EndReported(g) ==
    /\ Sent(g) /\ g \notin over
    /\ over' = over \cup {g}
    /\ UNCHANGED <<limiterVars, newest, req, left, clockVars>>

\* ... and release_in_flight comes in a transaction of its own, before or
\* after the one that records it, any number of times and late.
ReleaseInFlight(g) ==
    /\ g \in over
    /\ inFlight' = SlotAfter(g)
    /\ UNCHANGED <<held, wait, sendHold, newest, req, left, over, clockVars>>

-----------------------------------------------------------------------------
(* The clock and the operator. *)

Less(n) == IF n = 0 THEN 0 ELSE n - 1

\* Mutant: the send row of a process that died counts for ever.
ExpireSends_Never == held

\* held_until <= now: the row no longer counts.
ExpireSends == [j \in Job |-> Less(held[j])]

\* A process neither sends after SendMargin nor waits past HttpTimeout.
Tick ==
    /\ \A g \in Job \X Gen : Active(g) => left[g] > 0
    /\ wait' = Less(wait) /\ guidance' = Less(guidance)
    /\ held' = ExpireSends
    /\ left' = [g \in Job \X Gen |-> Less(left[g])]
    /\ sinceGrant' = IF sinceGrant < MinInterval THEN sinceGrant + 1
                                                 ELSE MinInterval
    /\ UNCHANGED <<inFlight, sendHold, newest, req, over>>

\* The operator clears send_hold_reason by hand.
ClearHold ==
    /\ sendHold /\ sendHold' = FALSE
    /\ UNCHANGED <<inFlight, held, wait, newest, req, left, over, clockVars>>

Respond(g) ==
    \/ FinishSend(g)
    \/ \E seconds \in 1..MaxGuidance : DeferSends(g, seconds)
    \/ HoldSends(g)
    \/ NoGuidance(g)

Next ==
    \/ \E j \in Job : BeginSubmission(j) \/ BeginNext(j)
    \/ \E g \in Job \X Gen :
         \/ SendRequest(g) \/ Respond(g) \/ Crash(g) \/ CancelUnsent(g)
         \/ RecordNotAccepted(g) \/ EndReported(g) \/ ReleaseInFlight(g)
    \/ Tick
    \/ ClearHold

Spec == Init /\ [][Next]_vars

-----------------------------------------------------------------------------
(* Properties. *)

\* Every generation Runware may still be working on holds its job's slot:
\* neither a late report about an older generation, nor a crash, nor a
\* cancellation gives away the slot of one that runs.
RunningHasSlot ==
    \A j \in Job, n \in Gen :
        Sent(<<j, n>>) /\ <<j, n>> \notin over => inFlight[j] = n

\* Generations running at Runware never exceed the limit of all servers.
Running == {g \in Job \X Gen : Sent(g) /\ g \notin over}

InFlightWithinLimit ==
    Cardinality(Holders) <= MaxInFlight /\ Cardinality(Running) <= MaxInFlight

\* No more HTTP requests are open at once than the limit, although the rows
\* that count them are deleted by job and expire by the clock (as long as a
\* job's lease outlasts its request).
HttpWithinLimit ==
    Cardinality({g \in Job \X Gen : req[g] = "open"}) <= MaxSends

Grant == \E g \in Job \X Gen : req[g] # "granted" /\ req'[g] = "granted"

\* Whichever server grants, two grants are at least MinInterval apart, none
\* is given before the longest guidance Runware gave has passed, and none
\* while the sends are held for the operator.
GrantsSpaced ==
    [][Grant => sinceGrant = MinInterval /\ guidance = 0 /\ ~sendHold]_vars

-----------------------------------------------------------------------------
(* The inductive invariant behind them. *)

\* Generations of a job follow one another: only the newest may be running,
\* and a grant that was not used yet still owns the slot.
OneAfterTheOther ==
    /\ \A j \in Job, n \in Gen : req[<<j, n>>] # "none" => n <= newest[j]
    /\ \A j \in Job, n \in Gen : n < newest[j] => <<j, n>> \in over
    /\ \A g \in over : Sent(g)
    /\ \A j \in Job : inFlight[j] <= newest[j]
    /\ \A j \in Job, n \in Gen : req[<<j, n>>] = "granted" => inFlight[j] = n

\* The shared waiting time covers the interval and the guidance.
WaitCovers == wait + sinceGrant >= MinInterval /\ wait >= guidance

\* The send row outlives the request it stands for.
RowOutlivesRequest ==
    LeaseOutlastsRequest =>
      \A j \in Job, n \in Gen :
        /\ Active(<<j, n>>) => n = newest[j]
        /\ req[<<j, n>>] = "granted" => held[j] > left[<<j, n>>] + HttpTimeout
        /\ req[<<j, n>>] = "open" => held[j] > left[<<j, n>>]

LimiterIInv ==
    /\ TypeOK
    /\ OneAfterTheOther /\ RunningHasSlot
    /\ WaitCovers /\ RowOutlivesRequest
    /\ Cardinality(Holders) <= MaxInFlight
    /\ Cardinality(Sending) <= MaxSends

-----------------------------------------------------------------------------
(* Progress. *)

\* The servers poll as long as a job waits, processes go on or time out,
\* Runware reports every generation it was sent, and time passes.
Fairness ==
    /\ WF_vars(\E j \in Job : BeginSubmission(j))
    /\ WF_vars(Tick)
    /\ \A g \in Job \X Gen :
         /\ WF_vars(SendRequest(g)) /\ WF_vars(Respond(g))
         /\ WF_vars(RecordNotAccepted(g) \/ EndReported(g))
         /\ WF_vars(ReleaseInFlight(g) /\ inFlight' # inFlight)

FairSpec == Spec /\ Fairness

\* Nobody will ever report the end of a generation that was never sent, so
\* its slot waits for the operator.
Abandoned == {j \in Job : inFlight[j] # 0 /\ req[<<j, inFlight[j]>>] = "lost"}

\* As long as a job waits for its first generation, grants go on, unless the
\* sends are held or every slot was abandoned by a process that died: no
\* combination of slots, send rows and waiting times blocks all servers.
GrantsGoOn ==
    []<>(\/ sinceGrant = 0
         \/ \A j \in Job : newest[j] # 0
         \/ sendHold
         \/ Cardinality(Abandoned) >= MaxInFlight)
=============================================================================
