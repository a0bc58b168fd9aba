------------------------- MODULE ConcurrencyLimiter -------------------------
(***************************************************************************)
(* virtual_fitting/concurrency.py: the limiter of the VTON and LLM calls.  *)
(* What runs between two awaits is one step of the event loop.  A request  *)
(* that waits has a future; its place is handed over by completing the     *)
(* future, and the request goes on only in a later step.  In between its   *)
(* wait may time out, or its client may go away.                           *)
(***************************************************************************)
EXTENDS Naturals, FiniteSets, SequencesExt

CONSTANTS
    Request,     \* requests that use the limiter, one after the other
    MaxRunning,  \* max_running
    MaxWaiting   \* max_waiting; as many as Request stands for no limit

LimiterAssumption ==
    /\ IsFiniteSet(Request)
    /\ MaxRunning \in Nat \ {0}
    /\ MaxWaiting \in Nat

VARIABLES
    running,  \* _running
    waiters,  \* _waiters
    state     \* where each request is

vars == <<running, waiters, state>>

\* "waiting": its future is pending.  "stopped": it timed out or was cancelled
\* while pending.  "handed": its future is completed.  "handedStopped": it
\* timed out or was cancelled after that, before it went on.
State == {"out", "waiting", "stopped", "handed", "handedStopped", "in"}

TypeOK ==
    /\ running \in 0..MaxRunning
    /\ waiters \in Seq(Request) /\ Len(waiters) <= MaxWaiting
    /\ state \in [Request -> State]

Init ==
    /\ running = 0 /\ waiters = <<>>
    /\ state = [r \in Request |-> "out"]

Becomes(r, s) == [state EXCEPT ![r] = s]

-----------------------------------------------------------------------------
(* The limiter. *)

\* _release, after which r is out: the oldest future that is still pending
\* gets the place; those that are not are dropped on the way.
Pending == {i \in DOMAIN waiters : state[waiters[i]] = "waiting"}

\* Mutant: the newest waiter first.
First_Newest(S) == CHOOSE i \in S : \A j \in S : i >= j

First(S) == CHOOSE i \in S : \A j \in S : i <= j

\* Mutant: only the head of the queue is looked at.
GiveBack_HeadOnly(r) ==
    IF waiters = <<>> \/ state[Head(waiters)] # "waiting"
    THEN /\ waiters' = IF waiters = <<>> THEN <<>> ELSE Tail(waiters)
         /\ running' = running - 1
         /\ state' = Becomes(r, "out")
    ELSE /\ waiters' = Tail(waiters)
         /\ state' = [Becomes(r, "out") EXCEPT ![Head(waiters)] = "handed"]
         /\ UNCHANGED running

GiveBack(r) ==
    IF Pending = {}
    THEN /\ waiters' = <<>>
         /\ running' = running - 1
         /\ state' = Becomes(r, "out")
    ELSE LET i == First(Pending) IN
         /\ waiters' = SubSeq(waiters, i + 1, Len(waiters))
         /\ state' = [Becomes(r, "out") EXCEPT ![waiters[i]] = "handed"]
         /\ UNCHANGED running

\* _acquire up to its first await: a place, or a future.  A queue that is full
\* refuses at once and changes nothing.
Acquire(r) ==
    /\ state[r] = "out"
    /\ \/ /\ running < MaxRunning
          /\ running' = running + 1
          /\ state' = Becomes(r, "in")
          /\ UNCHANGED waiters
       \/ /\ running >= MaxRunning /\ Len(waiters) < MaxWaiting
          /\ waiters' = Append(waiters, r)
          /\ state' = Becomes(r, "waiting")
          /\ UNCHANGED running

\* asyncio.timeout, or the cancellation of the request: a pending future is
\* cancelled, a completed one stays, and the request fails when it goes on.
Stop(r) ==
    /\ \/ state[r] = "waiting" /\ state' = Becomes(r, "stopped")
       \/ state[r] = "handed" /\ state' = Becomes(r, "handedStopped")
    /\ UNCHANGED <<running, waiters>>

GoOn(r) ==
    /\ state[r] = "handed"
    /\ state' = Becomes(r, "in")
    /\ UNCHANGED <<running, waiters>>

\* The except of _acquire: a place that was handed over is given back,
\* otherwise the request leaves the queue, if it is still there.
CleanUp(r) ==
    \/ state[r] = "handedStopped" /\ GiveBack(r)
    \/ /\ state[r] = "stopped"
       /\ waiters' = RemoveFirst(waiters, r)
       /\ state' = Becomes(r, "out")
       /\ UNCHANGED running

\* Success, error or cancellation inside the block.
Release(r) ==
    /\ state[r] = "in"
    /\ GiveBack(r)

GoesOn(r) == GoOn(r) \/ CleanUp(r)

Next ==
    \E r \in Request : Acquire(r) \/ Stop(r) \/ GoesOn(r) \/ Release(r)

Spec == Init /\ [][Next]_vars

\* The event loop runs what is ready, and a call that runs ends (it has an
\* HTTP timeout).  No wait need ever time out.
Fairness ==
    \A r \in Request : WF_vars(GoesOn(r)) /\ WF_vars(Release(r))

FairSpec == Spec /\ Fairness

-----------------------------------------------------------------------------
(* Properties. *)

In(S) == {r \in Request : state[r] \in S}

HasPlace == In({"handed", "handedStopped", "in"})

\* The counter is the number of requests that have a place, also when a wait
\* times out or its client goes away in the moment the place is handed over.
PlacesCounted == running = Cardinality(HasPlace)

\* Nobody waits while a place is free.
NoIdlePlace == In({"waiting"}) # {} => running = MaxRunning

\* Whose future is pending is in the queue, once; who is in the queue has no
\* place yet.
WaitersFit ==
    /\ IsInjective(waiters)
    /\ In({"waiting"}) \subseteq Range(waiters)
    /\ Range(waiters) \subseteq In({"waiting", "stopped"})

\* No place is lost or given twice, however the waits end.
LimiterInvariant == TypeOK /\ PlacesCounted /\ NoIdlePlace /\ WaitersFit

CameBefore(a, b) ==
    \E i, j \in DOMAIN waiters : i < j /\ waiters[i] = a /\ waiters[j] = b

\* Those whose future is pending, in the order they came.
StillWaiting ==
    CHOOSE s \in SetToSeqs(In({"waiting"})) :
        \A i, j \in DOMAIN s : i < j => CameBefore(s[i], s[j])

Slots == INSTANCE FifoSlots WITH running <- HasPlace, queue <- StillWaiting

\* Requests are admitted in their order, and nobody passes those who wait
\* although a new request looks at the counter only.
ImplementsFifoSlots == Slots!Spec

\* A request that waits does not wait for ever, without any timeout.
WaitEnds == \A r \in Request : state[r] = "waiting" ~> state[r] # "waiting"
=============================================================================
