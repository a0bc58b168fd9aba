------------------------ MODULE BodyValidationLimiter ------------------------
(***************************************************************************)
(* body_image_validation/concurrency.py: the limiter of the local body     *)
(* image validation and of the GPU worker.  Requests are threads; what a   *)
(* thread does while it holds the lock of the condition is one step.       *)
(***************************************************************************)
EXTENDS Naturals, FiniteSets, SequencesExt

CONSTANTS
    Request,     \* threads that use the limiter, one request after the other
    MaxRunning,  \* max_running
    MaxWaiting   \* max_waiting

LimiterAssumption ==
    /\ IsFiniteSet(Request)
    /\ MaxRunning \in Nat \ {0}
    /\ MaxWaiting \in Nat

VARIABLES
    running,  \* _running
    waiting,  \* _waiting
    asleep,   \* the waiters of the condition, the oldest first
    state     \* where each thread is

vars == <<running, waiting, asleep, state>>

\* "waiting": in condition.wait.  "woken": notified, it does not have the lock
\* yet.  "expired": its wait timed out, it does not have the lock yet.
State == {"out", "waiting", "woken", "expired", "in"}

TypeOK ==
    /\ running \in 0..MaxRunning
    /\ waiting \in 0..MaxWaiting
    /\ asleep \in Seq(Request)
    /\ state \in [Request -> State]

Init ==
    /\ running = 0 /\ waiting = 0 /\ asleep = <<>>
    /\ state = [r \in Request |-> "out"]

-----------------------------------------------------------------------------
(* The limiter. *)

\* notify(), in a step after which r is in state s: the oldest waiter, which
\* may be one whose wait has just timed out.
Notify(r, s) ==
    IF asleep = <<>>
    THEN asleep' = asleep /\ state' = [state EXCEPT ![r] = s]
    ELSE /\ asleep' = Tail(asleep)
         /\ state' = [state EXCEPT ![r] = s,
                        ![Head(asleep)] = IF @ = "waiting" THEN "woken" ELSE @]

TakesPlace(r) ==
    /\ running' = running + 1
    /\ state' = [state EXCEPT ![r] = "in"]

Sleeps(r) ==
    /\ asleep' = Append(asleep, r)
    /\ state' = [state EXCEPT ![r] = "waiting"]

\* slot() up to its first wait.  When others wait, a new request counts itself
\* as waiting, but then looks only for a free place.  A queue that is full
\* refuses at once and changes nothing.
Acquire(r) ==
    /\ state[r] = "out"
    /\ \/ /\ running < MaxRunning /\ (waiting = 0 \/ waiting < MaxWaiting)
          /\ TakesPlace(r)
          /\ UNCHANGED <<waiting, asleep>>
       \/ /\ running >= MaxRunning /\ waiting < MaxWaiting
          /\ waiting' = waiting + 1
          /\ Sleeps(r)
          /\ UNCHANGED running

\* The deadline passed before the first wait.
AcquireTooLate(r) ==
    /\ state[r] = "out" /\ running >= MaxRunning /\ waiting < MaxWaiting
    /\ Notify(r, "out")
    /\ UNCHANGED <<running, waiting>>

\* The wait times out; the thread leaves the waiters now, or only after a
\* notification has picked it.
Expire(r) ==
    /\ state[r] = "waiting"
    /\ state' = [state EXCEPT ![r] = "expired"]
    /\ asleep' \in {asleep, RemoveFirst(asleep, r)}
    /\ UNCHANGED <<running, waiting>>

\* With the lock again, the thread looks for a free place first.
GetsPlace(r) ==
    /\ state[r] \in {"woken", "expired"} /\ running < MaxRunning
    /\ TakesPlace(r)
    /\ asleep' = RemoveFirst(asleep, r)
    /\ waiting' = waiting - 1

WaitsAgain(r) ==
    /\ state[r] = "woken" /\ running >= MaxRunning
    /\ Sleeps(r)
    /\ UNCHANGED <<running, waiting>>

\* The deadline has passed: the notification it may have got goes to another.
GivesUp(r) ==
    /\ state[r] \in {"woken", "expired"} /\ running >= MaxRunning
    /\ LET others == RemoveFirst(asleep, r) IN
         IF others = <<>>
         THEN asleep' = others /\ state' = [state EXCEPT ![r] = "out"]
         ELSE /\ asleep' = Tail(others)
              /\ state' = [state EXCEPT ![r] = "out",
                             ![Head(others)] = IF @ = "waiting" THEN "woken" ELSE @]
    /\ waiting' = waiting - 1
    /\ UNCHANGED running

\* Success or error inside the block.
Release(r) ==
    /\ state[r] = "in"
    /\ running' = running - 1
    /\ Notify(r, "out")
    /\ UNCHANGED waiting

GoesOn(r) == GetsPlace(r) \/ WaitsAgain(r) \/ GivesUp(r)

Next ==
    \E r \in Request :
      Acquire(r) \/ AcquireTooLate(r) \/ Expire(r) \/ GoesOn(r) \/ Release(r)

Spec == Init /\ [][Next]_vars

-----------------------------------------------------------------------------
(* Properties. *)

In(S) == {r \in Request : state[r] \in S}

\* The counters are the requests that run and those that wait, however the
\* waits end.
CountersAgree ==
    /\ running = Cardinality(In({"in"}))
    /\ waiting = Cardinality(In({"waiting", "woken", "expired"}))

\* No wakeup is lost: while a thread sleeps, for every free place some other
\* thread is awake that will look for it, although notify wakes only one
\* and may pick one whose wait has just timed out.
NoLostWakeup ==
    In({"waiting"}) # {} =>
      MaxRunning - running <= Cardinality(In({"woken", "expired"}))

\* Whoever sleeps is among the waiters of the condition, once; who is among
\* them sleeps, or its wait has timed out.
SleepersFit ==
    /\ IsInjective(asleep)
    /\ In({"waiting"}) \subseteq Range(asleep)
    /\ Range(asleep) \subseteq In({"waiting", "expired"})

\* Those who look for a place without a notification to come: a notification
\* that picks one whose wait has timed out leaves it to look.
Looking == In({"woken", "expired"}) \ Range(asleep)

\* For every free place one looks that no later notification can pick.
FreePlacesLookedFor ==
    In({"waiting"}) # {} => MaxRunning - running <= Cardinality(Looking)

\* The counters are right and no place stays unused, however the waits end.
LimiterInvariant ==
    /\ TypeOK /\ CountersAgree /\ NoLostWakeup
    /\ SleepersFit /\ FreePlacesLookedFor
=============================================================================
