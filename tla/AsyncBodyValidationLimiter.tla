--------------------- MODULE AsyncBodyValidationLimiter ---------------------
(***************************************************************************)
(* body_image_validation/async_concurrency.py: the limiter of the remote   *)
(* body image validation, a queue of tickets around an asyncio condition.  *)
(*                                                                         *)
(* What runs between two awaits is one step of the event loop.  The lock   *)
(* of the condition is free at every await (wait gives it back), so taking *)
(* it never waits: each step takes the lock, acts and gives it back.       *)
(***************************************************************************)
EXTENDS Naturals, FiniteSets, SequencesExt

CONSTANTS
    Request,     \* requests that use the limiter, one after the other
    MaxRunning,  \* max_running
    MaxWaiting   \* max_waiting

LimiterAssumption ==
    /\ IsFiniteSet(Request)
    /\ MaxRunning \in Nat \ {0}
    /\ MaxWaiting \in Nat

VARIABLES
    running,  \* _running
    queue,    \* _queue: the tickets, each standing for its request
    state     \* where each request is

vars == <<running, queue, state>>

\* "waiting": in condition.wait.  "woken": notified, not yet run again.
\* "expired": its timeout fired.  "cancelled": its client went away.
State == {"out", "waiting", "woken", "expired", "cancelled", "in"}

TypeOK ==
    /\ running \in 0..MaxRunning
    /\ queue \in Seq(Request) /\ Len(queue) <= MaxWaiting
    /\ state \in [Request -> State]

Init ==
    /\ running = 0 /\ queue = <<>>
    /\ state = [r \in Request |-> "out"]

Becomes(r, s) == [state EXCEPT ![r] = s]

-----------------------------------------------------------------------------
(* The limiter. *)

\* notify_all, in a step after which r is in state s.
NotifyAll(r, s) ==
    state' = [q \in Request |->
                CASE q = r -> s
                  [] q # r /\ state[q] = "waiting" -> "woken"
                  [] OTHER -> state[q]]

\* _acquire up to its first await: a place when there is one and nobody waits,
\* else a ticket.  A queue that is full refuses at once and changes nothing.
Acquire(r) ==
    /\ state[r] = "out"
    /\ \/ /\ running < MaxRunning /\ queue = <<>>
          /\ running' = running + 1
          /\ state' = Becomes(r, "in")
          /\ UNCHANGED queue
       \/ /\ running >= MaxRunning \/ queue # <<>>
          /\ Len(queue) < MaxWaiting
          /\ queue' = Append(queue, r)
          /\ state' = Becomes(r, "waiting")
          /\ UNCHANGED running

\* The deadline passed before the first wait: in the queue and out of it again.
AcquireTooLate(r) ==
    /\ state[r] = "out"
    /\ running >= MaxRunning \/ queue # <<>>
    /\ Len(queue) < MaxWaiting
    /\ NotifyAll(r, "out")
    /\ UNCHANGED <<running, queue>>

Expire(r) ==
    /\ state[r] \in {"waiting", "woken"}
    /\ state' = Becomes(r, "expired")
    /\ UNCHANGED <<running, queue>>

Cancel(r) ==
    /\ state[r] \in {"waiting", "woken", "expired"}
    /\ state' = Becomes(r, "cancelled")
    /\ UNCHANGED <<running, queue>>

\* The loop of _wait_for_turn.
\* Mutant: whoever wakes first while a place is free.
MyTurn_Any(r) == running < MaxRunning

MyTurn(r) == Head(queue) = r /\ running < MaxRunning

\* The finally: out of the queue, and everybody else looks again.
LeaveQueue(r, s) ==
    /\ queue' = RemoveFirst(queue, r)
    /\ NotifyAll(r, s)

TakeTurn(r) ==
    /\ state[r] \in {"woken", "expired"} /\ MyTurn(r)
    /\ LeaveQueue(r, "in")
    /\ running' = running + 1

\* Woken too early; the clock may have passed the deadline by now.
WaitAgain(r) ==
    /\ state[r] = "woken" /\ ~MyTurn(r)
    /\ state' = Becomes(r, "waiting")
    /\ UNCHANGED <<running, queue>>

GiveUp(r) ==
    /\ \/ state[r] \in {"woken", "expired"} /\ ~MyTurn(r)
       \/ state[r] = "cancelled"
    /\ LeaveQueue(r, "out")
    /\ UNCHANGED running

\* Success, error or cancellation inside the block.
Release(r) ==
    /\ state[r] = "in"
    /\ running' = running - 1
    /\ NotifyAll(r, "out")
    /\ UNCHANGED queue

GoesOn(r) == TakeTurn(r) \/ WaitAgain(r) \/ GiveUp(r)

Next ==
    \E r \in Request :
      \/ Acquire(r) \/ AcquireTooLate(r) \/ Expire(r) \/ Cancel(r)
      \/ GoesOn(r) \/ Release(r)

Spec == Init /\ [][Next]_vars

\* The event loop runs what is ready, and a validation that runs ends by its
\* deadline.  No wait need ever time out.
Fairness ==
    \A r \in Request : WF_vars(GoesOn(r)) /\ WF_vars(Release(r))

FairSpec == Spec /\ Fairness

-----------------------------------------------------------------------------
(* Properties. *)

Inside == {r \in Request : state[r] = "in"}

\* The counter is the number of requests that run, however the others stop
\* waiting.
PlacesCounted == running = Cardinality(Inside)

\* No wakeup is lost: when a place is free, the request whose turn it is does
\* not sleep.
NoLostWakeup ==
    queue # <<>> /\ running < MaxRunning => state[Head(queue)] # "waiting"

\* Every request that waits has one ticket in the queue, and nobody else has.
TicketsFit ==
    /\ IsInjective(queue)
    /\ Range(queue) = {r \in Request : state[r] \notin {"out", "in"}}

\* Neither a place nor a wakeup is lost, however the waits end.
LimiterInvariant == TypeOK /\ PlacesCounted /\ NoLostWakeup /\ TicketsFit

Slots == INSTANCE FifoSlots WITH running <- Inside

\* Requests are admitted in their order, and a new one never passes those who
\* wait, whichever of them wakes first.
ImplementsFifoSlots == Slots!Spec
=============================================================================
