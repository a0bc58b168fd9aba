----------------------------- MODULE FifoSlots -----------------------------
(***************************************************************************)
(* What both event-loop limiters promise (ConcurrencyLimiter of the        *)
(* virtual fitting, AsyncBodyValidationLimiter of the body image           *)
(* validation): at most MaxRunning requests run, at most MaxWaiting wait,  *)
(* those who wait are admitted in the order they came, nobody passes them, *)
(* and a request that gives up or is cancelled takes no place with it.     *)
(***************************************************************************)
EXTENDS Naturals, FiniteSets, SequencesExt

CONSTANTS
    Request,     \* requests that use the limiter
    MaxRunning,  \* places
    MaxWaiting   \* places in the queue

VARIABLES
    running,  \* the requests that have a place
    queue     \* the requests that wait, the oldest first

vars == <<running, queue>>

Init == running = {} /\ queue = <<>>

Free == Cardinality(running) < MaxRunning

\* A new request passes nobody.
Enter(r) ==
    /\ r \notin running /\ queue = <<>> /\ Free
    /\ running' = running \cup {r}
    /\ UNCHANGED queue

Wait(r) ==
    /\ r \notin running /\ r \notin Range(queue) /\ Len(queue) < MaxWaiting
    /\ queue' = Append(queue, r)
    /\ UNCHANGED running

Admit ==
    /\ queue # <<>> /\ Free
    /\ running' = running \cup {Head(queue)}
    /\ queue' = Tail(queue)

GiveUp(r) ==
    /\ r \in Range(queue)
    /\ queue' = RemoveFirst(queue, r)
    /\ UNCHANGED running

Leave(r) ==
    /\ r \in running
    /\ running' = running \ {r}
    /\ UNCHANGED queue

\* The place goes straight to the oldest request that waits.
PassOn(r) ==
    /\ r \in running /\ queue # <<>>
    /\ running' = (running \ {r}) \cup {Head(queue)}
    /\ queue' = Tail(queue)

Next ==
    \/ Admit
    \/ \E r \in Request : Enter(r) \/ Wait(r) \/ GiveUp(r) \/ Leave(r) \/ PassOn(r)

Spec == Init /\ [][Next]_vars
=============================================================================
