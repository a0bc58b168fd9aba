--------------------------- MODULE BodyImageWarmup ---------------------------
(***************************************************************************)
(* body_image_validation/warmup_manager.py: at most one warm-up call of    *)
(* the GPU worker at a time, spaced by cooldowns and a rate limit, and its *)
(* end when the server stops.                                              *)
(*                                                                         *)
(* What runs between two awaits is one step of the event loop; the lock is *)
(* never held across an await.  Times are what is left until them.         *)
(***************************************************************************)
EXTENDS Naturals, Sequences

CONSTANTS
    NULL,
    Call,          \* tasks that run the warm-up call
    Closer,        \* calls of aclose
    Cooldown, RetryInterval, TimeoutRetryInterval, Window,
    MaxStarts      \* max_starts, within start_window

WarmupAssumption ==
    /\ {NULL, "idle", "returned"} \cap Call = {}
    /\ {Cooldown, RetryInterval, TimeoutRetryInterval, Window, MaxStarts}
         \subseteq Nat \ {0}

VARIABLES
    task,        \* _task
    closed,      \* _closed
    cooldown,    \* until _succeeded_at + cooldown
    retryIn,     \* until _retry_not_before
    starts,      \* _starts, until each leaves the window
    call,        \* where each task is
    cancelled,   \* the tasks that were cancelled
    closer,      \* where each aclose is, and the task it waits for
    recent       \* every call within the window, whatever _starts holds

vars == <<task, closed, cooldown, retryIn, starts, call, cancelled, closer, recent>>

Running == {c \in Call : call[c] # "idle"}

TypeOK ==
    /\ task \in Call \cup {NULL} /\ closed \in BOOLEAN
    /\ cooldown \in 0..Cooldown
    /\ retryIn \in 0..RetryInterval \cup 0..TimeoutRetryInterval
    /\ starts \in Seq(0..Window) /\ Len(starts) <= MaxStarts
    /\ call \in [Call -> {"idle", "created", "calling"}]
    /\ cancelled \subseteq Running
    /\ closer \in [Closer -> Call \cup {"idle", "returned"}]
    /\ recent \in Seq(1..Window)

Init ==
    /\ task = NULL /\ closed = FALSE
    /\ cooldown = 0 /\ retryIn = 0 /\ starts = <<>>
    /\ call = [c \in Call |-> "idle"] /\ cancelled = {}
    /\ closer = [a \in Closer |-> "idle"]
    /\ recent = <<>>

-----------------------------------------------------------------------------
(* The manager. *)

\* _decide; every other answer changes nothing.
MayStart ==
    /\ ~closed /\ task = NULL
    /\ cooldown = 0 /\ retryIn = 0
    /\ ~(Len(starts) = MaxStarts /\ starts[1] > 0)

\* request: a deque of MaxStarts entries drops its oldest.
Start(c) ==
    /\ call[c] = "idle" /\ MayStart
    /\ LET all == Append(starts, Window) IN
         starts' = IF Len(all) > MaxStarts THEN Tail(all) ELSE all
    /\ recent' = Append(recent, Window)
    /\ task' = c
    /\ call' = [call EXCEPT ![c] = "created"]
    /\ UNCHANGED <<closed, cooldown, retryIn, cancelled, closer>>

TaskBegins(c) ==
    /\ call[c] = "created" /\ c \notin cancelled
    /\ call' = [call EXCEPT ![c] = "calling"]
    /\ UNCHANGED <<task, closed, cooldown, retryIn, starts, cancelled, closer, recent>>

\* _record: a success starts the cooldown, a failure the time to retry.
Record(outcome) ==
    /\ cooldown' = IF outcome = "success" THEN Cooldown ELSE 0
    /\ retryIn' = CASE outcome = "success" -> 0
                    [] outcome = "timeout" -> TimeoutRetryInterval
                    [] OTHER -> RetryInterval

\* The call ends, in whatever way.
TaskEnds(c) ==
    /\ call[c] = "calling" /\ c \notin cancelled
    /\ \E o \in {"success", "timeout", "error"} : Record(o)
    /\ task' = NULL
    /\ call' = [call EXCEPT ![c] = "idle"]
    /\ UNCHANGED <<closed, starts, cancelled, closer, recent>>

\* A cancelled call records nothing.  A task that is cancelled before it
\* begins does not come to the finally of _run.
TaskIsCancelled(c) ==
    /\ c \in cancelled
    /\ task' = IF call[c] = "calling" THEN NULL ELSE task
    /\ call' = [call EXCEPT ![c] = "idle"]
    /\ cancelled' = cancelled \ {c}
    /\ UNCHANGED <<closed, cooldown, retryIn, starts, closer, recent>>

\* aclose up to its await.
Close(a) ==
    /\ closer[a] = "idle"
    /\ closed' = TRUE
    /\ IF task = NULL
       THEN /\ closer' = [closer EXCEPT ![a] = "returned"]
            /\ UNCHANGED cancelled
       ELSE /\ closer' = [closer EXCEPT ![a] = task]
            /\ cancelled' = cancelled \cup ({task} \cap Running)
    /\ UNCHANGED <<task, cooldown, retryIn, starts, call, recent>>

\* Mutant: it waits for the reference to be reset.
CloseReturns_ByReference(a) ==
    /\ closer[a] \in Call /\ task = NULL
    /\ closer' = [closer EXCEPT ![a] = "returned"]
    /\ UNCHANGED <<task, closed, cooldown, retryIn, starts, call, cancelled, recent>>

CloseReturns(a) ==
    /\ closer[a] \in Call /\ call[closer[a]] = "idle"
    /\ closer' = [closer EXCEPT ![a] = "returned"]
    /\ task' = NULL
    /\ UNCHANGED <<closed, cooldown, retryIn, starts, call, cancelled, recent>>

Less(n) == IF n = 0 THEN 0 ELSE n - 1

\* The calls of s that are in the window: they are in the order they were made.
StillIn(s) ==
    IF \A i \in DOMAIN s : s[i] = 0 THEN <<>>
    ELSE LET first == CHOOSE i \in DOMAIN s : s[i] > 0 /\ \A j \in 1..(i - 1) : s[j] = 0
         IN  SubSeq(s, first, Len(s))

Tick ==
    /\ cooldown' = Less(cooldown) /\ retryIn' = Less(retryIn)
    /\ starts' = [i \in DOMAIN starts |-> Less(starts[i])]
    /\ recent' = StillIn([i \in DOMAIN recent |-> Less(recent[i])])
    /\ UNCHANGED <<task, closed, call, cancelled, closer>>

TaskGoesOn(c) == TaskBegins(c) \/ TaskEnds(c) \/ TaskIsCancelled(c)

Next ==
    \/ \E c \in Call : Start(c) \/ TaskGoesOn(c)
    \/ \E a \in Closer : Close(a) \/ CloseReturns(a)
    \/ Tick

Spec == Init /\ [][Next]_vars

\* The call has a timeout, and the event loop runs what is ready.
Fairness ==
    /\ \A c \in Call : WF_vars(TaskGoesOn(c))
    /\ \A a \in Closer : WF_vars(CloseReturns(a))

FairSpec == Spec /\ Fairness

-----------------------------------------------------------------------------
(* Properties. *)

\* At most one call is made at a time, and the manager holds it: also when it
\* is cancelled before it begins.
SingleFlight == \A c \in Running : task = c

\* No window sees more than MaxStarts calls, although only the last MaxStarts
\* are remembered and failed calls count.
StartsWithinLimit == Len(recent) <= MaxStarts

\* Once aclose has returned no call runs, and none will: the event loop may end.
ClosedIsQuiet ==
    (\E a \in Closer : closer[a] = "returned") => Running = {} /\ ~MayStart

\* What _starts remembers ends with the calls in the window, and what it has
\* before them is over.
StartsRemembered ==
    LET over == Len(starts) - Len(recent) IN
      /\ over >= 0
      /\ \A i \in 1..over : starts[i] = 0
      /\ \A i \in DOMAIN recent : recent[i] = starts[over + i]
      /\ \A i, j \in DOMAIN recent : i < j => recent[i] <= recent[j]

\* An aclose that waits does so for the last call there will be.
ClosersWait ==
    \A a \in Closer :
        /\ closer[a] # "idle" => closed
        /\ closer[a] \in Call => task \in {closer[a], NULL}

\* One call at a time, within the rate limit, and none after the closing; with
\* what these rest on.
WarmupInvariant ==
    /\ TypeOK /\ SingleFlight /\ StartsWithinLimit /\ ClosedIsQuiet
    /\ StartsRemembered /\ ClosersWait

\* aclose returns.
CloseEnds == \A a \in Closer : closer[a] \in Call ~> closer[a] = "returned"
=============================================================================
