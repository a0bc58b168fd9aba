------------------------------ MODULE WorkerLoops ------------------------------
(***************************************************************************)
(* The repeating tasks of the server: the Workers of the two queues        *)
(* (request_worker.py RequestWorker), the publisher of the results         *)
(* (result_publisher.py ResultPublisherWorker) and the Watchdog            *)
(* (watchdog.py WatchdogWorker), and the lifespan of main.py, which starts *)
(* them and stops them before it closes the database pool they share.      *)
(*                                                                         *)
(* Each loop is a task of the event loop; its blocking steps run in a      *)
(* thread.  Cancelling the task ends its wait for the thread, shielded or  *)
(* not: anyio's shield holds off cancel scopes, not Task.cancel, so the    *)
(* thread goes on without its task.  What the steps do is in RequestFlow   *)
(* and FollowUpFlow.                                                       *)
(***************************************************************************)
EXTENDS Naturals

CONSTANTS
    Consumer,            \* the loops that receive from a queue
    Publisher, Watchdog,
    MaxBatch             \* messages in a batch, jobs in a cycle

Loop == Consumer \cup {Publisher, Watchdog}

LoopsAssumption ==
    /\ Publisher # Watchdog /\ {Publisher, Watchdog} \cap Consumer = {}
    /\ MaxBatch \in Nat \ {0}

VARIABLES
    lifespan,   \* "starting", "up", "stopping", "stopped", "closed"
    pc,         \* where the task of each loop is
    thread,     \* the step its thread executes
    rest,       \* messages or jobs left of the batch
    stop,       \* _stop of the loops
    status,     \* what the status of each loop says
    stopper,    \* where stop(timeout) of each loop is
    looked,     \* the Watchdog's check of _should_stop told it to go on
    alerted     \* loops the Watchdog reported as stopped

vars == <<lifespan, pc, thread, rest, stop, status, stopper, looked, alerted>>

task == <<pc, thread, rest, status>>

TypeOK ==
    /\ lifespan \in {"starting", "up", "stopping", "stopped", "closed"}
    /\ pc \in [Loop -> {"off", "created", "busy", "sleep", "finished",
                    "failed", "ended"}]
    /\ thread \in [Loop -> {"none", "look", "fetch", "work", "delete"}]
    /\ rest \in [Loop -> 0..MaxBatch]
    /\ stop \in SUBSET Loop
    /\ status \in [Loop -> {"new", "running", "stopped", "crashed"}]
    /\ stopper \in [Loop -> {"none", "waiting", "late", "done", "cut"}]
    /\ looked \in BOOLEAN /\ alerted \in SUBSET Loop

Init ==
    /\ lifespan = "starting"
    /\ pc = [l \in Loop |-> "off"] /\ thread = [l \in Loop |-> "none"]
    /\ rest = [l \in Loop |-> 0] /\ stop = {}
    /\ status = [l \in Loop |-> "new"] /\ stopper = [l \in Loop |-> "none"]
    /\ looked = FALSE /\ alerted = {}

-----------------------------------------------------------------------------
(* One loop. *)

Goes(l, at, step, n) ==
    /\ pc' = [pc EXCEPT ![l] = at]
    /\ thread' = [thread EXCEPT ![l] = step]
    /\ rest' = [rest EXCEPT ![l] = n]
    /\ UNCHANGED status

Sleeps(l) == Goes(l, "sleep", "none", 0)

\* The task ends; its status follows when the done callback runs.
Crashes(l) == Goes(l, "failed", "none", 0)

FirstStep(l) == IF l = Watchdog THEN "look" ELSE "fetch"

\* while not self._stop.is_set()
Head(l) ==
    \/ l \in stop /\ Goes(l, "finished", "none", 0)
    \/ l \notin stop /\ Goes(l, "busy", FirstStep(l), 0)

\* for item in batch.messages: the rest of a batch is left when stop is set.
NextItem(l, n) ==
    \/ /\ l \in stop \/ n = 0
       /\ IF l \in Consumer \/ l = Publisher THEN Head(l) ELSE Sleeps(l)
    \/ l \notin stop /\ n > 0 /\ Goes(l, "busy", "work", n - 1)

\* The first step of a started task, and the end of a sleep, which stop cuts.
Begin(l) ==
    /\ pc[l] = "created"
    /\ status' = [status EXCEPT ![l] = "running"]
    /\ pc' = [pc EXCEPT ![l] = IF l \in stop THEN "finished" ELSE "busy"]
    /\ thread' = [thread EXCEPT ![l] = IF l \in stop THEN "none" ELSE FirstStep(l)]
    /\ UNCHANGED <<rest, lifespan, stop, stopper, looked, alerted>>

Wake(l) ==
    /\ pc[l] = "sleep" /\ Head(l)
    /\ UNCHANGED <<lifespan, stop, stopper, looked, alerted>>

\* Watchdog._global_checks: the thread reads should_stop, and the components
\* later.
Look ==
    /\ thread[Watchdog] = "look"
    /\ looked' = (Watchdog \notin stop)
    /\ thread' = [thread EXCEPT ![Watchdog] = "fetch"]
    /\ UNCHANGED <<pc, rest, status, lifespan, stop, stopper, alerted>>

Ended(l) == status[l] \in {"stopped", "crashed"}

Reported == IF looked THEN {l \in Loop \ {Watchdog} : Ended(l)} ELSE {}

\* What the loop goes on with after receive, find_due or the global checks.
FetchEnds(l) ==
    /\ thread[l] = "fetch" /\ pc[l] = "busy"
    /\ \/ Sleeps(l)                                  \* nothing there, or an error
       \/ \E n \in 1..MaxBatch : NextItem(l, n)
       \/ l \notin Consumer /\ Crashes(l)            \* not a VirtualFittingError
    /\ alerted' = IF l = Watchdog THEN alerted \cup Reported ELSE alerted
    /\ UNCHANGED <<lifespan, stop, stopper, looked>>

\* process, publish or inspect returns, or raises what the loop does not expect.
WorkEnds(l) ==
    /\ thread[l] = "work" /\ pc[l] = "busy"
    /\ \/ l \in Consumer /\ Goes(l, "busy", "delete", rest[l])
       \/ NextItem(l, rest[l])
       \/ l \notin Consumer /\ Sleeps(l)             \* VirtualFittingError
       \/ Crashes(l)
    /\ UNCHANGED <<lifespan, stop, stopper, looked, alerted>>

DeleteEnds(l) ==
    /\ thread[l] = "delete" /\ pc[l] = "busy"
    /\ NextItem(l, rest[l]) \/ Crashes(l)
    /\ UNCHANGED <<lifespan, stop, stopper, looked, alerted>>

\* A thread without a task ends its step; it finds stop set before the next.
LeftThreadEnds(l) ==
    /\ thread[l] \in {"fetch", "work", "delete"} /\ pc[l] \in {"finished", "ended"}
    /\ thread' = [thread EXCEPT ![l] = "none"]
    /\ alerted' = IF l = Watchdog /\ thread[l] = "fetch" THEN alerted \cup Reported
                  ELSE alerted
    /\ UNCHANGED <<pc, rest, status, lifespan, stop, stopper, looked>>

\* _finished, the done callback.
Finished(l) ==
    /\ pc[l] \in {"finished", "failed"}
    /\ pc' = [pc EXCEPT ![l] = "ended"]
    /\ status' = [status EXCEPT ![l] = IF pc[l] = "failed" THEN "crashed" ELSE "stopped"]
    /\ UNCHANGED <<thread, rest, lifespan, stop, stopper, looked, alerted>>

-----------------------------------------------------------------------------
(* stop(timeout) *)

WaitOver(l) ==
    stopper' = [stopper EXCEPT ![l] = IF @ = "late" THEN "cut" ELSE "done"]

\* Mutant: after the timeout nobody waits for the cancelled task.
StopReturns_AtOnce(l) ==
    /\ \/ stopper[l] = "waiting" /\ pc[l] = "ended"
       \/ stopper[l] = "late"
    /\ WaitOver(l)
    /\ UNCHANGED <<lifespan, task, stop, looked, alerted>>

\* The task has ended: the wait returns.
StopReturns(l) ==
    /\ stopper[l] \in {"waiting", "late"} /\ pc[l] = "ended"
    /\ WaitOver(l)
    /\ UNCHANGED <<lifespan, task, stop, looked, alerted>>

\* After timeout the task is cancelled, whatever it waits for.
StopTimesOut(l) ==
    /\ stopper[l] = "waiting" /\ pc[l] \in {"created", "busy", "sleep"}
    /\ stopper' = [stopper EXCEPT ![l] = "late"]
    /\ pc' = [pc EXCEPT ![l] = "finished"] /\ rest' = [rest EXCEPT ![l] = 0]
    /\ UNCHANGED <<thread, status, lifespan, stop, looked, alerted>>

-----------------------------------------------------------------------------
(* main.py lifespan *)

\* The publisher first, then the Watchdog, then the Workers.
Start(l) ==
    /\ lifespan = "starting" /\ pc[l] = "off"
    /\ l # Publisher => pc[Publisher] # "off"
    /\ l \in Consumer => pc[Watchdog] # "off"
    /\ pc' = [pc EXCEPT ![l] = "created"]
    /\ UNCHANGED <<thread, rest, status, lifespan, stop, stopper, looked, alerted>>

Started ==
    /\ lifespan = "starting" /\ \A l \in Loop : pc[l] # "off"
    /\ lifespan' = "up"
    /\ UNCHANGED <<task, stop, stopper, looked, alerted>>

\* The shutdown, or a failed start: the stops of the started loops begin
\* together, each sets _stop first.
ShutDown ==
    /\ lifespan \in {"starting", "up"}
    /\ lifespan' = "stopping"
    /\ stop' = {l \in Loop : pc[l] # "off"}
    /\ stopper' = [l \in Loop |-> IF pc[l] # "off" THEN "waiting" ELSE "done"]
    /\ UNCHANGED <<task, looked, alerted>>

AllStopped ==
    /\ lifespan = "stopping" /\ \A l \in Loop : stopper[l] \in {"done", "cut"}
    /\ lifespan' = "stopped"
    /\ UNCHANGED <<task, stop, stopper, looked, alerted>>

\* close_connection_pool, after the runtime was closed or failed to.
ClosePool ==
    /\ lifespan = "stopped" /\ lifespan' = "closed"
    /\ UNCHANGED <<task, stop, stopper, looked, alerted>>

-----------------------------------------------------------------------------

LoopStep(l) ==
    \/ Begin(l) \/ Wake(l) \/ FetchEnds(l) \/ WorkEnds(l) \/ DeleteEnds(l)
    \/ LeftThreadEnds(l) \/ Finished(l)

Stopping(l) == StopReturns(l) \/ StopTimesOut(l)

Next ==
    \/ \E l \in Loop : Start(l) \/ LoopStep(l) \/ Stopping(l)
    \/ Look
    \/ Started \/ ShutDown \/ AllStopped \/ ClosePool

Spec == Init /\ [][Next]_vars

\* The event loop runs its callbacks and the timers of stop fire; a step in a
\* thread may take as long as it likes.
Fairness ==
    /\ \A l \in Loop : WF_vars(Finished(l)) /\ WF_vars(Stopping(l))
    /\ WF_vars(AllStopped) /\ WF_vars(ClosePool)

FairSpec == Spec /\ Fairness

-----------------------------------------------------------------------------
(* Properties. *)

\* alive and postprocess_worker_running, on which other paths delete a message
\* because this loop goes on with it: never of a loop whose end was noted.
Alive(l) == status[l] = "running" /\ l \notin stop

StatusIsTrue ==
    \A l \in Loop :
        /\ pc[l] = "ended" => status[l] \in {"stopped", "crashed"}
        /\ Alive(l) => pc[l] \in {"busy", "sleep", "failed"}

\* watchdog.py:470: only a loop that has ended is reported, never one that was
\* started and has not run yet.
AlertIsTrue == \A l \in alerted : pc[l] = "ended"

\* main.py:143: the pool is closed when every task has ended, and a step still
\* runs then only where stop ran into its timeout.
ClosedAfterTasks ==
    lifespan \in {"stopped", "closed"} =>
        \A l \in Loop :
            /\ pc[l] \in {"off", "ended"}
            /\ thread[l] # "none" => stopper[l] = "cut"

\* A task that ended by itself was told to stop and left no step behind; only
\* one that stop cut may have.
TaskFitsStop ==
    \A l \in Loop :
        /\ pc[l] = "finished" => l \in stop
        /\ status[l] = "new" => pc[l] \in {"off", "created", "finished"}
        /\ pc[l] \in {"off", "created"} => status[l] = "new"
        /\ status[l] \in {"stopped", "crashed"} => pc[l] = "ended"
        /\ thread[l] # "none" => pc[l] = "busy" \/ stopper[l] \in {"late", "cut"}

\* Nothing is stopped while the server starts or is up, and a loop whose stop
\* is over has ended or never began.
StopFitsLifespan ==
    /\ lifespan \in {"starting", "up"} =>
          stop = {} /\ \A l \in Loop : stopper[l] = "none"
    /\ lifespan \in {"stopped", "closed"} =>
          \A l \in Loop : stopper[l] \in {"done", "cut"}
    /\ \A l \in Loop :
          /\ stopper[l] \in {"waiting", "late", "cut"} => l \in stop
          /\ stopper[l] \in {"done", "cut"} => pc[l] \in {"off", "ended"}

\* The status of a loop, what is reported of it and the end of the server agree
\* with the task; with what these rest on.
LoopsInvariant ==
    /\ TypeOK /\ StatusIsTrue /\ AlertIsTrue /\ ClosedAfterTasks
    /\ TaskFitsStop /\ StopFitsLifespan

\* request_worker.py:679, watchdog.py:918, result_publisher.py:296: the pool is
\* closed after the running step, of which only a receive may be left behind.
PoolClosedAfterSteps ==
    lifespan = "closed" =>
        \A l \in Loop : thread[l] = "none" \/ (l \in Consumer /\ thread[l] = "fetch")

\* main.py: whatever the steps do, a shutdown reaches the end.
ShutDownEnds == lifespan = "stopping" ~> lifespan = "closed"
=============================================================================
