------------------------ MODULE LifecycleParts_proofs -------------------------
(***************************************************************************)
(* Proofs about the parts of StandaloneParts that start, run and stop a    *)
(* process: the warm-up of the body image model, the loops of the Workers, *)
(* the check of a deployment and the GPU worker.  Whatever part runs, a step*)
(* is one of that part or leaves it alone, so an invariant of a part alone *)
(* is one of the whole.                                                    *)
(***************************************************************************)
EXTENDS StandaloneParts, Sequences, FiniteSetTheorems, QueueLemmas, TLAPS

-----------------------------------------------------------------------------
(* The loops of the server (WorkerLoops).                                  *)

LEMMA LoopsStep == [Next]_vars => [Loops!Next]_(Loops!vars)
BY DEF Next, OthersRest, vars, loops, Loops!vars

\* What the invariant says of one loop.
LoopFits(l) ==
    /\ loopPc[l] = "ended" => status[l] \in {"stopped", "crashed"}
    /\ Loops!Alive(l) => loopPc[l] \in {"busy", "sleep", "failed"}
    /\ l \in alerted => loopPc[l] = "ended"
    /\ lifespan \in {"stopped", "closed"} =>
          /\ loopPc[l] \in {"off", "ended"} /\ stopper[l] \in {"done", "cut"}
          /\ thread[l] # "none" => stopper[l] = "cut"
    /\ loopPc[l] = "finished" => l \in stop
    /\ status[l] = "new" => loopPc[l] \in {"off", "created", "finished"}
    /\ loopPc[l] \in {"off", "created"} => status[l] = "new"
    /\ status[l] \in {"stopped", "crashed"} => loopPc[l] = "ended"
    /\ thread[l] # "none" => loopPc[l] = "busy" \/ stopper[l] \in {"late", "cut"}
    /\ lifespan \in {"starting", "up"} => stopper[l] = "none"
    /\ stopper[l] \in {"waiting", "late", "cut"} => l \in stop
    /\ stopper[l] \in {"done", "cut"} => loopPc[l] \in {"off", "ended"}

NobodyStops == lifespan \in {"starting", "up"} => stop = {}

LEMMA LoopByLoop ==
    Loops!LoopsInvariant
      <=> Loops!TypeOK /\ NobodyStops /\ \A l \in Loops!Loop : LoopFits(l)
<1>1. ASSUME Loops!LoopsInvariant
      PROVE  Loops!TypeOK /\ NobodyStops /\ \A l \in Loops!Loop : LoopFits(l)
  <2>1. Loops!TypeOK /\ NobodyStops
    BY <1>1 DEF Loops!LoopsInvariant, Loops!StopFitsLifespan, NobodyStops
  <2>2. ASSUME NEW l \in Loops!Loop PROVE LoopFits(l)
    BY <1>1 DEF Loops!LoopsInvariant, Loops!StatusIsTrue, Loops!AlertIsTrue,
                Loops!ClosedAfterTasks, Loops!TaskFitsStop, Loops!StopFitsLifespan, LoopFits
  <2> QED
    BY <2>1, <2>2
<1>2. ASSUME Loops!TypeOK, NobodyStops, \A l \in Loops!Loop : LoopFits(l)
      PROVE  Loops!LoopsInvariant
  <2>1. Loops!StatusIsTrue /\ Loops!TaskFitsStop /\ Loops!ClosedAfterTasks
    BY <1>2 DEF LoopFits, Loops!StatusIsTrue, Loops!TaskFitsStop, Loops!ClosedAfterTasks
  <2>2. Loops!AlertIsTrue
    BY <1>2 DEF LoopFits, Loops!TypeOK, Loops!AlertIsTrue
  <2>3. Loops!StopFitsLifespan
    BY <1>2 DEF LoopFits, NobodyStops, Loops!StopFitsLifespan
  <2> QED
    BY <1>2, <2>1, <2>2, <2>3 DEF Loops!LoopsInvariant
<1> QED
  BY <1>1, <1>2

LEMMA NextLoopByLoop ==
    Loops!TypeOK' /\ NobodyStops' /\ (\A l \in Loops!Loop : LoopFits(l)')
      => Loops!LoopsInvariant'
<1>1. (Loops!TypeOK /\ NobodyStops /\ \A l \in Loops!Loop : LoopFits(l))'
        => Loops!LoopsInvariant'
  BY LoopByLoop, PTL
<1> QED
  BY <1>1

LEMMA ReportedEnded ==
    Loops!LoopsInvariant
      => Loops!Reported \subseteq {k \in Loops!Loop : loopPc[k] = "ended"}
BY DEF Loops!LoopsInvariant, Loops!TaskFitsStop, Loops!Reported, Loops!Ended

\* A step of one loop: the others stay where they are, and whom the Watchdog
\* reports has ended.
LEMMA OneLoopMoves ==
    ASSUME Loops!LoopsInvariant, NEW l \in Loops!Loop, Loops!TypeOK',
           UNCHANGED <<lifespan, stop>>,
           alerted' = alerted \/ alerted' = alerted \cup Loops!Reported,
           \A k \in Loops!Loop \ {l} :
               /\ loopPc'[k] = loopPc[k] /\ thread'[k] = thread[k]
               /\ status'[k] = status[k] /\ stopper'[k] = stopper[k],
           LoopFits(l)'
    PROVE  Loops!LoopsInvariant'
<1>1. NobodyStops'
  BY LoopByLoop DEF NobodyStops
<1>2. ASSUME NEW k \in Loops!Loop \ {l} PROVE LoopFits(k)'
  <2>1. LoopFits(k)
    BY LoopByLoop
  <2>2. k \in alerted' => loopPc[k] = "ended"
    BY <2>1, ReportedEnded DEF LoopFits
  <2> QED
    BY <2>1, <2>2 DEF LoopFits, Loops!Alive
<1> QED
  BY <1>1, <1>2, NextLoopByLoop

LEMMA LoopTypes ==
    ASSUME Loops!LoopsInvariant
    PROVE  Loops!TypeOK /\ MaxBatch \in Nat /\ Publisher # Watchdog
           /\ Watchdog \in Loops!Loop /\ Publisher \in Loops!Loop
BY OtherAssumption DEF Loops!LoopsInvariant, Loops!LoopsAssumption, Loops!Loop

\* Where a loop may go on to when it does not end its task: a task that ends
\* was told to stop or failed.
LEMMA GoesKeeps ==
    ASSUME Loops!LoopsInvariant, NEW l \in Loops!Loop, NEW at, NEW next,
           NEW n \in 0..MaxBatch, Loops!Goes(l, at, next, n),
           loopPc[l] \in {"busy", "sleep"},
           \/ at = "finished" /\ next = "none" /\ l \in stop
           \/ at \in {"sleep", "failed"} /\ next = "none"
           \/ at = "busy" /\ next \in {"look", "fetch", "work", "delete"},
           UNCHANGED <<lifespan, stop, stopper, looked>>,
           alerted' = alerted \/ alerted' = alerted \cup Loops!Reported
    PROVE  Loops!LoopsInvariant'
<1>1. Loops!TypeOK /\ LoopFits(l)
  BY LoopTypes, LoopByLoop
<1>2. /\ loopPc'[l] = at /\ thread'[l] = next
      /\ UNCHANGED status
      /\ \A k \in Loops!Loop \ {l} : loopPc'[k] = loopPc[k] /\ thread'[k] = thread[k]
  BY <1>1 DEF Loops!Goes, Loops!TypeOK
<1>3. alerted' \in SUBSET Loops!Loop
  BY <1>1, ReportedEnded DEF Loops!TypeOK
<1>4. Loops!TypeOK'
  <2>1. /\ loopPc' \in [Loops!Loop -> {"off", "created", "busy", "sleep", "finished",
                                        "failed", "ended"}]
        /\ thread' \in [Loops!Loop -> {"none", "look", "fetch", "work", "delete"}]
        /\ rest' \in [Loops!Loop -> 0..MaxBatch]
    BY <1>1 DEF Loops!Goes, Loops!TypeOK
  <2> QED
    BY <1>1, <1>2, <1>3, <2>1 DEF Loops!TypeOK
<1>5. LoopFits(l)'
  <2>1. l \notin alerted'
    BY <1>1, ReportedEnded DEF LoopFits
  <2>2. /\ lifespan \notin {"stopped", "closed"}
        /\ stopper[l] \notin {"done", "cut"}
        /\ status[l] = "running"
    BY <1>1 DEF LoopFits, Loops!TypeOK
  <2> QED
    BY <1>1, <1>2, <2>1, <2>2 DEF LoopFits, Loops!Alive
<1> QED
  BY <1>2, <1>4, <1>5, OneLoopMoves

\* The three ways on from the end of a step.
LEMMA WayOn ==
    ASSUME Loops!LoopsInvariant, NEW l \in Loops!Loop,
           loopPc[l] \in {"busy", "sleep"},
           \/ Loops!Head(l) \/ Loops!Sleeps(l) \/ Loops!Crashes(l)
           \/ \E n \in 0..MaxBatch : Loops!NextItem(l, n),
           UNCHANGED <<lifespan, stop, stopper, looked>>,
           alerted' = alerted \/ alerted' = alerted \cup Loops!Reported
    PROVE  Loops!LoopsInvariant'
<1>0. MaxBatch \in Nat /\ 0 \in 0..MaxBatch
  BY LoopTypes
<1>1. CASE Loops!Sleeps(l)
  BY <1>0, <1>1, GoesKeeps DEF Loops!Sleeps
<1>2. CASE Loops!Crashes(l)
  BY <1>0, <1>2, GoesKeeps DEF Loops!Crashes
<1>3. CASE Loops!Head(l)
  <2>1. CASE l \in stop /\ Loops!Goes(l, "finished", "none", 0)
    BY <1>0, <2>1, GoesKeeps
  <2>2. CASE Loops!Goes(l, "busy", Loops!FirstStep(l), 0)
    <3>1. Loops!FirstStep(l) \in {"look", "fetch"}
      BY DEF Loops!FirstStep
    <3> QED
      BY <1>0, <2>2, <3>1, GoesKeeps
  <2> QED
    BY <1>3, <2>1, <2>2 DEF Loops!Head
<1>4. CASE \E n \in 0..MaxBatch : Loops!NextItem(l, n)
  <2>1. PICK n \in 0..MaxBatch : Loops!NextItem(l, n)
    BY <1>4
  <2>2. CASE Loops!Goes(l, "busy", "work", n - 1) /\ n > 0
    <3>1. n - 1 \in 0..MaxBatch
      BY <1>0, <2>2
    <3> QED
      BY <2>2, <3>1, GoesKeeps
  <2> QED
    BY <1>1, <1>3, <2>1, <2>2 DEF Loops!NextItem
<1> QED
  BY <1>1, <1>2, <1>3, <1>4

LEMMA StepEndsKeeps ==
    ASSUME Loops!LoopsInvariant, NEW l \in Loops!Loop,
           \/ Loops!Wake(l) \/ Loops!FetchEnds(l) \/ Loops!WorkEnds(l)
           \/ Loops!DeleteEnds(l)
    PROVE  Loops!LoopsInvariant'
<1>1. rest[l] \in 0..MaxBatch /\ MaxBatch \in Nat
  BY LoopTypes DEF Loops!TypeOK
<1>2. CASE Loops!Wake(l)
  BY <1>2, WayOn DEF Loops!Wake
<1>3. CASE Loops!FetchEnds(l)
  <2>1. \/ Loops!Sleeps(l) \/ Loops!Crashes(l)
        \/ \E n \in 0..MaxBatch : Loops!NextItem(l, n)
    BY <1>1, <1>3 DEF Loops!FetchEnds
  <2> QED
    BY <1>3, <2>1, WayOn DEF Loops!FetchEnds
<1>4. CASE Loops!WorkEnds(l)
  <2>1. CASE Loops!Goes(l, "busy", "delete", rest[l])
    BY <1>1, <1>4, <2>1, GoesKeeps DEF Loops!WorkEnds
  <2>2. CASE Loops!NextItem(l, rest[l]) \/ Loops!Sleeps(l) \/ Loops!Crashes(l)
    BY <1>1, <1>4, <2>2, WayOn DEF Loops!WorkEnds
  <2> QED
    BY <1>4, <2>1, <2>2 DEF Loops!WorkEnds
<1>5. CASE Loops!DeleteEnds(l)
  BY <1>1, <1>5, WayOn DEF Loops!DeleteEnds
<1> QED
  BY <1>2, <1>3, <1>4, <1>5

LEMMA LoopRestKeeps ==
    ASSUME Loops!LoopsInvariant, NEW l \in Loops!Loop,
           \/ Loops!Start(l) \/ Loops!Begin(l) \/ Loops!LeftThreadEnds(l)
           \/ Loops!Finished(l) \/ Loops!Stopping(l)
    PROVE  Loops!LoopsInvariant'
<1>1. Loops!TypeOK /\ LoopFits(l) /\ NobodyStops
  BY LoopTypes, LoopByLoop
<1>2. CASE Loops!Start(l)
  <2>1. /\ loopPc[l] = "off" /\ loopPc' = [loopPc EXCEPT ![l] = "created"]
        /\ lifespan = "starting"
        /\ UNCHANGED <<thread, rest, status, lifespan, stop, stopper, looked, alerted>>
    BY <1>2 DEF Loops!Start
  <2>2. Loops!TypeOK'
    BY <1>1, <2>1 DEF Loops!TypeOK
  <2>3. LoopFits(l)'
    BY <1>1, <2>1 DEF LoopFits, Loops!TypeOK, Loops!Alive
  <2>4. \A k \in Loops!Loop \ {l} : loopPc'[k] = loopPc[k]
    BY <1>1, <2>1 DEF Loops!TypeOK
  <2> QED
    BY <2>1, <2>2, <2>3, <2>4, OneLoopMoves
<1>3. CASE Loops!Begin(l)
  <2>1. /\ loopPc[l] = "created" /\ status' = [status EXCEPT ![l] = "running"]
        /\ loopPc' = [loopPc EXCEPT ![l] = IF l \in stop THEN "finished" ELSE "busy"]
        /\ thread' = [thread EXCEPT ![l] = IF l \in stop THEN "none" ELSE Loops!FirstStep(l)]
        /\ UNCHANGED <<rest, lifespan, stop, stopper, looked, alerted>>
    BY <1>3 DEF Loops!Begin
  <2>2. Loops!FirstStep(l) \in {"look", "fetch"}
    BY DEF Loops!FirstStep
  <2>3. Loops!TypeOK'
    BY <1>1, <2>1, <2>2 DEF Loops!TypeOK
  <2>4. LoopFits(l)'
    BY <1>1, <2>1, <2>2 DEF LoopFits, Loops!TypeOK, Loops!Alive
  <2>5. \A k \in Loops!Loop \ {l} : /\ loopPc'[k] = loopPc[k] /\ thread'[k] = thread[k]
                                    /\ status'[k] = status[k]
    BY <1>1, <2>1 DEF Loops!TypeOK
  <2> QED
    BY <2>1, <2>3, <2>4, <2>5, OneLoopMoves
<1>4. CASE Loops!LeftThreadEnds(l)
  <2>1. /\ loopPc[l] \in {"finished", "ended"}
        /\ thread' = [thread EXCEPT ![l] = "none"]
        /\ UNCHANGED <<loopPc, rest, status, lifespan, stop, stopper, looked>>
        /\ alerted' = alerted \/ alerted' = alerted \cup Loops!Reported
    BY <1>4 DEF Loops!LeftThreadEnds
  <2>2. Loops!TypeOK'
    <3>1. alerted' \in SUBSET Loops!Loop
      BY <1>1, <2>1, ReportedEnded DEF Loops!TypeOK
    <3> QED
      BY <1>1, <2>1, <3>1 DEF Loops!TypeOK
  <2>3. LoopFits(l)'
    <3>1. l \in alerted' => loopPc[l] = "ended"
      BY <1>1, <2>1, ReportedEnded DEF LoopFits
    <3> QED
      BY <1>1, <2>1, <3>1 DEF LoopFits, Loops!TypeOK, Loops!Alive
  <2>4. \A k \in Loops!Loop \ {l} : thread'[k] = thread[k]
    BY <1>1, <2>1 DEF Loops!TypeOK
  <2> QED
    BY <2>1, <2>2, <2>3, <2>4, OneLoopMoves
<1>5. CASE Loops!Finished(l)
  <2>1. /\ loopPc[l] \in {"finished", "failed"}
        /\ loopPc' = [loopPc EXCEPT ![l] = "ended"]
        /\ status' = [status EXCEPT ![l] = IF loopPc[l] = "failed" THEN "crashed"
                                           ELSE "stopped"]
        /\ UNCHANGED <<thread, rest, lifespan, stop, stopper, looked, alerted>>
    BY <1>5 DEF Loops!Finished
  <2>2. Loops!TypeOK'
    BY <1>1, <2>1 DEF Loops!TypeOK
  <2>3. LoopFits(l)'
    BY <1>1, <2>1 DEF LoopFits, Loops!TypeOK, Loops!Alive
  <2>4. \A k \in Loops!Loop \ {l} : loopPc'[k] = loopPc[k] /\ status'[k] = status[k]
    BY <1>1, <2>1 DEF Loops!TypeOK
  <2> QED
    BY <2>1, <2>2, <2>3, <2>4, OneLoopMoves
<1>6. CASE Loops!StopReturns(l)
  <2>1. /\ stopper[l] \in {"waiting", "late"} /\ loopPc[l] = "ended"
        /\ stopper' = [stopper EXCEPT ![l] = IF @ = "late" THEN "cut" ELSE "done"]
        /\ UNCHANGED <<lifespan, loopPc, thread, rest, status, stop, looked, alerted>>
    BY <1>6 DEF Loops!StopReturns, Loops!WaitOver, Loops!task
  <2>2. Loops!TypeOK'
    BY <1>1, <2>1 DEF Loops!TypeOK
  <2>3. LoopFits(l)'
    BY <1>1, <2>1 DEF LoopFits, Loops!TypeOK, Loops!Alive
  <2>4. \A k \in Loops!Loop \ {l} : stopper'[k] = stopper[k]
    BY <1>1, <2>1 DEF Loops!TypeOK
  <2> QED
    BY <2>1, <2>2, <2>3, <2>4, OneLoopMoves
<1>7. CASE Loops!StopTimesOut(l)
  <2>1. /\ stopper[l] = "waiting" /\ loopPc[l] \in {"created", "busy", "sleep"}
        /\ stopper' = [stopper EXCEPT ![l] = "late"]
        /\ loopPc' = [loopPc EXCEPT ![l] = "finished"] /\ rest' = [rest EXCEPT ![l] = 0]
        /\ UNCHANGED <<thread, status, lifespan, stop, looked, alerted>>
    BY <1>7 DEF Loops!StopTimesOut
  <2>2. Loops!TypeOK'
    <3>1. 0 \in 0..MaxBatch
      BY LoopTypes
    <3> QED
      BY <1>1, <2>1, <3>1 DEF Loops!TypeOK
  <2>3. LoopFits(l)'
    BY <1>1, <2>1 DEF LoopFits, Loops!TypeOK, Loops!Alive
  <2>4. \A k \in Loops!Loop \ {l} : loopPc'[k] = loopPc[k] /\ stopper'[k] = stopper[k]
    BY <1>1, <2>1 DEF Loops!TypeOK
  <2> QED
    BY <2>1, <2>2, <2>3, <2>4, OneLoopMoves
<1> QED
  BY <1>2, <1>3, <1>4, <1>5, <1>6, <1>7 DEF Loops!Stopping

LEMMA LookKeeps ==
    ASSUME Loops!LoopsInvariant, Loops!Look
    PROVE  Loops!LoopsInvariant'
<1>1. Loops!TypeOK /\ LoopFits(Watchdog) /\ Watchdog \in Loops!Loop
  BY LoopTypes, LoopByLoop
<1>2. /\ thread[Watchdog] = "look" /\ looked' \in BOOLEAN
      /\ thread' = [thread EXCEPT ![Watchdog] = "fetch"]
      /\ UNCHANGED <<loopPc, rest, status, lifespan, stop, stopper, alerted>>
  BY DEF Loops!Look
<1>3. Loops!TypeOK'
  BY <1>1, <1>2 DEF Loops!TypeOK
<1>4. LoopFits(Watchdog)'
  BY <1>1, <1>2 DEF LoopFits, Loops!TypeOK, Loops!Alive
<1>5. \A k \in Loops!Loop \ {Watchdog} : thread'[k] = thread[k]
  BY <1>1, <1>2 DEF Loops!TypeOK
<1> QED
  BY <1>1, <1>2, <1>3, <1>4, <1>5, OneLoopMoves

\* The shutdown tells every started loop to stop; the others need not.
LEMMA LifespanKeeps ==
    ASSUME Loops!LoopsInvariant,
           Loops!Started \/ Loops!ShutDown \/ Loops!AllStopped \/ Loops!ClosePool
    PROVE  Loops!LoopsInvariant'
<1>1. Loops!TypeOK /\ NobodyStops /\ \A l \in Loops!Loop : LoopFits(l)
  BY LoopByLoop
<1>2. UNCHANGED <<loopPc, thread, rest, status, looked, alerted>>
  BY DEF Loops!Started, Loops!ShutDown, Loops!AllStopped, Loops!ClosePool, Loops!task
<1>3. CASE Loops!ShutDown
  <2>1. /\ lifespan \in {"starting", "up"} /\ lifespan' = "stopping"
        /\ stop' = {l \in Loops!Loop : loopPc[l] # "off"}
        /\ stopper' = [l \in Loops!Loop |-> IF loopPc[l] # "off" THEN "waiting" ELSE "done"]
    BY <1>3 DEF Loops!ShutDown
  <2>2. Loops!TypeOK' /\ NobodyStops'
    BY <1>1, <1>2, <2>1 DEF Loops!TypeOK, NobodyStops
  <2>3. ASSUME NEW l \in Loops!Loop PROVE LoopFits(l)'
    <3>1. LoopFits(l)
      BY <1>1
    <3>2. stopper[l] = "none" /\ l \notin stop
      BY <1>1, <2>1, <3>1 DEF LoopFits, NobodyStops
    <3>3. thread[l] # "none" => loopPc[l] = "busy"
      BY <3>1, <3>2 DEF LoopFits
    <3>4. stopper'[l] = IF loopPc[l] # "off" THEN "waiting" ELSE "done"
      BY <2>1
    <3> QED
      BY <1>2, <2>1, <3>1, <3>2, <3>3, <3>4 DEF LoopFits, Loops!Alive
  <2> QED
    BY <2>2, <2>3, NextLoopByLoop
<1>4. CASE Loops!Started \/ Loops!AllStopped \/ Loops!ClosePool
  <2>1. /\ UNCHANGED <<stop, stopper>>
        /\ lifespan' \in {"up", "stopped", "closed"}
        /\ lifespan' = "up" => lifespan = "starting"
        /\ lifespan' # "up" => \A l \in Loops!Loop : stopper[l] \in {"done", "cut"}
    <3>1. lifespan = "stopped" => \A l \in Loops!Loop : stopper[l] \in {"done", "cut"}
      BY <1>1 DEF LoopFits
    <3> QED
      BY <1>4, <3>1 DEF Loops!Started, Loops!AllStopped, Loops!ClosePool
  <2>2. Loops!TypeOK' /\ NobodyStops'
    BY <1>1, <1>2, <2>1 DEF Loops!TypeOK, NobodyStops
  <2>3. ASSUME NEW l \in Loops!Loop PROVE LoopFits(l)'
    <3>1. LoopFits(l)
      BY <1>1
    <3>2. CASE lifespan' = "up"
      BY <1>2, <2>1, <3>1, <3>2 DEF LoopFits, Loops!Alive
    <3>3. CASE lifespan' # "up"
      <4>1. stopper[l] \in {"done", "cut"} /\ loopPc[l] \in {"off", "ended"}
        BY <2>1, <3>1, <3>3 DEF LoopFits
      <4>2. thread[l] # "none" => stopper[l] = "cut"
        BY <3>1, <4>1 DEF LoopFits
      <4> QED
        BY <1>2, <2>1, <3>1, <3>3, <4>1, <4>2 DEF LoopFits, Loops!Alive
    <3> QED
      BY <3>2, <3>3
  <2> QED
    BY <2>2, <2>3, NextLoopByLoop
<1> QED
  BY <1>3, <1>4

LEMMA LoopsNextKeeps ==
    Loops!LoopsInvariant /\ [Loops!Next]_(Loops!vars) => Loops!LoopsInvariant'
<1> SUFFICES ASSUME Loops!LoopsInvariant, [Loops!Next]_(Loops!vars)
             PROVE  Loops!LoopsInvariant'
  OBVIOUS
<1>1. CASE UNCHANGED Loops!vars
  BY <1>1 DEF Loops!vars, Loops!LoopsInvariant, Loops!TypeOK, Loops!StatusIsTrue,
       Loops!AlertIsTrue, Loops!ClosedAfterTasks, Loops!TaskFitsStop,
       Loops!StopFitsLifespan, Loops!Alive
<1>2. CASE \E l \in Loops!Loop : Loops!Start(l) \/ Loops!LoopStep(l) \/ Loops!Stopping(l)
  BY <1>2, StepEndsKeeps, LoopRestKeeps DEF Loops!LoopStep
<1>3. CASE Loops!Look
  BY <1>3, LookKeeps
<1>4. CASE Loops!Started \/ Loops!ShutDown \/ Loops!AllStopped \/ Loops!ClosePool
  BY <1>4, LifespanKeeps
<1> QED
  BY <1>1, <1>2, <1>3, <1>4 DEF Loops!Next

LEMMA LoopsInit == Loops!Init => Loops!LoopsInvariant
<1> SUFFICES ASSUME Loops!Init PROVE Loops!LoopsInvariant
  OBVIOUS
<1>1. MaxBatch \in Nat
  BY OtherAssumption DEF Loops!LoopsAssumption
<1>2. Loops!TypeOK /\ NobodyStops
  <2>1. rest \in [Loops!Loop -> 0..MaxBatch]
    BY <1>1 DEF Loops!Init
  <2>2. /\ loopPc \in [Loops!Loop -> {"off", "created", "busy", "sleep", "finished",
                                      "failed", "ended"}]
        /\ thread \in [Loops!Loop -> {"none", "look", "fetch", "work", "delete"}]
        /\ status \in [Loops!Loop -> {"new", "running", "stopped", "crashed"}]
        /\ stopper \in [Loops!Loop -> {"none", "waiting", "late", "done", "cut"}]
    BY DEF Loops!Init
  <2> QED
    BY <2>1, <2>2 DEF Loops!Init, Loops!TypeOK, NobodyStops
<1>3. ASSUME NEW l \in Loops!Loop PROVE LoopFits(l)
  BY DEF Loops!Init, LoopFits, Loops!Alive
<1> QED
  BY <1>2, <1>3, LoopByLoop

-----------------------------------------------------------------------------
(* The warm-up manager (BodyImageWarmup).                                  *)

LEMMA WarmupStep == [Next]_vars => [Warmup!Next]_(Warmup!vars)
BY DEF Next, OthersRest, vars, warmup, Warmup!vars

\* What the invariant says of the calls, and what it says of the rate limit.
CallsFit ==
    /\ task \in Call \cup {NULL} /\ closed \in BOOLEAN
    /\ call \in [Call -> {"idle", "created", "calling"}]
    /\ cancelled \subseteq Warmup!Running
    /\ closer \in [Closer -> Call \cup {"idle", "returned"}]
    /\ Warmup!SingleFlight /\ Warmup!ClosersWait
    /\ \A a \in Closer : closer[a] = "returned" => Warmup!Running = {}

StartsFit ==
    /\ starts \in Seq(0..Window) /\ Len(starts) <= MaxStarts
    /\ recent \in Seq(1..Window)
    /\ Warmup!StartsWithinLimit /\ Warmup!StartsRemembered

TimesFit ==
    /\ cooldown \in 0..Cooldown
    /\ retryIn \in 0..RetryInterval \cup 0..TimeoutRetryInterval

LEMMA WarmupInParts == Warmup!WarmupInvariant <=> CallsFit /\ StartsFit /\ TimesFit
<1>1. Warmup!WarmupInvariant => CallsFit /\ StartsFit /\ TimesFit
  BY DEF Warmup!WarmupInvariant, Warmup!TypeOK, Warmup!ClosedIsQuiet, CallsFit,
         StartsFit, TimesFit
<1>2. CallsFit /\ StartsFit /\ TimesFit => Warmup!WarmupInvariant
  <2> SUFFICES ASSUME CallsFit, StartsFit, TimesFit PROVE Warmup!WarmupInvariant
    OBVIOUS
  <2>1. Warmup!ClosedIsQuiet
    <3>1. ASSUME NEW a \in Closer, closer[a] = "returned"
          PROVE  Warmup!Running = {} /\ closed
      BY <3>1 DEF CallsFit, Warmup!ClosersWait
    <3> QED
      BY <3>1 DEF Warmup!ClosedIsQuiet, Warmup!MayStart
  <2> QED
    BY <2>1 DEF Warmup!WarmupInvariant, Warmup!TypeOK, CallsFit, StartsFit, TimesFit
<1> QED
  BY <1>1, <1>2

LEMMA NextWarmupInParts == CallsFit' /\ StartsFit' /\ TimesFit' => Warmup!WarmupInvariant'
<1>1. (CallsFit /\ StartsFit /\ TimesFit)' => Warmup!WarmupInvariant'
  BY WarmupInParts, PTL
<1> QED
  BY <1>1

LEMMA WarmupNumbers ==
    /\ {Cooldown, RetryInterval, TimeoutRetryInterval, Window, MaxStarts} \subseteq Nat \ {0}
    /\ NULL \notin Call /\ "idle" \notin Call /\ "returned" \notin Call
BY LimitAssumption DEF Warmup!WarmupAssumption

\* Whoever ends the only call leaves none running.
LEMMA NoOtherCall ==
    ASSUME CallsFit, NEW c \in Call, c \in Warmup!Running \/ task = NULL \/ task = c
    PROVE  \A d \in Call : d # c => call[d] = "idle"
<1>1. ASSUME NEW d \in Call, call[d] # "idle" PROVE d = c
  <2>1. task = d /\ d # NULL
    BY <1>1, WarmupNumbers DEF CallsFit, Warmup!Running, Warmup!SingleFlight
  <2>2. c \in Warmup!Running => task = c
    BY DEF CallsFit, Warmup!SingleFlight
  <2> QED
    BY <2>1, <2>2
<1> QED
  BY <1>1

LEMMA StartKeepsCalls ==
    ASSUME CallsFit, NEW c \in Call, Warmup!Start(c)
    PROVE  CallsFit'
<1>1. /\ ~closed /\ task = NULL /\ task' = c /\ call[c] = "idle"
      /\ call' = [call EXCEPT ![c] = "created"]
      /\ UNCHANGED <<closed, cancelled, closer>>
  BY DEF Warmup!Start, Warmup!MayStart
<1>2. Warmup!Running' = {c}
  BY <1>1, NoOtherCall DEF CallsFit, Warmup!Running
<1>3. \A a \in Closer : closer[a] = "idle"
  BY <1>1 DEF CallsFit, Warmup!ClosersWait
<1>4. cancelled = {}
  BY <1>1, NoOtherCall DEF CallsFit, Warmup!Running
<1> QED
  BY <1>1, <1>2, <1>3, <1>4, WarmupNumbers
     DEF CallsFit, Warmup!SingleFlight, Warmup!ClosersWait

LEMMA TaskGoesOnKeepsCalls ==
    ASSUME CallsFit, NEW c \in Call, Warmup!TaskGoesOn(c)
    PROVE  CallsFit'
<1>1. CASE Warmup!TaskBegins(c)
  <2>1. /\ call[c] = "created" /\ call' = [call EXCEPT ![c] = "calling"]
        /\ UNCHANGED <<task, closed, cancelled, closer>>
    BY <1>1 DEF Warmup!TaskBegins
  <2>2. Warmup!Running' = Warmup!Running
    BY <2>1 DEF CallsFit, Warmup!Running
  <2> QED
    BY <2>1, <2>2 DEF CallsFit, Warmup!SingleFlight, Warmup!ClosersWait
<1>2. CASE Warmup!TaskEnds(c) \/ Warmup!TaskIsCancelled(c)
  <2>1. /\ c \in Warmup!Running /\ task' \in {task, NULL}
        /\ call' = [call EXCEPT ![c] = "idle"]
        /\ cancelled' = cancelled \ {c}
        /\ UNCHANGED <<closed, closer>>
    BY <1>2 DEF Warmup!TaskEnds, Warmup!TaskIsCancelled, Warmup!Running, CallsFit
  <2>2. Warmup!Running' = {} /\ Warmup!Running = {c}
    BY <2>1, NoOtherCall DEF CallsFit, Warmup!Running
  <2>3. cancelled' = {}
    BY <2>1, <2>2 DEF CallsFit
  <2> QED
    BY <2>1, <2>2, <2>3 DEF CallsFit, Warmup!SingleFlight, Warmup!ClosersWait
<1> QED
  BY <1>1, <1>2 DEF Warmup!TaskGoesOn

LEMMA CloseKeepsCalls ==
    ASSUME CallsFit, NEW a \in Closer, Warmup!Close(a) \/ Warmup!CloseReturns(a)
    PROVE  CallsFit'
<1>0. UNCHANGED call /\ Warmup!Running' = Warmup!Running
  BY DEF Warmup!Close, Warmup!CloseReturns, Warmup!Running
<1>1. CASE Warmup!Close(a) /\ task = NULL
  <2>1. /\ closed' = TRUE /\ closer' = [closer EXCEPT ![a] = "returned"]
        /\ UNCHANGED <<task, call, cancelled>>
    BY <1>1 DEF Warmup!Close
  <2>2. Warmup!Running = {}
    BY <1>1, WarmupNumbers DEF CallsFit, Warmup!SingleFlight, Warmup!Running
  <2> QED
    BY <1>0, <1>1, <2>1, <2>2, WarmupNumbers
       DEF CallsFit, Warmup!SingleFlight, Warmup!ClosersWait
<1>2. CASE Warmup!Close(a) /\ task # NULL
  <2>1. /\ closer[a] = "idle" /\ closed' = TRUE
        /\ closer' = [closer EXCEPT ![a] = task]
        /\ cancelled' = cancelled \cup ({task} \cap Warmup!Running)
        /\ UNCHANGED <<task, call>>
    BY <1>2 DEF Warmup!Close
  <2>2. task \in Call
    BY <1>2 DEF CallsFit
  <2> QED
    BY <1>0, <2>1, <2>2, WarmupNumbers
       DEF CallsFit, Warmup!SingleFlight, Warmup!ClosersWait
<1>3. CASE Warmup!CloseReturns(a)
  <2>1. /\ closer[a] \in Call /\ call[closer[a]] = "idle" /\ task' = NULL
        /\ closer' = [closer EXCEPT ![a] = "returned"]
        /\ UNCHANGED <<closed, call, cancelled>>
    BY <1>3 DEF Warmup!CloseReturns
  <2>2. task \in {closer[a], NULL} /\ closed
    BY <2>1, WarmupNumbers DEF CallsFit, Warmup!ClosersWait
  <2>3. Warmup!Running = {}
    BY <2>1, <2>2, WarmupNumbers DEF CallsFit, Warmup!SingleFlight, Warmup!Running
  <2> QED
    BY <1>0, <2>1, <2>2, <2>3, WarmupNumbers
       DEF CallsFit, Warmup!SingleFlight, Warmup!ClosersWait
<1> QED
  BY <1>1, <1>2, <1>3

\* The oldest start that is dropped is over: one before the window.
LEMMA StartKeepsStarts ==
    ASSUME StartsFit, NEW c \in Call, Warmup!Start(c)
    PROVE  StartsFit'
<1> DEFINE all == Append(starts, Window)
           over == Len(starts) - Len(recent)
<1>1. /\ recent' = Append(recent, Window)
      /\ starts' = IF Len(all) > MaxStarts THEN Tail(all) ELSE all
      /\ ~(Len(starts) = MaxStarts /\ starts[1] > 0)
  BY DEF Warmup!Start, Warmup!MayStart
<1>2. /\ starts \in Seq(0..Window) /\ recent \in Seq(1..Window)
      /\ Len(starts) \in Nat /\ Len(recent) \in Nat /\ Len(starts) <= MaxStarts
      /\ MaxStarts \in Nat \ {0} /\ Window \in Nat \ {0}
  BY WarmupNumbers DEF StartsFit
<1>3. /\ over \in Nat /\ \A i \in 1..over : starts[i] = 0
      /\ \A i \in 1..Len(recent) : recent[i] = starts[over + i] /\ recent[i] \in 1..Window
      /\ \A i, j \in 1..Len(recent) : i < j => recent[i] <= recent[j]
  <2>1. DOMAIN recent = 1..Len(recent)
    BY <1>2
  <2>2. over \in Nat /\ over >= 0
    BY <1>2 DEF StartsFit, Warmup!StartsRemembered
  <2>3. \A i \in 1..over : starts[i] = 0
    BY DEF StartsFit, Warmup!StartsRemembered
  <2>4. \A i \in 1..Len(recent) : recent[i] = starts[over + i]
    BY <2>1 DEF StartsFit, Warmup!StartsRemembered
  <2>5. \A i, j \in 1..Len(recent) : i < j => recent[i] <= recent[j]
    BY <2>1 DEF StartsFit, Warmup!StartsRemembered
  <2>6. \A i \in 1..Len(recent) : recent[i] \in 1..Window
    BY <1>2
  <2> QED
    BY <2>2, <2>3, <2>4, <2>5, <2>6
<1>0. /\ Len(starts) \in Nat /\ Len(recent) \in Nat /\ over \in Nat
      /\ MaxStarts \in Nat \ {0} /\ Window \in Nat \ {0} /\ Len(starts) <= MaxStarts
  BY <1>2, <1>3
<1>4. /\ all \in Seq(0..Window) /\ Len(all) = Len(starts) + 1
      /\ \A i \in 1..Len(starts) : all[i] = starts[i]
      /\ all[Len(starts) + 1] = Window
  BY <1>2
<1>5. /\ recent' \in Seq(1..Window) /\ Len(recent') = Len(recent) + 1
      /\ \A i \in 1..Len(recent) : recent'[i] = recent[i]
      /\ recent'[Len(recent) + 1] = Window
  BY <1>1, <1>2
<1>6. \A i, j \in DOMAIN recent' : i < j => recent'[i] <= recent'[j]
  <2>1. DOMAIN recent' = 1..(Len(recent) + 1)
    BY <1>5
  <2> SUFFICES ASSUME NEW i \in 1..(Len(recent) + 1), NEW j \in 1..(Len(recent) + 1), i < j
               PROVE  recent'[i] <= recent'[j]
    BY <2>1
  <2>2. i \in 1..Len(recent) /\ recent'[i] = recent[i] /\ recent[i] \in 1..Window
    <3>1. i \in 1..Len(recent)
      BY <1>0
    <3> QED
      BY <1>3, <1>5, <3>1
  <2>3. CASE j = Len(recent) + 1
    BY <1>2, <1>5, <2>2, <2>3
  <2>4. CASE j # Len(recent) + 1
    <3>1. j \in 1..Len(recent)
      BY <1>0, <2>4
    <3> QED
      BY <1>3, <1>5, <2>2, <3>1
  <2> QED
    BY <2>3, <2>4
<1>7. CASE Len(starts) < MaxStarts
  <2>1. starts' = all
    BY <1>1, <1>2, <1>4, <1>7
  <2>2. Len(starts') - Len(recent') = over
    BY <1>2, <1>4, <1>5, <2>1
  <2>3. \A i \in 1..over : starts'[i] = 0
    BY <1>2, <1>3, <1>4, <2>1
  <2>4. \A i \in DOMAIN recent' : recent'[i] = starts'[over + i]
    <3>1. DOMAIN recent' = 1..(Len(recent) + 1)
      BY <1>5
    <3> SUFFICES ASSUME NEW i \in 1..(Len(recent) + 1)
                 PROVE  recent'[i] = starts'[over + i]
      BY <3>1
    <3>2. CASE i = Len(recent) + 1
      BY <1>2, <1>4, <1>5, <2>1, <3>2
    <3>3. CASE i # Len(recent) + 1
      <4>1. i \in 1..Len(recent) /\ over + i \in 1..Len(starts)
        BY <1>0, <3>3
      <4> QED
        BY <1>3, <1>4, <1>5, <2>1, <4>1
    <3> QED
      BY <3>2, <3>3
  <2>5. Warmup!StartsRemembered'
    BY <1>3, <1>6, <2>2, <2>3, <2>4 DEF Warmup!StartsRemembered
  <2>6. Len(recent') <= MaxStarts /\ Len(starts') <= MaxStarts
    BY <1>2, <1>3, <1>4, <1>5, <1>7, <2>1
  <2> QED
    BY <1>4, <1>5, <2>1, <2>5, <2>6 DEF StartsFit, Warmup!StartsWithinLimit
<1>8. CASE Len(starts) = MaxStarts
  <2>1. starts[1] = 0
    BY <1>1, <1>2, <1>8
  <2>2. over > 0
    <3>1. SUFFICES ASSUME over = 0 PROVE FALSE
      BY <1>3
    <3>2. 1 \in 1..Len(recent)
      BY <1>2, <1>8, <3>1
    <3>3. recent[1] = starts[over + 1] /\ recent[1] \in 1..Window
      BY <1>3, <3>2
    <3> QED
      BY <2>1, <3>1, <3>3
  <2>3. /\ starts' = Tail(all) /\ starts' \in Seq(0..Window)
        /\ Len(starts') = Len(starts)
        /\ \A i \in 1..Len(starts) : starts'[i] = all[i + 1]
    <3>1. Len(all) > MaxStarts
      BY <1>2, <1>4, <1>8
    <3>2. starts' = Tail(all)
      BY <1>1, <3>1
    <3>3. all # <<>>
      BY <3>1, <1>2
    <3> HIDE DEF all
    <3> QED
      BY <1>2, <1>4, <3>2, <3>3
  <2>4. Len(starts') - Len(recent') = over - 1
    BY <1>2, <1>5, <2>3
  <2>5. \A i \in 1..(over - 1) : starts'[i] = 0
    <3> SUFFICES ASSUME NEW i \in 1..(over - 1) PROVE starts'[i] = 0
      OBVIOUS
    <3>1. i \in 1..Len(starts) /\ i + 1 \in 1..over /\ i + 1 \in 1..Len(starts)
      BY <1>0
    <3> QED
      BY <1>3, <1>4, <2>3, <3>1
  <2>6. \A i \in DOMAIN recent' : recent'[i] = starts'[over - 1 + i]
    <3>1. DOMAIN recent' = 1..(Len(recent) + 1)
      BY <1>5
    <3> SUFFICES ASSUME NEW i \in 1..(Len(recent) + 1)
                 PROVE  recent'[i] = starts'[over - 1 + i]
      BY <3>1
    <3>2. over - 1 + i \in 1..Len(starts) /\ over - 1 + i + 1 = over + i
      BY <1>0, <2>2
    <3>3. starts'[over - 1 + i] = all[over + i]
      BY <2>3, <3>2
    <3>4. CASE i = Len(recent) + 1
      BY <1>2, <1>4, <1>5, <3>3, <3>4
    <3>5. CASE i # Len(recent) + 1
      <4>1. i \in 1..Len(recent) /\ over + i \in 1..Len(starts)
        BY <1>0, <3>5
      <4> QED
        BY <1>3, <1>4, <1>5, <3>3, <4>1
    <3> QED
      BY <3>4, <3>5
  <2>7. Warmup!StartsRemembered'
    <3>1. over - 1 >= 0
      BY <1>3, <2>2
    <3> QED
      BY <1>6, <2>4, <2>5, <2>6, <3>1 DEF Warmup!StartsRemembered
  <2>8. Len(recent') <= MaxStarts /\ Len(starts') <= MaxStarts
    BY <1>2, <1>3, <1>5, <1>8, <2>2, <2>3
  <2> QED
    BY <1>5, <2>3, <2>7, <2>8 DEF StartsFit, Warmup!StartsWithinLimit
<1> QED
  BY <1>2, <1>7, <1>8

\* What is over comes before what is not, where the order is that of the times.
LEMMA StillInIsTheEnd ==
    ASSUME NEW W \in Nat, NEW s \in Seq(0..W),
           \A i, j \in 1..Len(s) : i < j => s[i] <= s[j]
    PROVE  LET r == Warmup!StillIn(s)
               k == Len(s) - Len(r)
           IN  /\ r \in Seq(1..W) /\ k \in Nat
               /\ \A i \in 1..k : s[i] = 0
               /\ \A i \in 1..Len(r) : r[i] = s[k + i]
<1> DEFINE r == Warmup!StillIn(s)
<1>0. DOMAIN s = 1..Len(s) /\ Len(s) \in Nat /\ \A i \in 1..Len(s) : s[i] \in 0..W
  OBVIOUS
<1>1. CASE \A i \in DOMAIN s : s[i] = 0
  <2>1. r = <<>>
    BY <1>1 DEF Warmup!StillIn
  <2> QED
    BY <1>0, <1>1, <2>1
<1>2. CASE ~ \A i \in DOMAIN s : s[i] = 0
  <2> DEFINE First(i) == s[i] > 0 /\ \A j \in 1..(i - 1) : s[j] = 0
             first == CHOOSE i \in DOMAIN s : First(i)
  <2>1. \E i \in DOMAIN s : First(i)
    <3> DEFINE T == {i \in 1..Len(s) : s[i] # 0}
    <3>1. T \in SUBSET Nat /\ T # {}
      BY <1>0, <1>2
    <3>2. PICK i \in T : \A j \in T : i <= j
      BY <3>1, LeastOf
    <3>3. s[i] > 0
      BY <1>0, <3>2
    <3>4. ASSUME NEW j \in 1..(i - 1) PROVE s[j] = 0
      <4>1. j \in 1..Len(s) /\ ~(i <= j)
        BY <1>0
      <4> QED
        BY <3>2, <4>1
    <3> QED
      BY <1>0, <3>2, <3>3, <3>4
  <2>2. first \in DOMAIN s /\ First(first)
    BY <2>1
  <2>3. r = SubSeq(s, first, Len(s))
    BY <1>2 DEF Warmup!StillIn
  <2> HIDE DEF first
  <2>4. first \in 1..Len(s) /\ s[first] > 0 /\ \A j \in 1..(first - 1) : s[j] = 0
    BY <1>0, <2>2
  <2>5. Len(r) = Len(s) - first + 1 /\ \A i \in 1..Len(r) : r[i] = s[first - 1 + i]
    BY <1>0, <2>3, <2>4
  <2>6. Len(s) - Len(r) = first - 1 /\ first - 1 \in Nat
    BY <1>0, <2>4, <2>5
  <2>7. r \in Seq(1..W)
    <3>1. ASSUME NEW i \in first..Len(s) PROVE s[i] \in 1..W
      <4>1. i \in 1..Len(s) /\ first \in 1..Len(s)
        BY <1>0, <2>4
      <4>2. s[i] \in 0..W /\ s[first] \in 0..W
        BY <1>0, <4>1
      <4>3. s[first] <= s[i]
        <5>1. CASE i = first
          BY <4>2, <5>1
        <5>2. CASE i # first
          <6>1. first < i
            BY <1>0, <2>4, <5>2
          <6> QED
            BY <4>1, <6>1
        <5> QED
          BY <5>1, <5>2
      <4> QED
        BY <2>4, <4>2, <4>3
    <3>2. r = [i \in 1..(Len(s) - first + 1) |-> s[i + first - 1]]
      BY <1>0, <2>3, <2>4
    <3>3. ASSUME NEW i \in 1..(Len(s) - first + 1) PROVE s[i + first - 1] \in 1..W
      <4>1. i + first - 1 \in first..Len(s)
        BY <1>0, <2>4
      <4> QED
        BY <3>1, <4>1
    <3>4. Len(s) - first + 1 \in Nat
      BY <1>0, <2>4
    <3> QED
      BY <3>2, <3>3, <3>4
  <2> QED
    BY <2>4, <2>5, <2>6, <2>7
<1> QED
  BY <1>1, <1>2

LEMMA LessIs == \A n, m \in Nat : /\ Warmup!Less(n) \in 0..n
                                  /\ n <= m => Warmup!Less(n) <= Warmup!Less(m)
BY DEF Warmup!Less

LEMMA LessStays ==
    ASSUME Window \in Nat, NEW n \in 0..Window
    PROVE  Warmup!Less(n) \in 0..Window
BY DEF Warmup!Less

LEMMA TickKeepsStarts ==
    ASSUME StartsFit, Warmup!Tick
    PROVE  StartsFit'
<1> DEFINE aged == [i \in DOMAIN recent |-> Warmup!Less(recent[i])]
           over == Len(starts) - Len(recent)
           gone == Len(aged) - Len(recent')
<1>1. /\ starts' = [i \in DOMAIN starts |-> Warmup!Less(starts[i])]
      /\ recent' = Warmup!StillIn(aged)
  BY DEF Warmup!Tick
<1>2. /\ starts \in Seq(0..Window) /\ recent \in Seq(1..Window)
      /\ DOMAIN starts = 1..Len(starts) /\ DOMAIN recent = 1..Len(recent)
      /\ \A i \in 1..Len(starts) : starts[i] \in 0..Window
      /\ \A i \in 1..Len(recent) : recent[i] \in 1..Window
  <2>1. starts \in Seq(0..Window) /\ recent \in Seq(1..Window)
    BY DEF StartsFit
  <2>2. DOMAIN starts = 1..Len(starts) /\ DOMAIN recent = 1..Len(recent)
    BY <2>1
  <2>3. Len(starts) \in Nat /\ Len(recent) \in Nat /\ Window \in Nat
    BY <2>1, WarmupNumbers
  <2>4. \A i \in 1..Len(starts) : starts[i] \in 0..Window
    BY <2>1, <2>3
  <2>5. \A i \in 1..Len(recent) : recent[i] \in 1..Window
    BY <2>1, <2>3
  <2> QED
    BY <2>1, <2>2, <2>4, <2>5
<1>3. /\ Len(starts) \in Nat /\ Len(recent) \in Nat /\ over \in Nat
      /\ Window \in Nat /\ MaxStarts \in Nat /\ Len(starts) <= MaxStarts
  BY <1>2, WarmupNumbers DEF StartsFit, Warmup!StartsRemembered
<1>4. /\ \A i \in 1..over : starts[i] = 0
      /\ \A i \in 1..Len(recent) : recent[i] = starts[over + i]
      /\ \A i, j \in 1..Len(recent) : i < j => recent[i] <= recent[j]
  BY <1>2 DEF StartsFit, Warmup!StartsRemembered
<1>5. /\ starts' \in Seq(0..Window) /\ Len(starts') = Len(starts)
      /\ \A i \in 1..Len(starts) : starts'[i] = Warmup!Less(starts[i])
  <2>1. ASSUME NEW i \in 1..Len(starts) PROVE Warmup!Less(starts[i]) \in 0..Window
    <3>1. starts[i] \in 0..Window
      BY <1>2, <1>3
    <3> QED
      BY <1>3, <3>1, LessStays
  <2> QED
    BY <1>1, <1>2, <1>3, <2>1
<1>6. /\ aged \in Seq(0..Window) /\ Len(aged) = Len(recent)
      /\ \A i \in 1..Len(recent) : aged[i] = Warmup!Less(recent[i])
  <2>1. ASSUME NEW i \in 1..Len(recent) PROVE Warmup!Less(recent[i]) \in 0..Window
    <3>1. recent[i] \in 0..Window
      BY <1>2, <1>3
    <3> QED
      BY <1>3, <3>1, LessStays
  <2>2. aged = [i \in 1..Len(recent) |-> Warmup!Less(recent[i])]
    BY <1>2
  <2> HIDE DEF aged
  <2> QED
    BY <1>3, <2>1, <2>2
<1>7. \A i, j \in 1..Len(aged) : i < j => aged[i] <= aged[j]
  <2> SUFFICES ASSUME NEW i \in 1..Len(recent), NEW j \in 1..Len(recent), i < j
               PROVE  Warmup!Less(recent[i]) <= Warmup!Less(recent[j])
    BY <1>6
  <2>1. PICK n \in 1..Window : n = recent[i]
    BY <1>2
  <2>2. PICK m \in 1..Window : m = recent[j]
    BY <1>2
  <2>3. n <= m
    BY <1>4, <2>1, <2>2
  <2>4. n \in Nat /\ m \in Nat
    BY <1>3
  <2>5. Warmup!Less(n) <= Warmup!Less(m)
    BY <2>3, <2>4, LessIs
  <2> QED
    BY <2>1, <2>2, <2>5
<1> HIDE DEF aged
<1>8. /\ recent' \in Seq(1..Window) /\ gone \in Nat
      /\ \A i \in 1..gone : aged[i] = 0
      /\ \A i \in 1..Len(recent') : recent'[i] = aged[gone + i]
  BY <1>1, <1>3, <1>6, <1>7, StillInIsTheEnd
<1>9. /\ Len(recent') \in Nat /\ Len(recent') = Len(recent) - gone
      /\ Len(starts') - Len(recent') = over + gone
  BY <1>3, <1>5, <1>6, <1>8
<1>10. \A i \in 1..(over + gone) : starts'[i] = 0
  <2> SUFFICES ASSUME NEW i \in 1..(over + gone) PROVE starts'[i] = 0
    OBVIOUS
  <2>1. i \in 1..Len(starts)
    BY <1>3, <1>8, <1>9
  <2>2. CASE i \in 1..over
    BY <1>4, <1>5, <2>1, <2>2 DEF Warmup!Less
  <2>3. CASE i \notin 1..over
    <3>1. i - over \in 1..gone /\ i - over \in 1..Len(recent) /\ over + (i - over) = i
      BY <1>3, <1>8, <1>9, <2>3
    <3>2. aged[i - over] = Warmup!Less(starts[i])
      BY <1>4, <1>6, <3>1
    <3> QED
      BY <1>5, <1>8, <2>1, <3>1, <3>2
  <2> QED
    BY <2>2, <2>3
<1>11. \A i \in 1..Len(recent') : recent'[i] = starts'[over + gone + i]
  <2> SUFFICES ASSUME NEW i \in 1..Len(recent')
               PROVE  recent'[i] = starts'[over + gone + i]
    OBVIOUS
  <2>1. /\ gone + i \in 1..Len(recent) /\ over + gone + i \in 1..Len(starts)
        /\ over + (gone + i) = over + gone + i
    BY <1>3, <1>8, <1>9
  <2>2. aged[gone + i] = Warmup!Less(starts[over + gone + i])
    BY <1>4, <1>6, <2>1
  <2> QED
    BY <1>5, <1>8, <2>1, <2>2
<1>12. \A i, j \in 1..Len(recent') : i < j => recent'[i] <= recent'[j]
  <2> SUFFICES ASSUME NEW i \in 1..Len(recent'), NEW j \in 1..Len(recent'), i < j
               PROVE  recent'[i] <= recent'[j]
    OBVIOUS
  <2>1. gone + i \in 1..Len(aged) /\ gone + j \in 1..Len(aged) /\ gone + i < gone + j
    <3> DEFINE g == gone
               a == Len(aged)
               r == Len(recent')
    <3>1. g \in Nat /\ r \in Nat /\ a = r + g /\ i \in 1..r /\ j \in 1..r
      BY <1>3, <1>6, <1>8, <1>9
    <3> HIDE DEF g, a, r
    <3>2. g + i \in 1..a /\ g + j \in 1..a /\ g + i < g + j
      BY <3>1
    <3> QED
      BY <3>2 DEF g, a
  <2> QED
    BY <1>7, <1>8, <2>1
<1>13. Warmup!StartsRemembered'
  <2>1. DOMAIN recent' = 1..Len(recent')
    BY <1>8
  <2>2. over + gone >= 0
    BY <1>3, <1>8
  <2> QED
    BY <1>9, <1>10, <1>11, <1>12, <2>1, <2>2 DEF Warmup!StartsRemembered
<1>14. Len(recent') <= MaxStarts
  BY <1>3, <1>8, <1>9
<1> QED
  BY <1>3, <1>5, <1>8, <1>13, <1>14 DEF StartsFit, Warmup!StartsWithinLimit

LEMMA WarmupNextKeeps ==
    Warmup!WarmupInvariant /\ [Warmup!Next]_(Warmup!vars) => Warmup!WarmupInvariant'
<1> SUFFICES ASSUME Warmup!WarmupInvariant, [Warmup!Next]_(Warmup!vars)
             PROVE  Warmup!WarmupInvariant'
  OBVIOUS
<1>1. CallsFit /\ StartsFit /\ TimesFit
  BY WarmupInParts
<1>2. UNCHANGED <<task, closed, call, cancelled, closer>> => CallsFit'
  BY <1>1 DEF CallsFit, Warmup!Running, Warmup!SingleFlight, Warmup!ClosersWait
<1>3. UNCHANGED <<starts, recent>> => StartsFit'
  BY <1>1 DEF StartsFit, Warmup!StartsWithinLimit, Warmup!StartsRemembered
<1>4. UNCHANGED <<cooldown, retryIn>> => TimesFit'
  BY <1>1 DEF TimesFit
<1>5. CASE UNCHANGED Warmup!vars
  BY <1>2, <1>3, <1>4, <1>5, NextWarmupInParts DEF Warmup!vars
<1>6. CASE \E c \in Call : Warmup!Start(c)
  <2>1. CallsFit' /\ StartsFit'
    BY <1>1, <1>6, StartKeepsCalls, StartKeepsStarts
  <2>2. TimesFit'
    BY <1>4, <1>6 DEF Warmup!Start
  <2> QED
    BY <2>1, <2>2, NextWarmupInParts
<1>7. CASE \E c \in Call : Warmup!TaskGoesOn(c)
  <2>1. CallsFit'
    BY <1>1, <1>7, TaskGoesOnKeepsCalls
  <2>2. StartsFit'
    BY <1>3, <1>7
       DEF Warmup!TaskGoesOn, Warmup!TaskBegins, Warmup!TaskEnds, Warmup!TaskIsCancelled
  <2>3. TimesFit'
    <3>1. CASE \E o \in {"success", "timeout", "error"} : Warmup!Record(o)
      <4>1. cooldown' \in {Cooldown, 0}
        BY <3>1 DEF Warmup!Record
      <4>2. retryIn' \in {0, RetryInterval, TimeoutRetryInterval}
        BY <3>1 DEF Warmup!Record
      <4> QED
        BY <4>1, <4>2, WarmupNumbers DEF TimesFit
    <3>2. CASE UNCHANGED <<cooldown, retryIn>>
      BY <1>4, <3>2
    <3> QED
      BY <1>7, <3>1, <3>2
         DEF Warmup!TaskGoesOn, Warmup!TaskBegins, Warmup!TaskEnds, Warmup!TaskIsCancelled
  <2> QED
    BY <2>1, <2>2, <2>3, NextWarmupInParts
<1>8. CASE \E a \in Closer : Warmup!Close(a) \/ Warmup!CloseReturns(a)
  <2>1. CallsFit'
    BY <1>1, <1>8, CloseKeepsCalls
  <2>2. StartsFit' /\ TimesFit'
    BY <1>3, <1>4, <1>8 DEF Warmup!Close, Warmup!CloseReturns
  <2> QED
    BY <2>1, <2>2, NextWarmupInParts
<1>9. CASE Warmup!Tick
  <2>1. CallsFit'
    BY <1>2, <1>9 DEF Warmup!Tick
  <2>2. StartsFit'
    BY <1>1, <1>9, TickKeepsStarts
  <2>3. TimesFit'
    <3>1. cooldown' = Warmup!Less(cooldown) /\ retryIn' = Warmup!Less(retryIn)
      BY <1>9 DEF Warmup!Tick
    <3> QED
      BY <1>1, <3>1, WarmupNumbers DEF TimesFit, Warmup!Less
  <2> QED
    BY <2>1, <2>2, <2>3, NextWarmupInParts
<1> QED
  BY <1>5, <1>6, <1>7, <1>8, <1>9 DEF Warmup!Next

LEMMA WarmupInit == Warmup!Init => Warmup!WarmupInvariant
<1> SUFFICES ASSUME Warmup!Init PROVE Warmup!WarmupInvariant
  OBVIOUS
<1>1. CallsFit
  BY WarmupNumbers DEF Warmup!Init, CallsFit, Warmup!SingleFlight, Warmup!ClosersWait,
                       Warmup!Running
<1>2. StartsFit
  <2>1. starts = <<>> /\ recent = <<>>
    BY DEF Warmup!Init
  <2>2. Len(<<>>) = 0 /\ <<>> \in Seq(0..Window) /\ <<>> \in Seq(1..Window)
    OBVIOUS
  <2>3. 0 <= MaxStarts
    BY WarmupNumbers
  <2>4. Warmup!StartsRemembered
    BY <2>1, <2>2 DEF Warmup!StartsRemembered
  <2> QED
    BY <2>1, <2>2, <2>3, <2>4 DEF StartsFit, Warmup!StartsWithinLimit
<1>3. TimesFit
  BY WarmupNumbers DEF Warmup!Init, TimesFit
<1> QED
  BY <1>1, <1>2, <1>3, WarmupInParts

\* One warm-up call at a time, never more starts in a window than allowed, none
\* after aclose returned (warmup_manager.py); the status and the reports of the
\* loops are true, and the pool is closed after their tasks (main.py, the
\* Workers, the publisher and the Watchdog): for any number of calls, closers
\* and queues and every interval.
THEOREM TasksAreRight == Spec => []TasksInvariant
<1>1. Init => Warmup!WarmupInvariant /\ Loops!LoopsInvariant
  BY WarmupInit, LoopsInit DEF Init
<1>2. Warmup!WarmupInvariant /\ [Next]_vars => Warmup!WarmupInvariant'
  BY WarmupStep, WarmupNextKeeps
<1>3. Loops!LoopsInvariant /\ [Next]_vars => Loops!LoopsInvariant'
  BY LoopsStep, LoopsNextKeeps
<1> QED
  BY <1>1, <1>2, <1>3, PTL DEF Spec, TasksInvariant

-----------------------------------------------------------------------------
(* The deployment of the GPU worker and its containers (WorkerDeployment). *)

LEMMA DeploymentStep == [Next]_vars => [Deployment!Next]_(Deployment!vars)
BY DEF Next, OthersRest, vars, deployment, Deployment!vars, Deployment!container

\* The configuration of what the arguments ask for.
LEMMA ConfigFits ==
    ASSUME cmd \in Deployment!Command
    PROVE  LET c == Deployment!Config(Deployment!Wanted) IN
             /\ c.stage = cmd.stage /\ c.stage \in {"production", "staging"}
             /\ c.gpu = (cmd.stage = "staging" \/ cmd.gpu) /\ c.gpu \in BOOLEAN
             /\ c.inputs = cmd.inputs /\ c.inputs \in 1..3
             /\ c.containers = IF cmd.stage = "staging" THEN 1 ELSE cmd.containers
             /\ c.containers \in Nat
             /\ c # Deployment!NotDeployed
<1>1. /\ cmd.stage \in {"production", "staging"} /\ cmd.gpu \in BOOLEAN
      /\ cmd.inputs \in 1..3 /\ cmd.containers \in Nat
  BY OtherAssumption DEF Deployment!Command, Deployment!DeploymentAssumption
<1> DEFINE w == Deployment!Wanted
           c == Deployment!Config(w)
<1>2. /\ w.stage = cmd.stage /\ w.containers = cmd.containers /\ w.inputs = cmd.inputs
      /\ w.gpu = IF cmd.stage = "staging" \/ cmd.gpu THEN "true" ELSE "false"
  BY DEF Deployment!Wanted
<1>3. /\ c.stage = w.stage /\ c.gpu = (w.stage = "staging" \/ w.gpu = "true")
      /\ c.containers = IF w.stage = "staging" THEN 1 ELSE w.containers
      /\ c.inputs = IF w.inputs = 0 THEN 1 ELSE w.inputs
  BY DEF Deployment!Config
<1>4. c.gpu \in BOOLEAN
  BY <1>3
<1> HIDE DEF w, c
<1>5. c.stage # ""
  BY <1>1, <1>2, <1>3
<1>6. c # Deployment!NotDeployed
  <2> SUFFICES ASSUME c = Deployment!NotDeployed PROVE FALSE
    OBVIOUS
  <2> QED
    BY <1>5 DEF Deployment!NotDeployed
<1>7. c.gpu = (cmd.stage = "staging" \/ cmd.gpu)
  BY <1>1, <1>2, <1>3
<1>8. /\ c.stage = cmd.stage /\ c.stage \in {"production", "staging"}
      /\ c.gpu = (cmd.stage = "staging" \/ cmd.gpu) /\ c.gpu \in BOOLEAN
      /\ c.inputs = cmd.inputs /\ c.inputs \in 1..3
      /\ c.containers = IF cmd.stage = "staging" THEN 1 ELSE cmd.containers
      /\ c.containers \in Nat
      /\ c # Deployment!NotDeployed
  BY <1>1, <1>2, <1>3, <1>4, <1>6, <1>7
<1> QED
  BY <1>8 DEF w, c

\* Whichever way of the settings is broken, a container in which they agree has
\* those that were deployed.
LEMMA SettingsAgree ==
    ASSUME cmd \in Deployment!Command,
           deployed = Deployment!Config(Deployment!Wanted),
           env \in Deployment!Arriving(Deployment!FunctionEnv(deployed)),
           Deployment!GpuSnapshotResolves, Deployment!ConcurrencyAgrees
    PROVE  /\ env.gpu = deployed.gpu /\ Deployment!StageOf(env.stage) = deployed.stage
           /\ deployed.inputs > 1 => env.limiter = deployed.inputs
<1>1. /\ deployed.stage \in {"production", "staging"} /\ deployed.gpu \in BOOLEAN
      /\ deployed.inputs \in 1..3 /\ (deployed.stage = "staging" => deployed.gpu)
  BY ConfigFits
<1> DEFINE f == Deployment!FunctionEnv(deployed)
<1>2. /\ f.stage = IF deployed.gpu THEN deployed.stage ELSE ""
      /\ f.gpu = deployed.gpu
      /\ f.inputs = IF deployed.inputs > 1 THEN deployed.inputs ELSE 0
      /\ f.limiter = f.inputs
  BY DEF Deployment!FunctionEnv
<1> HIDE DEF f
<1>3. /\ env.inputs = f.inputs
      /\ env.limiter \in {f.limiter, 0}
      /\ \/ /\ env.gpu = f.gpu /\ env.stage = f.stage
         \/ /\ env.gpu = f.gpu /\ env.stage = f.stage /\ env.imageStage = "" /\ ~env.imageGpu
         \/ /\ ~env.gpu /\ env.imageGpu = f.gpu /\ env.stage \in {"", f.stage}
  <2> DEFINE full == [imageStage |-> f.stage, imageGpu |-> f.gpu, stage |-> f.stage,
                      gpu |-> f.gpu, inputs |-> f.inputs, limiter |-> f.limiter]
  <2>1. CASE env = full
    BY <2>1
  <2>2. CASE env = [full EXCEPT !.imageStage = "", !.imageGpu = FALSE]
    BY <2>2
  <2>3. CASE env = [full EXCEPT !.stage = "", !.gpu = FALSE]
    BY <2>3
  <2>4. CASE env = [full EXCEPT !.gpu = FALSE]
    BY <2>4
  <2>5. CASE env = [full EXCEPT !.limiter = 0]
    BY <2>5
  <2> QED
    BY <2>1, <2>2, <2>3, <2>4, <2>5 DEF Deployment!Arriving, f
<1>4. /\ Deployment!StageOf(env.imageStage) = Deployment!StageOf(env.stage)
      /\ env.imageGpu = env.gpu
  BY DEF Deployment!GpuSnapshotResolves
<1>5. env.gpu = f.gpu /\ env.stage = f.stage
  BY <1>1, <1>2, <1>3, <1>4
<1>6. Deployment!StageOf(env.stage) = deployed.stage
  BY <1>1, <1>2, <1>5 DEF Deployment!StageOf
<1>7. deployed.inputs > 1 => env.limiter = deployed.inputs
  BY <1>1, <1>2, <1>3 DEF Deployment!ConcurrencyAgrees
<1> QED
  BY <1>2, <1>5, <1>6, <1>7

LEMMA DeploymentInit == Init => Deployment!DeploymentInvariant
<1> SUFFICES ASSUME Init PROVE Deployment!DeploymentInvariant
  OBVIOUS
<1>1. /\ step = "start" /\ deployed = Deployment!NotDeployed
      /\ open = {} /\ models = "none" /\ runtime = {} /\ gpuMode = FALSE
  BY DEF Init, Deployment!Init
<1>2. deployed.containers \in Nat
  BY <1>1 DEF Deployment!NotDeployed
<1> QED
  BY <1>1, <1>2 DEF Deployment!DeploymentInvariant, Deployment!DeploymentTypeOK,
    Deployment!DeployedAsChecked, Deployment!ServesAsDeployed, Deployment!DetectorsAreOwned,
    Deployment!SettingsFit

LEMMA DeploymentNext ==
    Deployment!DeploymentInvariant /\ [Deployment!Next]_(Deployment!vars)
    => Deployment!DeploymentInvariant'
<1> SUFFICES ASSUME Deployment!DeploymentInvariant, [Deployment!Next]_(Deployment!vars)
             PROVE  Deployment!DeploymentInvariant'
  OBVIOUS
<1> USE DEF Deployment!Prepared, Deployment!Loaded
<1>i. /\ Deployment!DeploymentTypeOK /\ Deployment!DeployedAsChecked
      /\ Deployment!ServesAsDeployed /\ Deployment!DetectorsAreOwned /\ Deployment!SettingsFit
  BY DEF Deployment!DeploymentInvariant
\* The arguments and the deployment.
<1>1. CASE Deployment!Arguments
  <2>1. /\ cmd' \in Deployment!Command /\ shell' \in Deployment!Shell
        /\ step = "start" /\ step' = "checks" /\ deployed = Deployment!NotDeployed
        /\ UNCHANGED <<deployed, env, open, models, runtime, gpuMode>>
    BY <1>1, <1>i DEF Deployment!Arguments, Deployment!SettingsFit, Deployment!container
  <2> QED
    BY <1>i, <2>1 DEF Deployment!DeploymentInvariant, Deployment!DeploymentTypeOK,
      Deployment!DeployedAsChecked, Deployment!ServesAsDeployed, Deployment!DetectorsAreOwned,
      Deployment!SettingsFit
<1>2. CASE Deployment!Deploy
  <2>1. /\ step = "checks" /\ step' \in {"registered", "refused"}
        /\ deployed = Deployment!NotDeployed /\ cmd \in Deployment!Command
        /\ UNCHANGED <<cmd, shell, env, open, models, runtime, gpuMode>>
    BY <1>2, <1>i DEF Deployment!Deploy, Deployment!SettingsFit, Deployment!DeploymentTypeOK,
      Deployment!container
  <2> DEFINE c == Deployment!Config(Deployment!Wanted)
  <2>2. \/ step' = "refused" /\ deployed' = deployed
        \/ /\ step' = "registered" /\ deployed' = c /\ Deployment!PreflightPasses
           /\ cmd.stage = "production" => cmd.command = "manual"
    BY <1>2 DEF Deployment!Deploy, Deployment!ToolDeploys
  <2>3. deployed'.containers \in Nat
    <3>1. Deployment!NotDeployed.containers \in Nat
      BY DEF Deployment!NotDeployed
    <3>2. c.containers \in Nat
      BY <2>1, ConfigFits
    <3> HIDE DEF c
    <3> QED
      BY <2>1, <2>2, <3>1, <3>2
  <2>4. (deployed # Deployment!NotDeployed => deployed = Deployment!Config(Deployment!Wanted))'
    BY <2>1, <2>2 DEF Deployment!Wanted
  <2>5. Deployment!DeployedAsChecked'
    <3>1. CASE deployed' = deployed
      BY <2>1, <3>1 DEF Deployment!DeployedAsChecked
    <3>2. CASE step' = "registered"
      <4>1. /\ deployed' = c /\ Deployment!PreflightPasses
            /\ cmd.stage = "production" => cmd.command = "manual"
        BY <2>2, <3>2
      <4>2. /\ c.stage = cmd.stage /\ c.inputs = cmd.inputs
            /\ c.containers = IF cmd.stage = "staging" THEN 1 ELSE cmd.containers
            /\ c.containers \in Nat /\ (c.gpu => cmd.stage = "staging" \/ cmd.gpu)
        <5>1. c.gpu = (cmd.stage = "staging" \/ cmd.gpu)
          BY <2>1, ConfigFits
        <5>2. c.gpu => cmd.stage = "staging" \/ cmd.gpu
          BY <5>1, Zenon
        <5> QED
          BY <2>1, <5>2, ConfigFits
      <4>3. /\ shell.workspace = cmd.workspace
            /\ cmd.stage = "production" => cmd.workspace = "team"
        BY <4>1 DEF Deployment!PreflightPasses, Deployment!TargetIsKnown
      <4>4. c.gpu /\ c.stage = "production" => c.containers > 0
        <5>1. Deployment!ConfigAsExpected(c)
          BY <4>1 DEF Deployment!PreflightPasses
        <5> HIDE DEF c
        <5>2. c.stage = "production" => (cmd.gpu => c.containers >= 1)
          BY <4>2, <5>1 DEF Deployment!ConfigAsExpected
        <5> QED
          BY <4>2, <5>2
      <4> HIDE DEF c
      <4> QED
        BY <2>1, <4>1, <4>2, <4>3, <4>4 DEF Deployment!DeployedAsChecked,
          Deployment!RegisteredAsExpected
    <3> QED
      BY <2>2, <3>1, <3>2
  <2>6. step' = "registered" => deployed' # Deployment!NotDeployed
    BY <2>1, <2>2, ConfigFits
  <2>7. step' = "refused" => deployed' = Deployment!NotDeployed
    BY <2>1, <2>2
  <2> HIDE DEF c
  <2> QED
    BY <1>i, <2>1, <2>3, <2>4, <2>5, <2>6, <2>7 DEF Deployment!DeploymentInvariant,
      Deployment!DeploymentTypeOK, Deployment!ServesAsDeployed, Deployment!DetectorsAreOwned,
      Deployment!SettingsFit
\* The rest leaves the deployment alone.
<1>k. ASSUME UNCHANGED <<cmd, shell, deployed>>, step # "start"
      PROVE  /\ Deployment!DeployedAsChecked'
             /\ (deployed # Deployment!NotDeployed => deployed = Deployment!Config(Deployment!Wanted))'
             /\ cmd' \in Deployment!Command /\ shell' \in Deployment!Shell
             /\ deployed'.containers \in Nat
  BY <1>i, <1>k DEF Deployment!DeployedAsChecked, Deployment!RegisteredAsExpected,
    Deployment!Wanted, Deployment!SettingsFit, Deployment!DeploymentTypeOK
<1>3. CASE Deployment!Arrives
  <2>1. /\ step = "registered" /\ step' = "new"
        /\ env' \in Deployment!Arriving(Deployment!FunctionEnv(deployed))
        /\ UNCHANGED <<cmd, shell, deployed, open, models, runtime, gpuMode>>
    BY <1>3 DEF Deployment!Arrives
  <2> QED
    BY <1>i, <1>k, <2>1 DEF Deployment!DeploymentInvariant, Deployment!DeploymentTypeOK,
      Deployment!ServesAsDeployed, Deployment!DetectorsAreOwned, Deployment!SettingsFit
\* A container that ends or dies.
<1>e. ASSUME NEW where \in {"dead", "ended", "killed"}, NEW left,
             left \subseteq Deployment!Prepared \cup Deployment!Loaded,
             where # "killed" => left = {},
             Deployment!Ends(where, left), step \in {"new", "snapshot", "serving"}
      PROVE  Deployment!DeploymentInvariant'
  <2>1. /\ step' = where /\ open' = left /\ models' = "closed" /\ runtime' = {}
        /\ UNCHANGED <<cmd, shell, deployed, env, gpuMode>>
    BY <1>e DEF Deployment!Ends, Deployment!Deployment
  <2> QED
    BY <1>e, <1>i, <1>k, <2>1 DEF Deployment!DeploymentInvariant, Deployment!DeploymentTypeOK,
      Deployment!ServesAsDeployed, Deployment!DetectorsAreOwned, Deployment!SettingsFit
\* Settings that are left alone agree as before.
<1>s. ASSUME UNCHANGED <<cmd, shell, deployed, env>>,
             step \in {"new", "snapshot", "serving"},
             Deployment!GpuSnapshotResolves, Deployment!ConcurrencyAgrees
      PROVE  /\ (Deployment!GpuSnapshotResolves /\ Deployment!ConcurrencyAgrees)'
             /\ env' \in Deployment!Arriving(Deployment!FunctionEnv(deployed'))
             /\ env'.gpu = deployed'.gpu /\ Deployment!StageOf(env'.stage) = deployed'.stage
             /\ deployed'.inputs > 1 => env'.limiter = deployed'.inputs
             /\ env.gpu = deployed.gpu /\ deployed' # Deployment!NotDeployed
  <2>1. /\ cmd \in Deployment!Command /\ deployed = Deployment!Config(Deployment!Wanted)
        /\ env \in Deployment!Arriving(Deployment!FunctionEnv(deployed))
        /\ deployed # Deployment!NotDeployed
    BY <1>i, <1>s DEF Deployment!SettingsFit, Deployment!DeploymentTypeOK
  <2>2. /\ env.gpu = deployed.gpu /\ Deployment!StageOf(env.stage) = deployed.stage
        /\ deployed.inputs > 1 => env.limiter = deployed.inputs
    BY <1>s, <2>1, SettingsAgree
  <2>3. (Deployment!GpuSnapshotResolves /\ Deployment!ConcurrencyAgrees)'
    BY <1>s DEF Deployment!GpuSnapshotResolves, Deployment!ConcurrencyAgrees
  <2> QED
    BY <1>s, <2>1, <2>2, <2>3
<1>4. CASE Deployment!PrepareFails
  BY <1>4, <1>e DEF Deployment!PrepareFails
<1>5. CASE Deployment!PrepareModels
  <2>1. CASE Deployment!Ends("dead", Deployment!Prepared \ Deployment!ClosedByLoad)
    BY <1>5, <1>e, <2>1 DEF Deployment!PrepareModels, Deployment!ClosedByLoad
  <2>2. CASE step' = "snapshot" /\ open' = Deployment!Prepared /\ models' = "open"
             /\ gpuMode' = TRUE /\ UNCHANGED <<Deployment!Deployment, runtime>>
    <3>1. /\ step = "new" /\ Deployment!GpuSnapshotResolves /\ Deployment!ConcurrencyAgrees
          /\ env.gpu /\ UNCHANGED <<cmd, shell, deployed, env>> /\ runtime = {}
          /\ env' = env /\ runtime' = runtime
      BY <1>5, <1>i, <2>2 DEF Deployment!PrepareModels, Deployment!Deployment,
        Deployment!SettingsFit
    <3>2. env'.gpu = gpuMode'
      <4>1. env.gpu \in BOOLEAN
        BY <1>i, <3>1, <1>s, ConfigFits DEF Deployment!SettingsFit, Deployment!DeploymentTypeOK
      <4> QED
        BY <2>2, <3>1, <4>1
    <3> QED
      BY <1>i, <1>k, <1>s, <2>2, <3>1, <3>2 DEF Deployment!DeploymentInvariant,
        Deployment!DeploymentTypeOK, Deployment!ServesAsDeployed, Deployment!DetectorsAreOwned,
        Deployment!SettingsFit
  <2> QED
    BY <1>5, <2>1, <2>2 DEF Deployment!PrepareModels
<1>6. CASE Deployment!PrepareDetectors
  <2>1. /\ step = "new" /\ Deployment!GpuSnapshotResolves /\ Deployment!ConcurrencyAgrees
        /\ ~env.gpu /\ UNCHANGED <<cmd, shell, deployed, env, models, runtime>>
        /\ step' = "snapshot" /\ open' = Deployment!Prepared /\ gpuMode' = FALSE
        /\ models = "none" /\ runtime = {}
    BY <1>6, <1>i DEF Deployment!PrepareDetectors, Deployment!Deployment, Deployment!SettingsFit
  <2>2. env'.gpu = gpuMode'
    <3>1. env.gpu \in BOOLEAN
      BY <1>i, <2>1, <1>s, ConfigFits DEF Deployment!SettingsFit, Deployment!DeploymentTypeOK
    <3> QED
      BY <2>1, <3>1
  <2> QED
    BY <1>i, <1>k, <1>s, <2>1, <2>2 DEF Deployment!DeploymentInvariant,
      Deployment!DeploymentTypeOK, Deployment!ServesAsDeployed, Deployment!DetectorsAreOwned,
      Deployment!SettingsFit
<1>7. CASE Deployment!StartRaises
  BY <1>7, <1>e, <1>i DEF Deployment!StartRaises, Deployment!DeploymentTypeOK
\* What a snapshot that can be restored has.
<1>r. ASSUME Deployment!Restorable, UNCHANGED <<cmd, shell, deployed, env, gpuMode>>
      PROVE  /\ step = "snapshot" /\ open = Deployment!Prepared /\ runtime = {}
             /\ (Deployment!GpuSnapshotResolves /\ Deployment!ConcurrencyAgrees)'
             /\ env' \in Deployment!Arriving(Deployment!FunctionEnv(deployed'))
             /\ env'.gpu = gpuMode' /\ gpuMode' = deployed'.gpu /\ gpuMode' \in BOOLEAN
             /\ Deployment!StageOf(env'.stage) = deployed'.stage
             /\ deployed'.inputs > 1 => env'.limiter = deployed'.inputs
             /\ deployed' # Deployment!NotDeployed
             /\ Deployment!DeployedAsChecked'
             /\ (deployed # Deployment!NotDeployed => deployed = Deployment!Config(Deployment!Wanted))'
             /\ cmd' \in Deployment!Command /\ shell' \in Deployment!Shell
             /\ deployed'.containers \in Nat
  <2>1. step = "snapshot" /\ open = Deployment!Prepared /\ runtime = {}
        /\ gpuMode \in BOOLEAN /\ env.gpu = gpuMode
        /\ Deployment!GpuSnapshotResolves /\ Deployment!ConcurrencyAgrees
    BY <1>i, <1>r DEF Deployment!Restorable, Deployment!DetectorsAreOwned,
      Deployment!SettingsFit, Deployment!DeploymentTypeOK
  <2> QED
    BY <1>k, <1>r, <1>s, <2>1
<1>8. CASE Deployment!MakeModels
  <2>1. /\ Deployment!Restorable /\ UNCHANGED <<cmd, shell, deployed, env, gpuMode>>
        /\ UNCHANGED runtime
        /\ \/ models' = "open" /\ UNCHANGED <<step, open>>
           \/ models' = "closed" /\ step' = "serving"
              /\ open' = Deployment!Prepared \ Deployment!ClosedByLoad
    BY <1>8 DEF Deployment!MakeModels, Deployment!Deployment
  <2> QED
    BY <1>r, <2>1 DEF Deployment!DeploymentInvariant, Deployment!DeploymentTypeOK,
      Deployment!ServesAsDeployed, Deployment!DetectorsAreOwned, Deployment!SettingsFit,
      Deployment!ClosedByLoad
<1>9. CASE Deployment!WarmUpFails
  BY <1>9, <1>e DEF Deployment!WarmUpFails, Deployment!Restorable
<1>10. CASE Deployment!Register
  <2>1. /\ Deployment!Restorable /\ UNCHANGED <<cmd, shell, deployed, env, gpuMode>>
        /\ step' = "serving"
        /\ \/ runtime' = Deployment!Prepared /\ UNCHANGED <<open, models>>
           \/ models' = "closed" /\ open' = {} /\ UNCHANGED runtime
        /\ models = "open"
    BY <1>10 DEF Deployment!Register, Deployment!Deployment, Deployment!Unregistered
  <2> QED
    BY <1>r, <2>1 DEF Deployment!DeploymentInvariant, Deployment!DeploymentTypeOK,
      Deployment!ServesAsDeployed, Deployment!DetectorsAreOwned, Deployment!SettingsFit
<1>11. CASE Deployment!Lookup
  <2>1. /\ step = "serving" /\ step' = "serving" /\ open = {}
        /\ runtime' = Deployment!Loaded /\ open' = Deployment!Loaded
        /\ UNCHANGED <<cmd, shell, deployed, env, models, gpuMode>>
        /\ env.gpu = gpuMode /\ gpuMode \in BOOLEAN
        /\ Deployment!GpuSnapshotResolves /\ Deployment!ConcurrencyAgrees
    BY <1>11, <1>i DEF Deployment!Lookup, Deployment!Deployment, Deployment!DetectorsAreOwned,
      Deployment!SettingsFit, Deployment!DeploymentTypeOK
  <2> QED
    BY <1>i, <1>k, <1>s, <2>1 DEF Deployment!DeploymentInvariant, Deployment!DeploymentTypeOK,
      Deployment!ServesAsDeployed, Deployment!DetectorsAreOwned, Deployment!SettingsFit
<1>12. CASE Deployment!Exit
  <2>1. open \ runtime = {}
    BY <1>12, <1>i DEF Deployment!Exit, Deployment!DetectorsAreOwned
  <2> QED
    BY <1>12, <1>e, <2>1 DEF Deployment!Exit
<1>13. CASE UNCHANGED Deployment!vars
  <2>1. UNCHANGED <<cmd, shell, step, deployed, env, open, models, runtime, gpuMode>>
    BY <1>13 DEF Deployment!vars, Deployment!container
  <2> QED
    BY <1>i, <2>1 DEF Deployment!DeploymentInvariant, Deployment!DeploymentTypeOK,
      Deployment!DeployedAsChecked, Deployment!ServesAsDeployed, Deployment!DetectorsAreOwned,
      Deployment!SettingsFit, Deployment!RegisteredAsExpected, Deployment!GpuSnapshotResolves,
      Deployment!ConcurrencyAgrees, Deployment!Wanted
<1> QED
  BY <1>1, <1>2, <1>3, <1>4, <1>5, <1>6, <1>7, <1>8, <1>9, <1>10, <1>11, <1>12, <1>13
  DEF Deployment!Next

-----------------------------------------------------------------------------
(* The smoke test against Modal (DeploySmoke).                             *)

LEMMA SmokeStep == [Next]_vars => [Smoke!Next]_(Smoke!vars)
BY DEF Next, OthersRest, vars, smoke, Smoke!vars, Smoke!modal

\* DeploySmoke counts with its own instance of FiniteSets.
LEMMA SmokeCounts == \A S : Smoke!Cardinality(S) = Cardinality(S)
BY DEF Smoke!Cardinality, Cardinality

StartLines == {"restoring", "restore_error", "creating_gpu", "creating_cpu", "snap_true", "ready"}
EndLines == {"init_failed", "snapshot_failed", "killed"}
ServedLines == {"get200", "post200", "cuda", "mixed"}

\* What a container writes while it starts.
LEMMA LinesOfAStart ==
    /\ \A start \in Smoke!Started \cup Smoke!NotStarted :
         start \in Seq(Smoke!Line) /\ \A j \in 1..Len(start) : start[j] \notin ServedLines
    /\ \A start \in Smoke!Started :
         /\ \A j \in 1..Len(start) : start[j] \in StartLines
         /\ \/ start = Smoke!Restored
            \/ \E j \in 1..Len(start) : start[j] = "restore_error"
            \/ \A j \in 1..Len(start) : start[j] # "restoring"
<1> USE DEF StartLines, EndLines, ServedLines, Smoke!Line
<1>1. /\ Smoke!Restored \in Seq(Smoke!Line)
      /\ \A j \in 1..Len(Smoke!Restored) : Smoke!Restored[j] \in StartLines
  <2>1. \A j \in 1..2 : j = 1 \/ j = 2
    OBVIOUS
  <2> QED
    BY <2>1 DEF Smoke!Restored
<1>2. /\ Smoke!FellBack \in Seq(Smoke!Line)
      /\ \A j \in 1..Len(Smoke!FellBack) : Smoke!FellBack[j] \in StartLines
      /\ 2 \in 1..Len(Smoke!FellBack) /\ Smoke!FellBack[2] = "restore_error"
  <2>1. \A j \in 1..4 : j = 1 \/ j = 2 \/ j = 3 \/ j = 4
    OBVIOUS
  <2> QED
    BY <2>1 DEF Smoke!FellBack
<1>3. /\ Smoke!Created \in Seq(Smoke!Line)
      /\ \A j \in 1..Len(Smoke!Created) :
           Smoke!Created[j] \in StartLines /\ Smoke!Created[j] # "restoring"
  <2>1. \A j \in 1..3 : j = 1 \/ j = 2 \/ j = 3
    OBVIOUS
  <2> QED
    BY <2>1 DEF Smoke!Created
<1>4. /\ Smoke!NoSnapshot \in Seq(Smoke!Line)
      /\ \A j \in 1..Len(Smoke!NoSnapshot) :
           Smoke!NoSnapshot[j] \in StartLines /\ Smoke!NoSnapshot[j] # "restoring"
  <2>1. \A j \in 1..3 : j = 1 \/ j = 2 \/ j = 3
    OBVIOUS
  <2> QED
    BY <2>1 DEF Smoke!NoSnapshot
<1>5. \A start \in Smoke!NotStarted :
        start \in Seq(Smoke!Line) /\ \A j \in 1..Len(start) : start[j] \notin ServedLines
  <2>1. \A j \in 1..4 : j = 1 \/ j = 2 \/ j = 3 \/ j = 4
    OBVIOUS
  <2>2. \A j \in 1..3 : j = 1 \/ j = 2 \/ j = 3
    OBVIOUS
  <2>3. \A j \in 1..2 : j = 1 \/ j = 2
    OBVIOUS
  <2> DEFINE a == <<"restoring", "init_failed">>
             b == <<"restoring", "killed">>
             c == <<"restoring", "restore_error", "killed">>
             d == <<"creating_gpu", "snap_true", "snapshot_failed", "killed">>
  <2>4. a \in Seq(Smoke!Line) /\ \A j \in 1..Len(a) : a[j] \notin ServedLines
    BY <2>3
  <2>5. b \in Seq(Smoke!Line) /\ \A j \in 1..Len(b) : b[j] \notin ServedLines
    BY <2>3
  <2>6. c \in Seq(Smoke!Line) /\ \A j \in 1..Len(c) : c[j] \notin ServedLines
    BY <2>2
  <2>7. d \in Seq(Smoke!Line) /\ \A j \in 1..Len(d) : d[j] \notin ServedLines
    BY <2>1
  <2>8. Smoke!NotStarted = {a, b, c, d}
    BY DEF Smoke!NotStarted
  <2> HIDE DEF a, b, c, d
  <2> QED
    BY <2>4, <2>5, <2>6, <2>7, <2>8
<1>6. Smoke!Started = {Smoke!Restored, Smoke!FellBack, Smoke!Created, Smoke!NoSnapshot}
  BY DEF Smoke!Started
<1>7. \A x \in StartLines : x \notin ServedLines
  OBVIOUS
<1> HIDE DEF StartLines, EndLines, ServedLines, Smoke!Line
<1> QED
  BY <1>1, <1>2, <1>3, <1>4, <1>5, <1>6, <1>7

Posts == {<<"post200">>, <<"cuda", "post200">>, <<"mixed", "post200">>}

LEMMA LinesOfAnAnswer ==
    /\ Smoke!Serving \subseteq {<<"get200">>} \cup Posts
    /\ \A s \in {<<"get200">>} \cup Posts :
         s \in Seq(Smoke!Line) /\ Len(s) > 0 /\ \A j \in 1..Len(s) : s[j] \in ServedLines
    /\ \A s \in Posts : \A j \in 1..Len(s) : s[j] = "post200" <=> j = Len(s)
<1> DEFINE a == <<"get200">>
           b == <<"post200">>
           c == <<"cuda", "post200">>
           d == <<"mixed", "post200">>
<1>1. \A j \in 1..2 : j = 1 \/ j = 2
  OBVIOUS
<1>2. \A j \in 1..1 : j = 1
  OBVIOUS
<1>3. Smoke!Serving \subseteq {a} \cup Posts /\ Posts = {b, c, d}
  BY DEF Smoke!Serving, Posts
<1>4. a \in Seq(Smoke!Line) /\ Len(a) > 0 /\ \A j \in 1..Len(a) : a[j] \in ServedLines
  BY <1>2 DEF Smoke!Line, ServedLines
<1>5. /\ b \in Seq(Smoke!Line) /\ Len(b) > 0 /\ \A j \in 1..Len(b) : b[j] \in ServedLines
      /\ \A j \in 1..Len(b) : b[j] = "post200" <=> j = Len(b)
  BY <1>2 DEF Smoke!Line, ServedLines
<1>6. /\ c \in Seq(Smoke!Line) /\ Len(c) > 0 /\ \A j \in 1..Len(c) : c[j] \in ServedLines
      /\ \A j \in 1..Len(c) : c[j] = "post200" <=> j = Len(c)
  BY <1>1 DEF Smoke!Line, ServedLines
<1>7. /\ d \in Seq(Smoke!Line) /\ Len(d) > 0 /\ \A j \in 1..Len(d) : d[j] \in ServedLines
      /\ \A j \in 1..Len(d) : d[j] = "post200" <=> j = Len(d)
  BY <1>1 DEF Smoke!Line, ServedLines
<1> HIDE DEF b, c, d
<1>8. \A s \in Posts : s \in Seq(Smoke!Line) /\ Len(s) > 0
                       /\ \A j \in 1..Len(s) : s[j] \in ServedLines
  BY <1>3, <1>5, <1>6, <1>7
<1>9. \A s \in Posts : \A j \in 1..Len(s) : s[j] = "post200" <=> j = Len(s)
  BY <1>3, <1>5, <1>6, <1>7
<1> QED
  BY <1>3, <1>4, <1>8, <1>9

LEMMA SaysIs ==
    ASSUME NEW b \in Smoke!Container, b.shown <= Len(b.lines), NEW line
    PROVE  Smoke!Says(b, line) <=> \E j \in 1..b.shown : b.lines[j] = line
<1> DEFINE l == b.lines
           n == b.shown
           t == SubSeq(l, 1, n)
<1>1. l \in Seq(Smoke!Line) /\ n \in Nat /\ n <= Len(l) /\ Len(l) \in Nat
  BY DEF Smoke!Container
<1> HIDE DEF l, n
<1>2. t \in Seq(Smoke!Line) /\ Len(t) = n /\ \A j \in 1..n : t[j] = l[j]
  BY <1>1
<1>3. DOMAIN t = 1..n
  BY <1>2
<1> HIDE DEF t
<1>4. line \in Smoke!Range(t) <=> \E j \in 1..n : l[j] = line
  BY <1>2, <1>3 DEF Smoke!Range
<1> QED
  BY <1>4 DEF Smoke!Says, l, n, t

\* The lines of a start, and those of an answer behind them.
LEMMA LinesBehind ==
    ASSUME NEW start \in Smoke!Started \cup Smoke!NotStarted,
           NEW s \in {<<"get200">>} \cup Posts, NEW lines, lines = start \o s
    PROVE  /\ lines \in Seq(Smoke!Line) /\ Len(lines) = Len(start) + Len(s)
           /\ Len(start) \in Nat /\ Len(s) \in Nat /\ Len(s) > 0
           /\ \A j \in 1..Len(start) : lines[j] = start[j]
           /\ \A j \in 1..Len(s) : lines[Len(start) + j] = s[j]
           /\ \A j \in 1..Len(lines) : j \in 1..Len(start) \/ j - Len(start) \in 1..Len(s)
<1>1. start \in Seq(Smoke!Line) /\ s \in Seq(Smoke!Line) /\ Len(s) > 0
  BY LinesOfAStart, LinesOfAnAnswer
<1>2. Len(start) \in Nat /\ Len(s) \in Nat
  BY <1>1
<1>3. /\ lines \in Seq(Smoke!Line) /\ Len(lines) = Len(start) + Len(s)
  BY <1>1
<1>4. \A j \in 1..Len(start) : lines[j] = start[j]
  BY <1>1, <1>2
<1>5. \A j \in 1..Len(s) : lines[Len(start) + j] = s[j]
  BY <1>1, <1>2
<1>6. \A j \in 1..Len(lines) : j \in 1..Len(start) \/ j - Len(start) \in 1..Len(s)
  BY <1>2, <1>3
<1> QED
  BY <1>1, <1>2, <1>3, <1>4, <1>5, <1>6

\* What the last box of a phase wrote, and all the others.
Wrote(b) ==
    \/ b.lines = b.start
    \/ b.start \in Smoke!Started /\ \E s \in {<<"get200">>} \cup Posts : b.lines = b.start \o s

LEMMA FailedDidNotStart ==
    ASSUME NEW b \in Smoke!Container, b.shown <= Len(b.lines), Wrote(b),
           Smoke!StartupFailed(b)
    PROVE  b.start \in Smoke!NotStarted
<1> SUFFICES ASSUME b.start \notin Smoke!NotStarted PROVE FALSE
  OBVIOUS
<1>1. b.start \in Smoke!Started /\ b.shown \in Nat /\ Len(b.lines) \in Nat
  BY DEF Smoke!Container
<1>2. \E j \in 1..b.shown : b.lines[j] \in EndLines
  BY SaysIs DEF Smoke!StartupFailed, EndLines
<1>3. PICK j \in 1..Len(b.lines) : b.lines[j] \in EndLines
  BY <1>1, <1>2
<1>4. \A k \in 1..Len(b.start) : b.start[k] \notin EndLines
  BY <1>1, LinesOfAStart DEF StartLines, EndLines
<1>5. CASE b.lines = b.start
  BY <1>3, <1>4, <1>5
<1>6. CASE \E s \in {<<"get200">>} \cup Posts : b.lines = b.start \o s
  <2>1. PICK s \in {<<"get200">>} \cup Posts : b.lines = b.start \o s
    BY <1>6
  <2>2. /\ \A k \in 1..Len(b.start) : b.lines[k] = b.start[k]
        /\ \A k \in 1..Len(s) : b.lines[Len(b.start) + k] = s[k]
        /\ \A k \in 1..Len(b.lines) : k \in 1..Len(b.start) \/ k - Len(b.start) \in 1..Len(s)
        /\ Len(b.start) \in Nat
    BY <1>1, <2>1, LinesBehind
  <2>3. \A k \in 1..Len(s) : s[k] \notin EndLines
    BY LinesOfAnAnswer DEF ServedLines, EndLines
  <2>4. CASE j \in 1..Len(b.start)
    BY <1>3, <1>4, <2>2, <2>4
  <2>5. CASE j - Len(b.start) \in 1..Len(s)
    <3>1. b.lines[Len(b.start) + (j - Len(b.start))] = s[j - Len(b.start)]
      BY <2>2, <2>5
    <3>2. Len(b.start) + (j - Len(b.start)) = j
      BY <1>1, <1>3, <2>2
    <3> QED
      BY <1>3, <2>3, <2>5, <3>1, <3>2
  <2> QED
    BY <1>3, <2>2, <2>4, <2>5
<1> QED
  BY <1>5, <1>6 DEF Wrote

\* Only a container that came out of the snapshot as it was is a hit.
LEMMA HitIsRestored ==
    ASSUME NEW b \in Smoke!Container, b.shown <= Len(b.lines),
           \/ b.lines = b.start
           \/ b.start \in Smoke!Started /\ \E s \in Posts : b.lines = b.start \o s,
           Smoke!Says(b, "post200"), Smoke!SnapshotState(b) = "hit", ~Smoke!Says(b, "mixed")
    PROVE  /\ b.start = Smoke!Restored
           /\ Smoke!Last(b.lines) = "post200" /\ "mixed" \notin Smoke!Range(b.lines)
<1>1. /\ b.start \in Smoke!Started \cup Smoke!NotStarted /\ b.shown \in Nat
      /\ b.lines \in Seq(Smoke!Line) /\ Len(b.lines) \in Nat
      /\ DOMAIN b.lines = 1..Len(b.lines)
  <2>1. b.lines \in Seq(Smoke!Line)
    BY DEF Smoke!Container
  <2> DEFINE l == b.lines
  <2> HIDE DEF l
  <2>2. l \in Seq(Smoke!Line) => Len(l) \in Nat /\ DOMAIN l = 1..Len(l)
    OBVIOUS
  <2> QED
    BY <2>1, <2>2 DEF Smoke!Container, l
<1>2. PICK j \in 1..b.shown : b.lines[j] = "post200"
  BY SaysIs
<1>3. b.lines # b.start
  <2>1. \A k \in 1..Len(b.start) : b.start[k] # "post200"
    BY <1>1, LinesOfAStart DEF ServedLines
  <2> QED
    BY <1>1, <1>2, <2>1
<1>4. PICK s \in Posts : b.start \in Smoke!Started /\ b.lines = b.start \o s
  BY <1>3
<1>5. /\ Len(b.lines) = Len(b.start) + Len(s)
      /\ Len(b.start) \in Nat /\ Len(s) \in Nat /\ Len(s) > 0
      /\ \A k \in 1..Len(b.start) : b.lines[k] = b.start[k]
      /\ \A k \in 1..Len(s) : b.lines[Len(b.start) + k] = s[k]
      /\ \A k \in 1..Len(b.lines) : k \in 1..Len(b.start) \/ k - Len(b.start) \in 1..Len(s)
  <2>1. s \in {<<"get200">>} \cup Posts
    BY <1>4
  <2> DEFINE start == b.start
             lines == b.lines
  <2>2. start \in Smoke!Started \cup Smoke!NotStarted /\ lines = start \o s
    BY <1>1, <1>4
  <2> HIDE DEF start, lines
  <2>3. /\ Len(lines) = Len(start) + Len(s)
        /\ Len(start) \in Nat /\ Len(s) \in Nat /\ Len(s) > 0
        /\ \A k \in 1..Len(start) : lines[k] = start[k]
        /\ \A k \in 1..Len(s) : lines[Len(start) + k] = s[k]
        /\ \A k \in 1..Len(lines) : k \in 1..Len(start) \/ k - Len(start) \in 1..Len(s)
    BY <2>1, <2>2, LinesBehind
  <2> QED
    BY <2>3 DEF start, lines
\* The answer is its last line, so all of the lines were shown.
<1>6. j = Len(b.lines) /\ b.shown = Len(b.lines)
  <2>1. j \notin 1..Len(b.start)
    BY <1>1, <1>2, <1>5, LinesOfAStart DEF ServedLines
  <2>2. j \in 1..Len(b.lines)
    BY <1>1
  <2>3. j - Len(b.start) \in 1..Len(s)
    BY <1>5, <2>1, <2>2
  <2>4. s[j - Len(b.start)] = "post200"
    <3>1. b.lines[Len(b.start) + (j - Len(b.start))] = s[j - Len(b.start)]
      BY <1>5, <2>3
    <3>2. Len(b.start) + (j - Len(b.start)) = j
      BY <1>5, <2>2
    <3> QED
      BY <1>2, <3>1, <3>2
  <2>5. j - Len(b.start) = Len(s)
    BY <2>3, <2>4, LinesOfAnAnswer
  <2> QED
    BY <1>1, <1>5, <2>2, <2>5
<1>7. "mixed" \notin Smoke!Range(b.lines)
  <2>1. ~\E k \in 1..Len(b.lines) : b.lines[k] = "mixed"
    BY <1>6, SaysIs
  <2> QED
    BY <1>1, <2>1 DEF Smoke!Range
<1>8. Smoke!Last(b.lines) = "post200"
  BY <1>2, <1>6 DEF Smoke!Last
<1>9. Smoke!Says(b, "restoring") /\ ~Smoke!Says(b, "restore_error")
  BY DEF Smoke!SnapshotState
<1>10. b.start = Smoke!Restored
  <2>1. ~\E k \in 1..Len(b.start) : b.start[k] = "restore_error"
    <3>1. \A k \in 1..Len(b.start) : k \in 1..b.shown /\ b.lines[k] = b.start[k]
      BY <1>1, <1>5, <1>6
    <3>2. ~\E k \in 1..b.shown : b.lines[k] = "restore_error"
      BY <1>9, SaysIs
    <3> QED
      BY <3>1, <3>2
  <2>2. \E k \in 1..Len(b.start) : b.start[k] = "restoring"
    <3>1. PICK k \in 1..Len(b.lines) : b.lines[k] = "restoring"
      BY <1>6, <1>9, SaysIs
    <3>2. CASE k \in 1..Len(b.start)
      BY <1>5, <3>1, <3>2
    <3>3. CASE k - Len(b.start) \in 1..Len(s)
      <4>1. b.lines[Len(b.start) + (k - Len(b.start))] = s[k - Len(b.start)]
        BY <1>5, <3>3
      <4>2. Len(b.start) + (k - Len(b.start)) = k
        BY <1>1, <1>5
      <4>3. s[k - Len(b.start)] # "restoring"
        <5>1. \A i \in 1..Len(s) : s[i] # "restoring"
          BY LinesOfAnAnswer DEF ServedLines
        <5> QED
          BY <3>3, <5>1
      <4>4. b.lines[Len(b.start) + (k - Len(b.start))] = b.lines[k]
        BY <4>2
      <4> QED
        BY <3>1, <4>1, <4>3, <4>4
    <3> QED
      BY <1>5, <3>2, <3>3
  <2> QED
    BY <1>4, <2>1, <2>2, LinesOfAStart
<1> QED
  BY <1>7, <1>8, <1>10

Broken == {i \in DOMAIN boxes : boxes[i].born = smokePhase /\ boxes[i].start \in Smoke!NotStarted}

LEMMA BoxesAre ==
    ASSUME boxes \in Seq(Smoke!Container)
    PROVE  /\ Len(boxes) \in Nat /\ DOMAIN boxes = 1..Len(boxes)
           /\ \A i \in 1..Len(boxes) : boxes[i] \in Smoke!Container
           /\ boxes # <<>> <=> Len(boxes) > 0
           /\ IsFiniteSet(DOMAIN boxes)
<1>1. Len(boxes) \in Nat /\ DOMAIN boxes = 1..Len(boxes)
  OBVIOUS
<1>2. IsFiniteSet(1..Len(boxes))
  BY <1>1, FS_Interval
<1>3. boxes # <<>> <=> Len(boxes) > 0
  BY <1>1
<1>4. \A i \in 1..Len(boxes) : boxes[i] \in Smoke!Container
  OBVIOUS
<1> QED
  BY <1>1, <1>2, <1>3, <1>4

\* Whoever is held against the deployment belongs to this phase and did not start.
LEMMA BlamedAreBroken ==
    ASSUME Smoke!SmokeTypeOK, Smoke!LinesFit
    PROVE  /\ \A i \in Smoke!Seen :
                /\ boxes[i] \in Smoke!Container /\ boxes[i].shown <= Len(boxes[i].lines)
                /\ boxes[i].born = smokePhase /\ i \in 1..Len(boxes)
                /\ Wrote(boxes[i])
                /\ boxes[i].lines # boxes[i].start => i = Len(boxes)
                /\ \/ boxes[i].lines = boxes[i].start
                   \/ smokePhase = 0
                   \/ /\ boxes[i].start \in Smoke!Started
                      /\ \E s \in Posts : boxes[i].lines = boxes[i].start \o s
           /\ Smoke!SnapshotFailures \subseteq Broken /\ Smoke!StartupFailures \subseteq Broken
           /\ Smoke!Cardinality(Smoke!StartupFailures) <= Smoke!Cardinality(Broken)
           /\ Smoke!Cardinality(Smoke!SnapshotFailures) \in Nat
           /\ Smoke!Cardinality(Smoke!StartupFailures) \in Nat
           /\ Smoke!Cardinality(Broken) \in Nat
           /\ Smoke!Cardinality(Smoke!SnapshotFailures) > 0 => Smoke!SnapshotFailures # {}
<1>1. boxes \in Seq(Smoke!Container)
  BY DEF Smoke!SmokeTypeOK
<1>2. ASSUME NEW i \in Smoke!Seen
      PROVE  /\ boxes[i] \in Smoke!Container /\ boxes[i].shown <= Len(boxes[i].lines)
             /\ boxes[i].born = smokePhase /\ i \in 1..Len(boxes)
             /\ boxes[i].lines # boxes[i].start => i = Len(boxes)
             /\ \/ boxes[i].lines = boxes[i].start
                \/ /\ boxes[i].start \in Smoke!Started
                   /\ \E s \in Smoke!Serving : boxes[i].lines = boxes[i].start \o s
  BY <1>1, BoxesAre DEF Smoke!Seen, Smoke!Considered, Smoke!LinesFit, Smoke!SmokeTypeOK
<1>3. smokePhase # 0 => Smoke!Serving = Posts
  BY DEF Smoke!Serving, Posts
<1>4. ASSUME NEW i \in Smoke!Seen
      PROVE  /\ Wrote(boxes[i])
             /\ \/ boxes[i].lines = boxes[i].start
                \/ smokePhase = 0
                \/ /\ boxes[i].start \in Smoke!Started
                   /\ \E s \in Posts : boxes[i].lines = boxes[i].start \o s
  BY <1>2, <1>3, LinesOfAnAnswer DEF Wrote
<1>5. ASSUME NEW i \in Smoke!StartupFailures PROVE i \in Broken
  <2>1. i \in Smoke!Seen /\ Smoke!StartupFailed(boxes[i])
    BY DEF Smoke!StartupFailures
  <2>2. boxes[i].start \in Smoke!NotStarted
    BY <1>2, <1>4, <2>1, FailedDidNotStart
  <2> QED
    BY <1>1, <1>2, <2>1, <2>2, BoxesAre DEF Broken
<1>6. Smoke!SnapshotFailures \subseteq Smoke!StartupFailures
  BY DEF Smoke!SnapshotFailures, Smoke!StartupFailures, Smoke!SnapshotFailed, Smoke!StartupFailed
<1>7. IsFiniteSet(Broken) /\ Cardinality(Broken) \in Nat
  <2>1. IsFiniteSet(DOMAIN boxes) /\ Broken \subseteq DOMAIN boxes
    BY <1>1, BoxesAre DEF Broken
  <2> QED
    BY <2>1, FS_Subset, FS_CardinalityType
<1>8. /\ Cardinality(Smoke!StartupFailures) \in Nat
      /\ Cardinality(Smoke!StartupFailures) <= Cardinality(Broken)
  BY <1>5, <1>7, SubsetCounted
<1>9. IsFiniteSet(Smoke!SnapshotFailures) /\ Cardinality(Smoke!SnapshotFailures) \in Nat
  <2>1. Smoke!SnapshotFailures \in SUBSET Broken
    BY <1>5, <1>6
  <2> QED
    BY <1>7, <2>1, SubsetCounted
<1>10. Cardinality(Smoke!SnapshotFailures) > 0 => Smoke!SnapshotFailures # {}
  BY FS_EmptySet
<1> QED
  BY <1>2, <1>4, <1>5, <1>6, <1>7, <1>8, <1>9, <1>10, SmokeCounts

LEMMA SmokeInit == Init => Smoke!SmokeInvariant
<1> SUFFICES ASSUME Init PROVE Smoke!SmokeInvariant
  OBVIOUS
<1>0. MaxMissRetries \in Nat /\ MaxBoxes \in Nat \ {0}
  BY OtherAssumption DEF Smoke!SmokeAssumption
<1>1. Smoke!Init
  BY DEF Init
<1>2. boxes = <<>> /\ boxes \in Seq(Smoke!Container) /\ Len(boxes) = 0 /\ DOMAIN boxes = {}
  BY <1>1 DEF Smoke!Init
<1>3. Smoke!SmokeTypeOK
  <2>1. 0 \in 0..(MaxMissRetries + 1) /\ 0 <= MaxBoxes
    BY <1>0
  <2>2. smokePhase \in 0..(MaxMissRetries + 1) /\ Len(boxes) <= MaxBoxes
    BY <1>1, <1>2, <2>1 DEF Smoke!Init
  <2>3. \A i \in DOMAIN boxes :
          boxes[i].shown <= Len(boxes[i].lines) /\ boxes[i].born <= smokePhase
    BY <1>2
  <2> QED
    BY <1>1, <1>2, <2>2, <2>3 DEF Smoke!Init, Smoke!SmokeTypeOK
<1>4. Smoke!LinesFit /\ Smoke!StepsFit
  BY <1>1, <1>2 DEF Smoke!Init, Smoke!LinesFit, Smoke!StepsFit
<1>5. Smoke!PassMeansRestored /\ Smoke!BlameIsTrue /\ Smoke!ProtectedUntouched
  BY <1>1 DEF Smoke!Init, Smoke!PassMeansRestored, Smoke!BlameIsTrue, Smoke!ProtectedUntouched
<1> QED
  BY <1>3, <1>4, <1>5 DEF Smoke!SmokeInvariant

\* One member of a sequence is exchanged.
LEMMA OneExchanged ==
    ASSUME NEW S, NEW q \in Seq(S), NEW k \in 1..Len(q), NEW d \in S
    PROVE  /\ [q EXCEPT ![k] = d] \in Seq(S) /\ Len([q EXCEPT ![k] = d]) = Len(q)
           /\ DOMAIN [q EXCEPT ![k] = d] = 1..Len(q)
           /\ [q EXCEPT ![k] = d][k] = d
           /\ \A i \in 1..Len(q) : i # k => [q EXCEPT ![k] = d][i] = q[i]
OBVIOUS

LEMMA SmokeNext ==
    Smoke!SmokeInvariant /\ [Smoke!Next]_(Smoke!vars) => Smoke!SmokeInvariant'
<1> SUFFICES ASSUME Smoke!SmokeInvariant, [Smoke!Next]_(Smoke!vars)
             PROVE  Smoke!SmokeInvariant'
  OBVIOUS
<1>0. /\ MaxMissRetries \in Nat /\ MaxBoxes \in Nat \ {0}
      /\ MaxInitFailures \in Nat \ {0} /\ MaxSnapshotFailures \in Nat \ {0}
  BY OtherAssumption DEF Smoke!SmokeAssumption
<1>i. /\ Smoke!SmokeTypeOK /\ Smoke!LinesFit /\ Smoke!StepsFit
      /\ Smoke!PassMeansRestored /\ Smoke!BlameIsTrue /\ Smoke!ProtectedUntouched
  BY DEF Smoke!SmokeInvariant
<1>b. /\ boxes \in Seq(Smoke!Container) /\ Len(boxes) \in Nat /\ DOMAIN boxes = 1..Len(boxes)
      /\ \A i \in 1..Len(boxes) : boxes[i] \in Smoke!Container
      /\ boxes # <<>> <=> Len(boxes) > 0
      /\ smokePhase \in Nat
  BY <1>0, <1>i, BoxesAre DEF Smoke!SmokeTypeOK
\* The last container, when there is one.
<1>x. boxes # <<>> => Len(boxes) \in 1..Len(boxes)
  BY <1>b
\* The smoke test fails.
<1>f. ASSUME NEW why \in Smoke!Failure, Smoke!Fail(why),
             smokePc \notin {"passed", "failing", "failed"},
             why = "snapshot" => Broken # {},
             why = "init" => Smoke!Cardinality(Broken) >= MaxInitFailures
      PROVE  Smoke!SmokeInvariant'
  <2>1. /\ smokePc' = "failing" /\ verdict' = why /\ request' = "none"
        /\ UNCHANGED <<smokePhase, target, boxes, live, touched>>
    BY <1>f DEF Smoke!Fail, Smoke!ToolGoes, Smoke!modal
  <2>2. Smoke!SmokeTypeOK'
    BY <1>f, <1>i, <2>1 DEF Smoke!SmokeTypeOK
  <2>3. Smoke!LinesFit'
    BY <1>i, <2>1 DEF Smoke!LinesFit, Smoke!Serving
  <2>4. touched = "none" /\ why # "none"
    BY <1>f, <1>i DEF Smoke!StepsFit, Smoke!Failure
  <2>5. Smoke!StepsFit' /\ Smoke!PassMeansRestored' /\ Smoke!ProtectedUntouched'
    BY <2>1, <2>4 DEF Smoke!StepsFit, Smoke!PassMeansRestored, Smoke!ProtectedUntouched
  <2>6. Smoke!BlameIsTrue'
    <3>1. Broken' = Broken
      BY <2>1 DEF Broken, Smoke!NotStarted
    <3>2. verdict' = "snapshot" => Broken' # {}
      BY <1>f, <2>1, <3>1
    <3>3. verdict' = "init" => Smoke!Cardinality(Broken') >= MaxInitFailures
      BY <1>f, <2>1, <3>1
    <3> QED
      BY <3>2, <3>3 DEF Smoke!BlameIsTrue, Broken
  <2> QED
    BY <2>2, <2>3, <2>5, <2>6 DEF Smoke!SmokeInvariant
\* The smoke test goes on to a step that says nothing of the containers.
<1>1. CASE Smoke!Send
  <2>1. /\ smokePc = "zero" /\ ~live /\ smokePc' = "watch" /\ request' = "sent"
        /\ UNCHANGED <<smokePhase, target, boxes, live, touched, verdict>>
    BY <1>1 DEF Smoke!Send, Smoke!ToolGoes, Smoke!modal
  <2>2. Smoke!SmokeTypeOK'
    BY <1>i, <2>1 DEF Smoke!SmokeTypeOK
  <2>3. Smoke!LinesFit'
    <3>1. \A i \in 1..Len(boxes) : boxes[i].born # smokePhase
      <4>1. \A i \in 1..Len(boxes) : boxes[i].born \in Nat
        BY <1>b DEF Smoke!Container
      <4>2. \A i \in 1..Len(boxes) : boxes[i].born < smokePhase
        BY <1>b, <1>i, <2>1 DEF Smoke!LinesFit
      <4> QED
        BY <1>b, <4>1, <4>2
    <3> QED
      BY <1>b, <1>i, <2>1, <3>1 DEF Smoke!LinesFit
  <2>4. Smoke!StepsFit' /\ Smoke!PassMeansRestored' /\ Smoke!BlameIsTrue'
    BY <1>i, <2>1 DEF Smoke!StepsFit, Smoke!PassMeansRestored, Smoke!BlameIsTrue
  <2>5. Smoke!ProtectedUntouched'
    BY <1>i, <2>1 DEF Smoke!ProtectedUntouched
  <2> QED
    BY <2>2, <2>3, <2>4, <2>5 DEF Smoke!SmokeInvariant
<1>2. CASE Smoke!ScaleDownTimesOut
  BY <1>2, <1>f DEF Smoke!ScaleDownTimesOut, Smoke!Failure
<1>3. CASE Smoke!WatchStops
  <2>1. smokePc = "watch" /\ "snapshot" \in Smoke!Failure /\ "init" \in Smoke!Failure
    BY <1>3 DEF Smoke!WatchStops, Smoke!Failure
  <2>2. CASE Smoke!Cardinality(Smoke!SnapshotFailures) >= MaxSnapshotFailures
             /\ Smoke!Fail("snapshot")
    <3>1. Broken # {}
      <4> DEFINE n == Smoke!Cardinality(Smoke!SnapshotFailures)
      <4>1. n \in Nat /\ (n > 0 => Smoke!SnapshotFailures # {})
            /\ Smoke!SnapshotFailures \subseteq Broken
        BY <1>i, BlamedAreBroken
      <4>2. n >= MaxSnapshotFailures
        BY <2>2
      <4> HIDE DEF n
      <4>3. n > 0
        BY <1>0, <4>1, <4>2
      <4> QED
        BY <4>1, <4>3
    <3> QED
      BY <1>f, <2>1, <2>2, <3>1
  <2>3. CASE Smoke!Cardinality(Smoke!StartupFailures) >= MaxInitFailures /\ Smoke!Fail("init")
    <3>1. Smoke!Cardinality(Broken) >= MaxInitFailures
      <4> DEFINE n == Smoke!Cardinality(Smoke!StartupFailures)
                 m == Smoke!Cardinality(Broken)
      <4>1. n \in Nat /\ m \in Nat /\ n <= m
        BY <1>i, BlamedAreBroken
      <4>2. n >= MaxInitFailures
        BY <2>3
      <4> HIDE DEF n, m
      <4>3. m >= MaxInitFailures
        BY <1>0, <4>1, <4>2
      <4> QED
        BY <4>3 DEF m
    <3> QED
      BY <1>f, <2>1, <2>3, <3>1
  <2> QED
    BY <1>3, <2>2, <2>3 DEF Smoke!WatchStops
<1>4. CASE Smoke!WatchTimesOut
  BY <1>4, <1>f DEF Smoke!WatchTimesOut, Smoke!Failure
<1>5. CASE Smoke!WatchEnds
  <2>1. CASE Smoke!Fail("request")
    BY <1>5, <1>f, <2>1 DEF Smoke!WatchEnds, Smoke!Failure
  <2>2. CASE /\ request \in {"ok", "refused"}
             /\ Smoke!ToolGoes("judge") /\ UNCHANGED <<smokePhase, request, verdict>>
    <3>1. /\ smokePc = "watch" /\ smokePc' = "judge"
          /\ UNCHANGED <<smokePhase, target, request, boxes, live, touched, verdict>>
      BY <1>5, <2>2 DEF Smoke!WatchEnds, Smoke!ToolGoes, Smoke!modal
    <3>2. Smoke!SmokeTypeOK'
      BY <1>i, <3>1 DEF Smoke!SmokeTypeOK
    <3>3. Smoke!LinesFit'
      BY <1>i, <3>1 DEF Smoke!LinesFit, Smoke!Serving
    <3>4. Smoke!StepsFit' /\ Smoke!PassMeansRestored' /\ Smoke!BlameIsTrue'
      BY <1>i, <2>2, <3>1 DEF Smoke!StepsFit, Smoke!PassMeansRestored, Smoke!BlameIsTrue
    <3>5. Smoke!ProtectedUntouched'
      BY <1>i, <3>1 DEF Smoke!ProtectedUntouched
    <3> QED
      BY <3>2, <3>3, <3>4, <3>5 DEF Smoke!SmokeInvariant
  <2> QED
    BY <1>5, <2>1, <2>2 DEF Smoke!WatchEnds
\* Another attempt, of whose earlier containers only the last one is kept.
<1>a. ASSUME Smoke!Again, boxes # <<>>, smokePhase <= MaxMissRetries, smokePc = "judge"
      PROVE  Smoke!SmokeInvariant'
  <2> DEFINE b == boxes[Len(boxes)]
             c == [b EXCEPT !.shown = Len(b.lines)]
  <2>1. /\ smokePc' = "zero" /\ smokePhase' = smokePhase + 1 /\ request' = "none"
        /\ boxes' = <<c>> /\ UNCHANGED <<target, live, verdict, touched>>
    BY <1>a DEF Smoke!Again, Smoke!Box
  <2>2. b \in Smoke!Container /\ b.born <= smokePhase /\ Len(b.lines) \in Nat
    <3>1. b \in Smoke!Container /\ b.born <= smokePhase
      BY <1>a, <1>b, <1>i, <1>x DEF Smoke!SmokeTypeOK
    <3>2. b.lines \in Seq(Smoke!Line)
      BY <3>1 DEF Smoke!Container
    <3> DEFINE l == b.lines
    <3> HIDE DEF l
    <3>3. l \in Seq(Smoke!Line) => Len(l) \in Nat
      OBVIOUS
    <3> QED
      BY <3>1, <3>2, <3>3 DEF l
  <2>3. /\ c \in Smoke!Container /\ c.shown <= Len(c.lines) /\ c.born <= smokePhase
        /\ c.born \in Nat
    BY <2>2 DEF Smoke!Container
  <2> HIDE DEF c
  <2>4. /\ boxes' \in Seq(Smoke!Container) /\ Len(boxes') = 1 /\ DOMAIN boxes' = {1}
        /\ boxes'[1] = c /\ boxes' # <<>>
    BY <2>1, <2>3
  <2>5. Smoke!SmokeTypeOK'
    <3>1. smokePhase' \in 0..(MaxMissRetries + 1) /\ 1 <= MaxBoxes
      BY <1>0, <1>a, <1>b, <2>1
    <3>2. \A i \in DOMAIN boxes' :
            boxes'[i].shown <= Len(boxes'[i].lines) /\ boxes'[i].born <= smokePhase'
      BY <1>b, <2>1, <2>3, <2>4
    <3> QED
      BY <1>i, <2>1, <2>4, <3>1, <3>2 DEF Smoke!SmokeTypeOK
  <2>6. Smoke!LinesFit'
    <3>1. \A i \in DOMAIN boxes' : boxes'[i].born < smokePhase'
      BY <1>b, <2>1, <2>3, <2>4
    <3>2. \A i \in DOMAIN boxes' : boxes'[i].born # smokePhase'
      BY <1>b, <2>1, <2>3, <2>4
    <3> QED
      BY <2>1, <2>4, <3>1, <3>2 DEF Smoke!LinesFit
  <2>7. Smoke!StepsFit' /\ Smoke!PassMeansRestored' /\ Smoke!BlameIsTrue'
    BY <1>a, <1>i, <2>1 DEF Smoke!StepsFit, Smoke!PassMeansRestored, Smoke!BlameIsTrue
  <2>8. Smoke!ProtectedUntouched'
    BY <1>i, <2>1 DEF Smoke!ProtectedUntouched
  <2> QED
    BY <2>5, <2>6, <2>7, <2>8 DEF Smoke!SmokeInvariant
\* What a judgement rests on.
<1>j. /\ Smoke!Judgement \in {"snapshot_failed", "init_failure", "snapshot_disabled",
                              "incomplete", "hit", "miss", "restore_failed_fallback"}
      /\ Smoke!Judgement = "snapshot_failed" => Smoke!SnapshotFailures # {}
      /\ Smoke!Judgement \in {"hit", "miss", "restore_failed_fallback"} =>
           \E i \in Smoke!Seen :
             /\ Smoke!Says(boxes[i], IF smokePhase = 0 THEN "get200" ELSE "post200")
             /\ Smoke!Judgement = Smoke!SnapshotState(boxes[i])
  <2> DEFINE line == IF smokePhase = 0 THEN "get200" ELSE "post200"
             served == {i \in Smoke!Seen : Smoke!Says(boxes[i], line)}
             one == CHOOSE i \in served : TRUE
  <2>1. \/ Smoke!SnapshotFailures # {} /\ Smoke!Judgement = "snapshot_failed"
        \/ Smoke!Judgement \in {"init_failure", "incomplete"}
        \/ /\ Smoke!StartupFailures = {} /\ served # {}
           /\ Smoke!Judgement = Smoke!SnapshotState(boxes[one])
    BY DEF Smoke!Judgement
  <2>2. CASE Smoke!SnapshotFailures # {} /\ Smoke!Judgement = "snapshot_failed"
    BY <2>2
  <2>3. CASE Smoke!Judgement \in {"init_failure", "incomplete"}
    BY <2>3
  <2>4. CASE /\ Smoke!StartupFailures = {} /\ served # {}
             /\ Smoke!Judgement = Smoke!SnapshotState(boxes[one])
    <3>1. one \in served
      BY <2>4
    <3>2. one \in Smoke!Seen /\ Smoke!Says(boxes[one], line)
      BY <3>1
    <3>3. ~Smoke!StartupFailed(boxes[one])
      BY <2>4, <3>2 DEF Smoke!StartupFailures
    <3>4. Smoke!SnapshotState(boxes[one]) # "snapshot_failed"
      BY <3>3 DEF Smoke!SnapshotState, Smoke!SnapshotFailed, Smoke!StartupFailed
    <3>5. \A b : Smoke!SnapshotState(b) \in
                   {"snapshot_failed", "init_failure", "snapshot_disabled", "incomplete",
                    "hit", "miss", "restore_failed_fallback"}
      BY DEF Smoke!SnapshotState
    <3> HIDE DEF one
    <3> QED
      BY <2>4, <3>2, <3>4, <3>5
  <2> QED
    BY <2>1, <2>2, <2>3, <2>4
<1>v. /\ Smoke!SnapshotFailures # {} => Broken # {}
      /\ (\E i \in Smoke!Seen : TRUE) => boxes # <<>>
  BY <1>b, <1>i, BlamedAreBroken
<1>6. CASE Smoke!JudgeWarmup
  <2>1. smokePc = "judge" /\ smokePhase = 0
    BY <1>6 DEF Smoke!JudgeWarmup
  <2>2. \/ Smoke!Judgement = "snapshot_failed" /\ Smoke!Fail("snapshot")
        \/ /\ Smoke!Judgement \in {"hit", "miss", "restore_failed_fallback"} /\ Smoke!Again
        \/ Smoke!Fail("warmup")
    BY <1>6 DEF Smoke!JudgeWarmup
  <2>3. {"snapshot", "warmup"} \subseteq Smoke!Failure
    BY DEF Smoke!Failure
  <2>4. 0 <= MaxMissRetries
    BY <1>0
  <2> QED
    BY <1>a, <1>f, <1>j, <1>v, <2>1, <2>2, <2>3, <2>4
<1>7. CASE Smoke!JudgeValidation
  <2>1. smokePc = "judge" /\ smokePhase > 0
    BY <1>7 DEF Smoke!JudgeValidation
  <2>2. \/ Smoke!Judgement = "snapshot_failed" /\ Smoke!Fail("snapshot")
        \/ \E why \in {"validation", "restore", "cuda"} : Smoke!Fail(why)
        \/ /\ Smoke!Judgement \in {"hit", "miss", "restore_failed_fallback"} /\ Smoke!Again
           /\ smokePhase <= MaxMissRetries
        \/ /\ Smoke!Judgement = "hit" /\ ~Smoke!NotOnCuda /\ request = "ok"
           /\ Smoke!ToolGoes("s3") /\ UNCHANGED <<smokePhase, request, verdict>>
    <3> DEFINE j == Smoke!Judgement
    <3>1. j \in {"snapshot_failed", "init_failure", "snapshot_disabled", "incomplete",
                 "hit", "miss", "restore_failed_fallback"}
      BY <1>j
    <3>2. CASE request # "ok"
      BY <1>7, <3>2 DEF Smoke!JudgeValidation
    <3>3. CASE request = "ok" /\ j = "snapshot_failed"
      BY <1>7, <3>3 DEF Smoke!JudgeValidation
    <3>4. CASE request = "ok" /\ j \in {"init_failure", "snapshot_disabled", "incomplete"}
      BY <1>7, <3>4 DEF Smoke!JudgeValidation
    <3>5. CASE request = "ok" /\ j \in {"hit", "miss", "restore_failed_fallback"}
      BY <1>7, <3>5 DEF Smoke!JudgeValidation
    <3> QED
      BY <3>1, <3>2, <3>3, <3>4, <3>5
  <2>3. {"snapshot", "validation", "restore", "cuda"} \subseteq Smoke!Failure
    BY DEF Smoke!Failure
  <2>4. CASE Smoke!Judgement = "snapshot_failed" /\ Smoke!Fail("snapshot")
    BY <1>f, <1>j, <1>v, <2>1, <2>3, <2>4
  <2>5. CASE \E why \in {"validation", "restore", "cuda"} : Smoke!Fail(why)
    BY <1>f, <2>1, <2>3, <2>5
  <2>6. CASE /\ Smoke!Judgement \in {"hit", "miss", "restore_failed_fallback"} /\ Smoke!Again
             /\ smokePhase <= MaxMissRetries
    BY <1>a, <1>j, <1>v, <2>1, <2>6
  <2>7. CASE /\ Smoke!Judgement = "hit" /\ ~Smoke!NotOnCuda /\ request = "ok"
             /\ Smoke!ToolGoes("s3") /\ UNCHANGED <<smokePhase, request, verdict>>
    <3>1. /\ smokePc' = "s3" /\ request = "ok"
          /\ UNCHANGED <<smokePhase, target, request, boxes, live, touched, verdict>>
      BY <2>7 DEF Smoke!ToolGoes, Smoke!modal
    <3>2. PICK i \in Smoke!Seen :
            Smoke!Says(boxes[i], "post200") /\ Smoke!SnapshotState(boxes[i]) = "hit"
      BY <1>b, <1>j, <2>1, <2>7
    <3>3. ~Smoke!Says(boxes[i], "mixed")
      BY <2>7, <3>2 DEF Smoke!NotOnCuda
    <3>4. /\ boxes[i] \in Smoke!Container /\ boxes[i].shown <= Len(boxes[i].lines)
          /\ boxes[i].born = smokePhase /\ i \in 1..Len(boxes)
          /\ boxes[i].lines # boxes[i].start => i = Len(boxes)
          /\ \/ boxes[i].lines = boxes[i].start
             \/ /\ boxes[i].start \in Smoke!Started
                /\ \E s \in Posts : boxes[i].lines = boxes[i].start \o s
      BY <1>i, <2>1, BlamedAreBroken
    <3>5. /\ boxes[i].start = Smoke!Restored
          /\ Smoke!Last(boxes[i].lines) = "post200"
          /\ "mixed" \notin Smoke!Range(boxes[i].lines)
      BY <3>2, <3>3, <3>4, HitIsRestored
    <3>6. i = Len(boxes)
      <4>1. Smoke!Last(Smoke!Restored) # "post200"
        BY DEF Smoke!Restored, Smoke!Last
      <4> QED
        BY <3>4, <3>5, <4>1
    <3>7. boxes # <<>> /\ Smoke!Box = boxes[i]
      BY <1>b, <3>4, <3>6 DEF Smoke!Box
    <3>8. Smoke!SmokeTypeOK'
      BY <1>i, <3>1 DEF Smoke!SmokeTypeOK
    <3>9. Smoke!LinesFit'
      BY <1>i, <3>1 DEF Smoke!LinesFit, Smoke!Serving
    <3>10. Smoke!StepsFit'
      <4>1. Smoke!Box' = Smoke!Box /\ touched = "none"
        BY <1>i, <2>1, <3>1 DEF Smoke!Box, Smoke!StepsFit
      <4> QED
        BY <3>1, <3>4, <3>5, <3>7, <4>1 DEF Smoke!StepsFit, Smoke!Restored
    <3>11. Smoke!PassMeansRestored' /\ Smoke!BlameIsTrue'
      BY <3>1 DEF Smoke!PassMeansRestored, Smoke!BlameIsTrue
    <3>12. Smoke!ProtectedUntouched'
      BY <1>i, <3>1 DEF Smoke!ProtectedUntouched
    <3> QED
      BY <3>8, <3>9, <3>10, <3>11, <3>12 DEF Smoke!SmokeInvariant
  <2> QED
    BY <2>2, <2>4, <2>5, <2>6, <2>7
<1>8. CASE Smoke!CheckStorage
  <2>1. smokePc = "s3" /\ {"validation", "s3"} \subseteq Smoke!Failure
    BY <1>8 DEF Smoke!CheckStorage, Smoke!Failure
  <2>2. CASE Smoke!Fail("validation") \/ Smoke!Fail("s3")
    BY <1>f, <2>1, <2>2
  <2>3. CASE Smoke!ToolGoes("passed") /\ UNCHANGED <<smokePhase, request, verdict>>
    <3>1. /\ smokePc' = "passed"
          /\ UNCHANGED <<smokePhase, target, request, boxes, live, touched, verdict>>
      BY <2>3 DEF Smoke!ToolGoes, Smoke!modal
    <3>2. Smoke!SmokeTypeOK'
      BY <1>i, <3>1 DEF Smoke!SmokeTypeOK
    <3>3. Smoke!LinesFit'
      BY <1>i, <3>1 DEF Smoke!LinesFit, Smoke!Serving
    <3>4. Smoke!StepsFit' /\ Smoke!BlameIsTrue'
      BY <1>i, <2>1, <3>1 DEF Smoke!StepsFit, Smoke!BlameIsTrue
    <3>5. Smoke!PassMeansRestored'
      BY <1>i, <2>1, <3>1 DEF Smoke!StepsFit, Smoke!PassMeansRestored, Smoke!Box, Smoke!Restored
    <3>6. Smoke!ProtectedUntouched'
      BY <1>i, <3>1 DEF Smoke!ProtectedUntouched
    <3> QED
      BY <3>2, <3>3, <3>4, <3>5, <3>6 DEF Smoke!SmokeInvariant
  <2> QED
    BY <1>8, <2>2, <2>3 DEF Smoke!CheckStorage
<1>9. CASE Smoke!OnFailure
  <2>1. /\ smokePc = "failing" /\ smokePc' = "failed" /\ target' \in Smoke!Target
        /\ touched' = IF Smoke!MayTouch(target') THEN target'.action ELSE "none"
        /\ boxes' = <<>> /\ live' = FALSE /\ UNCHANGED <<smokePhase, request, verdict>>
    BY <1>9 DEF Smoke!OnFailure
  <2>2. target'.action \in {"none", "rollback", "stop"}
        /\ target'.workspace \in {"team", "personal"}
    BY <2>1 DEF Smoke!Target
  <2>3. /\ boxes' \in Seq(Smoke!Container) /\ Len(boxes') = 0 /\ DOMAIN boxes' = {}
        /\ 0 <= MaxBoxes
    BY <1>0, <2>1
  <2>4. Smoke!SmokeTypeOK'
    <3>1. touched' \in {"none", "rollback", "stop"}
      BY <2>1, <2>2
    <3>2. \A i \in DOMAIN boxes' :
            boxes'[i].shown <= Len(boxes'[i].lines) /\ boxes'[i].born <= smokePhase'
      BY <2>3
    <3> QED
      BY <1>i, <2>1, <2>3, <3>1, <3>2 DEF Smoke!SmokeTypeOK
  <2>5. Smoke!LinesFit'
    BY <2>1, <2>3 DEF Smoke!LinesFit
  <2>6. Smoke!StepsFit' /\ Smoke!PassMeansRestored' /\ Smoke!BlameIsTrue'
    BY <1>i, <2>1 DEF Smoke!StepsFit, Smoke!PassMeansRestored, Smoke!BlameIsTrue
  <2>7. Smoke!ProtectedUntouched'
    BY <1>i, <2>1, <2>2 DEF Smoke!ProtectedUntouched, Smoke!MayTouch, Smoke!StepsFit
  <2> QED
    BY <2>4, <2>5, <2>6, <2>7 DEF Smoke!SmokeInvariant
\* Modal's steps.
<1>10. CASE Smoke!Boot
  <2>1. PICK start \in Smoke!Started \cup Smoke!NotStarted :
          boxes' = Append(boxes, [born |-> smokePhase, start |-> start, lines |-> start,
                                  shown |-> 0])
    BY <1>10 DEF Smoke!Boot
  <2> DEFINE c == [born |-> smokePhase, start |-> start, lines |-> start, shown |-> 0]
  <2>2. /\ request = "sent" /\ ~live /\ Len(boxes) < MaxBoxes /\ live' = TRUE
        /\ UNCHANGED <<smokePc, smokePhase, target, request, verdict, touched>>
    BY <1>10 DEF Smoke!Boot, Smoke!ModalDoes
  <2>3. start \in Seq(Smoke!Line) /\ Len(start) \in Nat
    <3>1. start \in Seq(Smoke!Line)
      BY LinesOfAStart
    <3> QED
      BY <3>1
  <2>4. /\ c \in Smoke!Container /\ c.shown <= Len(c.lines) /\ c.born = smokePhase
        /\ c.lines = c.start
    BY <1>b, <2>3 DEF Smoke!Container
  <2> HIDE DEF c
  <2>5. boxes' = Append(boxes, c)
    BY <2>1 DEF c
  <2>6. /\ boxes' \in Seq(Smoke!Container) /\ Len(boxes') = Len(boxes) + 1
        /\ DOMAIN boxes' = 1..(Len(boxes) + 1) /\ boxes' # <<>>
        /\ \A i \in 1..Len(boxes) : boxes'[i] = boxes[i]
        /\ boxes'[Len(boxes) + 1] = c
    BY <1>b, <2>4, <2>5
  <2>7. \A i \in 1..(Len(boxes) + 1) : i \in 1..Len(boxes) \/ i = Len(boxes) + 1
    BY <1>b
  <2>8. Smoke!SmokeTypeOK'
    <3>1. Len(boxes') <= MaxBoxes
      BY <1>0, <1>b, <2>2, <2>6
    <3>2. \A i \in DOMAIN boxes :
            boxes[i].shown <= Len(boxes[i].lines) /\ boxes[i].born <= smokePhase
      BY <1>i DEF Smoke!SmokeTypeOK
    <3>3. \A i \in DOMAIN boxes' :
            boxes'[i].shown <= Len(boxes'[i].lines) /\ boxes'[i].born <= smokePhase
      BY <1>b, <2>4, <2>6, <2>7, <3>2
    <3> QED
      BY <1>i, <2>2, <2>6, <3>1, <3>3 DEF Smoke!SmokeTypeOK
  <2>9. smokePc \notin {"zero", "s3", "passed", "failing", "failed"}
    BY <1>i, <2>2 DEF Smoke!StepsFit, Smoke!LinesFit
  <2>10. Smoke!LinesFit'
    <3>1. Smoke!Box'.born = smokePhase
      BY <2>4, <2>6 DEF Smoke!Box
    <3>2. \A i \in 1..Len(boxes) :
            boxes[i].born = smokePhase => boxes[i].lines = boxes[i].start
      BY <1>b, <1>i, <2>2 DEF Smoke!LinesFit
    <3>3. \A i \in DOMAIN boxes' :
            boxes'[i].born = smokePhase => boxes'[i].lines = boxes'[i].start
      BY <2>4, <2>6, <2>7, <3>2
    <3> QED
      BY <2>2, <2>6, <2>9, <3>1, <3>3 DEF Smoke!LinesFit
  <2>11. Smoke!StepsFit' /\ Smoke!PassMeansRestored' /\ Smoke!BlameIsTrue'
    BY <1>i, <2>2, <2>9 DEF Smoke!StepsFit, Smoke!PassMeansRestored, Smoke!BlameIsTrue
  <2>12. Smoke!ProtectedUntouched'
    BY <1>i, <2>2 DEF Smoke!ProtectedUntouched
  <2> QED
    BY <2>8, <2>10, <2>11, <2>12 DEF Smoke!SmokeInvariant
<1>11. CASE Smoke!Serve
  <2>1. /\ request = "sent" /\ live /\ Smoke!Box.start \in Smoke!Started
        /\ UNCHANGED <<live, smokePc, smokePhase, target, verdict, touched>>
        /\ \/ request' = "ok"
           \/ request' = "refused"
    BY <1>11 DEF Smoke!Serve, Smoke!ModalDoes
  <2>2. smokePc = "watch" /\ boxes # <<>> /\ Smoke!Box.born = smokePhase
    BY <1>i, <2>1 DEF Smoke!StepsFit, Smoke!LinesFit
  <2>3. /\ Smoke!StepsFit' /\ Smoke!PassMeansRestored'
        /\ Smoke!ProtectedUntouched' /\ Smoke!BlameIsTrue'
    BY <1>i, <2>1, <2>2
       DEF Smoke!StepsFit, Smoke!PassMeansRestored, Smoke!ProtectedUntouched, Smoke!BlameIsTrue
  <2>4. CASE UNCHANGED boxes
    <3>1. Smoke!Box' = Smoke!Box /\ Smoke!Serving' = Smoke!Serving
      BY <2>1, <2>4 DEF Smoke!Box, Smoke!Serving
    <3>2. Smoke!SmokeTypeOK'
      BY <1>i, <2>1, <2>4 DEF Smoke!SmokeTypeOK
    <3>3. Smoke!LinesFit'
      BY <1>i, <2>1, <2>2, <2>4, <3>1 DEF Smoke!LinesFit
    <3> QED
      BY <2>3, <3>2, <3>3 DEF Smoke!SmokeInvariant
  <2>5. CASE \E s \in Smoke!Serving : boxes' = [boxes EXCEPT ![Len(boxes)].lines = @ \o s]
    <3> DEFINE n == Len(boxes)
    <3>1. PICK s \in Smoke!Serving : boxes' = [boxes EXCEPT ![Len(boxes)].lines = @ \o s]
      BY <2>5
    <3>2. n \in 1..Len(boxes) /\ n \in Nat /\ boxes[n] \in Smoke!Container
          /\ boxes[n].shown <= Len(boxes[n].lines) /\ boxes[n].born = smokePhase
          /\ boxes[n].start \in Smoke!Started /\ boxes[n].lines = boxes[n].start
      <4>1. n \in 1..Len(boxes) /\ n \in Nat
        BY <1>b, <2>2
      <4> QED
        BY <1>b, <1>i, <2>1, <2>2, <4>1 DEF Smoke!SmokeTypeOK, Smoke!LinesFit, Smoke!Box
    <3> DEFINE l == boxes[n].start \o s
               d == [born |-> boxes[n].born, start |-> boxes[n].start, lines |-> l,
                     shown |-> boxes[n].shown]
    <3>3. /\ s \in {<<"get200">>} \cup Posts
          /\ l \in Seq(Smoke!Line) /\ Len(l) = Len(boxes[n].start) + Len(s)
          /\ Len(boxes[n].start) \in Nat /\ Len(s) \in Nat
      <4>1. s \in {<<"get200">>} \cup Posts
        BY LinesOfAnAnswer
      <4> DEFINE start == boxes[n].start
      <4>2. start \in Smoke!Started \cup Smoke!NotStarted
        BY <3>2
      <4> HIDE DEF start
      <4>3. start \o s \in Seq(Smoke!Line) /\ Len(start \o s) = Len(start) + Len(s)
            /\ Len(start) \in Nat /\ Len(s) \in Nat
        BY <4>1, <4>2, LinesBehind
      <4> QED
        BY <4>1, <4>3 DEF start
    <3> HIDE DEF l
    <3>4. boxes' = [boxes EXCEPT ![n] = d]
      <4> DEFINE b == boxes[n]
      <4>1. b \in [born : Nat, start : Smoke!Started \cup Smoke!NotStarted,
                   lines : Seq(Smoke!Line), shown : Nat]
        BY <3>2 DEF Smoke!Container
      <4>2. boxes' = [boxes EXCEPT ![n] = [b EXCEPT !.lines = b.lines \o s]]
        BY <3>1
      <4>3. b.lines \o s = l /\ d = [born |-> b.born, start |-> b.start, lines |-> l,
                                     shown |-> b.shown]
        BY <3>2 DEF l
      <4> HIDE DEF b, d
      <4>4. [b EXCEPT !.lines = l] = d
        BY <4>1, <4>3
      <4> QED
        BY <4>2, <4>3, <4>4
    <3>5. /\ d \in Smoke!Container /\ d.born = smokePhase /\ d.start = boxes[n].start
          /\ d.lines = l /\ d.shown = boxes[n].shown
      BY <3>2, <3>3 DEF Smoke!Container
    <3>6. d.shown <= Len(d.lines)
      <4> DEFINE a == Len(boxes[n].start)
                 e == Len(s)
                 f == Len(l)
                 g == boxes[n].shown
      <4>1. a \in Nat /\ e \in Nat /\ f = a + e /\ g <= a /\ g \in Nat
        BY <3>2, <3>3 DEF Smoke!Container
      <4> HIDE DEF a, e, f, g
      <4>2. g <= f
        BY <4>1
      <4> QED
        BY <3>5, <4>2 DEF f, g
    <3>n. n = Len(boxes)
      OBVIOUS
    <3> HIDE DEF d, n
    <3>7. /\ boxes' \in Seq(Smoke!Container) /\ Len(boxes') = n /\ DOMAIN boxes' = 1..n
          /\ boxes'[n] = d
          /\ \A i \in 1..n : i # n => boxes'[i] = boxes[i]
      <4>1. /\ boxes' \in Seq(Smoke!Container) /\ Len(boxes') = Len(boxes)
            /\ DOMAIN boxes' = 1..Len(boxes) /\ boxes'[n] = d
            /\ \A i \in 1..Len(boxes) : i # n => boxes'[i] = boxes[i]
        BY <1>b, <3>2, <3>4, <3>5, OneExchanged
      <4>2. 1..Len(boxes) = 1..n
        BY <3>n
      <4> QED
        BY <3>n, <4>1, <4>2
    <3>8. DOMAIN boxes = 1..n /\ n = Len(boxes) /\ boxes' # <<>>
      <4>1. DOMAIN boxes = 1..n /\ n = Len(boxes)
        BY <1>b, <3>n
      <4>2. Len(boxes') > 0
        BY <1>b, <2>2, <3>7, <4>1
      <4>3. boxes' # <<>>
        <5>1. Len(<<>>) = 0
          OBVIOUS
        <5> QED
          BY <4>2, <5>1
      <4> QED
        BY <4>1, <4>3
    <3>9. Smoke!SmokeTypeOK'
      <4>1. \A i \in DOMAIN boxes :
              boxes[i].shown <= Len(boxes[i].lines) /\ boxes[i].born <= smokePhase
        BY <1>i DEF Smoke!SmokeTypeOK
      <4>2. \A i \in DOMAIN boxes' :
              boxes'[i].shown <= Len(boxes'[i].lines) /\ boxes'[i].born <= smokePhase
        <5>1. smokePhase <= smokePhase
          BY <1>b
        <5>2. /\ boxes'[n].shown <= Len(boxes'[n].lines) /\ boxes'[n].born <= smokePhase
          BY <3>5, <3>6, <3>7, <5>1
        <5> QED
          BY <3>7, <3>8, <4>1, <5>2
      <4>3. Len(boxes') <= MaxBoxes
        BY <1>i, <3>7, <3>8 DEF Smoke!SmokeTypeOK
      <4> QED
        BY <1>i, <2>1, <3>7, <4>2, <4>3 DEF Smoke!SmokeTypeOK
    <3>10. Smoke!LinesFit'
      <4>1. Smoke!Serving' = Smoke!Serving
        BY <2>1 DEF Smoke!Serving
      <4>2. \A i \in 1..n : boxes[i].born = smokePhase => boxes[i].lines = boxes[i].start
        BY <1>i, <2>1, <3>8 DEF Smoke!LinesFit
      <4>3. \A i \in DOMAIN boxes' : boxes'[i].born = smokePhase' =>
              \/ boxes'[i].lines = boxes'[i].start
              \/ /\ i = Len(boxes') /\ request' # "sent" /\ boxes'[i].start \in Smoke!Started
                 /\ \E u \in Smoke!Serving' : boxes'[i].lines = boxes'[i].start \o u
        <5> SUFFICES ASSUME NEW i \in DOMAIN boxes', boxes'[i].born = smokePhase'
                     PROVE  \/ boxes'[i].lines = boxes'[i].start
                            \/ /\ i = Len(boxes') /\ request' # "sent"
                               /\ boxes'[i].start \in Smoke!Started
                               /\ \E u \in Smoke!Serving' : boxes'[i].lines = boxes'[i].start \o u
          OBVIOUS
        <5>1. CASE i = n
          BY <2>1, <3>2, <3>5, <3>7, <4>1, <5>1 DEF l
        <5>2. CASE i # n
          BY <2>1, <3>7, <4>2, <5>2
        <5> QED
          BY <5>1, <5>2
      <4>4. Smoke!Box'.born = smokePhase'
        BY <2>1, <3>5, <3>7 DEF Smoke!Box
      <4> QED
        BY <2>1, <2>2, <3>8, <4>3, <4>4 DEF Smoke!LinesFit
    <3> QED
      BY <2>3, <3>9, <3>10 DEF Smoke!SmokeInvariant
  <2> QED
    BY <1>11, <2>4, <2>5 DEF Smoke!Serve
<1>12. CASE Smoke!Dies
  <2>1. /\ smokePc \notin {"passed", "failing"} /\ live' = FALSE
        /\ UNCHANGED <<boxes, request, smokePc, smokePhase, target, verdict, touched>>
    BY <1>12 DEF Smoke!Dies, Smoke!ModalDoes
  <2>2. Smoke!Box' = Smoke!Box /\ Smoke!Serving' = Smoke!Serving
    BY <2>1 DEF Smoke!Box, Smoke!Serving
  <2>3. Smoke!SmokeTypeOK'
    BY <1>i, <2>1 DEF Smoke!SmokeTypeOK
  <2>4. Smoke!LinesFit'
    BY <1>i, <2>1, <2>2 DEF Smoke!LinesFit
  <2>5. Smoke!StepsFit' /\ Smoke!PassMeansRestored'
    BY <1>i, <2>1, <2>2 DEF Smoke!StepsFit, Smoke!PassMeansRestored
  <2>6. Smoke!BlameIsTrue' /\ Smoke!ProtectedUntouched'
    BY <1>i, <2>1 DEF Smoke!BlameIsTrue, Smoke!ProtectedUntouched
  <2> QED
    BY <2>3, <2>4, <2>5, <2>6 DEF Smoke!SmokeInvariant
<1>13. CASE Smoke!Breaks
  <2>1. /\ request = "sent" /\ request' = "broken"
        /\ UNCHANGED <<boxes, live, smokePc, smokePhase, target, verdict, touched>>
    BY <1>13 DEF Smoke!Breaks, Smoke!ModalDoes, Smoke!modal
  <2>2. Smoke!Box' = Smoke!Box /\ Smoke!Serving' = Smoke!Serving /\ smokePc = "watch"
    BY <1>i, <2>1 DEF Smoke!Box, Smoke!Serving, Smoke!StepsFit
  <2>3. Smoke!SmokeTypeOK'
    BY <1>i, <2>1 DEF Smoke!SmokeTypeOK
  <2>4. Smoke!LinesFit'
    BY <1>i, <2>1, <2>2 DEF Smoke!LinesFit
  <2>5. Smoke!StepsFit' /\ Smoke!PassMeansRestored' /\ Smoke!BlameIsTrue'
    BY <1>i, <2>1, <2>2 DEF Smoke!StepsFit, Smoke!PassMeansRestored, Smoke!BlameIsTrue
  <2>6. Smoke!ProtectedUntouched'
    BY <1>i, <2>1 DEF Smoke!ProtectedUntouched
  <2> QED
    BY <2>3, <2>4, <2>5, <2>6 DEF Smoke!SmokeInvariant
<1>14. CASE Smoke!ScaleDown
  <2> DEFINE n == Len(boxes)
  <2>1. PICK end \in {<<>>, <<"killed">>} :
          boxes' = [boxes EXCEPT ![Len(boxes)].lines = @ \o end]
    BY <1>14 DEF Smoke!ScaleDown
  <2>2. /\ smokePc = "zero" /\ live /\ live' = FALSE /\ boxes # <<>>
        /\ \A i \in DOMAIN boxes : boxes[i].born < smokePhase
        /\ UNCHANGED <<request, smokePc, smokePhase, target, verdict, touched>>
    BY <1>14, <1>i DEF Smoke!ScaleDown, Smoke!ModalDoes, Smoke!LinesFit
  <2>3. n \in 1..Len(boxes) /\ n \in Nat /\ boxes[n] \in Smoke!Container
        /\ boxes[n].shown <= Len(boxes[n].lines) /\ boxes[n].born < smokePhase
    <3>1. n \in 1..Len(boxes) /\ n \in Nat
      BY <1>b, <2>2
    <3> QED
      BY <1>b, <1>i, <2>2, <3>1 DEF Smoke!SmokeTypeOK
  <2> DEFINE k == boxes[n].lines
             l == k \o end
             d == [born |-> boxes[n].born, start |-> boxes[n].start, lines |-> l,
                   shown |-> boxes[n].shown]
  <2>4. l \in Seq(Smoke!Line) /\ Len(k) <= Len(l) /\ Len(k) \in Nat /\ Len(l) \in Nat
    <3>1. k \in Seq(Smoke!Line)
      BY <2>3 DEF Smoke!Container
    <3>2. end \in Seq(Smoke!Line) /\ Len(end) \in Nat
      <4>1. "killed" \in Smoke!Line
        BY DEF Smoke!Line
      <4>2. \A line \in Smoke!Line :
              <<line>> \in Seq(Smoke!Line) /\ Len(<<line>>) = 1
        OBVIOUS
      <4>3. <<>> \in Seq(Smoke!Line) /\ Len(<<>>) = 0
        OBVIOUS
      <4>4. end = <<>> \/ end = <<"killed">>
        OBVIOUS
      <4>5. CASE end = <<>>
        BY <4>3, <4>5
      <4>6. CASE end = <<"killed">>
        BY <4>1, <4>2, <4>6
      <4> QED
        BY <4>4, <4>5, <4>6
    <3> HIDE DEF k
    <3>3. l \in Seq(Smoke!Line) /\ Len(l) = Len(k) + Len(end) /\ Len(k) \in Nat
      BY <3>1, <3>2
    <3> HIDE DEF l
    <3> QED
      BY <3>2, <3>3
  <2>5. boxes' = [boxes EXCEPT ![n] = d]
    <3> DEFINE b == boxes[n]
    <3>1. b \in [born : Nat, start : Smoke!Started \cup Smoke!NotStarted,
                 lines : Seq(Smoke!Line), shown : Nat]
      BY <2>3 DEF Smoke!Container
    <3>2. boxes' = [boxes EXCEPT ![n] = [b EXCEPT !.lines = b.lines \o end]]
      BY <2>1
    <3>3. b.lines \o end = l /\ d = [born |-> b.born, start |-> b.start, lines |-> l,
                                     shown |-> b.shown]
      OBVIOUS
    <3> HIDE DEF b, d, l
    <3>4. [b EXCEPT !.lines = l] = d
      BY <3>1, <3>3
    <3> QED
      BY <3>2, <3>3, <3>4
  <2> HIDE DEF l
  <2>6. /\ d \in Smoke!Container /\ d.born < smokePhase
        /\ d.lines = l /\ d.shown = boxes[n].shown
    BY <2>3, <2>4 DEF Smoke!Container
  <2>7. d.shown <= Len(d.lines)
    <3> DEFINE a == Len(k)
               f == Len(l)
               g == boxes[n].shown
    <3>1. a \in Nat /\ f \in Nat /\ a <= f /\ g <= a /\ g \in Nat
      BY <2>3, <2>4 DEF Smoke!Container
    <3> HIDE DEF a, f, g
    <3>2. g <= f
      BY <3>1
    <3> QED
      BY <2>6, <3>2 DEF f, g
  <2>n. n = Len(boxes)
    OBVIOUS
  <2> HIDE DEF d, k, n
  <2>8. /\ boxes' \in Seq(Smoke!Container) /\ Len(boxes') = n /\ DOMAIN boxes' = 1..n
        /\ boxes'[n] = d
        /\ \A i \in 1..n : i # n => boxes'[i] = boxes[i]
    <3>1. /\ boxes' \in Seq(Smoke!Container) /\ Len(boxes') = Len(boxes)
          /\ DOMAIN boxes' = 1..Len(boxes) /\ boxes'[n] = d
          /\ \A i \in 1..Len(boxes) : i # n => boxes'[i] = boxes[i]
      BY <1>b, <2>3, <2>5, <2>6, OneExchanged
    <3>2. 1..Len(boxes) = 1..n
      BY <2>n
    <3> QED
      BY <2>n, <3>1, <3>2
  <2>9. DOMAIN boxes = 1..n /\ n = Len(boxes) /\ smokePhase \in Nat
    BY <1>b, <2>8 DEF n
  <2>10. \A i \in DOMAIN boxes' :
           boxes'[i].shown <= Len(boxes'[i].lines) /\ boxes'[i].born < smokePhase
    <3>1. \A i \in DOMAIN boxes : boxes[i].shown <= Len(boxes[i].lines)
      BY <1>i DEF Smoke!SmokeTypeOK
    <3> QED
      BY <2>2, <2>6, <2>7, <2>8, <2>9, <3>1
  <2>11. \A i \in DOMAIN boxes' : boxes'[i].born \in Nat
    <3>1. \A i \in DOMAIN boxes' : boxes'[i] \in Smoke!Container
      BY <2>8
    <3> QED
      BY <3>1 DEF Smoke!Container
  <2>12. Smoke!SmokeTypeOK'
    <3>1. Len(boxes') <= MaxBoxes
      BY <1>i, <2>8, <2>9 DEF Smoke!SmokeTypeOK
    <3>2. \A i \in DOMAIN boxes' :
            boxes'[i].shown <= Len(boxes'[i].lines) /\ boxes'[i].born <= smokePhase
      BY <2>9, <2>10, <2>11
    <3> QED
      BY <1>i, <2>2, <2>8, <3>1, <3>2 DEF Smoke!SmokeTypeOK
  <2>13. Smoke!LinesFit'
    <3>1. request = "none"
      BY <1>i, <2>2 DEF Smoke!LinesFit
    <3>2. \A i \in DOMAIN boxes' : boxes'[i].born # smokePhase
      BY <2>9, <2>10, <2>11
    <3> QED
      BY <2>2, <2>10, <3>1, <3>2 DEF Smoke!LinesFit
  <2>14. /\ Smoke!StepsFit' /\ Smoke!PassMeansRestored' /\ Smoke!BlameIsTrue'
         /\ Smoke!ProtectedUntouched'
    BY <1>i, <2>2
       DEF Smoke!StepsFit, Smoke!PassMeansRestored, Smoke!BlameIsTrue, Smoke!ProtectedUntouched
  <2> QED
    BY <2>12, <2>13, <2>14 DEF Smoke!SmokeInvariant
<1>15. CASE \E i \in DOMAIN boxes : Smoke!Shows(i)
  <2> DEFINE n == Len(boxes)
  <2>1. PICK k \in DOMAIN boxes : Smoke!Shows(k)
    BY <1>15
  <2>2. /\ smokePc \notin {"passed", "failing"} /\ boxes[k].shown < Len(boxes[k].lines)
        /\ boxes' = [boxes EXCEPT ![k].shown = @ + 1]
        /\ UNCHANGED <<live, request, smokePc, smokePhase, target, verdict, touched>>
    BY <2>1 DEF Smoke!Shows, Smoke!ModalDoes
  <2>3. k \in 1..Len(boxes) /\ n \in Nat /\ boxes[k] \in Smoke!Container
        /\ boxes[k].shown <= Len(boxes[k].lines) /\ boxes[k].born <= smokePhase
    BY <1>b, <1>i DEF Smoke!SmokeTypeOK
  <2> DEFINE d == [born |-> boxes[k].born, start |-> boxes[k].start, lines |-> boxes[k].lines,
                   shown |-> boxes[k].shown + 1]
  <2>4. boxes' = [boxes EXCEPT ![k] = d]
    <3> DEFINE b == boxes[k]
    <3>1. b \in [born : Nat, start : Smoke!Started \cup Smoke!NotStarted,
                 lines : Seq(Smoke!Line), shown : Nat]
      BY <2>3 DEF Smoke!Container
    <3>2. boxes' = [boxes EXCEPT ![k] = [b EXCEPT !.shown = b.shown + 1]]
      BY <2>2
    <3>3. d = [born |-> b.born, start |-> b.start, lines |-> b.lines, shown |-> b.shown + 1]
      OBVIOUS
    <3> HIDE DEF b, d
    <3>4. [b EXCEPT !.shown = b.shown + 1] = d
      BY <3>1, <3>3
    <3> QED
      BY <3>2, <3>4
  <2>5. /\ d \in Smoke!Container /\ d.born = boxes[k].born /\ d.start = boxes[k].start
        /\ d.lines = boxes[k].lines
    BY <2>3 DEF Smoke!Container
  <2>6. d.shown <= Len(d.lines)
    <3> DEFINE f == Len(boxes[k].lines)
               g == boxes[k].shown
    <3>1. boxes[k].lines \in Seq(Smoke!Line) /\ g \in Nat
      BY <2>3 DEF Smoke!Container
    <3>2. f \in Nat
      <4> DEFINE w == boxes[k].lines
      <4>1. w \in Seq(Smoke!Line)
        BY <3>1
      <4> HIDE DEF w
      <4>2. Len(w) \in Nat
        BY <4>1
      <4> QED
        BY <4>2 DEF w
    <3>3. g < f
      BY <2>2
    <3> HIDE DEF f, g
    <3>4. g + 1 <= f
      BY <3>1, <3>2, <3>3
    <3> QED
      BY <3>4 DEF f, g
  <2> HIDE DEF d
  <2>7. /\ boxes' \in Seq(Smoke!Container) /\ Len(boxes') = n /\ DOMAIN boxes' = 1..n
        /\ boxes'[k] = d
        /\ \A i \in 1..n : i # k => boxes'[i] = boxes[i]
    BY <1>b, <2>3, <2>4, <2>5, OneExchanged
  <2> HIDE DEF n
  <2>8. DOMAIN boxes = 1..n /\ n = Len(boxes) /\ (boxes' # <<>> <=> boxes # <<>>)
    BY <1>b, <2>7 DEF n
  <2>9. \A i \in 1..n : /\ boxes'[i].born = boxes[i].born /\ boxes'[i].start = boxes[i].start
                        /\ boxes'[i].lines = boxes[i].lines
    BY <2>5, <2>7
  <2>10. Smoke!SmokeTypeOK'
    <3>1. Len(boxes') <= MaxBoxes
      BY <1>i, <2>7, <2>8 DEF Smoke!SmokeTypeOK
    <3>2. \A i \in DOMAIN boxes :
            boxes[i].shown <= Len(boxes[i].lines) /\ boxes[i].born <= smokePhase
      BY <1>i DEF Smoke!SmokeTypeOK
    <3>3. \A i \in DOMAIN boxes' :
            boxes'[i].shown <= Len(boxes'[i].lines) /\ boxes'[i].born <= smokePhase
      BY <2>5, <2>6, <2>7, <2>8, <3>2
    <3> QED
      BY <1>i, <2>2, <2>7, <3>1, <3>3 DEF Smoke!SmokeTypeOK
  <2>11. boxes # <<>> => /\ Smoke!Box'.born = Smoke!Box.born /\ Smoke!Box'.start = Smoke!Box.start
                         /\ Smoke!Box'.lines = Smoke!Box.lines
    <3>1. boxes # <<>> => n \in 1..n
      BY <1>b, <2>8
    <3> QED
      BY <2>7, <2>8, <2>9, <3>1 DEF Smoke!Box
  <2>12. Smoke!LinesFit'
    <3>1. Smoke!Serving' = Smoke!Serving
      BY <2>2 DEF Smoke!Serving
    <3>2. smokePc = "zero" =>
            request = "none" /\ \A i \in DOMAIN boxes' : boxes'[i].born < smokePhase
      BY <1>i, <2>7, <2>8, <2>9 DEF Smoke!LinesFit
    <3>3. \A i \in DOMAIN boxes' : boxes'[i].born = smokePhase =>
            \/ boxes'[i].lines = boxes'[i].start
            \/ /\ i = Len(boxes') /\ request # "sent" /\ boxes'[i].start \in Smoke!Started
               /\ \E s \in Smoke!Serving : boxes'[i].lines = boxes'[i].start \o s
      <4> SUFFICES ASSUME NEW i \in DOMAIN boxes', boxes'[i].born = smokePhase
                   PROVE  \/ boxes'[i].lines = boxes'[i].start
                          \/ /\ i = Len(boxes') /\ request # "sent"
                             /\ boxes'[i].start \in Smoke!Started
                             /\ \E s \in Smoke!Serving : boxes'[i].lines = boxes'[i].start \o s
        OBVIOUS
      <4>1. /\ boxes'[i].born = boxes[i].born /\ boxes'[i].start = boxes[i].start
            /\ boxes'[i].lines = boxes[i].lines /\ i \in DOMAIN boxes /\ Len(boxes') = Len(boxes)
        BY <2>7, <2>8, <2>9
      <4>2. \/ boxes[i].lines = boxes[i].start
            \/ /\ i = Len(boxes) /\ request # "sent" /\ boxes[i].start \in Smoke!Started
               /\ \E s \in Smoke!Serving : boxes[i].lines = boxes[i].start \o s
        BY <1>i, <4>1 DEF Smoke!LinesFit
      <4> QED
        BY <4>1, <4>2
    <3>4. live => boxes' # <<>>
      BY <1>i, <2>8 DEF Smoke!LinesFit
    <3>5. smokePc = "watch" /\ live => Smoke!Box'.born = smokePhase
      BY <1>i, <2>11 DEF Smoke!LinesFit
    <3> QED
      BY <2>2, <3>1, <3>2, <3>3, <3>4, <3>5 DEF Smoke!LinesFit
  <2>13. Smoke!StepsFit'
    BY <1>i, <2>2, <2>8, <2>11 DEF Smoke!StepsFit
  <2>14. Smoke!PassMeansRestored' /\ Smoke!BlameIsTrue' /\ Smoke!ProtectedUntouched'
    BY <1>i, <2>2 DEF Smoke!PassMeansRestored, Smoke!BlameIsTrue, Smoke!ProtectedUntouched
  <2> QED
    BY <2>10, <2>12, <2>13, <2>14 DEF Smoke!SmokeInvariant
<1>16. CASE UNCHANGED Smoke!vars
  <2>1. UNCHANGED <<boxes, live, request, smokePc, smokePhase, target, verdict, touched>>
    BY <1>16 DEF Smoke!vars, Smoke!modal
  <2> QED
    BY <1>i, <2>1 DEF Smoke!SmokeInvariant, Smoke!SmokeTypeOK, Smoke!LinesFit, Smoke!StepsFit,
       Smoke!PassMeansRestored, Smoke!BlameIsTrue, Smoke!ProtectedUntouched, Smoke!Box,
       Smoke!Serving
<1> QED
  BY <1>1, <1>2, <1>3, <1>4, <1>5, <1>6, <1>7, <1>8, <1>9, <1>10, <1>11, <1>12, <1>13, <1>14,
     <1>15, <1>16 DEF Smoke!Next, Smoke!Tool

\* deploy_checks.py passes only a deployment whose validation was served by a
\* container restored from its snapshot, blames only containers that did not
\* start, and touches no App of the team; a container serves only in the mode
\* that was deployed, and no detector is open without an owner
\* (inference_worker.py): for any limits, and any number of containers.
THEOREM DeploymentIsRight == Spec => []DeploymentInvariant
<1>1. Init => Smoke!SmokeInvariant /\ Deployment!DeploymentInvariant
  BY SmokeInit, DeploymentInit
<1>2. Smoke!SmokeInvariant /\ [Next]_vars => Smoke!SmokeInvariant'
  BY SmokeStep, SmokeNext
<1>3. Deployment!DeploymentInvariant /\ [Next]_vars => Deployment!DeploymentInvariant'
  BY DeploymentStep, DeploymentNext
<1> QED
  BY <1>1, <1>2, <1>3, PTL DEF Spec, DeploymentInvariant
=============================================================================
