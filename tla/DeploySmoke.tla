---------------------------- MODULE DeploySmoke ----------------------------
(***************************************************************************)
(* The smoke test of deploy_checks.py against Modal: /health makes the GPU *)
(* snapshot, then a real validation must be served by a container that was *)
(* restored from it.  What happened in a container is only known from its  *)
(* log lines, which show up late but in order.                             *)
(*                                                                         *)
(* A box is a container with the lines it writes; phase 0 is /health and   *)
(* phase n the n-th validation.  One box is live at a time (staging has    *)
(* max_containers = 1).  The stage line is left out: whoever prints that   *)
(* it is ready has printed the stage.                                      *)
(***************************************************************************)
EXTENDS Naturals, FiniteSets, Sequences, SequencesExt

CONSTANTS
    MaxMissRetries, MaxInitFailures, MaxSnapshotFailures,  \* SmokeLimits
    MaxBoxes                                               \* bound, for a phase

SmokeAssumption ==
    /\ MaxMissRetries \in Nat
    /\ {MaxInitFailures, MaxSnapshotFailures, MaxBoxes} \subseteq Nat \ {0}

VARIABLES
    pc, phase,
    target,   \* the workspace of the App and the action asked for on failure
    request,  \* the HTTP request that is on its way
    boxes, live,
    verdict,  \* why the smoke test failed
    touched   \* what was done to the App then

modal == <<boxes, live>>
vars == <<pc, phase, target, request, modal, verdict, touched>>

\* How the start of a container can go.
Restored == <<"restoring", "ready">>
FellBack == <<"restoring", "restore_error", "snap_true", "ready">>
Created == <<"creating_gpu", "snap_true", "ready">>
NoSnapshot == <<"creating_cpu", "snap_true", "ready">>
Started == {Restored, FellBack, Created, NoSnapshot}

NotStarted ==
    { <<"restoring", "init_failed">>, <<"restoring", "killed">>,
      <<"restoring", "restore_error", "killed">>,
      <<"creating_gpu", "snap_true", "snapshot_failed", "killed">> }

\* The lines that are looked for in the log.
Line == {"restoring", "restore_error", "creating_gpu", "creating_cpu", "snap_true", "ready",
         "init_failed", "snapshot_failed", "killed", "get200", "post200", "cuda", "mixed"}

Container == [born : Nat, start : Started \cup NotStarted, lines : Seq(Line), shown : Nat]

Failure == {"config", "scaledown", "timeout", "request", "snapshot", "init",
            "warmup", "validation", "restore", "cuda", "s3"}

Target == [workspace : {"team", "personal"}, action : {"none", "rollback", "stop"}]

NoTarget == [workspace |-> "personal", action |-> "none"]

SmokeTypeOK ==
    /\ pc \in {"zero", "watch", "judge", "s3", "passed", "failing", "failed"}
    /\ phase \in 0..(MaxMissRetries + 1)
    /\ target \in Target \cup {NoTarget}
    /\ request \in {"none", "sent", "ok", "refused", "broken"}
    /\ boxes \in Seq(Container) /\ Len(boxes) <= MaxBoxes
    /\ \A i \in DOMAIN boxes :
         boxes[i].shown <= Len(boxes[i].lines) /\ boxes[i].born <= phase
    /\ live \in BOOLEAN
    /\ verdict \in Failure \cup {"none"}
    /\ touched \in {"none", "rollback", "stop"}

Init ==
    /\ pc = "zero" /\ phase = 0
    /\ target = NoTarget
    /\ request = "none"
    /\ boxes = <<>> /\ live = FALSE
    /\ verdict = "none" /\ touched = "none"

-----------------------------------------------------------------------------
(* Modal. *)

ModalDoes == UNCHANGED <<pc, phase, target, verdict, touched>>

Boot ==
    /\ request = "sent" /\ ~live /\ Len(boxes) < MaxBoxes
    /\ \E start \in Started \cup NotStarted :
         boxes' = Append(boxes, [born |-> phase, start |-> start, lines |-> start,
                                 shown |-> 0])
    /\ live' = TRUE
    /\ UNCHANGED request /\ ModalDoes

Box == boxes[Len(boxes)]

\* The lines of a validation, with the ORT profile of the diagnostic mode.
Serving == IF phase = 0 THEN {<<"get200">>}
           ELSE {<<"post200">>, <<"cuda", "post200">>, <<"mixed", "post200">>}

Serve ==
    /\ request = "sent" /\ live /\ Box.start \in Started
    /\ \/ /\ \E s \in Serving : boxes' = [boxes EXCEPT ![Len(boxes)].lines = @ \o s]
          /\ request' = "ok"
       \/ request' = "refused" /\ UNCHANGED boxes
    /\ UNCHANGED live /\ ModalDoes

\* A container that did not start goes, and Modal starts another one.
Dies ==
    /\ pc \notin {"passed", "failing"} /\ live /\ Box.start \in NotStarted
    /\ live' = FALSE
    /\ UNCHANGED <<boxes, request>> /\ ModalDoes

\* Nobody calls it: it ends, maybe by a signal; 30 s of scaledown_window are
\* longer than the log is waited for.
ScaleDown ==
    /\ live /\ pc = "zero" /\ request = "none"
    /\ live' = FALSE
    /\ \E end \in {<<>>, <<"killed">>} :
         boxes' = [boxes EXCEPT ![Len(boxes)].lines = @ \o end]
    /\ UNCHANGED request /\ ModalDoes

Shows(i) ==
    /\ pc \notin {"passed", "failing"} /\ boxes[i].shown < Len(boxes[i].lines)
    /\ boxes' = [boxes EXCEPT ![i].shown = @ + 1]
    /\ UNCHANGED <<live, request>> /\ ModalDoes

Breaks ==
    /\ request = "sent" /\ request' = "broken"
    /\ UNCHANGED modal /\ ModalDoes

-----------------------------------------------------------------------------
(* What the log says. *)

\* A container that wrote a line before this phase is left out.
Considered(b) == b.shown > 0 /\ b.born = phase

Says(b, line) == line \in Range(SubSeq(b.lines, 1, b.shown))

SnapshotFailed(b) == Says(b, "snapshot_failed")

\* One startup failure for a container, whatever its lines say of it.
StartupFailed(b) == Says(b, "snapshot_failed") \/ Says(b, "init_failed") \/ Says(b, "killed")

\* The containers of this phase, and those that did not start.
Seen == {i \in DOMAIN boxes : Considered(boxes[i])}
SnapshotFailures == {i \in Seen : SnapshotFailed(boxes[i])}
StartupFailures == {i \in Seen : StartupFailed(boxes[i])}

\* What was ready before the restore failed does not count.
ReadySince(b) ==
    \E i \in 1..b.shown :
        /\ b.lines[i] = "ready"
        /\ \A j \in i..b.shown : b.lines[j] # "restore_error"

\* Mutant: a container that was to be restored, and is ready, is a hit.
SnapshotState_ReadyIsHit(b) ==
    CASE Says(b, "snapshot_failed") -> "snapshot_failed"
      [] ~SnapshotFailed(b) /\ StartupFailed(b) -> "init_failure"
      [] ~StartupFailed(b) /\ Says(b, "restoring") /\ ReadySince(b) -> "hit"
      [] OTHER -> "incomplete"

SnapshotState(b) ==
    LET error == Says(b, "restore_error")
        fresh == ~error /\ ~Says(b, "restoring")
    IN CASE SnapshotFailed(b) -> "snapshot_failed"
         [] ~SnapshotFailed(b) /\ StartupFailed(b) -> "init_failure"
         [] ~StartupFailed(b) /\ error /\ Says(b, "restoring") /\ ReadySince(b) ->
              "restore_failed_fallback"
         [] ~StartupFailed(b) /\ ~error /\ Says(b, "restoring")
               /\ ~Says(b, "snap_true") /\ ReadySince(b) -> "hit"
         [] ~StartupFailed(b) /\ fresh
               /\ (Says(b, "creating_cpu") \/ ~Says(b, "creating_gpu")) ->
              "snapshot_disabled"
         [] ~StartupFailed(b) /\ fresh /\ ~Says(b, "creating_cpu")
               /\ Says(b, "creating_gpu") /\ Says(b, "snap_true") /\ ReadySince(b) -> "miss"
         [] OTHER -> "incomplete"

\* judge_warmup and judge_validation: a startup failure counts even if another
\* container answered.
Judgement ==
    LET served == {i \in Seen : Says(boxes[i], IF phase = 0 THEN "get200" ELSE "post200")}
    IN CASE SnapshotFailures # {} -> "snapshot_failed"
         [] SnapshotFailures = {} /\ StartupFailures # {} -> "init_failure"
         [] StartupFailures = {} /\ served = {} -> "incomplete"
         [] OTHER -> SnapshotState(boxes[CHOOSE i \in served : TRUE])

\* cuda_check: the profile says that not all nodes ran on CUDA.
NotOnCuda == \E i \in Seen : Says(boxes[i], "post200") /\ Says(boxes[i], "mixed")

-----------------------------------------------------------------------------
(* smoke. *)

ToolGoes(to) == pc' = to /\ UNCHANGED <<target, modal, touched>>

Fail(why) ==
    /\ ToolGoes("failing")
    /\ verdict' = why /\ request' = "none" /\ UNCHANGED phase

\* wait_for_zero, then the request is sent from a thread of its own.
Send ==
    /\ pc = "zero" /\ ~live
    /\ ToolGoes("watch")
    /\ request' = "sent" /\ UNCHANGED <<phase, verdict>>

ScaleDownTimesOut == pc = "zero" /\ live /\ Fail("scaledown")

\* request_with_failure_watch reads the log while it waits.
WatchStops ==
    /\ pc = "watch"
    /\ \/ /\ Cardinality(SnapshotFailures) >= MaxSnapshotFailures
          /\ Fail("snapshot")
       \/ /\ Cardinality(SnapshotFailures) < MaxSnapshotFailures
          /\ Cardinality(StartupFailures) >= MaxInitFailures
          /\ Fail("init")

WatchTimesOut == pc = "watch" /\ request = "sent" /\ Fail("timeout")

WatchEnds ==
    /\ pc = "watch"
    /\ \/ request = "broken" /\ Fail("request")
       \/ /\ request \in {"ok", "refused"}
          /\ ToolGoes("judge") /\ UNCHANGED <<phase, request, verdict>>

\* Another attempt, or the first after /health.  The lines of the container
\* that answered have shown up by then; of the earlier ones nothing is kept.
Again ==
    /\ pc' = "zero"
    /\ phase' = phase + 1 /\ request' = "none"
    /\ boxes' = <<[Box EXCEPT !.shown = Len(Box.lines)]>>
    /\ UNCHANGED <<target, live, verdict, touched>>

JudgeWarmup ==
    /\ pc = "judge" /\ phase = 0
    /\ CASE Judgement = "snapshot_failed" -> Fail("snapshot")
         [] request = "ok"
              /\ Judgement \in {"hit", "miss", "restore_failed_fallback"} -> Again
         [] OTHER -> Fail("warmup")

JudgeValidation ==
    /\ pc = "judge" /\ phase > 0
    /\ CASE request # "ok" -> Fail("validation")
         [] request = "ok" /\ Judgement = "snapshot_failed" -> Fail("snapshot")
         [] request = "ok" /\ Judgement \in {"init_failure", "snapshot_disabled", "incomplete"} ->
              Fail("restore")
         [] request = "ok" /\ Judgement \in {"hit", "miss", "restore_failed_fallback"} ->
              CASE NotOnCuda -> Fail("cuda")
                [] ~NotOnCuda /\ Judgement = "hit" ->
                     ToolGoes("s3") /\ UNCHANGED <<phase, request, verdict>>
                [] OTHER -> IF phase <= MaxMissRetries THEN Again ELSE Fail("restore")

\* The key of the answer and the object it names, in the staging bucket.
CheckStorage ==
    /\ pc = "s3"
    /\ \/ Fail("validation") \/ Fail("s3")
       \/ ToolGoes("passed") /\ UNCHANGED <<phase, request, verdict>>

MayTouch(t) == t.action # "none" /\ t.workspace # "team"

\* The arguments are looked at here, and the containers no more.
OnFailure ==
    /\ pc = "failing" /\ pc' = "failed"
    /\ target' \in Target
    /\ touched' = IF MayTouch(target') THEN target'.action ELSE "none"
    /\ boxes' = <<>> /\ live' = FALSE
    /\ UNCHANGED <<phase, request, verdict>>

Tool ==
    \/ Send \/ ScaleDownTimesOut \/ WatchStops \/ WatchTimesOut \/ WatchEnds
    \/ JudgeWarmup \/ JudgeValidation \/ CheckStorage \/ OnFailure

Next ==
    \/ Tool
    \/ Boot \/ Serve \/ Dies \/ ScaleDown \/ Breaks
    \/ \E i \in DOMAIN boxes : Shows(i)

Spec == Init /\ [][Next]_vars /\ WF_vars(Tool)

-----------------------------------------------------------------------------
(* Properties. *)

\* A PASS is only given when the last validation was in truth served by a
\* container that came out of the snapshot as it was.
PassMeansRestored ==
    pc = "passed" =>
        /\ Box.born = phase /\ Box.start = Restored
        /\ Last(Box.lines) = "post200" /\ "mixed" \notin Range(Box.lines)

\* Startup failures are only reported if as many containers of this very phase
\* did not start; the end of an earlier one is not held against the deployment.
BlameIsTrue ==
    LET broken == {i \in DOMAIN boxes : boxes[i].born = phase /\ boxes[i].start \in NotStarted}
    IN /\ pc = "failing" /\ verdict = "snapshot" => broken # {}
       /\ pc = "failing" /\ verdict = "init" => Cardinality(broken) >= MaxInitFailures

\* An App of the team is never touched, nor one that passed.
ProtectedUntouched ==
    touched # "none" => target.workspace = "personal" /\ verdict # "none"

\* A container of this phase wrote the lines of its start and, if it is the
\* last one and answered, those of the answer; the end of a container is only
\* in the log of an earlier phase.
LinesFit ==
    /\ pc = "zero" => request = "none" /\ \A i \in DOMAIN boxes : boxes[i].born < phase
    /\ live => boxes # <<>>
    /\ pc = "watch" /\ live => Box.born = phase
    /\ \A i \in DOMAIN boxes : boxes[i].born = phase =>
         \/ boxes[i].lines = boxes[i].start
         \/ /\ i = Len(boxes) /\ request # "sent" /\ boxes[i].start \in Started
            /\ \E s \in Serving : boxes[i].lines = boxes[i].start \o s

\* What the later steps of the smoke test rely on.
StepsFit ==
    /\ pc = "s3" =>
         /\ boxes # <<>> /\ Box.born = phase /\ Box.start = Restored
         /\ Last(Box.lines) = "post200" /\ "mixed" \notin Range(Box.lines)
    /\ request = "sent" => pc = "watch"
    /\ pc \in {"s3", "passed"} => request = "ok"
    /\ pc \in {"failing", "failed"} => request = "none" /\ verdict # "none"
    /\ touched # "none" => pc = "failed"

SmokeInvariant ==
    /\ SmokeTypeOK /\ LinesFit /\ StepsFit
    /\ PassMeansRestored /\ BlameIsTrue /\ ProtectedUntouched

\* The smoke test comes to an end, whatever Modal does.
SmokeEnds == <>(pc \in {"passed", "failed"})
=============================================================================
