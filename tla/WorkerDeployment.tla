-------------------------- MODULE WorkerDeployment --------------------------
(***************************************************************************)
(* The GPU worker of the body image validation from the deployment command *)
(* to the end of a container: the settings deploy_checks.py checks and     *)
(* hands on, the file that registers them, and the container that starts   *)
(* with what came through of them, owns its models and closes them.        *)
(*                                                                         *)
(* A setting that is not there is "" or 0.  The validation mode and the    *)
(* GPU type are fixed by the file and left out.                            *)
(***************************************************************************)
EXTENDS Naturals, FiniteSets

CONSTANT Containers  \* values of --max-containers; 0: not given

DeploymentAssumption == Containers \subseteq Nat

VARIABLES
    cmd, shell,     \* the arguments, and the shell they were given in
    step,           \* where all this is
    deployed,       \* the configuration that was registered
    env,            \* what a container finds in its environment
    open,           \* the detectors that are open
    models,         \* the detectors of BodyImageModels, and its _closed
    runtime,        \* the models of the runtime, {} without one
    gpuMode         \* self.gpu_snapshot

container == <<env, open, models, runtime, gpuMode>>
vars == <<cmd, shell, step, deployed, container>>

Command ==
    [command : {"deploy", "manual"}, stage : {"production", "staging"},
     workspace : {"team", "personal"}, gpu : BOOLEAN, diagnostics : BOOLEAN,
     containers : Containers, inputs : 1..3]

\* At most one leftover of an earlier deployment.
Leftover == {"none", "gpu_off", "inputs", "unknown"}

Shell == [workspace : {"team", "personal", "none"}, override : BOOLEAN,
          leftover : Leftover, secret : BOOLEAN]

NotDeployed == [stage |-> "", gpu |-> FALSE, containers |-> 0, diagnostics |-> FALSE, inputs |-> 0]

\* The detectors of prepare_cpu, and those a request makes (BodyImageModels.load).
Prepared == {"person", "pose"}
Loaded == {"person2", "pose2"}

DeploymentTypeOK ==
    /\ step # "start" => cmd \in Command /\ shell \in Shell
    /\ step \in {"start", "checks", "refused", "registered", "new", "snapshot", "serving", "ended", "dead", "killed"}
    /\ deployed.containers \in Nat
    /\ open \subseteq Prepared \cup Loaded
    /\ models \in {"none", "open", "closed"}
    /\ runtime \in {{}, Prepared, Loaded}
    /\ gpuMode \in BOOLEAN

NoEnv == [imageStage |-> "", imageGpu |-> FALSE, stage |-> "", gpu |-> FALSE,
          inputs |-> 0, limiter |-> 0]

NoCommand == [command |-> "none", stage |-> "none", workspace |-> "none"]

Init ==
    /\ cmd = NoCommand /\ shell = NoCommand /\ step = "start"
    /\ deployed = NotDeployed
    /\ env = NoEnv
    /\ open = {} /\ models = "none" /\ runtime = {} /\ gpuMode = FALSE

-----------------------------------------------------------------------------
(* deploy_checks.py: the settings and the checks before a deployment. *)

\* What is asked for, and where.
Arguments ==
    /\ step = "start" /\ step' = "checks"
    /\ cmd' \in Command
    /\ shell' \in {s \in Shell : ~s.override \/ s.leftover = "none"}
    /\ UNCHANGED <<deployed, container>>

\* deploy_env: all of the variables, whatever the shell has.
Wanted ==
    [stage |-> cmd.stage,
     gpu |-> IF cmd.stage = "staging" \/ cmd.gpu THEN "true" ELSE "false",
     containers |-> cmd.containers,
     diagnostics |-> IF cmd.diagnostics THEN "true" ELSE "false",
     inputs |-> cmd.inputs, unknown |-> FALSE]

\* check_env_sources: a leftover with the wanted value does no harm.
SourcesAgree ==
    CASE shell.leftover = "none" -> TRUE
      [] shell.leftover = "gpu_off" -> Wanted.gpu = "false"
      [] shell.leftover = "inputs" -> Wanted.inputs = 2
      [] OTHER -> FALSE

\* resolve_deploy_config on the machine that deploys.
Acceptable(e) ==
    /\ ~e.unknown
    /\ e.inputs \in 0..2
    /\ e.containers \in 0..20
    /\ e.stage = "staging" => e.gpu # "false" /\ e.containers \in {0, 1}
    /\ e.stage = "production" =>
         /\ e.gpu = "true" => e.containers # 0
         /\ e.diagnostics # "true"

Config(e) ==
    [stage |-> e.stage,
     gpu |-> e.stage = "staging" \/ e.gpu = "true",
     containers |-> IF e.stage = "staging" THEN 1 ELSE e.containers,
     diagnostics |-> e.diagnostics = "true",
     inputs |-> IF e.inputs = 0 THEN 1 ELSE e.inputs]

\* What the function and the image are given: nothing of the stage without a
\* GPU snapshot, nothing of the inputs unless they are two.
FunctionEnv(c) ==
    [stage |-> IF c.gpu THEN c.stage ELSE "", gpu |-> c.gpu,
     inputs |-> IF c.inputs > 1 THEN c.inputs ELSE 0,
     limiter |-> IF c.inputs > 1 THEN c.inputs ELSE 0]

\* check_deploy_config and check_concurrency.
ConfigAsExpected(c) ==
    /\ c.stage = cmd.stage
    /\ c.gpu = (cmd.stage = "staging" \/ cmd.gpu)
    /\ FunctionEnv(c).gpu = c.gpu
    /\ IF cmd.stage = "staging" THEN c.containers = 1
       ELSE c.containers = cmd.containers /\ (cmd.gpu => c.containers >= 1) /\ ~c.diagnostics
    /\ c.inputs = cmd.inputs
    /\ FunctionEnv(c).limiter = IF cmd.inputs > 1 THEN cmd.inputs ELSE 0

\* resolve_profile, check_modal_target_env and the workspace of production.
TargetIsKnown ==
    /\ shell.workspace = cmd.workspace /\ ~shell.override
    /\ cmd.stage = "production" => cmd.workspace = "team"

\* The Secret is only looked up in a target that is known.
PreflightPasses ==
    /\ TargetIsKnown /\ SourcesAgree
    /\ Acceptable(Wanted) /\ ConfigAsExpected(Config(Wanted))
    /\ shell.secret

ToolDeploys == cmd.command = "deploy" /\ cmd.stage # "production"

\* main: only what was checked is handed on, without what the shell has.  For
\* production somebody runs the printed command, after a preflight.
Deploy ==
    /\ step = "checks"
    /\ IF PreflightPasses /\ (ToolDeploys \/ (cmd.command = "manual" /\ cmd.stage = "production"))
       THEN step' = "registered" /\ deployed' = Config(Wanted)
       ELSE step' = "refused" /\ UNCHANGED deployed
    /\ UNCHANGED <<cmd, shell, container>>

\* registered_checks with the same arguments; production has to name its limit.
RegisteredAsExpected ==
    /\ deployed.stage = cmd.stage
    /\ deployed.inputs = cmd.inputs
    /\ deployed.containers = IF cmd.stage = "staging" THEN 1 ELSE cmd.containers

-----------------------------------------------------------------------------
(* body_image_worker.py in a container. *)

\* One of the ways the settings come may be broken.
Arriving(f) ==
    LET full == [imageStage |-> f.stage, imageGpu |-> f.gpu, stage |-> f.stage,
                 gpu |-> f.gpu, inputs |-> f.inputs, limiter |-> f.limiter]
    IN {full, [full EXCEPT !.imageStage = "", !.imageGpu = FALSE],
        [full EXCEPT !.stage = "", !.gpu = FALSE], [full EXCEPT !.gpu = FALSE],
        [full EXCEPT !.limiter = 0]}

\* A container starts.
Arrives ==
    /\ step = "registered"
    /\ step' = "new"
    /\ env' \in Arriving(FunctionEnv(deployed))
    /\ UNCHANGED <<cmd, shell, deployed, open, models, runtime, gpuMode>>

StageOf(s) == IF s = "" THEN "production" ELSE s

\* resolve_gpu_snapshot: the image and the function say the same.
GpuSnapshotResolves ==
    /\ StageOf(env.imageStage) = StageOf(env.stage) /\ env.imageGpu = env.gpu
    /\ StageOf(env.stage) = "staging" => env.gpu

\* check_worker_concurrency; both are 1 unless the environment says otherwise.
ConcurrencyAgrees == env.inputs > 1 => env.limiter = env.inputs

Deployment == <<cmd, shell, deployed, env>>

Ends(where, left) ==
    /\ step' = where /\ open' = left /\ models' = "closed" /\ runtime' = {}
    /\ UNCHANGED <<Deployment, gpuMode>>

\* enter(snap=True) stops: the settings disagree, or prepare_cpu could not make
\* both detectors and closed the first.
PrepareFails == step = "new" /\ Ends("dead", {})

\* What BodyImageModels.load closes when it fails, or models.close later.
ClosedByLoad == Prepared

\* With a GPU snapshot the models are made, warmed up and have to be on the GPU.
PrepareModels ==
    /\ step = "new" /\ GpuSnapshotResolves /\ ConcurrencyAgrees /\ env.gpu
    /\ \/ Ends("dead", Prepared \ ClosedByLoad)
       \/ /\ step' = "snapshot" /\ open' = Prepared /\ models' = "open" /\ gpuMode' = TRUE
          /\ UNCHANGED <<Deployment, runtime>>

\* Otherwise only the detectors.
PrepareDetectors ==
    /\ step = "new" /\ GpuSnapshotResolves /\ ConcurrencyAgrees /\ ~env.gpu
    /\ step' = "snapshot" /\ open' = Prepared /\ gpuMode' = FALSE
    /\ UNCHANGED <<Deployment, models, runtime>>

Restorable == step = "snapshot" /\ GpuSnapshotResolves /\ env.gpu = gpuMode /\ ConcurrencyAgrees

\* enter(snap=False) raises: what came through differs from the snapshot's, or
\* the settings are not those of a worker.  The process ends with its models.
StartRaises == step = "snapshot" /\ Ends("killed", open)

\* start_gpu makes the models now, S3 first.  It closes the detectors if there
\* is no bucket, load closes them if it fails.
MakeModels ==
    /\ Restorable /\ ~gpuMode /\ models = "none"
    /\ \/ models' = "open" /\ UNCHANGED <<step, open>>
       \/ models' = "closed" /\ step' = "serving" /\ open' = Prepared \ ClosedByLoad
    /\ UNCHANGED <<Deployment, runtime, gpuMode>>

\* And warms them up; a failure closes them and goes up.
WarmUpFails == Restorable /\ ~gpuMode /\ models = "open" /\ Ends("dead", {})

\* The models are closed, by create or after it.
Unregistered == {}

\* _register_runtime: runtime_manager.start with the models.
Register ==
    /\ Restorable /\ models = "open"
    /\ step' = "serving"
    /\ \/ runtime' = Prepared /\ UNCHANGED <<open, models>>
       \/ models' = "closed" /\ open' = Unregistered /\ UNCHANGED runtime
    /\ UNCHANGED <<Deployment, gpuMode>>

\* get_service: a request tries again, with models of its own; load closes
\* them if that fails.
Lookup ==
    /\ step = "serving" /\ runtime = {}
    /\ runtime' = Loaded /\ open' = open \cup Loaded
    /\ UNCHANGED <<Deployment, step, models, gpuMode>>

\* exit: runtime_manager.close.
Exit == step = "serving" /\ Ends("ended", open \ runtime)

Next ==
    \/ Arguments \/ Deploy \/ Arrives
    \/ PrepareFails \/ PrepareModels \/ PrepareDetectors
    \/ StartRaises \/ MakeModels \/ WarmUpFails \/ Register \/ Lookup \/ Exit

Spec == Init /\ [][Next]_vars

-----------------------------------------------------------------------------
(* Properties. *)

\* What is registered is what the arguments say and the preflight saw, and the
\* tool itself never deploys production.
DeployedAsChecked ==
    deployed # NotDeployed =>
        /\ RegisteredAsExpected
        /\ shell.workspace = cmd.workspace
        /\ cmd.stage = "production" => cmd.command = "manual" /\ cmd.workspace = "team"
        /\ deployed.gpu /\ deployed.stage = "production" => deployed.containers > 0

\* A container that serves is in the mode that was deployed, whichever way of
\* the settings was broken: it stops rather than fall back to another mode.
ServesAsDeployed ==
    step = "serving" =>
        /\ gpuMode = deployed.gpu /\ StageOf(env.stage) = deployed.stage
        /\ deployed.inputs > 1 => env.limiter = deployed.inputs

\* Every detector that is open belongs to the runtime, or to models on their
\* way to it; nothing stays open behind a failure, and nothing the runtime
\* uses is closed.
DetectorsAreOwned ==
    /\ step = "serving" => open = runtime
    /\ step \in {"new", "ended", "dead"} => open = {}
    /\ step = "snapshot" => open = Prepared

\* A container has the settings of the deployment, which are those the preflight
\* saw, but for one broken way, and a snapshot is only taken where they agree.
SettingsFit ==
    /\ deployed # NotDeployed => deployed = Config(Wanted)
    /\ step \in {"start", "checks", "refused"} => deployed = NotDeployed
    /\ step \in {"start", "checks", "refused", "registered"} =>
         open = {} /\ models = "none" /\ runtime = {}
    /\ step = "new" => models = "none" /\ runtime = {}
    /\ step \in {"registered", "new", "snapshot", "serving"} => deployed # NotDeployed
    /\ step \in {"new", "snapshot", "serving"} => env \in Arriving(FunctionEnv(deployed))
    /\ step \in {"snapshot", "serving"} =>
         GpuSnapshotResolves /\ ConcurrencyAgrees /\ env.gpu = gpuMode
    /\ step = "snapshot" => models # "closed" /\ runtime = {}

DeploymentInvariant ==
    /\ DeploymentTypeOK /\ DeployedAsChecked /\ ServesAsDeployed /\ DetectorsAreOwned
    /\ SettingsFit
=============================================================================
