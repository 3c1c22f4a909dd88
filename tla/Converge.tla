------------------------------ MODULE Converge ------------------------------
(***************************************************************************)
(* One managed node and the spark-lab commands that act on it: `apply`     *)
(* (routine, --restart-model, --no-model), `model stop`, `teardown`,       *)
(* `adopt` and `litellm restart`.  A command is a sequence of steps; at    *)
(* every step the node's own processes may move, the operator may edit     *)
(* config.yaml, a step may fail and the command may be killed.             *)
(*                                                                         *)
(* config, disk, state, running, gateway and prometheus are real: the      *)
(* configuration file, the install directory, state.json, the sparkrun     *)
(* workloads, and the files the two daemons booted from.  pc, view, plan   *)
(* and todo are the running command's control point, the config it loaded, *)
(* its plan and the stale workloads it has yet to stop.  edits bounds the  *)
(* operator, and mishaps only observes: it collects the events after which *)
(* state.json no longer accounts for what runs, and no action reads it.    *)
(***************************************************************************)
EXTENDS ConvergePlan, Sequences

CONSTANTS
  Port,       \* [Models -> Nat]: the port whose /health a recipe answers
  Commands,   \* the commands the operator uses
  Faults,     \* the failures the environment may produce
  MaxEdits    \* bound on edits of config.yaml

AllCommands == {"apply", "apply --restart-model", "apply --no-model",
                "model stop", "teardown", "adopt", "litellm restart"}

\* A step that fails has the step's name; "crash" kills the command, "torn"
\* leaves half a state.json, a workload may "exit", the containers "reboot", and
\* the operator may "edit" config.yaml while a command runs.
AllFaults == {"write", "mesh", "stop", "compose", "reload", "restart", "health",
              "probe", "delete", "down", "crash", "torn", "exit", "reboot", "edit"}

ASSUME PortAssumption     == Port \in [Models -> Nat]
ASSUME CommandsAssumption == Commands \subseteq AllCommands
ASSUME FaultsAssumption   == Faults \subseteq AllFaults
ASSUME MaxEditsAssumption == MaxEdits \in Nat

VARIABLES config, disk, state, running, gateway, prometheus,
          pc, view, plan, todo, edits, mishaps

node == <<disk, running, gateway, prometheus>>
vars == <<config, disk, state, running, gateway, prometheus,
          pc, view, plan, todo, edits, mishaps>>

ApplyPcs    == {"write", "mesh", "stop", "restop", "compose", "reload", "bounce",
                "health", "ensure", "probe", "delete", "save"}
ModelStopPcs == {"mstop", "mrecord"}
TeardownPcs == {"tstop", "tdown", "tclear"}
LitellmPcs  == {"lwrite", "lrestart", "lhealth", "lsave"}
Pcs         == ApplyPcs \cup ModelStopPcs \cup TeardownPcs \cup LitellmPcs \cup {"idle"}

\* What a gateway that boots now reads: extra_models.yaml only if included.
Snapshots == [config : Contents \cup {None}, models : Contents \cup {None},
              extra : Contents \cup {None}]
Snapshot(d) == [config |-> d[GwConfig], models |-> d[ModelConfig],
                extra  |-> IF d[GwConfig] \in Including THEN d[ExtraModels] ELSE None]

\* What can come between state.json and the node; the last two, a best-effort call
\* that failed, only concern the daemons.
DaemonMishaps == {"restart", "reload"}
Mishaps == {"edit", "no_model", "adopt", "stop", "teardown", "torn"} \cup DaemonMishaps

TypeOK ==
  /\ config \in Configs
  /\ disk \in Files
  /\ state \in States
  /\ running \in [Models -> Contents \cup {None}]
  /\ gateway \in Snapshots \cup {None}
  /\ prometheus \in Contents \cup {None}
  /\ pc \in Pcs
  /\ view \in Configs \cup {None}
  /\ pc # "idle" => view \in Configs
  /\ plan \in Plans \cup {None}
  /\ pc \in ApplyPcs => plan \in Plans
  /\ todo \subseteq Models
  /\ edits \in 0..MaxEdits
  /\ mishaps \subseteq Mishaps

\* A host before its first apply, with the configuration written.
Init ==
  /\ config \in Configs
  /\ disk = NoFiles
  /\ state = EmptyState
  /\ running = [m \in Models |-> None]
  /\ gateway = None
  /\ prometheus = None
  /\ pc = "idle"
  /\ view = None
  /\ plan = None
  /\ todo = {}
  /\ edits = 0
  /\ mishaps = {}

-----------------------------------------------------------------------------
(* Control *)

May(fault) == fault \in Faults

Goto(next) == pc' = next /\ UNCHANGED <<view, plan, todo>>

Return == pc' = "idle" /\ view' = None /\ plan' = None /\ todo' = {}

Begin(first) ==
  /\ pc = "idle"
  /\ pc' = first
  /\ view' = config
  /\ UNCHANGED <<config, state, node, edits>>

Note(mishap, happened) == mishaps' = IF happened THEN mishaps \cup {mishap} ELSE mishaps

\* State.save overwrites state.json in place; a half-written file loads as empty.
SaveState(new) ==
  \/ state' = new /\ Return /\ UNCHANGED mishaps
  \/ May("torn") /\ state' = EmptyState /\ Return /\ Note("torn", TRUE)

Blank == /\ state = EmptyState
         /\ running = [m \in Models |-> None]
         /\ gateway = None
         /\ prometheus = None

\* What state.json says once config.yaml has been applied in full.
Settled == pc = "idle" /\ state = ConvergedState(config)

NothingStale == StaleRecipes(config, state, TRUE) = {}

-----------------------------------------------------------------------------
(* apply: commands/apply.py _converge_one, core/converge.py execute *)

StartApply(restart, noModel) ==
  LET launch == Launches(config, noModel) IN
  /\ restart => "apply --restart-model" \in Commands
  /\ noModel => "apply --no-model" \in Commands
  /\ restart \/ noModel \/ "apply" \in Commands
  /\ HasModel(config) => config.image
  /\ Begin("write")
  /\ plan' = BuildPlan(config, state, restart, launch)
  /\ todo' = plan'.stale
  /\ Note("no_model", ~launch /\ ~ModelQuiet(config, state))

\* Fail-safe (ADR 0004): a model with no image is refused before anything else.
RefuseApply ==
  /\ pc = "idle"
  /\ Commands \cap {"apply", "apply --restart-model", "apply --no-model"} # {}
  /\ HasModel(config) /\ ~config.image
  /\ Return
  /\ UNCHANGED <<config, state, node, edits, mishaps>>

\* Every rendered file is written, in the order of the mapping.
WriteOrder == <<Compose, GwConfig, ModelConfig, GwEnv, ExtraModels,
                Prometheus, Grafana, GpuScript>>
WrittenBefore(k) == Models \cup {WriteOrder[i] : i \in 1..k}

WriteSome(rels) ==
  disk' = [r \in Rels |-> IF r \in rels \cap TargetMapping(view) THEN OnNode(view)[r] ELSE disk[r]]

WriteFiles ==
  /\ pc = "write"
  /\ WriteSome(Rels)
  /\ Goto("mesh")
  /\ UNCHANGED <<config, state, running, gateway, prometheus, edits, mishaps>>

WriteFails ==
  /\ pc = "write" /\ May("write")
  /\ \E k \in 0..Len(WriteOrder) : WriteSome(WrittenBefore(k))
  /\ Return
  /\ UNCHANGED <<config, state, running, gateway, prometheus, edits, mishaps>>

\* A command that fails, and is not best effort, ends the converge at once:
\* nothing is deleted and nothing is recorded.
CommandFails(at, fault) ==
  /\ pc = at /\ May(fault)
  /\ Return
  /\ UNCHANGED <<config, state, node, edits, mishaps>>

\* Set up the SSH mesh and the saved cluster, when the plan has them.
Mesh ==
  /\ pc = "mesh"
  /\ Goto("stop")
  /\ UNCHANGED <<config, state, node, edits, mishaps>>

MeshFails == pc = "mesh" /\ plan.mesh /\ CommandFails("mesh", "mesh")

\* tolerant_stop_argv: nothing to stop is a success.
StopStale(m) ==
  /\ pc = "stop" /\ m \in todo
  /\ running' = [running EXCEPT ![m] = None]
  /\ todo' = todo \ {m}
  /\ UNCHANGED <<config, disk, state, gateway, prometheus, pc, view, plan, edits, mishaps>>

StopsDone ==
  /\ pc = "stop" /\ todo = {}
  /\ Goto("restop")
  /\ UNCHANGED <<config, state, node, edits, mishaps>>

StopCurrent ==
  /\ pc = "restop"
  /\ running' = IF plan.restop THEN [running EXCEPT ![view.recipe] = None] ELSE running
  /\ Goto("compose")
  /\ UNCHANGED <<config, disk, state, gateway, prometheus, edits, mishaps>>

StopFails ==
  \/ pc = "stop" /\ todo # {} /\ CommandFails("stop", "stop")
  \/ pc = "restop" /\ plan.restop /\ CommandFails("restop", "stop")

\* `docker compose up -d --remove-orphans`: a service that is not in the file
\* goes away, one that is down boots, one that is up may be recreated.
UpOrRecreated(wanted, loaded, fresh) ==
  IF wanted THEN {fresh} \cup ({loaded} \ {None}) ELSE {None}

ComposeUp ==
  /\ pc = "compose"
  /\ IF plan.compose
     THEN /\ gateway' \in UpOrRecreated(view.controlPlane, gateway, Snapshot(disk))
          /\ prometheus' \in UpOrRecreated(view.role = "full", prometheus, disk[Prometheus])
     ELSE UNCHANGED <<gateway, prometheus>>
  /\ Goto("reload")
  /\ UNCHANGED <<config, disk, state, running, edits, mishaps>>

ComposeFails == pc = "compose" /\ plan.compose /\ CommandFails("compose", "compose")

\* Best effort: a daemon that is down, or a failing call, is passed over.
ReloadPrometheus ==
  /\ pc = "reload"
  /\ \/ plan.reload /\ prometheus # None /\ prometheus' = disk[Prometheus] /\ UNCHANGED mishaps
     \/ plan.reload /\ (prometheus = None \/ May("reload")) /\ UNCHANGED prometheus /\ Note("reload", TRUE)
     \/ ~plan.reload /\ UNCHANGED <<prometheus, mishaps>>
  /\ Goto("bounce")
  /\ UNCHANGED <<config, disk, state, running, gateway, edits>>

\* Best effort too; a failure is not remembered, and the next step only asks
\* whether some gateway answers.
RestartGateway ==
  /\ pc = "bounce"
  /\ \/ plan.bounce /\ gateway # None /\ gateway' = Snapshot(disk) /\ UNCHANGED mishaps
     \/ plan.bounce /\ (gateway = None \/ May("restart")) /\ UNCHANGED gateway /\ Note("restart", TRUE)
     \/ ~plan.bounce /\ UNCHANGED <<gateway, mishaps>>
  /\ Goto("health")
  /\ UNCHANGED <<config, disk, state, running, prometheus, edits>>

VerifyGateway ==
  /\ pc = "health"
  /\ plan.bounce => gateway # None
  /\ Goto("ensure")
  /\ UNCHANGED <<config, state, node, edits, mishaps>>

\* A gateway that is down never passes; one that is up may be slow.
VerifyFails ==
  /\ pc = "health" /\ plan.bounce
  /\ gateway = None \/ May("health")
  /\ Return
  /\ UNCHANGED <<config, state, node, edits, mishaps>>

\* `sparkrun run <recipe file> --ensure`, detached: a no-op when the recipe's
\* workload is up, whatever content it was started with.
EnsureModel ==
  /\ pc = "ensure"
  /\ running' = IF plan.ensure /\ running[view.recipe] = None
                THEN [running EXCEPT ![view.recipe] = disk[view.recipe]] ELSE running
  /\ Goto(IF plan.ensure THEN "probe" ELSE "delete")
  /\ UNCHANGED <<config, disk, state, gateway, prometheus, edits, mishaps>>

\* The probe asks a port, not a recipe.
Answering(m) == \E w \in Models : running[w] # None /\ Port[w] = Port[m]

ProbeModel ==
  /\ pc = "probe" /\ Answering(view.recipe)
  /\ Goto("delete")
  /\ UNCHANGED <<config, state, node, edits, mishaps>>

ProbeFails ==
  /\ pc = "probe"
  /\ ~Answering(view.recipe) \/ May("probe")
  /\ Return
  /\ UNCHANGED <<config, state, node, edits, mishaps>>

\* Only files of kind "removed", and not while a restart is pending.
DeleteSome(rels) ==
  disk' = [r \in Rels |-> IF ~plan.pending /\ r \in rels THEN None ELSE disk[r]]

DeleteRemoved ==
  /\ pc = "delete"
  /\ DeleteSome(plan.removed)
  /\ Goto("save")
  /\ UNCHANGED <<config, state, running, gateway, prometheus, edits, mishaps>>

DeleteFails ==
  /\ pc = "delete" /\ May("delete")
  /\ \E rels \in SUBSET plan.removed : DeleteSome(rels)
  /\ Return
  /\ UNCHANGED <<config, state, running, gateway, prometheus, edits, mishaps>>

SaveApply ==
  /\ pc = "save"
  /\ SaveState(StateAfterApply(view, plan, state))
  /\ UNCHANGED <<config, node, edits>>

Apply ==
  \/ \E restart, noModel \in BOOLEAN : StartApply(restart, noModel)
  \/ RefuseApply \/ WriteFiles \/ Mesh \/ (\E m \in Models : StopStale(m)) \/ StopsDone
  \/ StopCurrent \/ ComposeUp \/ ReloadPrometheus \/ RestartGateway \/ VerifyGateway
  \/ EnsureModel \/ ProbeModel \/ DeleteRemoved \/ SaveApply

ApplyFails == WriteFails \/ MeshFails \/ StopFails \/ ComposeFails \/ VerifyFails \/ ProbeFails
              \/ DeleteFails

\* One step of a running apply.
MovesOn == (Apply \/ ApplyFails) /\ pc # "idle"

-----------------------------------------------------------------------------
(* model stop: commands/model.py _stop_one *)

StartModelStop ==
  /\ "model stop" \in Commands
  /\ Begin("mstop")
  /\ UNCHANGED <<plan, todo>>
  /\ Note("stop", ~NothingStale)

StopConfigured ==
  /\ HasModel(view)
  /\ running' = [running EXCEPT ![view.recipe] = None]

StopModel ==
  /\ pc = "mstop"
  /\ StopConfigured \/ (~HasModel(view) /\ UNCHANGED running)
  /\ Goto("mrecord")
  /\ UNCHANGED <<config, disk, state, gateway, prometheus, edits, mishaps>>

StopModelFails == CommandFails("mstop", "stop")

RecordStop ==
  /\ pc = "mrecord"
  /\ SaveState([files |-> state.files, model |-> None])
  /\ UNCHANGED <<config, node, edits>>

ModelStop == StartModelStop \/ StopModel \/ StopModelFails \/ RecordStop

-----------------------------------------------------------------------------
(* teardown: commands/teardown.py _teardown_one; both exit codes are ignored *)

StartTeardown ==
  /\ "teardown" \in Commands
  /\ Begin("tstop")
  /\ UNCHANGED <<plan, todo>>
  /\ Note("teardown", ~NothingStale)

TeardownStop ==
  /\ pc = "tstop"
  /\ \/ StopConfigured /\ UNCHANGED mishaps
     \/ ~HasModel(view) /\ UNCHANGED <<running, mishaps>>
     \/ May("stop") /\ UNCHANGED running /\ Note("teardown", TRUE)
  /\ Goto("tdown")
  /\ UNCHANGED <<config, disk, state, gateway, prometheus, edits>>

ComposeDown ==
  /\ pc = "tdown"
  /\ \/ gateway' = None /\ prometheus' = None /\ UNCHANGED mishaps
     \/ May("down") /\ UNCHANGED <<gateway, prometheus>> /\ Note("teardown", TRUE)
  /\ Goto("tclear")
  /\ UNCHANGED <<config, disk, state, running, edits>>

ClearState ==
  /\ pc = "tclear"
  /\ state' = EmptyState
  /\ Return
  /\ UNCHANGED <<config, node, edits, mishaps>>

Teardown == StartTeardown \/ TeardownStop \/ ComposeDown \/ ClearState

-----------------------------------------------------------------------------
(* adopt: commands/adopt.py _adopt_one *)

InstallDirExists == \E r \in Rels : disk[r] # None

AdoptedState(c, d) ==
  [files |-> [r \in Rels |-> IF r \in TargetMapping(c) THEN d[r] ELSE None],
   model |-> IF HasModel(c) /\ d[c.recipe] # None
             THEN [name |-> c.recipe, hash |-> d[c.recipe]] ELSE None]

Adopt ==
  /\ pc = "idle" /\ "adopt" \in Commands /\ InstallDirExists
  /\ \/ state' = AdoptedState(config, disk) /\ Return /\ Note("adopt", ~Settled)
     \/ May("torn") /\ state' = EmptyState /\ Return /\ Note("torn", TRUE)
  /\ UNCHANGED <<config, node, edits>>

-----------------------------------------------------------------------------
(* litellm restart: commands/litellm.py _one *)

StartLitellmRestart ==
  /\ "litellm restart" \in Commands
  /\ config.controlPlane /\ InstallDirExists
  /\ Begin("lwrite")
  /\ UNCHANGED <<plan, todo, mishaps>>

StaleGatewayFiles(c, s) == Changed(c, s) \cap GatewayRels

\* Mutant: records the gateway files without having written them.
SkipsGatewayFiles ==
  /\ pc = "lwrite"
  /\ Goto("lrestart")
  /\ UNCHANGED <<config, state, node, edits, mishaps>>

WriteGatewayFiles ==
  /\ pc = "lwrite"
  /\ WriteSome(StaleGatewayFiles(view, state))
  /\ Goto("lrestart")
  /\ UNCHANGED <<config, state, running, gateway, prometheus, edits, mishaps>>

GatewayWriteFails ==
  /\ pc = "lwrite" /\ May("write")
  /\ \E rels \in SUBSET StaleGatewayFiles(view, state) : WriteSome(rels)
  /\ Return
  /\ UNCHANGED <<config, state, running, gateway, prometheus, edits, mishaps>>

\* A failed restart still runs the health poll, but records nothing (rc |= ...).
LitellmRestart ==
  /\ pc = "lrestart"
  /\ gateway # None /\ gateway' = Snapshot(disk)
  /\ Goto("lhealth")
  /\ UNCHANGED <<config, disk, state, running, prometheus, edits, mishaps>>

LitellmHealthy ==
  /\ pc = "lhealth"
  /\ Goto("lsave")
  /\ UNCHANGED <<config, state, node, edits, mishaps>>

LitellmFails ==
  /\ \/ pc = "lrestart" /\ (gateway = None \/ May("restart"))
     \/ pc = "lhealth" /\ May("health")
  /\ Return
  /\ UNCHANGED <<config, state, node, edits, mishaps>>

WithGatewayFiles(c, s) ==
  [files |-> [r \in Rels |-> IF r \in GatewayRels \cap TargetMapping(c) THEN Render(c)[r] ELSE s.files[r]],
   model |-> s.model]

SaveGatewayFiles ==
  /\ pc = "lsave"
  /\ SaveState(WithGatewayFiles(view, state))
  /\ UNCHANGED <<config, node, edits>>

Litellm == StartLitellmRestart \/ WriteGatewayFiles \/ GatewayWriteFails \/ LitellmRestart
           \/ LitellmHealthy \/ LitellmFails \/ SaveGatewayFiles

-----------------------------------------------------------------------------
(* The environment *)

\* The operator writes another configuration.
EditConfig(c) ==
  /\ pc = "idle" \/ May("edit")
  /\ edits < MaxEdits /\ c # config
  /\ config' = c
  /\ edits' = edits + 1
  /\ Note("edit", ~Settled /\ ~(pc = "idle" /\ Blank))
  /\ UNCHANGED <<state, node, pc, view, plan, todo>>

\* An exception, a signal or a lost connection ends the command where it is.
Crash ==
  /\ pc # "idle" /\ May("crash")
  /\ Return
  /\ Note("teardown", pc = "tclear")
  /\ UNCHANGED <<config, state, node, edits>>

WorkloadExits(m) ==
  /\ May("exit") /\ running[m] # None
  /\ running' = [running EXCEPT ![m] = None]
  /\ UNCHANGED <<config, disk, state, gateway, prometheus, pc, view, plan, todo, edits, mishaps>>

\* restart: always -- a container that stops boots again from its files.
ContainersReboot ==
  /\ May("reboot")
  /\ gateway' = IF gateway = None THEN None ELSE Snapshot(disk)
  /\ prometheus' = IF prometheus = None THEN None ELSE disk[Prometheus]
  /\ UNCHANGED <<config, disk, state, running, pc, view, plan, todo, edits, mishaps>>

Environment ==
  \/ \E c \in Configs : EditConfig(c)
  \/ Crash
  \/ \E m \in Models : WorkloadExits(m)
  \/ ContainersReboot

Next == Apply \/ ApplyFails \/ ModelStop \/ Teardown \/ Adopt \/ Litellm \/ Environment

Spec == Init /\ [][Next]_vars

(***************************************************************************)
(* Fairness.  execute() runs its commands one after the other and every    *)
(* poll in them is bounded, so a running command moves on.  The operator   *)
(* comes back with `apply --restart-model` for as long as something is     *)
(* pending, and no external command fails for ever.                        *)
(***************************************************************************)
InRetry(A) == A /\ plan.restart

Persistence ==
  /\ WF_vars(MovesOn)
  /\ SF_vars(StartApply(TRUE, FALSE))
  /\ SF_vars(InRetry(\E m \in Models : StopStale(m)))
  /\ SF_vars(InRetry(StopCurrent))
  /\ SF_vars(InRetry(ComposeUp))
  /\ SF_vars(InRetry(VerifyGateway))
  /\ SF_vars(InRetry(ProbeModel))

LiveSpec == Spec /\ Persistence

-----------------------------------------------------------------------------
(* What the commands promise *)

\* Every running workload is the configured recipe, with the configured content.
NoOrphans(c) ==
  \A m \in Models : running[m] # None => m = c.recipe /\ running[m] = OnNode(c)[m]

\* The gateway has booted from the configured files.
GatewayServes(c) == gateway = IF c.controlPlane THEN Snapshot(OnNode(c)) ELSE None

\* Prometheus has loaded the configured targets.
PrometheusScrapes(c) == prometheus = IF c.role = "full" THEN OnNode(c)[Prometheus] ELSE None

\* README "idempotent and convergent", converge.py:7-14: when state.json records
\* the configuration as applied, no workload is left behind and none runs an old
\* recipe, unless one of the events in mishaps came before.
NoSilentDrift == Settled /\ mishaps \subseteq DaemonMishaps => NoOrphans(config)

\* converge.py:345-351: in the same situation the gateway serves the configured
\* model list, also after failed converges, reboots and restarts by hand.
GatewayFresh ==
  Settled /\ mishaps \subseteq {"no_model", "stop", "reload"} => GatewayServes(config)

\* converge.py:321-326: and Prometheus scrapes the configured targets.
PrometheusFresh ==
  Settled /\ mishaps \subseteq {"no_model", "stop", "restart"} => PrometheusScrapes(config)

\* apply.py:126-130: a recipe file is on the node as long as some later converge
\* may have to stop its workload by that path.
StopFindsItsRecipe ==
  /\ \A m \in PrevRecipes(state) : disk[m] # None
  /\ pc = "stop" => \A m \in todo : disk[m] # None
  /\ pc = "restop" /\ plan.restop => disk[view.recipe] # None

\* converge.py:4-5: only a command that asked for it takes a workload down or
\* starts it with another content; a routine apply never does, at any step.
RoutineApplyNeverStops ==
  [][MovesOn /\ ~plan.restart
       => \A m \in Models : running[m] # None => running'[m] = running[m]]_vars

\* state.py:11-14: a converge that leaves a restart pending records a state from
\* which the next converge of the same configuration still wants the restart.
PendingIsRemembered ==
  [][SaveApply /\ plan.pending /\ config = view /\ mishaps' \subseteq DaemonMishaps
       => NeedsRestart(config, state', Launches(config, FALSE))]_vars

\* README "idempotent and convergent": with a persistent operator, the recorded
\* state ends up being that of the configuration, whatever was edited and
\* whatever failed on the way.
StateConverges == <>[](state = ConvergedState(config))

\* ARCHITECTURE.md "The converge model": and the node itself ends up serving it,
\* the configured workload up and alone and the gateway on the configured list.
NodeConverges ==
  <>[](mishaps = {} => /\ NoOrphans(config) /\ GatewayServes(config)
                       /\ HasModel(config) => running[config.recipe] # None)

-----------------------------------------------------------------------------
(* The same promises as the documentation states them, without exceptions *)

\* converge.py:9-10: "Switching or dropping a recipe therefore converges instead
\* of leaving orphans running."
LeavesNoOrphans == Settled => NoOrphans(config)

\* converge.py:349-351: "a restart that does not come back healthy fails the
\* converge loudly instead of silently serving the old model list".
NeverServesOldList == Settled => GatewayServes(config)
=============================================================================
