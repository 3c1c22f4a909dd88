---------------------------- MODULE ConvergePlan ----------------------------
(***************************************************************************)
(* What `spark-lab apply` decides to do on one host: the pure part of      *)
(* sparklab/core/converge.py (build_plan and the two compute_*_after_apply *)
(* functions) and the file mapping of sparklab/core/render.py.             *)
(*                                                                         *)
(* A rendered file is identified with its hash, so two renders of a file   *)
(* are equal exactly when their hashes are.  The file                      *)
(* sparkrun/recipes/<m>.yaml is named by its recipe m, every file under    *)
(* litellm/ by its path in LitellmRels.                                    *)
(***************************************************************************)
EXTENDS Naturals, FiniteSets

CONSTANTS
  Models,     \* recipe names
  Contents,   \* contents of files, as hashes
  None,       \* no file, no model entry, no recipe, nothing running
  Configs,    \* the host views of config.yaml the operator may write
  Expanded,   \* [Contents -> Contents]: {install_dir} replaced by its value
  Including   \* the contents of litellm/config.yaml that include extra_models

Compose     == "litellm/docker-compose.yml"
GwConfig    == "litellm/config.yaml"
ModelConfig == "litellm/model_config.yaml"
GwEnv       == "litellm/.env"
ExtraModels == "litellm/extra_models.yaml"
Prometheus  == "litellm/prometheus.yml"
Grafana     == "litellm/grafana"
GpuScript   == "litellm/scripts/nvidia-gpu-textfile.sh"

LitellmRels == {Compose, GwConfig, ModelConfig, GwEnv, ExtraModels,
                Prometheus, Grafana, GpuScript}
Rels        == Models \cup LitellmRels

\* The files a running gateway has read (converge.py, `gateway_files`).
GatewayRels == {ModelConfig, GwConfig, ExtraModels}

\* What the engine reads of one host's view of config.yaml.
View == [recipe       : Models \cup {None},     \* Config.recipe_name
         content      : [Rels -> Contents],     \* what each template renders to
         image        : BOOLEAN,                \* image_model() resolves
         spanning     : BOOLEAN,                \* model.min_nodes > 1
         head         : BOOLEAN,                \* this host is its rank 0
         cluster      : BOOLEAN,                \* is_cluster
         controlPlane : BOOLEAN,                \* control_plane_enabled()
         role         : {"full", "exporters", "none"},  \* monitoring_role()
         extra        : BOOLEAN]                \* litellm.extra_models is set

\* The model half of state.json: the recipe confirmed running, and its hash.
ModelEntry == [name : Models, hash : Contents]

ASSUME NoneAssumption   == None \notin Models \cup Contents \cup LitellmRels /\ None \notin ModelEntry
ASSUME ModelsAssumption == Models \cap LitellmRels = {}
ASSUME ConfigsAssumption == Configs \subseteq View
\* litellm_config.yaml.j2 includes extra_models.yaml exactly when it is declared.
ASSUME IncludingAssumption ==
  \A c \in Configs : c.extra <=> c.content[GwConfig] \in Including
\* An expanded recipe holds no placeholder any more.
ASSUME ExpandedAssumption ==
  /\ Expanded \in [Contents -> Contents]
  /\ \A x \in Contents : Expanded[Expanded[x]] = Expanded[x]

Files      == [Rels -> Contents \cup {None}]
NoFiles    == [r \in Rels |-> None]
\* state.json, as State.load returns it: a missing or unreadable file is empty.
States     == [files : Files, model : ModelEntry \cup {None}]
EmptyState == [files |-> NoFiles, model |-> None]

-----------------------------------------------------------------------------
(* Rendering *)

HasModel(c) == c.recipe # None

TargetMapping(c) ==
  {r \in Rels :
     \/ r = Compose
     \/ c.controlPlane /\ r \in {GwConfig, ModelConfig, GwEnv}
     \/ c.controlPlane /\ c.extra /\ r = ExtraModels
     \/ c.role = "full" /\ r \in {Prometheus, Grafana}
     \/ c.role \in {"full", "exporters"} /\ r = GpuScript
     \/ HasModel(c) /\ r = c.recipe}

Render(c) == [r \in Rels |-> IF r \in TargetMapping(c) THEN c.content[r] ELSE None]

CurrentHash(c) == IF HasModel(c) THEN Render(c)[c.recipe] ELSE None

\* expand_install_dir: only recipes are rewritten on their way to the node.
ExpandInstallDir(r, x) == IF r \in Models /\ x # None THEN Expanded[x] ELSE x

OnNode(c) == [r \in Rels |-> ExpandInstallDir(r, Render(c)[r])]

-----------------------------------------------------------------------------
(* The plan *)

Changed(c, s) == {r \in Rels : Render(c)[r] # None /\ s.files[r] # Render(c)[r]}

Removed(c, s) == {r \in Rels : s.files[r] # None /\ Render(c)[r] = None}

\* Mutant: deletes the recipes that are no longer rendered as well.
DeletesRecipes(c, s) == Removed(c, s)

\* A recipe that is no longer rendered is "kept", the rest are "removed".
DeletedRels(c, s) == Removed(c, s) \ Models

LitellmTouched(c, s) == (Changed(c, s) \cup Removed(c, s)) \cap LitellmRels # {}

\* Mutant: forgets the recipe recorded as running.
PrevRecipesFromFiles(s) == {m \in Models : s.files[m] # None}

PrevRecipes(s) ==
  {m \in Models : s.files[m] # None \/ (s.model # None /\ s.model.name = m)}

StaleRecipes(c, s, launch) == IF launch THEN PrevRecipes(s) \ {c.recipe} ELSE {}

\* Mutant: compares the recorded file instead of the recorded workload.
RestartIfFileChanged(c, s, launch) ==
  /\ launch /\ s.model # None /\ s.model.name = c.recipe
  /\ s.files[c.recipe] # CurrentHash(c)

RestartCurrent(c, s, launch) ==
  /\ launch
  /\ s.model # None
  /\ s.model.name = c.recipe
  /\ s.model.hash # CurrentHash(c)

NeedsRestart(c, s, launch) ==
  StaleRecipes(c, s, launch) # {} \/ RestartCurrent(c, s, launch)

\* Mutant: stops stale workloads without having been asked to.
UngatedStops(c, s, restart, launch) == StaleRecipes(c, s, launch)

\* stop_model: a command with --restart-model, a note without.
PlannedStops(c, s, restart, launch) == IF restart THEN StaleRecipes(c, s, launch) ELSE {}

\* Mutant: the test on the tracked file is inverted.
ReloadsUntracked(c, s) ==
  LitellmTouched(c, s) /\ s.files[Prometheus] = None /\ Prometheus \in Changed(c, s) /\ c.role = "full"

\* Prometheus is hot-reloaded only when its file was tracked before.
HotReload(c, s) ==
  /\ LitellmTouched(c, s)
  /\ s.files[Prometheus] # None
  /\ Prometheus \in Changed(c, s)
  /\ c.role = "full"

\* Mutant: only a changed model list restarts the gateway.
RestartOnModelList(c, s) ==
  ModelConfig \in Changed(c, s) \cup Removed(c, s) /\ s.files # NoFiles /\ c.controlPlane

\* The gateway is restarted only when some earlier converge is recorded.
GatewayRestart(c, s) ==
  /\ (Changed(c, s) \cup Removed(c, s)) \cap GatewayRels # {}
  /\ s.files # NoFiles
  /\ c.controlPlane

\* The model is recorded as running as it is wanted, or somebody else sees to it.
ModelConverged(c, s, launch) ==
  launch => HasModel(c) /\ s.model = [name |-> c.recipe, hash |-> CurrentHash(c)]

BuildPlan(c, s, restart, launch) ==
  [restart |-> restart,
   converged |-> ModelConverged(c, s, launch),
   pending |-> ~restart /\ NeedsRestart(c, s, launch),
   mesh    |-> (c.spanning /\ HasModel(c) /\ launch) \/ c.cluster,
   stale   |-> PlannedStops(c, s, restart, launch),
   restop  |-> restart /\ RestartCurrent(c, s, launch),
   compose |-> LitellmTouched(c, s),
   reload  |-> HotReload(c, s),
   bounce  |-> GatewayRestart(c, s),
   ensure  |-> HasModel(c) /\ launch,
   removed |-> DeletedRels(c, s)]

Plans ==
  [restart : BOOLEAN, converged : BOOLEAN, pending : BOOLEAN, mesh : BOOLEAN, stale : SUBSET Models,
   restop : BOOLEAN, compose : BOOLEAN, reload : BOOLEAN, bounce : BOOLEAN,
   ensure : BOOLEAN, removed : SUBSET LitellmRels]

\* _model_launch_role, and --no-model.
Launches(c, noModel) == (HasModel(c) /\ c.spanning => c.head) /\ ~noModel

-----------------------------------------------------------------------------
(* The state recorded after an apply whose commands all succeeded *)

\* Mutant: a pending restart counts as done.
ConvergedAlways(c, p) == TRUE

\* Mutant: a host whose model was taken away never converges.
ConvergedWithModelOnly(c, p) == HasModel(c) /\ ~p.pending

ConvergedAfter(c, p) == IF HasModel(c) THEN ~p.pending ELSE p.restart

\* Mutant: a pending restart drops the recorded model.
ForgetsWhenPending(c, p, old) ==
  IF p.pending \/ ~HasModel(c) THEN None ELSE [name |-> c.recipe, hash |-> CurrentHash(c)]

ModelAfterApply(c, p, old) ==
  IF ~ConvergedAfter(c, p) THEN old
  ELSE IF HasModel(c) THEN [name |-> c.recipe, hash |-> CurrentHash(c)]
  ELSE None

StateAfterApply(c, p, s) == [files |-> Render(c), model |-> ModelAfterApply(c, p, s.model)]

-----------------------------------------------------------------------------
(* What a state says *)

\* The state of a host on which config view c has been applied in full.
ConvergedState(c) ==
  [files |-> Render(c),
   model |-> IF HasModel(c) THEN [name |-> c.recipe, hash |-> CurrentHash(c)] ELSE None]

\* No recipe differs from the recorded ones and no workload has to be stopped.
ModelQuiet(c, s) == Changed(c, s) \cap Models = {} /\ ~NeedsRestart(c, s, TRUE)
=============================================================================
