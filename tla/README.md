# A TLA+ model of spark-lab

spark-lab manages small inference hosts: it renders a LiteLLM + monitoring stack
and one model recipe per host from `config.yaml`, compares the render with what
`state.json` says was applied last, and acts on the difference. The promise of
the program is in its README and at the head of `sparklab/core/converge.py`:
`apply` is idempotent and convergent, a routine `apply` never disturbs the
running model, and what has not been done stays visible until it is done. Over
several hosts `model up` and `model down` move models by rewriting `config.yaml`.
This directory holds the TLA+ models of the engine and of the cluster, the TLC runs
that check them, and TLAPS proofs about them.

Paths below are relative to `src/`.

## 1. Inventory

| Component | State it keeps | Operations | Hard part |
|---|---|---|---|
| converge plan, `core/converge.py` `build_plan`, `compute_*` | none (pure) | render x state x flags -> plan, new state | which recipe counts as stale, when a restart is pending, when the gateway must restart |
| apply, `commands/apply.py` | install dir, workloads, containers, state.json | write files, mesh, stops, compose up, reload, restart, probe, delete, record | any step may fail; nothing is recorded unless all succeed |
| state file, `core/state.py` | `files` (hashes), `model` (name, hash) | load, set_state, clear | overwritten in place, no lock |
| model stop, `commands/model.py` | workloads, state.json | stop, record | stops what is configured, not what is recorded |
| teardown, `commands/teardown.py` | workloads, containers, state.json | stop, compose down, clear | exit codes ignored |
| adopt, `commands/adopt.py` | state.json | record the disk | the disk is not what runs |
| litellm restart, `commands/litellm.py` | gateway files, gateway, state.json | write, restart, poll, record | records a part of the files |
| readiness probe, `core/converge.py` | pid file, launch log | bounded poll | asks a port; stale pid file |
| cluster configuration, `core/config.py` | `config.yaml` | views, placement, serving entries, validation | overrides per host, one model per host, spanning models |
| model up / down, `commands/model.py` | `config.yaml` | edit, validate, converge | written before validated |
| fan-out, `core/cluster.py` | none | targets, run_on_each | one host's exception ends the loop |
| recipes, `core/recipes.py` | recipe library | resolve, layout | deep merges |
| remote access, `core/remote.py`, `runtime.py`, `node.py` | ssh connection | run, read, write | an unreachable node |
| sync, expose | `config.yaml` | rewrite, converge | stale configuration |
| inventory, status, check, logs, init, cli | none | read-only, scaffolding | - |

How they interact: every command loads `config.yaml` into a view per host, reads
`state.json` of the node, acts through the runtime (docker, sparkrun, files), and
overwrites `state.json`. There is no lock, no transaction and no daemon: the
components share the node itself. What makes the system correct is that
`state.json` keeps telling enough about the node for the next command to do the
right thing, although commands fail, are killed, and are run in any order, and
although the configuration changes in between. The hazards at their lines are in
`PROJECT.json`.

## 2. Modules

| Module | Content |
|---|---|
| `ConvergePlan` | The pure part: the file mapping of `render.py`, `build_plan`, and the state recorded afterwards, as operators over views, states and plans. |
| `Converge` | One node and its seven commands, one action per step, with the failures of each step, the operator's edits, crashes, exits and reboots. |
| `Node` | The abstract node: a ledger, workloads and a job, and what a job may do to them. |
| `ConvergeNode` | The refinement mapping from `Converge` to `Node`. |
| `ClusterConfig` | The cluster half of `config.yaml` as operators: who serves, launches and routes what, and what scaling writes. |
| `Scaling` | The life of `config.yaml` under `model up` and `model down`. |
| `Cluster` | `ClusterConfig` composed with hosts that are converged one after the other; each host is shown to be a `Node`. |
| `ReadinessProbe` | The launch, its PID file and the polling loop. |
| `MCConverge`, `MCScaling`, `MCCluster` | Constants for TLC. |
| `ConvergeProofs` | Types, the shapes of the steps, the running plan, recipes and routine applies, about `Converge`. |
| `DriftProofs`, `FreshProofs` | No silent drift and no forgotten restart; fresh daemons. |
| `RefinementProofs` | `Converge` implements `Node`. |
| `ClusterConfigProofs` | Lemmas about lists of hosts, placement, routes and what scaling writes. |
| `ScalingProofs`, `ClusterProofs` | Theorems about `Scaling` and `Cluster`, from these lemmas. |
| `ProbeProofs` | Theorems about `ReadinessProbe`. |

`Node` sits in the middle: `Converge` shows in detail, for one node, that whatever
its commands do is a step of `Node`; `Cluster` keeps of each host what concerns
the others and shows the same for every host.

### One node

- `config` is `config.yaml` as this host sees it (`Config.view_for`), reduced to
  what the engine reads (`View`). A file's content is its hash.
- `disk` is the install directory, `state` what `State.load` returns, `running`
  the recipe content each sparkrun workload was started with, `gateway` and
  `prometheus` the files these containers have read.
- `pc`, `view`, `plan`, `todo` belong to the running command. `_converge_one`
  builds its plan from the state and the view it read at the start and then only
  executes it, hence `plan` is computed in `StartApply` and never again.
- The recorded hash of a recipe is that of its render, while the file on the
  node has `{install_dir}` expanded (`Expanded`); both are kept apart.
- Grafana's several files are one name, as no rule tells them apart.
- docker compose, sparkrun and curl are external. `UpOrRecreated` lets
  `compose up` recreate a running service or not; `sparkrun run --ensure` is a
  no-op for a running recipe whatever its content; `/health` answers for a port.
  A missing `docker` or `sh` binary, which `run_command` skips over, is not
  modelled.
- tailscale and cloudflared are best effort and touch no modelled state; dry
  runs change nothing; `teardown --purge` removes volumes that are not modelled.
- A command is modelled alone on its node (see section 7).

### Mishaps

Some histories break the link between `state.json` and the node, and section 5
lists those that contradict the documentation. The other properties should say
what holds in all remaining histories, so the model observes these events in
`mishaps`, which no action reads:

| Mishap | Event |
|---|---|
| `edit` | `config.yaml` changes while the node is neither settled nor blank |
| `no_model` | a converge that launches nothing meets a changed recipe or a stale workload |
| `adopt` | adopt on a node that is not settled |
| `stop`, `teardown` | these commands with a recorded recipe other than the configured one; a teardown step that failed or was cut before the state was cleared |
| `torn` | a half-written `state.json` |
| `restart`, `reload` | a best-effort call to a daemon that failed |

Each property names the mishaps it tolerates: the node's workloads do not depend
on `restart` and `reload`, the gateway not on `no_model`, `stop` and `reload`.
Everything else (failed steps, crashes, exits, reboots, any command in any order)
is in the properties' scope.

### The abstract node

`Node` says what the documentation of `state.json` promises (`state.py:3-15`,
`converge.py:4-15`) without files, gateways or steps. Its ledger accounts for the
managed recipes and the confirmed workload. A job takes down only workloads the
ledger accounts for, and only with permission (`Stop`); it launches only its own
recipe (`Launch`); and its end replaces the confirmed workload only when
everything the ledger accounts for is down or is the wanted recipe (`Finish`). A
job that had to leave something behind keeps the confirmed entry (`Postpone`),
any job can be abandoned, and the commands that the documentation exempts (model
stop, teardown, adopt) act only between jobs. `Trust` is the end of a job that was
told not to launch, the worker of a spanning model or `--no-model`, which the code
treats as converged without looking (`converge.py:243-248`): the wanted recipe is
confirmed although nobody started it here, and when none is wanted and the job had
leave to stop (`--restart-model --no-model`, `apply.py:149`), the confirmed workload
leaves the ledger although nobody stopped it. Only such a job may do that.

In `ConvergeNode` a job is an apply from its plan to its last step, its permission
is the plan's, and its ledger the recipe part of `state.json`. The mapping needs no
history: all of it can be computed from the state of `Converge`.

### The cluster

- A `hosts:` list is a set with an order (`on`, `before`), because only the head and
  the ranks depend on the order. What scaling never changes is constant: spans,
  explicit addresses, names per gateway, the control-plane split, monitoring roles.
  A host stands for its address and a model for its merged definition.
- `Unset`, the empty list, a missing `active` and `active: false` are kept apart,
  because the code reads them differently.
- `Scaling` writes first and validates afterwards, as `model.py` does: a
  configuration that does not load, or is not usable, stays behind, and `Repair` is
  the operator who reverts it. So does one written for a `--hosts` name that is not in
  the cluster (`Unknown`), which `select_hosts` refuses afterwards. It starts from any
  usable configuration, those included in which a model that is switched off lists hosts,
  as the shipped `config.example.yaml:132-134` does (`Parked`).
- In `Cluster` a host's converge is reduced to plan, stop, serve, ensure, record.
  A recipe's content is its layout, the only part of a render that depends on other
  hosts. `run_on_each` takes the hosts in the order of `config.yaml`; an exit code
  ends one host (`HostFails`), an exception ends the command (`Raises`). A stop by
  recipe path is effective for the workload launched from that host: which workload
  sparkrun finds under another host list is not in the repository.
- The restart of a gateway is best effort and what answers the health check may be the
  old process: `RestartFails` goes on to record a list that the gateway has not loaded.
- Two variables observe, like `mishaps`, what breaks the link between `state.json` and a
  host; no action reads them. `early`: `config.yaml` was changed under a host whose
  `state.json` does not say what its workload and its gateway are. `missed`: the
  gateways whose last restart failed (section 5).
- Commands are `apply` with or without `--restart-model`, `model up` and `model down`.
  `--no-model`, and the commands of one host, are in `Converge` only; what `--no-model`
  does to the link is the mishap `no_model` there.

### The probe

`ReadinessProbe` interleaves the launch (`echo $$ > pidfile; exec sparkrun run
--ensure`, spawned, so its failure is not looked at) with the loop (`curl`, `kill
-0`, `sleep`). The PID file may be left from an earlier launch, with a PID that is
gone or belongs to another process by now, and is empty for an instant. The engine
may run before the launch and die meanwhile. One thing is taken from timing: a PID
is written before the second poll begins, five seconds later (`Written`).

## 3. Properties

One node:

- `TypeOK`.
- `NoSilentDrift`: when `state.json` is that of the configuration, only the
  configured recipe's workload runs, with the configured content.
- `GatewayFresh`, `PrometheusFresh`: and the daemons have loaded the configured
  files.
- `StopFindsItsRecipe`: a recipe whose workload may have to be stopped, now or
  by a later converge, has its file on the node.
- `RoutineApplyNeverStops` (action): no step of an apply without
  `--restart-model` takes a workload down or replaces it.
- `PendingIsRemembered` (action): what a routine apply leaves pending is still
  wanted by the next one.
- `ImplementsNode` (refinement): `Converge` implements `Node`.
- `StateConverges`, `NodeConverges` (liveness): under a persistent operator the
  state, and the node, end up at the configuration.

Cluster:

- `OnlyParkedHostsClash` (action): the check of the targets is enough to keep two models
  in use from sharing a host, unless one of them listed it while it was not in use. The
  documentation promises it without the exception (section 5).
- `RoutesLeadToLaunchers`: `serving_entries`, `_model_launch_role` and
  `layout_for_view` compute the head of a model in three places; they agree.
- `ScalingIsExact`: of every command that could be given now, what a host serves and
  launches afterwards is decided by the targets: `model up` gives the model to all of
  them and `model down` takes it from all of them, and both leave the others alone. The
  exceptions are part of it: a host that was parked gets the model unconverged as soon
  as some target was not listed, and when all targets were parked, nothing is written and
  none gets it (section 5); and the host to which the head of a spanning model moves has
  to launch it, although it is no target.
- `SettledClusterServes`: when every host has recorded what `config.yaml` wants, every
  entry leads to a host where the model runs in the configured layout, no host runs
  anything else, and every gateway but those of `missed` has these entries.
- `ImplementsNodes` (refinement): every host is a `Node`, whatever happens to the
  others.
- `SettledDownStops` (action): a `model down` that succeeds leaves the model up on none
  of its targets. The documentation promises it without a condition, and `unrecorded`
  shows that it fails after a converge that was never recorded; without such a converge
  (`early`) it holds.
- `ClusterConverges` (liveness): under a persistent operator every host settles.

Probe:

- `CrashVerdictIsTrue`: a crash is only reported when the launch is gone or never
  was, and of a running engine only after two polls that it did not answer.
- `CrashFailsFast`: at most two polls begin after a crash.
- `ProbeEnds` (liveness).

## 4. Runs

| Run | Question | Bound |
|---|---|---|
| `apply` | does any failure, exit, reboot or edit make applies drift? | 4 views, 2 edits |
| `commands` | does any mix of the seven commands, failing stops, restarts and downs, crashes and a torn state? | 3 views, 1 edit |
| `placing` | placeholders, spanning heads and workers, no model, no image, no control plane; `--no-model` with and without `--restart-model`; write, mesh and stop failures and crashes; is every step of apply, adopt and litellm restart one of `Node` (`ConvergeImplementsNode` proves it of all the commands)? | 6 views, 1 edit |
| `live` | does a persistent operator get there? | 3 views, 2 edits |
| `scaling` | what do sequences of `model up` and `model down` make of config.yaml? | 3 hosts, 3 models, any number of scalings |
| `cluster` | do the hosts and the gateways follow? | 3 hosts, 2 models, 2 scalings; `--hosts` absent, one of two hosts, or an unknown name |
| `fan_out` | do all hosts get there? | 3 hosts, 2 models, 1 scaling |
| `probe` | is the verdict right? | 29 seconds, five polls |

Bounds. One node: two recipes are enough for "the recorded one and another", three
contents for "old, new, expanded"; the two edits of `apply` and `live` reach "there
and back" and "a second change while the first is under way". Nothing but
`MaxEdits` is bounded: commands, failures, crashes, exits and reboots are
unlimited. The port is the same for all recipes, the default of `model.port`.

Cluster: three hosts are the least on which a spanning model of two has a head, a
worker and a host outside its ranks, and on which dropping the head leaves a head.
`scaling` starts from every usable configuration whose hand-written lists have at most
two hosts, with one model spanning, one with an explicit route and two served under one
name on one gateway. Scalings are unlimited, and a configuration that is not usable is
repaired to one where nothing is in use, from which the commands build lists of all
lengths. In `cluster` two scalings reach "down and up again", "the head moves, and moves
again", "scaled, then the other model takes the host"; applies, failures, failed restarts
and lost connections are unlimited. `fan_out` has no lost connections, as one that is
lost for ever never converges.

Probe: five polls are more than any two observations and the bound after them
need, so a first observation can be that of the old PID file and later ones not.
29 is no multiple of five. The proofs have every value.

Deadlock is checked everywhere: a command can always be given, and the ended probe
stutters.

Fairness (`Persistence`): a running command moves on, because `execute` and
`run_on_each` run one step after the other and each poll in them is bounded (weak
fairness of `MovesOn`, `OnHost`). The operator comes back with `apply
--restart-model` (strong fairness of its start), and no external command fails for
ever (strong fairness of the steps that can fail, in such an apply only). Edits and
scalings stop at their bound. The runs have no crashes, exits or reboots after
which one could always come again. In `ReadinessProbe` the shell loop goes on and a
spawned launch writes its PID.

## 5. Where the code and its documentation disagree

Each of these is a run that TLC finds violated; the quotations are in `PROJECT.json`.

| Run | What happens |
|---|---|
| `orphan` | a pending recipe is switched away from: its workload runs on and nothing prompts any more |
| `swallowed` | the restart of the gateway fails, the old process passes the health check, the old list is served for good |
| `scaled_down` | `model down` of a spanning recipe model on all hosts leaves a `config.yaml` that does not load, and converges nothing |
| `unrecorded` | `model down` after a `model up` whose probe failed stops nothing and succeeds |

Further histories have one of these outcomes and no run of their own; the mishaps and
`early` keep them out of the other properties:

- `--no-model`, or a worker's view, records the rendered recipe as running and
  plans no stop of what ran before (`no_model`; `Trust` in `Node`).
- `apply --restart-model --no-model` on a host whose model was taken away plans no stop
  (`apply.py:83-85`) and clears the confirmed workload all the same (`apply.py:149`): it
  runs on unrecorded. `--no-model` promises "never launch/stop" (`cli.py:46`), the head of
  `converge.py` no orphans (`no_model`; `Trust`).
- `adopt` takes the recipe on disk for the running one while a restart is pending
  (`adopt`). `sync --write` ends with such an adopt even when its apply failed.
- A routine apply that defers removals drops the files from the recorded set, so no
  later apply deletes them (`apply.py:142`).
- A first apply that fails after `compose up` records nothing; the second one takes
  the empty state for "no gateway yet" and does not restart it (`edit`, `early`).
- `teardown` ignores exit codes, stops the configured recipe only, and clears the
  state (`teardown`); `model stop` stops the configured recipe, not the recorded
  one (`stop`); a half-written `state.json` forgets everything (`torn`).
- A model that is switched off may list hosts (`config.example.yaml:132-134`). `model up`
  on a further host switches it on everywhere it is listed, but checks and converges the
  target only: two active models may share a host, and then `config.yaml` no longer loads,
  against `model.py:21`, "Both refuse when two active models would share a host.", and
  `docs/COMMANDS.md:102`; otherwise the listed hosts wait for the next `apply`. `model up`
  on hosts that are all listed writes nothing, leaves the model switched off and succeeds
  (`model.py:92`), against ADR 0008, line 135, "mark the model active".
  `OnlyParkedHostsClash` and `ScalingIsExact` say exactly this.
- An unknown `--hosts` name: `model up` appends the known ones, activates the model,
  writes, and then refuses (`model.py:89-107`); the model is active on hosts that nobody
  converged (`Unknown`, `early`).

## 6. Proofs

Every safety invariant, every action property and both refinements that the passing
runs check are theorems. They hold for every value of the constants: any recipes,
contents and views, any hosts, models and ordered `hosts:` lists, all commands and
faults, any number of edits and scalings.

The assumptions on the constants are named, in the module that declares them, and TLC
evaluates all of them. They say that `None` is none of the other values (of a record
set: no record is `None`), that views are views, that `config.yaml` of the gateway
includes `extra_models.yaml` exactly when it is declared, that an expanded recipe has no
placeholder left; that a cluster has hosts, finitely many and in an order; and that the
operator starts from a usable `config.yaml` and repairs it to a usable one.

### One node

- `TypeCorrect`: `TypeOK` is inductive. Lemmas say that the operators of
  `ConvergePlan` return what they should.
- `PlanHolds`: a running apply has the plan that was built from the state and the view
  it still has (`Planned`), as `state.json` is not written before the last step.
  `CurrentHolds`: without an `edit`, its view is the configuration.
- `StepShapes` splits `Next` by what a step touches. Most steps neither touch
  files, nor `state.json`, nor a workload (`Walks`, `Aside`).
- `RecipesStay`: `StopFindsItsRecipe` by `RecipesInv`. It adds that a plan's stops
  have their files from the start and that, once files are written, so does the
  recipe that will be recorded. The key facts are that no step deletes a recipe
  (`RecipeFilesStay`) and that only recipes with a file are recorded
  (`RecordedRecipes`).
- `RoutineSafe`: a routine plan has no stops (`RoutineInv`).
- `NoDrift`: `NoSilentDrift` speaks of settled nodes and is far from inductive.
  `DriftInv` says at all times that a running workload is the recorded one
  (`Confirmed`) or the wanted one (`Wanted`), that an apply that will record the
  model as converged has everything else on its list to stop (`Covered`), that
  what will be started is what was rendered (`Written`), and that `model stop` and
  `teardown` stop all there is. All of it holds while only daemon mishaps
  occurred. `RecipesInv`, `RoutineInv`, `DriftInv`, and for the next theorems
  `LedgerInv`, `GatewayInv` and `PrometheusInv`, were checked by TLC on the configurations
  of the passing runs before they were proved.
- `ConvergeImplementsNode`: `Converge` implements `Node` in every history, with every
  fault, mishap or not. `JobInv` says what a running apply knows: its plan is the one
  built from the state and the view it still has (`PlanHolds`), the wanted recipe's file
  is what will be launched (`RecipeWritten`), and whatever the ledger accounts for and is
  not wanted is down or still on the list of stops (`StaleAreStopped`), which is what
  `Finish` asks for at the end. Then each action is mapped to its step of `Node` or to a
  stutter.
- `GatewayIsFresh`: `GatewayFresh` compares a settled state with what the gateway has
  read. In between lie the disk, which any command may have rewritten, and reboots,
  which make the gateway read it again. `GatewayFilesInv`: a gateway file recorded as
  current is current on disk, and so are all of them once a command has written them.
  `GatewayServesInv`: a gateway of which every file is recorded serves them; after the
  step that restarts it, or when the plan saw no reason to (`bounce`), it serves what is
  about to be recorded; and while nothing is recorded, one that runs was booted for
  this configuration, because `compose up` leaves a running gateway alone. Only
  `teardown`, which clears the state last, is an exception, and it has taken the gateway
  down. `DaemonShapes` splits `Next` again, by what a daemon can notice.
- `PrometheusIsFresh`: the same, with a reload in place of the restart.
- `PendingStays`: a recipe file is recorded only as the configured one or next to the
  workload it accounts for (`Accountable`), and `model stop` starts when nothing else is
  recorded (`NothingElse`). So a pending converge that stores the new files cannot drop
  the old workload: its confirmed entry stays, and with it the reason to restart.

### The cluster

- `Routing`: `RoutesLeadToLaunchers` follows from the types alone. It rests on lemmas
  about ordered lists: there is exactly one first host and it is the one with rank 0.
- `ScalingProofs!TypeCorrect`: what scaling writes is an ordered list without
  repetitions again, for any number of hosts.
- `ClashIsParked`: `OnlyParkedHostsClash` step by step. A scaling changes the entry of one
  model and appends its new hosts behind the old ones (`UpWrites`, `DownWrites`,
  `OthersStay`); so two models that meet on a host meet on a target, which the check
  excludes, or where the scaled one was listed already and not in use.
- `Exact`: `ScalingIsExact` from the types alone, for whatever `config.yaml` the commands
  have led to, with the same lemmas. Without a shared host, what a host runs is decided by
  the only model that lists it (`OnlyModel`). `UpIsExact` splits by whether anything is
  written and then by where the host is: served before, parked, target, or none of these;
  `DownIsExact` by whether the model was in use, and follows its head.
- `ClusterProofs!TypeCorrect`: in particular ranks stay below the number of hosts, and
  a command that is not over has a host left (`AtOne`: exactly one has its turn).
- `SettledServes`: `SettledClusterServes` only speaks of hosts that have settled. The
  invariant `ServesInv` follows each host through its converge: what is up is recorded
  as it is, or wanted as it is (`UpInv`); what is recorded and wanted is up
  (`ConfirmedInv`); a worker has nothing up (`WorkerInv`); a converge that will be
  recorded as complete leaves nothing else up once it has stopped what it stops
  (`StoppedInv`), and has the model up at the end (`EnsuredInv`); a gateway that is not
  in `missed` has the recorded list or the wanted one (`GatewayInv`), and one that is
  leaves it when it is restarted or booted. `Scale` is the hard step, as it changes
  what every host wants at once. A host that settled before keeps `UpInv` because its old
  workload is recorded. It keeps `WorkerInv` because one scaling neither replaces a
  host's model by another one nor turns its launcher into a worker (`HostAfterScaling`).
  Whether a host launches at all shows in the layout it records (`LauncherIsPinned`).
  Of a `config.yaml` that gives a host two models, which no command loads any more,
  nothing is said.
- `DownIsDown`: `SettledDownStops` is about one command on several hosts. `DownInv` says
  what it has reached: no target is to run the model any more, and on those whose turn
  is over it is down. The turn that is recorded last follows from `ServesInv`: with leave
  to stop, a converge is recorded as complete, so only what is wanted is up.
- `ClusterIsNodes`: `Cluster` implements one `Node` per host. The instance has the host
  as a parameter. A host's job exists from its plan to its record, and no other host has
  one at the time (`AtOne`). What `Finish` asks for is `StaleDown`: after the stops of a
  converge that may stop, the stale workloads are down.

### The probe

- `ProbeProofs!TypeCorrect`, `CrashVerdicts`, `FailsFast`: an invariant that counts. The
  observations so far, with the one under way, are at most the slow polls of an engine
  that runs all along, and at least the polls since the crash; and only the first one can
  be of another PID.

Model-checked only: `StateConverges`, `NodeConverges`, `ClusterConverges` and
`ProbeEnds`. They are liveness properties under fairness, and TLAPS reasons about
neither ENABLED nor the fairness that is defined by it. The runs of section 5 are
counterexamples and have no proofs.

## 7. Not modelled, and what is left

Not modelled, and why:

- The text of renders and templates, `deep_merge`, `resolve_model_block`, secrets,
  paths, images: no state, and no property here tells their outcomes apart.
- How a host is reached (`is_on_host`, ssh, SFTP) and the read-only commands.
- Two commands at once. There is no lock, and nothing in the code or its
  documentation promises anything for that case: the models assume one operator.
- An unreachable node whose state reads as empty: every later step of the command
  needs the same connection and raises, so it only matters if the link comes back
  within the command.
- `expose` and `sync` as commands: an edit followed by `apply --no-model`, and `adopt`
  for `sync --write`, which `Converge` has; that `expose` refuses to be repeated is a
  message to the operator.
- sparkrun's notion of which workload a recipe path and a host list name.

Left: the volumes that `teardown --purge` removes, and the commands of `sync` and
`expose` as actions of their own, with the configuration that `sync --write` loaded
before its edit.
