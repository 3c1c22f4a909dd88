------------------------------- MODULE Cluster -------------------------------
(***************************************************************************)
(* A cluster under `apply`, `model up` and `model down`: one config.yaml,  *)
(* and run_on_each (core/cluster.py), which converges the selected hosts   *)
(* one after the other.  Each host goes through the steps of Converge,     *)
(* reduced to what concerns several hosts: which workloads it stops and    *)
(* starts, what it records, and where its gateway sends requests.  The     *)
(* content of a recipe is its layout, the part that depends on the hosts.  *)
(*                                                                         *)
(* One operator runs one command at a time; a host fails with an exit      *)
(* code, and an exception (a lost connection, a layout that cannot be      *)
(* rendered) ends the whole command.                                       *)
(***************************************************************************)
EXTENDS ClusterConfig

CONSTANTS
  Initial,      \* the configurations the operator starts from
  Faults,       \* "step": a command on a host fails; "lost": the connection does;
                \* "restart": the restart of a gateway does
  MaxScalings,  \* bound on model up and model down
  Selections    \* the values of --hosts the operator uses; {} when it is absent

ASSUME InitialAssumption == Initial \subseteq {c \in Configs : Usable(c)}
ASSUME FaultsAssumption  == Faults \subseteq {"step", "lost", "restart"} /\ MaxScalings \in Nat
ASSUME SelectionsAssumption == Selections \subseteq SUBSET Names

VARIABLES
  yaml,      \* config.yaml
  ledger,    \* each host's state.json
  up,        \* the workloads launched from each host, with their layouts
  gateway,   \* the model list each host's gateway has loaded
  missed,    \* only observes: the hosts whose gateway has not come through its last restart
  cmd,       \* the command that runs, or None
  scalings,  \* counts model up and model down
  early      \* only observes: config.yaml changed under a host whose state.json does
             \* not say what its workloads and its gateway are

hosts == <<ledger, up, gateway, missed>>
vars  == <<yaml, ledger, up, gateway, missed, cmd, scalings, early>>

Layouts    == SUBSET (Hosts \X (0 .. Cardinality(Hosts)))
RouteLists == [Models -> Hosts \cup {Elsewhere, None}]
Confirmed  == [name : Models, hash : Layouts]
Ledgers    == [recipes : SUBSET Models, model : Confirmed \cup {None}, routes : RouteLists \cup {None}]
NoLedger   == [recipes |-> {}, model |-> None, routes |-> None]
Steps      == {"plan", "stop", "serve", "ensure", "record"}

\* downs: the model that `model down` takes off the targets.
Cmds == [restart : BOOLEAN, downs : Models \cup {None}, targets : SUBSET Hosts,
         todo : (SUBSET Hosts) \ {{}}, step : Steps, failed : BOOLEAN]

\* No value of these is the absent one.
ASSUME NoneAssumption == (\A l \in Layouts : None # l) /\ None \notin Confirmed /\ None \notin Cmds

TypeOK ==
  /\ yaml \in Configs
  /\ ledger \in [Hosts -> Ledgers]
  /\ up \in [Hosts -> [Models -> Layouts \cup {None}]]
  /\ gateway \in [Hosts -> RouteLists \cup {None}]
  /\ missed \subseteq Hosts
  /\ cmd \in Cmds \cup {None}
  /\ scalings \in 0 .. MaxScalings
  /\ early \in BOOLEAN

Init ==
  /\ yaml \in Initial
  /\ ledger = [h \in Hosts |-> NoLedger]
  /\ up = [h \in Hosts |-> [m \in Models |-> None]]
  /\ gateway = [h \in Hosts |-> None]
  /\ missed = {}
  /\ cmd = None
  /\ scalings = 0
  /\ early = FALSE

-----------------------------------------------------------------------------
(* A host's view of config.yaml *)

\* The recipe h's view renders, as state.json records it once it is confirmed.
Wanted(c, h) ==
  LET m == SelectActive(c, h) IN IF m = None THEN None ELSE [name |-> m, hash |-> Layout(c, h)]

WantedRoutes(c, h) == IF h \in Gateways THEN Routes(c, h) ELSE None

\* launch_model: true as well on a host without a model.
MayLaunch(c, h) == SelectActive(c, h) = None \/ LaunchesModel(c, h)

Managed(c, h) == {SelectActive(c, h)} \ {None}

ModelSettled(c, h) == ledger[h].model = Wanted(c, h) /\ ledger[h].recipes = Managed(c, h)

Settled(c, h) == ModelSettled(c, h) /\ ledger[h].routes = WantedRoutes(c, h)

Stale(h) ==
  IF ~MayLaunch(yaml, h) THEN {}
  ELSE (ledger[h].recipes \cup {m \in Models : ledger[h].model # None /\ ledger[h].model.name = m})
         \ Managed(yaml, h)

RestartCurrent(h) ==
  /\ LaunchesModel(yaml, h)
  /\ ledger[h].model # None
  /\ ledger[h].model.name = SelectActive(yaml, h)
  /\ ledger[h].model # Wanted(yaml, h)

\* Mutant: a workload of another model does not count as pending.
PendingIfChanged(h) == ~cmd.restart /\ RestartCurrent(h)

Pending(h) == ~cmd.restart /\ (Stale(h) # {} \/ RestartCurrent(h))

\* Mutant: a host that lost its model never converges.
ConvergedWithModel(h) == SelectActive(yaml, h) # None /\ ~Pending(h)

Converged(h) == IF SelectActive(yaml, h) = None THEN cmd.restart ELSE ~Pending(h)

-----------------------------------------------------------------------------
(* Commands *)

May(fault) == fault \in Faults

RunOnEach(restart, downs, targets) ==
  cmd' = [restart |-> restart, downs |-> downs, targets |-> targets,
          todo |-> targets, step |-> "plan", failed |-> FALSE]

\* select_hosts: all of them without --hosts, and no unknown ones.
Apply(restart, names) ==
  /\ cmd = None /\ Loads(yaml) /\ names \subseteq Hosts
  /\ RunOnEach(restart, None, IF names = {} THEN Hosts ELSE names)
  /\ UNCHANGED <<yaml, hosts, scalings, early>>

\* config.yaml is written before it is loaded and validated again, and before
\* select_hosts refuses an unknown name.
Scale(new, restart, downs, targets) ==
  /\ yaml' = new
  /\ IF Usable(new) /\ targets \subseteq Hosts THEN RunOnEach(restart, downs, targets) ELSE UNCHANGED cmd
  /\ scalings < MaxScalings /\ scalings' = scalings + 1
  /\ early' = (early \/ \E h \in Hosts :
                 \/ Wanted(new, h) # Wanted(yaml, h) /\ ~ModelSettled(yaml, h)
                 \/ h \notin missed /\ gateway[h] # ledger[h].routes)
  /\ UNCHANGED hosts

\* Starting is routine: model up may not stop anything.
ModelUp(m, names) ==
  LET targets == UpTargets(yaml, m, names) IN
  /\ cmd = None /\ Loads(yaml) /\ MayScaleUp(yaml, m, targets)
  /\ Scale(ScaledUp(yaml, m, targets), FALSE, None, targets)

\* Mutant: model down converges as apply does, without leave to stop anything.
DownIsRoutine(m, names) ==
  LET targets == DownTargets(yaml, m, names) IN
  /\ cmd = None /\ Loads(yaml) /\ MayScaleDown(yaml, m, targets)
  /\ Scale(ScaledDown(yaml, m, targets), FALSE, m, targets)

ModelDown(m, names) ==
  LET targets == DownTargets(yaml, m, names) IN
  /\ cmd = None /\ Loads(yaml) /\ MayScaleDown(yaml, m, targets)
  /\ Scale(ScaledDown(yaml, m, targets), TRUE, m, targets)

-----------------------------------------------------------------------------
(* run_on_each: the hosts in the order of config.yaml *)

At(h, step) ==
  /\ cmd # None /\ cmd.step = step
  /\ h = First([on |-> cmd.todo, before |-> HostOrder])

Goto(step) == cmd' = [cmd EXCEPT !.step = step]

\* Mutant: the loop goes on after its last host.
NeverReturns(h, failed) ==
  cmd' = [cmd EXCEPT !.todo = @ \ {h}, !.step = "plan", !.failed = @ \/ failed]

Return(h, failed) ==
  cmd' = IF cmd.todo = {h} THEN None
         ELSE [cmd EXCEPT !.todo = @ \ {h}, !.step = "plan", !.failed = @ \/ failed]

Plan(h) ==
  /\ At(h, "plan") /\ ~LayoutRaises(yaml, h)
  /\ Goto("stop")
  /\ UNCHANGED <<yaml, hosts, scalings, early>>

\* Mutant: the stop of a model that stays, with another layout, is left out.
StopStaleOnly(h) ==
  /\ At(h, "stop")
  /\ up' = [up EXCEPT ![h] = [m \in Models |-> IF cmd.restart /\ m \in Stale(h) THEN None ELSE @[m]]]
  /\ Goto("serve")
  /\ UNCHANGED <<yaml, ledger, gateway, missed, scalings, early>>

StopStale(h) ==
  LET stops == Stale(h) \cup IF RestartCurrent(h) THEN Managed(yaml, h) ELSE {} IN
  /\ At(h, "stop")
  /\ up' = [up EXCEPT ![h] = [m \in Models |-> IF cmd.restart /\ m \in stops THEN None ELSE @[m]]]
  /\ Goto("serve")
  /\ UNCHANGED <<yaml, ledger, gateway, missed, scalings, early>>

\* A changed list restarts the gateway, unless no converge is recorded yet: then
\* `compose up` boots it, and leaves it alone when it runs already.
Restarts(h) == gateway[h] # None /\ ledger[h].routes \notin {None, WantedRoutes(yaml, h)}

ServeGateway(h) ==
  LET loads == gateway[h] = None \/ Restarts(h) IN
  /\ At(h, "serve")
  /\ gateway' = IF loads THEN [gateway EXCEPT ![h] = WantedRoutes(yaml, h)] ELSE gateway
  /\ missed'  = IF loads THEN missed \ {h} ELSE missed
  /\ Goto("ensure")
  /\ UNCHANGED <<yaml, ledger, up, scalings, early>>

\* The restart is best-effort, and what answers the health check is the old gateway.
RestartFails(h) ==
  /\ May("restart") /\ At(h, "serve") /\ Restarts(h)
  /\ missed' = missed \cup {h}
  /\ Goto("ensure")
  /\ UNCHANGED <<yaml, ledger, up, gateway, scalings, early>>

EnsureModel(h) ==
  LET m == SelectActive(yaml, h) IN
  /\ At(h, "ensure")
  /\ IF LaunchesModel(yaml, h) /\ up[h][m] = None
     THEN up' = [up EXCEPT ![h][m] = Layout(yaml, h)]
     ELSE UNCHANGED up
  /\ Goto("record")
  /\ UNCHANGED <<yaml, ledger, gateway, missed, scalings, early>>

Record(h) ==
  /\ At(h, "record")
  /\ ledger' = [ledger EXCEPT ![h] =
       [recipes |-> Managed(yaml, h),
        model   |-> IF Converged(h) THEN Wanted(yaml, h) ELSE @.model,
        routes  |-> WantedRoutes(yaml, h)]]
  /\ Return(h, FALSE)
  /\ UNCHANGED <<yaml, up, gateway, missed, scalings, early>>

\* A stop, `compose up` or the readiness probe fails: the next host has its turn.
HostFails(h) ==
  /\ May("step") /\ \E step \in {"stop", "serve", "record"} : At(h, step)
  /\ Return(h, TRUE)
  /\ UNCHANGED <<yaml, hosts, scalings, early>>

\* op(t) is not in a try: an exception leaves the remaining hosts alone.
Raises(h) ==
  /\ \/ At(h, "plan") /\ LayoutRaises(yaml, h)
     \/ May("lost") /\ \E step \in Steps : At(h, step)
  /\ cmd' = None
  /\ UNCHANGED <<yaml, hosts, scalings, early>>

OnHost(h) ==
  Plan(h) \/ StopStale(h) \/ ServeGateway(h) \/ RestartFails(h) \/ EnsureModel(h) \/ Record(h)

Next ==
  \/ \E restart \in BOOLEAN, names \in Selections : Apply(restart, names)
  \/ \E m \in Models, names \in Selections : ModelUp(m, names) \/ ModelDown(m, names)
  \/ \E h \in Hosts : OnHost(h) \/ HostFails(h) \/ Raises(h)

Spec == Init /\ [][Next]_vars

InRetry(A) == A /\ cmd.restart

\* A command moves on; the operator comes back with `apply --restart-model` on all
\* hosts; and on no host does a step fail for ever.
Persistence ==
  /\ WF_vars(\E h \in Hosts : OnHost(h))
  /\ SF_vars({} \in Selections /\ Apply(TRUE, {}))
  /\ \A h \in Hosts : /\ SF_vars(InRetry(StopStale(h)))
                      /\ SF_vars(InRetry(ServeGateway(h)))
                      /\ SF_vars(InRetry(Record(h)))

LiveSpec == Spec /\ Persistence

-----------------------------------------------------------------------------
(* Each host is a Node *)

NodeLedger(h) == [recipes |-> ledger[h].recipes, model |-> ledger[h].model]

Job(h) ==
  IF ~(\E step \in Steps \ {"plan"} : At(h, step)) THEN None
  ELSE LET m == SelectActive(yaml, h) IN
       [wanted  |-> m,
        content |-> IF m = None THEN None ELSE Layout(yaml, h),
        hash    |-> IF m = None THEN None ELSE Layout(yaml, h),
        launch  |-> MayLaunch(yaml, h),
        restart |-> cmd.restart,
        pending |-> Pending(h)]

N(h) == INSTANCE Node WITH Contents <- Layouts, ledger <- NodeLedger(h), up <- up[h], job <- Job(h),
                           MayExit <- FALSE, MayTear <- FALSE

ASSUME JobAssumption == \A h \in Hosts : None \notin N(h)!Jobs

-----------------------------------------------------------------------------
(* What the commands promise *)

\* README, ARCHITECTURE "multi-host": once every host has recorded what config.yaml
\* wants of it, every model runs where every gateway sends its requests, in the layout
\* that config.yaml gives it, no host runs anything else, and every gateway that has come
\* through its restarts has that list; whatever sequence of scalings and partial converges
\* led there, unless config.yaml was changed under a host that had not settled.
SettledClusterServes ==
  Loads(yaml) /\ (\A h \in Hosts : Settled(yaml, h)) /\ ~early /\ cmd = None =>
    /\ \A g \in Gateways \ missed : gateway[g] = Routes(yaml, g)
    /\ \A g \in Gateways, m \in Entries(yaml) \ Explicit :
         LET h == Routes(yaml, g)[m] IN up[h][m] = Layout(yaml, h)
    /\ \A h \in Hosts, m \in Models : up[h][m] # None => LaunchesModel(yaml, h) /\ m = SelectActive(yaml, h)

\* converge.py:7-14, model.py:7: on every host of the cluster, a converge only does
\* what the host's own ledger allows, also when another host fails.
ImplementsNodes ==
  /\ \A h \in Hosts : N(h)!Init
  /\ [][\A h \in Hosts : [N(h)!Next]_(N(h)!vars)]_vars

\* README "idempotent and convergent": with a persistent operator every host
\* settles, as long as every host's layout can be rendered.
ClusterConverges ==
  <>[]((\A h \in Hosts : ~LayoutRaises(yaml, h)) => \A h \in Hosts : Settled(yaml, h))

\* model.py:10-12: `model down` removes hosts "and converge[s] them, which stops the
\* workloads that are no longer current": when it succeeds they are down.
DownStops ==
  [][\A h \in Hosts :
       Record(h) /\ cmd.downs # None /\ cmd.todo = {h} /\ ~cmd.failed
         => \A t \in cmd.targets : up[t][cmd.downs] = None]_vars

\* The same, as far as it holds: when no configuration was changed under a host that
\* had not settled, a model that was taken down successfully is down on every target,
\* whatever scalings, and converges that failed and were repeated, came before.
SettledDownStops ==
  [][\A h \in Hosts :
       Record(h) /\ cmd.downs # None /\ cmd.todo = {h} /\ ~cmd.failed /\ ~early
         => \A t \in cmd.targets : up[t][cmd.downs] = None]_vars
=============================================================================
