---------------------------- MODULE ClusterConfig ----------------------------
(***************************************************************************)
(* The cluster half of config.yaml (sparklab/core/config.py, recipes.py)   *)
(* and what `model up` and `model down` make of it (commands/model.py):    *)
(* which models are active on which hosts, which of them a host serves,    *)
(* who launches it and where every gateway sends its requests.             *)
(*                                                                         *)
(* A `hosts:` list is the set of its hosts with the order they come in:    *)
(* the order only matters for the head of a spanning model and its ranks.  *)
(* A host stands for its address; what scaling never changes is constant.  *)
(***************************************************************************)
EXTENDS Naturals, FiniteSets

CONSTANTS
  Hosts,        \* the names in the top-level hosts: list
  Unknown,      \* a name that is not in it
  HostOrder,    \* <<g, h>> when g comes before h in that list
  Models,       \* the aliases under models:
  None,         \* no model, no route
  Unset,        \* the key hosts: is absent from a model
  Elsewhere,    \* an explicit api_base, which is not one of Hosts
  MinNodes,     \* [Models -> Nat]
  FromRecipe,   \* the models that reference a recipe file
  Explicit,     \* the models with an explicit litellm.api_base
  ServedAs,     \* [Hosts -> [Models -> name]]: litellm.model_name per gateway
  Gateways,     \* the hosts where control_plane_enabled()
  Role          \* [Hosts -> {"full", "exporters", "none"}]: monitoring_role()

\* Every selection of hosts has one that comes first.
IsOrderOn(before, S) ==
  /\ before \subseteq S \X S
  /\ \A T \in SUBSET S :
       T # {} => \E h \in T : \A g \in T : <<g, h>> \notin before /\ (g # h => <<h, g>> \in before)

ASSUME HostsAssumption == Hosts # {} /\ IsFiniteSet(Hosts) /\ IsOrderOn(HostOrder, Hosts)
ASSUME NamesAssumption == None \notin Models \cup Hosts /\ Elsewhere \notin Hosts \cup {None} /\ Unknown \notin Hosts
ASSUME StaticAssumption ==
  /\ MinNodes \in [Models -> Nat]
  /\ FromRecipe \subseteq Models /\ Explicit \subseteq Models
  /\ Gateways \subseteq Hosts
  /\ Role \in [Hosts -> {"full", "exporters", "none"}]

HostLists == UNION {[on : {S}, before : {r \in SUBSET (S \X S) : IsOrderOn(r, S)}] : S \in SUBSET Hosts}

ASSUME UnsetAssumption == Unset \notin HostLists

\* `active: true`, `active: false`, or no such key.
Configs == [active : [Models -> {"true", "false", "absent"}], hosts : [Models -> HostLists \cup {Unset}]]

-----------------------------------------------------------------------------
(* Who runs what *)

Everywhere == [on |-> Hosts, before |-> HostOrder]

ModelHostList(c, m) == IF c.hosts[m] = Unset THEN Everywhere ELSE c.hosts[m]

RunHosts(c, m) == ModelHostList(c, m).on

First(l) == CHOOSE h \in l.on : \A g \in l.on \ {h} : <<h, g>> \in l.before

HeadHost(c, m) == First(ModelHostList(c, m))

Active(c, m) == c.active[m] = "true"

\* The active models that serve host h (_select_active on a host view).
Serving(c, h) == {m \in Models : Active(c, m) /\ h \in RunHosts(c, m)}

\* The base refuses to load when a host would have two.
ActiveHostConflicts(c) ==
  \E m, o \in Models : m # o /\ Active(c, m) /\ Active(c, o) /\ RunHosts(c, m) \cap RunHosts(c, o) # {}

Spans(m) == MinNodes[m] > 1

\* _validate_recipe_spans: here a missing `active` means true.
BadSpans(c) ==
  \E m \in FromRecipe :
    c.active[m] # "false" /\ Spans(m) /\ Cardinality(RunHosts(c, m)) < MinNodes[m]

\* config.load returns instead of raising.
Loads(c) == ~ActiveHostConflicts(c) /\ ~BadSpans(c)

\* The model of a host view, None when no active model serves the host.
SelectActive(c, h) ==
  IF Serving(c, h) = {} THEN None ELSE CHOOSE m \in Models : m \in Serving(c, h)

\* _model_launch_role: a spanning model is launched by its head only.
LaunchesModel(c, h) ==
  LET m == SelectActive(c, h) IN m # None /\ (Spans(m) => h = HeadHost(c, m))

\* layout_for_view: the hosts pinned in h's recipe, with their ranks.
Rank(l, h) == Cardinality({g \in l.on : <<g, h>> \in l.before})
Layout(c, h) ==
  LET m == SelectActive(c, h) IN
  IF ~Spans(m) THEN {<<h, 0>>}
  ELSE {<<g, Rank(ModelHostList(c, m), g)>> :
          g \in {k \in RunHosts(c, m) : Rank(ModelHostList(c, m), k) < MinNodes[m]}}

\* A view that cannot pin every rank raises while it renders.
LayoutRaises(c, h) ==
  LET m == SelectActive(c, h) IN
  m # None /\ Spans(m) /\ Cardinality(RunHosts(c, m)) < MinNodes[m]

-----------------------------------------------------------------------------
(* Who serves what *)

\* Mutant: a worker of a spanning model counts as serving the API.
AnyRunHostServes(c, g, m) == g \in RunHosts(c, m)

ServesLocally(c, g, m) == IF Spans(m) THEN g = HeadHost(c, m) ELSE g \in RunHosts(c, m)

\* The api_base of m's entry in the model list of gateway g.
ApiBase(c, g, m) ==
  IF m \in Explicit THEN Elsewhere ELSE IF ServesLocally(c, g, m) THEN g ELSE HeadHost(c, m)

\* The aliases serving_entries registers, the same on every gateway.
Entries(c) == {m \in Models : Active(c, m) /\ RunHosts(c, m) # {}}

\* The model list rendered for gateway g.
Routes(c, g) == [m \in Models |-> IF m \in Entries(c) THEN ApiBase(c, g, m) ELSE None]

ServingConflicts(c) ==
  \/ Entries(c) # {} /\ Gateways = {}
  \/ \E g \in Gateways : \E m, o \in Entries(c) : m # o /\ ServedAs[g][m] = ServedAs[g][o]

ControlPlaneConflicts == \E h \in Hosts \ Gateways : Role[h] = "none"

\* What model up and model down ask of the configuration they have written.
Usable(c) == Loads(c) /\ ~ControlPlaneConflicts /\ ~ServingConflicts(c)

-----------------------------------------------------------------------------
(* Scaling *)

\* What --hosts may name.
Names == Hosts \cup {Unknown}

\* Mutant: the appended hosts come in no particular order.
AppendedUnsorted(l, new) == [on |-> l.on \cup new, before |-> l.before \cup (l.on \X new)]

\* The new hosts follow, in the order of the cluster's list.
Appended(l, new) ==
  [on     |-> l.on \cup new,
   before |-> l.before \cup (l.on \X new) \cup {p \in HostOrder : p[1] \in new /\ p[2] \in new}]

Without(l, gone) ==
  [on |-> l.on \ gone, before |-> {p \in l.before : p[1] \notin gone /\ p[2] \notin gone}]

\* Without --hosts: every host that does not serve the model yet.
UpTargets(c, m, names) == IF names = {} THEN Hosts \ RunHosts(c, m) ELSE names

\* Mutant: an absent hosts: list of another model is overlooked.
ConflictWithListed(c, m, targets) ==
  \E o \in Models \ {m} : Active(c, o) /\ c.hosts[o] # Unset /\ RunHosts(c, o) \cap targets # {}

\* _check_conflict: another active model already serves one of the targets.
CheckConflict(c, m, targets) ==
  \E o \in Models \ {m} : Active(c, o) /\ RunHosts(c, o) \cap targets # {}

MayScaleUp(c, m, targets) == targets # {} /\ ~CheckConflict(c, m, targets)

\* config.yaml is only written when some target is not listed yet, and that may be
\* a name select_hosts is going to refuse.
ScaledUp(c, m, targets) ==
  LET fresh == targets \ RunHosts(c, m) IN
  IF fresh = {} THEN c
  ELSE [c EXCEPT !.active[m] = "true", !.hosts[m] = Appended(ModelHostList(c, m), fresh \cap Hosts)]

DownTargets(c, m, names) == IF names = {} THEN RunHosts(c, m) ELSE names

\* Every target has to be listed, an unknown name is not.
MayScaleDown(c, m, targets) == targets # {} /\ targets \subseteq RunHosts(c, m)

\* Mutant: keeps the first of the dropped hosts.
DropsAllButFirst(c, m, targets) ==
  [c EXCEPT !.hosts[m] = Without(ModelHostList(c, m), targets \ {HeadHost(c, m)})]

\* A fully scaled-down model loses its `active` key.
ScaledDown(c, m, targets) ==
  LET remaining == Without(ModelHostList(c, m), targets) IN
  [active |-> IF remaining.on = {} THEN [c.active EXCEPT ![m] = "absent"] ELSE c.active,
   hosts  |-> [c.hosts EXCEPT ![m] = remaining]]
=============================================================================
