------------------------------- MODULE Scaling -------------------------------
(***************************************************************************)
(* The life of config.yaml under `model up` and `model down`, without the  *)
(* converge that follows: both commands write the file first and load it   *)
(* again afterwards, so a configuration that no longer loads stays behind  *)
(* until the operator repairs it by hand.  So does one that was written    *)
(* for the sake of a --hosts name that turns out to be unknown.            *)
(***************************************************************************)
EXTENDS ClusterConfig

CONSTANTS
  Initial,   \* the configurations the operator starts from
  Repaired   \* those he goes back to

ASSUME InitialAssumption == Initial \cup Repaired \subseteq {c \in Configs : Usable(c)}

VARIABLE yaml

TypeOK == yaml \in Configs

Init == yaml \in Initial

ModelUp(m, names) ==
  LET targets == UpTargets(yaml, m, names) IN
  /\ Loads(yaml)
  /\ MayScaleUp(yaml, m, targets)
  /\ yaml' = ScaledUp(yaml, m, targets)

ModelDown(m, names) ==
  LET targets == DownTargets(yaml, m, names) IN
  /\ Loads(yaml)
  /\ MayScaleDown(yaml, m, targets)
  /\ yaml' = ScaledDown(yaml, m, targets)

\* "revert it or fix the cluster before retrying"
Repair ==
  /\ ~Usable(yaml)
  /\ yaml' \in Repaired

Next ==
  \/ \E m \in Models, names \in SUBSET Names : ModelUp(m, names) \/ ModelDown(m, names)
  \/ Repair

Spec == Init /\ [][Next]_yaml

-----------------------------------------------------------------------------
(* What the commands promise *)

\* config.py:344-351, recipes.py:222-224: what a gateway, a host's converge and
\* the rendered layout make of the same hosts: list agrees.  Every entry leads to
\* a host that serves the model and launches it, and of a spanning model's hosts
\* that one, and no other, is pinned as rank 0.
RoutesLeadToLaunchers ==
  Usable(yaml) =>
    \A g \in Gateways, m \in Models \ Explicit :
      LET h == Routes(yaml, g)[m] IN
      h # None => /\ SelectActive(yaml, h) = m
                  /\ LaunchesModel(yaml, h)
                  /\ \A k \in RunHosts(yaml, m) :
                       /\ Spans(m) => (LaunchesModel(yaml, k) <=> k = h)
                       /\ Spans(m) /\ ~LayoutRaises(yaml, k) => {r \in Layout(yaml, k) : r[2] = 0} = {<<h, 0>>}

\* The hosts a model lists without being in use.
Parked(c, m) == IF Active(c, m) THEN {} ELSE RunHosts(c, m)

\* Two models in use on one host.
Clash(c, m, o, h) ==
  m # o /\ Active(c, m) /\ Active(c, o) /\ h \in RunHosts(c, m) \cap RunHosts(c, o)

\* model.py:21: "Both refuse when two active models would share a host."  They look at
\* the targets only, so it holds with one exception: neither command brings two models
\* in use together on a host, unless one of them was parked there.
OnlyParkedHostsClash ==
  [][\A m, o \in Models, h \in Hosts :
       Clash(yaml', m, o, h) /\ ~Clash(yaml, m, o, h) => h \in Parked(yaml, m) \cup Parked(yaml, o)]_yaml

\* A new target serves m; a parked host does as soon as there is one, converged or
\* not, and nothing at all comes of a target that is parked.
UpMoves(c, m, targets) ==
  LET d == ScaledUp(c, m, targets) IN
  MayScaleUp(c, m, targets) /\ Loads(d) =>
    \A h \in Hosts :
      IF h \in Parked(c, m)
      THEN SelectActive(d, h) = IF targets \subseteq Parked(c, m) THEN SelectActive(c, h) ELSE m
      ELSE IF h \in targets THEN SelectActive(d, h) = m
      ELSE SelectActive(d, h) = SelectActive(c, h) /\ (LaunchesModel(d, h) <=> LaunchesModel(c, h))

\* A target serves nothing any more; of the other hosts only the one to which the
\* head of a spanning model moves has something new to do, and it is not a target.
DownMoves(c, m, targets) ==
  LET d == ScaledDown(c, m, targets)
      NewHead(h) == /\ Active(c, m) /\ Spans(m) /\ HeadHost(c, m) \in targets
                    /\ h \in RunHosts(d, m) /\ h = HeadHost(d, m)
  IN
  MayScaleDown(c, m, targets) =>
    \A h \in Hosts :
      IF h \in targets /\ Active(c, m) THEN SelectActive(d, h) = None
      ELSE /\ SelectActive(d, h) = SelectActive(c, h)
           /\ LaunchesModel(d, h) <=> LaunchesModel(c, h) \/ NewHead(h)

\* model.py:3-11: which hosts serve and launch what after a model up or a model down,
\* of whatever is in config.yaml and whichever hosts are named, is decided by the
\* targets they converge, but for parked hosts and for the head of a spanning model.
ScalingIsExact ==
  Loads(yaml) =>
    \A m \in Models, names \in SUBSET Names :
      UpMoves(yaml, m, UpTargets(yaml, m, names)) /\ DownMoves(yaml, m, DownTargets(yaml, m, names))

\* tests/test_recipe_ref.py:338-339 and model.py:159: a model that has been scaled
\* down everywhere is "not active anywhere", and its "hosts: [] must load fine".
ScaledDownLoads ==
  [][\A m \in Models : ModelDown(m, {}) => Loads(yaml')]_yaml
=============================================================================
