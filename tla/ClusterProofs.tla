---------------------------- MODULE ClusterProofs ----------------------------
(***************************************************************************)
(* What holds of a cluster for every set of hosts and models, whatever     *)
(* sequence of `apply`, `model up` and `model down` runs and wherever they *)
(* break off.                                                              *)
(***************************************************************************)
EXTENDS Cluster, ClusterConfigProofs

-----------------------------------------------------------------------------
(* Values *)

LEMMA RankType ==
  ASSUME NEW l \in HostLists, NEW h
  PROVE  Rank(l, h) \in 0 .. Cardinality(Hosts)
<1> DEFINE earlier == {g \in l.on : <<g, h>> \in l.before}
<1>1. earlier \subseteq Hosts
  BY ListParts
<1>2. Cardinality(earlier) \in Nat /\ Cardinality(Hosts) \in Nat /\ Cardinality(earlier) <= Cardinality(Hosts)
  BY <1>1, HostsAssumption, FS_Subset, FS_CardinalityType
<1> QED BY <1>2 DEF Rank

LEMMA LayoutType ==
  ASSUME NEW c \in Configs, NEW h \in Hosts, SelectActive(c, h) # None
  PROVE  Layout(c, h) \in Layouts /\ Layout(c, h) # None
<1> DEFINE m == SelectActive(c, h)
           l == ModelHostList(c, m)
           placed == {k \in RunHosts(c, m) : Rank(l, k) < MinNodes[m]}
<1>1. m \in Models /\ l \in HostLists /\ placed \subseteq Hosts
  <2>1. m \in Models
    BY ActiveType
  <2>2. l \in HostLists
    BY <2>1, HostListType
  <2>3. l.on \subseteq Hosts
    BY <2>2, ListParts
  <2> QED BY <2>1, <2>2, <2>3 DEF RunHosts
<1>2. Cardinality(Hosts) \in Nat
  BY HostsAssumption, FS_CardinalityType
<1>3. \A g \in placed : Rank(l, g) \in 0 .. Cardinality(Hosts)
  BY <1>1, RankType
<1>4. Layout(c, h) = IF ~Spans(m) THEN {<<h, 0>>} ELSE {<<g, Rank(l, g)>> : g \in placed}
  BY DEF Layout
<1> HIDE DEF m, l, placed
<1>5. Layout(c, h) \in Layouts
  BY <1>1, <1>2, <1>3, <1>4 DEF Layouts
<1> QED BY <1>5, NoneAssumption

LEMMA WantedType ==
  ASSUME NEW c \in Configs, NEW h \in Hosts
  PROVE  /\ Wanted(c, h) \in Confirmed \cup {None} /\ Managed(c, h) \subseteq Models
         /\ Wanted(c, h) = None <=> SelectActive(c, h) = None
         /\ Wanted(c, h) # None =>
              /\ Wanted(c, h) \in Confirmed
              /\ Wanted(c, h).name = SelectActive(c, h) /\ Wanted(c, h).hash = Layout(c, h)
<1>1. SelectActive(c, h) \in Models \cup {None}
  BY ActiveType
<1>2. CASE SelectActive(c, h) = None
  BY <1>2 DEF Wanted, Managed
<1>3. CASE SelectActive(c, h) # None
  <2>1. Wanted(c, h) = [name |-> SelectActive(c, h), hash |-> Layout(c, h)]
    BY <1>3 DEF Wanted
  <2>2. Wanted(c, h) \in Confirmed
    BY <1>1, <1>3, <2>1, LayoutType DEF Confirmed
  <2> QED BY <1>1, <1>3, <2>1, <2>2, NoneAssumption DEF Managed
<1> QED BY <1>2, <1>3

LEMMA RoutesType ==
  ASSUME NEW c \in Configs, NEW h \in Hosts
  PROVE  WantedRoutes(c, h) \in RouteLists \cup {None}
<1>1. ASSUME NEW m \in Entries(c) PROVE ApiBase(c, h, m) \in Hosts \cup {Elsewhere}
  <2>1. m \in Models /\ ModelHostList(c, m) \in HostLists /\ ModelHostList(c, m).on # {}
    BY HostListType DEF Entries, RunHosts
  <2>2. HeadHost(c, m) \in Hosts
    BY <2>1, ListParts, FirstIsFirst DEF HeadHost
  <2> QED BY <2>2 DEF ApiBase
<1>2. Routes(c, h) \in RouteLists
  BY <1>1 DEF Routes, RouteLists
<1> QED BY <1>2 DEF WantedRoutes

-----------------------------------------------------------------------------
(* Steps *)

\* One host at a time has its turn.
LEMMA AtOne ==
  ASSUME TypeOK, NEW h, NEW step, At(h, step)
  PROVE  /\ cmd \in Cmds /\ cmd.step = step /\ h \in cmd.todo /\ h \in Hosts
         /\ \A g, other : At(g, other) => g = h /\ other = step
<1>1. cmd \in Cmds
  BY DEF TypeOK, At
<1>2. cmd.todo \in SUBSET Hosts /\ cmd.todo # {}
  BY <1>1 DEF Cmds
<1>3. \E g \in cmd.todo : \A k \in cmd.todo \ {g} : <<g, k>> \in HostOrder
  BY <1>2, HostsAssumption DEF IsOrderOn
<1>4. h \in cmd.todo
  BY <1>3 DEF At, First
<1> QED BY <1>1, <1>2, <1>4 DEF At

LEMMA GotoType ==
  ASSUME TypeOK, NEW h, NEW before, At(h, before), NEW step \in Steps, Goto(step)
  PROVE  /\ cmd' \in Cmds /\ cmd' # None /\ cmd'.step = step
         /\ cmd'.todo = cmd.todo /\ cmd'.restart = cmd.restart /\ cmd'.failed = cmd.failed
         /\ cmd'.downs = cmd.downs /\ cmd'.targets = cmd.targets
         /\ \A g, s : (At(g, s))' <=> g = h /\ s = step
<1>1. cmd \in Cmds /\ h = First([on |-> cmd.todo, before |-> HostOrder])
  BY AtOne DEF At
<1>2. cmd' = [cmd EXCEPT !.step = step]
  BY DEF Goto
<1>3. /\ cmd' \in Cmds /\ cmd'.step = step /\ cmd'.todo = cmd.todo /\ cmd'.restart = cmd.restart
      /\ cmd'.failed = cmd.failed /\ cmd'.downs = cmd.downs /\ cmd'.targets = cmd.targets
  BY <1>1, <1>2 DEF Cmds
<1>4. cmd' # None
  BY <1>3, NoneAssumption
<1> QED BY <1>1, <1>3, <1>4 DEF At

LEMMA ReturnType ==
  ASSUME TypeOK, NEW h, NEW step, At(h, step), NEW failed \in BOOLEAN, Return(h, failed)
  PROVE  /\ cmd' \in Cmds \cup {None}
         /\ cmd.todo = {h} => cmd' = None
         /\ cmd' # None =>
              /\ cmd'.todo = cmd.todo \ {h} /\ cmd'.failed = (cmd.failed \/ failed)
              /\ cmd'.restart = cmd.restart /\ cmd'.downs = cmd.downs /\ cmd'.targets = cmd.targets
         /\ \A g, s : (At(g, s))' => s = "plan"
<1>1. cmd \in Cmds /\ h \in cmd.todo
  BY AtOne
<1>2. CASE cmd.todo = {h}
  BY <1>2 DEF Return, At
<1>3. CASE cmd.todo # {h}
  <2>1. cmd' = [cmd EXCEPT !.todo = @ \ {h}, !.step = "plan", !.failed = @ \/ failed]
    BY <1>3 DEF Return
  <2>2. cmd' = [restart |-> cmd.restart, downs |-> cmd.downs, targets |-> cmd.targets,
                todo |-> cmd.todo \ {h}, step |-> "plan", failed |-> cmd.failed \/ failed]
    BY <1>1, <2>1 DEF Cmds
  <2>3. cmd.todo \ {h} \in (SUBSET Hosts) \ {{}} /\ (cmd.failed \/ failed) \in BOOLEAN
    BY <1>1, <1>3 DEF Cmds
  <2> QED BY <1>1, <1>3, <2>2, <2>3 DEF Cmds, Steps, At
<1> QED BY <1>2, <1>3

\* What one model up or model down does before its hosts converge: it is model m
\* that moves, and a host that is to go down loses it.
Scales(m, restart, downs, targets) ==
  /\ cmd = None /\ Loads(yaml) /\ yaml' \in Configs /\ ScalesOnly(yaml, yaml', m)
  /\ targets # {}
  /\ Scale(yaml', restart, downs, targets)
  /\ downs # None => restart /\ downs = m /\ RunHosts(yaml', m) \cap targets = {}

LEMMA UpScales ==
  ASSUME TypeOK, NEW m \in Models, NEW names \in Selections, ModelUp(m, names)
  PROVE  \E targets \in SUBSET Names : Scales(m, FALSE, None, targets)
<1> DEFINE targets == UpTargets(yaml, m, names)
<1>1. /\ cmd = None /\ Loads(yaml) /\ yaml \in Configs
      /\ targets \in SUBSET Names /\ targets # {} /\ yaml' = ScaledUp(yaml, m, targets)
      /\ Scale(yaml', FALSE, None, targets)
  BY SelectionsAssumption DEF TypeOK, ModelUp, MayScaleUp, UpTargets, Scale, Names
<1> HIDE DEF targets
<1>2. yaml' \in Configs /\ ScalesOnly(yaml, yaml', m)
  <2>1. CASE targets \ RunHosts(yaml, m) = {}
    BY <1>1, <2>1 DEF ScaledUp, ScalesOnly
  <2>2. CASE targets \ RunHosts(yaml, m) # {}
    BY <1>1, <2>2, UpWrites
  <2> QED BY <2>1, <2>2
<1> QED BY <1>1, <1>2 DEF Scales

LEMMA DownScales ==
  ASSUME TypeOK, NEW m \in Models, NEW names \in Selections, ModelDown(m, names)
  PROVE  \E targets \in SUBSET Names : Scales(m, TRUE, m, targets)
<1> DEFINE targets == DownTargets(yaml, m, names)
<1>1. /\ cmd = None /\ Loads(yaml) /\ yaml \in Configs
      /\ targets # {} /\ targets \subseteq RunHosts(yaml, m) /\ yaml' = ScaledDown(yaml, m, targets)
      /\ Scale(yaml', TRUE, m, targets)
  BY DEF TypeOK, ModelDown, MayScaleDown, Scale
<1>2. RunHosts(yaml, m) \subseteq Names
  BY <1>1, HostListType, ListParts DEF RunHosts, Names
<1> HIDE DEF targets
<1>3. /\ yaml' \in Configs /\ ScalesOnly(yaml, yaml', m)
      /\ RunHosts(yaml', m) = RunHosts(yaml, m) \ targets
  BY <1>1, DownWrites
<1> QED BY <1>1, <1>2, <1>3 DEF Scales

\* The ways a host leaves its turn without having recorded anything.
Leaves(h) == HostFails(h) \/ Raises(h)

LEMMA LeavesType ==
  ASSUME TypeOK, NEW h \in Hosts, Leaves(h)
  PROVE  /\ UNCHANGED <<yaml, hosts, scalings, early>>
         /\ \E step \in Steps : At(h, step)
         /\ cmd' \in Cmds \cup {None}
         /\ \A g, s : (At(g, s))' => s = "plan"
<1>1. CASE HostFails(h)
  <2>1. PICK step \in {"stop", "serve", "record"} : At(h, step)
    BY <1>1 DEF HostFails
  <2> QED BY <1>1, <2>1, ReturnType DEF HostFails, Steps
<1>2. CASE Raises(h)
  BY <1>2 DEF Raises, At, Steps
<1> QED BY <1>1, <1>2 DEF Leaves

\* Next, one case for every kind of step.
LEMMA Kinds ==
  ASSUME TypeOK, [Next]_vars
  PROVE  \/ \E restart \in BOOLEAN, names \in Selections : Apply(restart, names)
         \/ \E m \in Models, restart \in BOOLEAN, downs \in Models \cup {None}, targets \in SUBSET Names :
              Scales(m, restart, downs, targets)
         \/ \E h \in Hosts : OnHost(h)
         \/ \E h \in Hosts : Leaves(h)
         \/ UNCHANGED vars
<1>1. ASSUME NEW m \in Models, NEW names \in Selections, ModelUp(m, names) \/ ModelDown(m, names)
      PROVE  \E restart \in BOOLEAN, downs \in Models \cup {None}, targets \in SUBSET Names :
               Scales(m, restart, downs, targets)
  BY <1>1, UpScales, DownScales
<1> QED BY <1>1 DEF Next, Leaves

-----------------------------------------------------------------------------
(* Types *)

\* For every cluster and every sequence of commands: what is recorded, launched and
\* routed is what the configuration has names for; a pinned layout names hosts of
\* the cluster with ranks below its size, an entry leads to a host of the cluster
\* or to an explicit address, and no command is left with no host to go to.
THEOREM TypeCorrect == Spec => []TypeOK
<1>1. Init => TypeOK
  <2>1. NoLedger \in Ledgers
    BY DEF NoLedger, Ledgers
  <2>2. 0 \in 0 .. MaxScalings
    BY FaultsAssumption
  <2>3. Init => /\ ledger \in [Hosts -> Ledgers]
                /\ up \in [Hosts -> [Models -> Layouts \cup {None}]]
                /\ gateway \in [Hosts -> RouteLists \cup {None}]
                /\ missed \subseteq Hosts
    BY <2>1 DEF Init
  <2>4. Init => yaml \in Configs /\ cmd \in Cmds \cup {None} /\ early \in BOOLEAN
    BY InitialAssumption DEF Init
  <2> QED BY <2>2, <2>3, <2>4 DEF Init, TypeOK
<1>2. TypeOK /\ [Next]_vars => TypeOK'
  <2> SUFFICES ASSUME TypeOK, [Next]_vars PROVE TypeOK'
    OBVIOUS
  <2>1. ASSUME NEW restart \in BOOLEAN, NEW names \in Selections, Apply(restart, names) PROVE TypeOK'
    <3>1. (IF names = {} THEN Hosts ELSE names) \in (SUBSET Hosts) \ {{}}
      BY <2>1, HostsAssumption DEF Apply
    <3>2. cmd' \in Cmds
      BY <2>1, <3>1 DEF Apply, RunOnEach, Cmds, Steps
    <3> QED BY <2>1, <3>2 DEF Apply, hosts, TypeOK
  <2>2. ASSUME NEW m \in Models, NEW restart \in BOOLEAN, NEW downs \in Models \cup {None},
               NEW targets \in SUBSET Names, Scales(m, restart, downs, targets)
        PROVE TypeOK'
    <3>1. cmd' \in Cmds \cup {None}
      <4>1. cmd' = cmd \/ (RunOnEach(restart, downs, targets) /\ targets \subseteq Hosts)
        BY <2>2 DEF Scales, Scale
      <4>2. targets # {}
        BY <2>2 DEF Scales
      <4>3. RunOnEach(restart, downs, targets) /\ targets \subseteq Hosts => cmd' \in Cmds
        BY <2>2, <4>2 DEF RunOnEach, Cmds, Steps
      <4> QED BY <4>1, <4>3 DEF TypeOK
    <3>2. scalings' \in 0 .. MaxScalings
      BY <2>2, FaultsAssumption DEF Scales, Scale, TypeOK
    <3>3. early' \in BOOLEAN
      BY <2>2 DEF Scales, Scale, TypeOK
    <3> QED BY <2>2, <3>1, <3>2, <3>3 DEF Scales, Scale, hosts, TypeOK
  <2>3. ASSUME NEW h \in Hosts, OnHost(h) PROVE TypeOK'
    <3>1. yaml \in Configs
      BY DEF TypeOK
    <3>2. CASE Plan(h)
      <4>1. cmd' \in Cmds
        BY <3>2, GotoType DEF Plan, Steps
      <4> QED BY <3>2, <4>1 DEF Plan, hosts, TypeOK
    <3>3. CASE StopStale(h)
      <4>1. cmd' \in Cmds
        BY <3>3, GotoType DEF StopStale, Steps
      <4>2. up' \in [Hosts -> [Models -> Layouts \cup {None}]]
        BY <3>3 DEF StopStale, TypeOK
      <4> QED BY <3>3, <4>1, <4>2 DEF StopStale, TypeOK
    <3>4. CASE ServeGateway(h)
      <4>1. cmd' \in Cmds
        BY <3>4, GotoType DEF ServeGateway, Steps
      <4>2. gateway' \in [Hosts -> RouteLists \cup {None}]
        BY <3>1, <3>4, RoutesType DEF ServeGateway, TypeOK
      <4>3. missed' \subseteq Hosts
        BY <3>4 DEF ServeGateway, TypeOK
      <4> QED BY <3>4, <4>1, <4>2, <4>3 DEF ServeGateway, TypeOK
    <3>5. CASE RestartFails(h)
      <4>1. cmd' \in Cmds
        BY <3>5, GotoType DEF RestartFails, Steps
      <4> QED BY <3>5, <4>1 DEF RestartFails, TypeOK
    <3>6. CASE EnsureModel(h)
      <4>1. cmd' \in Cmds
        BY <3>6, GotoType DEF EnsureModel, Steps
      <4>2. up' \in [Hosts -> [Models -> Layouts \cup {None}]]
        <5>1. LaunchesModel(yaml, h) => Layout(yaml, h) \in Layouts
          BY <3>1, LayoutType DEF LaunchesModel
        <5> QED BY <3>6, <5>1 DEF EnsureModel, TypeOK
      <4> QED BY <3>6, <4>1, <4>2 DEF EnsureModel, TypeOK
    <3>7. CASE Record(h)
      <4>1. cmd' \in Cmds \cup {None}
        BY <3>7, ReturnType DEF Record
      <4>2. ledger' \in [Hosts -> Ledgers]
        <5>1. ledger[h].model \in Confirmed \cup {None}
          BY DEF TypeOK, Ledgers
        <5> QED BY <3>1, <3>7, <5>1, WantedType, RoutesType DEF Record, TypeOK, Ledgers
      <4> QED BY <3>7, <4>1, <4>2 DEF Record, TypeOK
    <3> QED BY <2>3, <3>2, <3>3, <3>4, <3>5, <3>6, <3>7 DEF OnHost
  <2>4. ASSUME NEW h \in Hosts, Leaves(h) PROVE TypeOK'
    BY <2>4, LeavesType DEF hosts, TypeOK
  <2>5. CASE UNCHANGED vars
    BY <2>5 DEF vars, hosts, TypeOK
  <2> QED BY <2>1, <2>2, <2>3, <2>4, <2>5, Kinds
<1> QED BY <1>1, <1>2, PTL DEF Spec

-----------------------------------------------------------------------------
(* What is up, what is recorded and what is wanted *)

Launched(h, m) == LaunchesModel(yaml, h) /\ m = SelectActive(yaml, h) /\ up[h][m] = Layout(yaml, h)
Recorded(h, m) == ledger[h].model = [name |-> m, hash |-> up[h][m]]

\* The converge of h has come to one of these steps.
Working(h, steps) == \E step \in steps : At(h, step)

\* What is up is wanted as it is, or confirmed as it is.
UpInv(h) == \A m \in Models : up[h][m] # None => Recorded(h, m) \/ Launched(h, m)

\* What is wanted and confirmed is up.
ConfirmedInv(h) ==
  LaunchesModel(yaml, h) /\ ledger[h].model = Wanted(yaml, h) => Launched(h, SelectActive(yaml, h))

\* A worker of a spanning model launches nothing of its own.
WorkerInv(h) ==
  SelectActive(yaml, h) # None /\ ~LaunchesModel(yaml, h) => \A m \in Models : up[h][m] = None

\* A converge that will be recorded as complete leaves nothing behind, and in the
\* end the model is up.
StoppedInv(h) ==
  Working(h, {"serve", "ensure", "record"}) /\ Converged(h)
    => \A m \in Models : up[h][m] # None => Launched(h, m)
EnsuredInv(h) == At(h, "record") /\ LaunchesModel(yaml, h) => up[h][SelectActive(yaml, h)] # None

\* A gateway that has come through its last restart has the list that is recorded,
\* or the one that is about to be.
GatewayInv(h) ==
  h \notin missed =>
    /\ gateway[h] \in {ledger[h].routes, WantedRoutes(yaml, h)}
    /\ Working(h, {"ensure", "record"}) => gateway[h] = WantedRoutes(yaml, h)

ModelInv(h) == UpInv(h) /\ ConfirmedInv(h) /\ WorkerInv(h) /\ StoppedInv(h) /\ EnsuredInv(h)

LoadsInv == cmd # None => Loads(yaml)

\* Of a config.yaml that gives a host two models nothing can be said, and nothing runs.
ServesInv ==
  /\ LoadsInv
  /\ ~early => /\ \A h \in Hosts : GatewayInv(h)
               /\ ~ActiveHostConflicts(yaml) => \A h \in Hosts : ModelInv(h)

\* A host that is not touched, and whose converge is not under way.
LEMMA HostStays ==
  ASSUME NEW h, UNCHANGED yaml, up'[h] = up[h], ledger'[h] = ledger[h], gateway'[h] = gateway[h],
         h \in missed' <=> h \in missed, \A s : (At(h, s))' => s = "plan"
  PROVE  /\ ModelInv(h) => ModelInv(h)'
         /\ GatewayInv(h) => GatewayInv(h)'
<1>1. \A steps : (Working(h, steps))' => "plan" \in steps
  BY DEF Working
<1>2. ~(At(h, "record"))'
  OBVIOUS
<1> QED BY <1>1, <1>2
        DEF ModelInv, UpInv, ConfirmedInv, WorkerInv, StoppedInv, EnsuredInv, GatewayInv, Recorded,
            Launched, WantedRoutes

\* A command begins, or a host leaves its turn: nothing else changes.
LEMMA ServesQuietly ==
  ASSUME ServesInv, UNCHANGED <<yaml, hosts, early>>, cmd' # None => Loads(yaml),
         \A h, s : (At(h, s))' => s = "plan"
  PROVE  ServesInv'
<1>1. \A h \in Hosts : /\ ModelInv(h) => ModelInv(h)'
                       /\ GatewayInv(h) => GatewayInv(h)'
  BY HostStays DEF hosts
<1> QED BY <1>1 DEF ServesInv, LoadsInv

-----------------------------------------------------------------------------
(* One host converges *)

LEMMA StopKeeps ==
  ASSUME TypeOK, NEW h \in Hosts, StopStale(h), ModelInv(h), GatewayInv(h)
  PROVE  ModelInv(h)' /\ GatewayInv(h)'
<1> DEFINE stops == Stale(h) \cup IF RestartCurrent(h) THEN Managed(yaml, h) ELSE {}
           s == SelectActive(yaml, h)
<1>1. /\ UNCHANGED <<yaml, ledger, gateway, missed>> /\ cmd'.restart = cmd.restart
      /\ \A m \in Models : up'[h][m] = IF cmd.restart /\ m \in stops THEN None ELSE up[h][m]
      /\ \A step : (At(h, step))' <=> step = "serve"
  BY GotoType DEF StopStale, Steps, TypeOK
<1>2. Converged(h)' <=> Converged(h)
  BY <1>1 DEF Converged, Pending, Stale, MayLaunch, RestartCurrent
<1>3. s \in Models \cup {None} /\ (LaunchesModel(yaml, h) => s # None)
  BY ActiveType DEF TypeOK, LaunchesModel
<1>4. UpInv(h)'
  BY <1>1 DEF ModelInv, UpInv, Recorded, Launched
<1>5. ConfirmedInv(h)'
  <2> SUFFICES ASSUME LaunchesModel(yaml, h), ledger[h].model = Wanted(yaml, h)
               PROVE  up'[h][s] = Layout(yaml, h)
    BY <1>1 DEF ConfirmedInv, Launched
  <2>1. up[h][s] = Layout(yaml, h)
    BY DEF ModelInv, ConfirmedInv, Launched
  <2>2. s \notin stops
    BY <1>3 DEF Stale, Managed, RestartCurrent
  <2> QED BY <1>1, <1>3, <2>1, <2>2
<1>6. WorkerInv(h)'
  BY <1>1 DEF ModelInv, WorkerInv
<1>7. StoppedInv(h)'
  <2> SUFFICES ASSUME Converged(h), NEW m \in Models, up'[h][m] # None
               PROVE  LaunchesModel(yaml, h) /\ m = s /\ up[h][m] = Layout(yaml, h)
    BY <1>1, <1>2 DEF StoppedInv, Launched
  <2>1. up[h][m] # None /\ up'[h][m] = up[h][m] /\ ~(cmd.restart /\ m \in stops)
    BY <1>1
  <2>2. Recorded(h, m) \/ Launched(h, m)
    BY <2>1 DEF ModelInv, UpInv
  <2>3. CASE Recorded(h, m) /\ ~Launched(h, m)
    <3>1. ledger[h].model # None /\ ledger[h].model.name = m /\ ledger[h].model.hash = up[h][m]
      <4>1. ledger[h].model = [name |-> m, hash |-> up[h][m]]
        BY <2>3 DEF Recorded
      <4>2. up[h][m] \in Layouts
        BY <2>1 DEF TypeOK
      <4>3. [name |-> m, hash |-> up[h][m]] \in Confirmed
        BY <4>2 DEF Confirmed
      <4> QED BY <4>1, <4>3, NoneAssumption
    <3>2. MayLaunch(yaml, h)
      BY <2>1 DEF ModelInv, WorkerInv, MayLaunch
    <3>3. m # s => m \in Stale(h)
      BY <3>1, <3>2 DEF Stale, Managed
    <3>4. m = s => RestartCurrent(h) /\ m \in Managed(yaml, h)
      <4> SUFFICES ASSUME m = s PROVE RestartCurrent(h) /\ m \in Managed(yaml, h)
        OBVIOUS
      <4>1. s # None /\ LaunchesModel(yaml, h)
        BY <3>2, NamesAssumption DEF MayLaunch
      <4>2. up[h][m] # Layout(yaml, h)
        BY <2>3, <4>1 DEF Launched
      <4>3. Wanted(yaml, h).hash = Layout(yaml, h)
        BY <4>1, WantedType DEF TypeOK
      <4> QED BY <3>1, <4>1, <4>2, <4>3 DEF RestartCurrent, Managed
    <3>5. m \in stops /\ ~cmd.restart
      BY <2>1, <3>3, <3>4
    <3>6. ~Converged(h)
      BY <3>3, <3>4, <3>5 DEF Converged, Pending
    <3> QED BY <3>6
  <2> QED BY <2>2, <2>3 DEF Launched
<1>8. EnsuredInv(h)'
  BY <1>1 DEF EnsuredInv
<1>9. GatewayInv(h)'
  BY <1>1 DEF GatewayInv, Working, WantedRoutes
<1> QED BY <1>4, <1>5, <1>6, <1>7, <1>8, <1>9 DEF ModelInv

\* converge.py:354-362: the list is recorded when the gateway has loaded it, when it
\* had it all along, or when the restart has failed.
LEMMA ServeKeeps ==
  ASSUME TypeOK, NEW h \in Hosts, ServeGateway(h) \/ RestartFails(h), ModelInv(h), GatewayInv(h)
  PROVE  ModelInv(h)' /\ GatewayInv(h)'
<1>1. /\ At(h, "serve") /\ UNCHANGED <<yaml, ledger, up>> /\ cmd'.restart = cmd.restart
      /\ \A step : (At(h, step))' <=> step = "ensure"
  BY GotoType DEF ServeGateway, RestartFails, Steps
<1>2. Converged(h)' <=> Converged(h)
  BY <1>1 DEF Converged, Pending, Stale, MayLaunch, RestartCurrent
<1>3. StoppedInv(h)'
  BY <1>1, <1>2 DEF ModelInv, StoppedInv, Working, Launched
<1>4. h \notin missed' => gateway'[h] = WantedRoutes(yaml, h)
  <2>1. CASE RestartFails(h)
    BY <2>1 DEF RestartFails
  <2>2. CASE ServeGateway(h) /\ (gateway[h] = None \/ Restarts(h))
    BY <2>2 DEF ServeGateway, TypeOK
  <2>3. CASE ServeGateway(h) /\ ~(gateway[h] = None \/ Restarts(h))
    <3>1. UNCHANGED <<gateway, missed>>
      BY <2>3 DEF ServeGateway
    <3> QED BY <2>3, <3>1 DEF Restarts, GatewayInv
  <2> QED BY <2>1, <2>2, <2>3
<1>5. GatewayInv(h)'
  BY <1>1, <1>4 DEF GatewayInv, WantedRoutes
<1>6. EnsuredInv(h)' /\ UpInv(h)' /\ ConfirmedInv(h)' /\ WorkerInv(h)'
  BY <1>1 DEF ModelInv, EnsuredInv, UpInv, ConfirmedInv, WorkerInv, Recorded, Launched
<1> QED BY <1>3, <1>5, <1>6 DEF ModelInv

LEMMA EnsureKeeps ==
  ASSUME TypeOK, NEW h \in Hosts, EnsureModel(h), ModelInv(h), GatewayInv(h)
  PROVE  ModelInv(h)' /\ GatewayInv(h)'
<1> DEFINE s == SelectActive(yaml, h)
<1>1. /\ At(h, "ensure") /\ UNCHANGED <<yaml, ledger, gateway, missed>> /\ cmd'.restart = cmd.restart
      /\ \A step : (At(h, step))' <=> step = "record"
  BY GotoType DEF EnsureModel, Steps
<1>2. Converged(h)' <=> Converged(h)
  BY <1>1 DEF Converged, Pending, Stale, MayLaunch, RestartCurrent
<1>3. LaunchesModel(yaml, h) => s \in Models /\ Layout(yaml, h) # None
  BY ActiveType, LayoutType DEF TypeOK, LaunchesModel
<1>4. /\ \A m \in Models : up'[h][m] = up[h][m] \/ Launched(h, m)'
      /\ LaunchesModel(yaml, h) => up'[h][s] # None
      /\ ~LaunchesModel(yaml, h) => up' = up
      /\ LaunchesModel(yaml, h) /\ up[h][s] # None => up' = up
  BY <1>1, <1>3 DEF EnsureModel, TypeOK, Launched
<1>5. UpInv(h)'
  BY <1>1, <1>4 DEF ModelInv, UpInv, Recorded, Launched
<1>6. ConfirmedInv(h)'
  BY <1>1, <1>3, <1>4 DEF ModelInv, ConfirmedInv, Launched
<1>7. WorkerInv(h)'
  BY <1>1, <1>4 DEF ModelInv, WorkerInv
<1>8. StoppedInv(h)'
  BY <1>1, <1>2, <1>4 DEF ModelInv, StoppedInv, Working, Launched
<1>9. EnsuredInv(h)'
  BY <1>1, <1>4 DEF EnsuredInv
<1>10. GatewayInv(h)'
  BY <1>1 DEF GatewayInv, Working, WantedRoutes
<1> QED BY <1>5, <1>6, <1>7, <1>8, <1>9, <1>10 DEF ModelInv

LEMMA RecordKeeps ==
  ASSUME TypeOK, NEW h \in Hosts, Record(h), ModelInv(h), GatewayInv(h)
  PROVE  ModelInv(h)' /\ GatewayInv(h)'
<1>1. /\ At(h, "record") /\ UNCHANGED <<yaml, up, gateway, missed>>
      /\ \A step : (At(h, step))' => step = "plan"
      /\ ledger'[h].model = IF Converged(h) THEN Wanted(yaml, h) ELSE ledger[h].model
      /\ ledger'[h].routes = WantedRoutes(yaml, h)
  BY ReturnType DEF Record, TypeOK
<1>2. WorkerInv(h)' /\ StoppedInv(h)' /\ EnsuredInv(h)'
  BY <1>1 DEF ModelInv, WorkerInv, StoppedInv, EnsuredInv, Working
<1>3. GatewayInv(h)'
  BY <1>1 DEF GatewayInv, Working, WantedRoutes
<1>4. CASE ~Converged(h)
  BY <1>1, <1>2, <1>3, <1>4 DEF ModelInv, UpInv, ConfirmedInv, Recorded, Launched
<1>5. CASE Converged(h)
  <2>1. \A m \in Models : up[h][m] # None => Launched(h, m)
    BY <1>1, <1>5 DEF ModelInv, StoppedInv, Working
  <2>2. LaunchesModel(yaml, h) => Launched(h, SelectActive(yaml, h))
    BY <1>1, <2>1, ActiveType DEF ModelInv, EnsuredInv, TypeOK, LaunchesModel
  <2> QED BY <1>1, <1>2, <1>3, <2>1, <2>2 DEF ModelInv, UpInv, ConfirmedInv, Launched
<1> QED BY <1>4, <1>5

LEMMA ServesOnHost ==
  ASSUME TypeOK, ServesInv, NEW h \in Hosts, OnHost(h)
  PROVE  ServesInv'
<1>1. /\ UNCHANGED <<yaml, early>> /\ \E step : At(h, step)
      /\ \A g \in Hosts \ {h} : /\ up'[g] = up[g] /\ ledger'[g] = ledger[g] /\ gateway'[g] = gateway[g]
                                /\ g \in missed' <=> g \in missed
  BY DEF OnHost, Plan, StopStale, ServeGateway, RestartFails, EnsureModel, Record, hosts, TypeOK
<1>2. Loads(yaml) /\ ~ActiveHostConflicts(yaml)
  BY <1>1 DEF ServesInv, LoadsInv, At, Loads
<1>3. \A g \in Hosts \ {h} : \A s : (At(g, s))' => s = "plan"
  BY GotoType, ReturnType DEF OnHost, Plan, StopStale, ServeGateway, RestartFails, EnsureModel, Record, Steps
<1>4. ASSUME ~early, NEW g \in Hosts PROVE ModelInv(g)' /\ GatewayInv(g)'
  <2>1. \A k \in Hosts : ModelInv(k) /\ GatewayInv(k)
    BY <1>2, <1>4 DEF ServesInv
  <2>2. CASE g # h
    BY <1>1, <1>3, <2>1, <2>2, HostStays
  <2>3. CASE g = h /\ Plan(h)
    <3>1. UNCHANGED <<yaml, ledger, up, gateway, missed>> /\ \A step : (At(h, step))' <=> step = "stop"
      BY <2>3, GotoType DEF Plan, hosts, Steps
    <3> QED BY <2>1, <2>3, <3>1
            DEF ModelInv, UpInv, ConfirmedInv, WorkerInv, StoppedInv, EnsuredInv, GatewayInv, Working,
                Recorded, Launched, WantedRoutes
  <2> QED BY <2>1, <2>2, <2>3, StopKeeps, ServeKeeps, EnsureKeeps, RecordKeeps DEF OnHost
<1> QED BY <1>1, <1>2, <1>4 DEF ServesInv, LoadsInv

-----------------------------------------------------------------------------
(* config.yaml is scaled *)

\* What a host is to do is unchanged when the recipe it wants is.
LEMMA SameWanted ==
  ASSUME NEW c \in Configs, NEW d \in Configs, NEW h \in Hosts, Wanted(c, h) = Wanted(d, h)
  PROVE  /\ SelectActive(d, h) = SelectActive(c, h)
         /\ LaunchesModel(d, h) <=> LaunchesModel(c, h)
         /\ SelectActive(c, h) # None => Layout(d, h) = Layout(c, h)
<1>1. CASE SelectActive(c, h) = None
  BY <1>1, WantedType DEF LaunchesModel
<1>2. CASE SelectActive(c, h) # None
  <2>1. SelectActive(d, h) = SelectActive(c, h) /\ Layout(d, h) = Layout(c, h)
    BY <1>2, WantedType
  <2> QED BY <1>2, <2>1, LauncherIsPinned
<1> QED BY <1>1, <1>2

\* A host that has settled, and is to do something else now.
LEMMA ModelMoves ==
  ASSUME TypeOK, NEW m \in Models, NEW h \in Hosts, UNCHANGED <<up, ledger>>, yaml' \in Configs,
         ScalesOnly(yaml, yaml', m), ~ActiveHostConflicts(yaml), ~ActiveHostConflicts(yaml'),
         ModelSettled(yaml, h), Wanted(yaml', h) # Wanted(yaml, h), ModelInv(h)
  PROVE  UpInv(h)' /\ ConfirmedInv(h)' /\ WorkerInv(h)'
<1>1. yaml \in Configs /\ ledger[h].model = Wanted(yaml, h)
  BY DEF TypeOK, ModelSettled
<1>2. \A k \in Models : up[h][k] # None => Recorded(h, k)
  <2> SUFFICES ASSUME NEW k \in Models, Launched(h, k) PROVE Recorded(h, k)
    BY DEF ModelInv, UpInv
  <2>1. SelectActive(yaml, h) # None
    BY DEF Launched, LaunchesModel
  <2> QED BY <1>1, <2>1 DEF Launched, Recorded, Wanted
<1>3. UpInv(h)'
  BY <1>2 DEF UpInv, Recorded
<1>4. ConfirmedInv(h)'
  BY <1>1 DEF ConfirmedInv
<1>5. WorkerInv(h)'
  <2> SUFFICES ASSUME SelectActive(yaml', h) # None, ~LaunchesModel(yaml', h)
               PROVE  \A k \in Models : up[h][k] = None
    BY DEF WorkerInv
  <2>1. CASE SelectActive(yaml, h) = None
    <3>1. ledger[h].model = None
      BY <1>1, <2>1, WantedType
    <3>2. ASSUME NEW k \in Models, up[h][k] # None PROVE FALSE
      <4>1. [name |-> k, hash |-> up[h][k]] \in Confirmed
        BY <3>2 DEF TypeOK, Confirmed
      <4> QED BY <1>2, <3>1, <3>2, <4>1, NoneAssumption DEF Recorded
    <3> QED BY <3>2
  <2>2. CASE SelectActive(yaml, h) # None
    BY <1>1, <2>2, HostAfterScaling DEF ModelInv, WorkerInv
  <2> QED BY <2>1, <2>2
<1> QED BY <1>3, <1>4, <1>5

LEMMA ServesScaling ==
  ASSUME TypeOK, ServesInv, NEW m \in Models, NEW restart, NEW downs, NEW targets,
         Scales(m, restart, downs, targets)
  PROVE  ServesInv'
<1>1. /\ yaml \in Configs /\ yaml' \in Configs /\ ScalesOnly(yaml, yaml', m)
      /\ Loads(yaml) /\ ~ActiveHostConflicts(yaml)
      /\ UNCHANGED <<ledger, up, gateway, missed>>
  BY DEF Scales, Scale, hosts, TypeOK, Loads
<1>2. (cmd' # None => Loads(yaml')) /\ \A h, s : (At(h, s))' => s = "plan"
  BY DEF Scales, Scale, RunOnEach, At, Usable
<1>3. ASSUME ~early'
      PROVE  /\ ~early
             /\ \A h \in Hosts : Wanted(yaml', h) = Wanted(yaml, h) \/ ModelSettled(yaml, h)
             /\ \A h \in Hosts \ missed : gateway[h] = ledger[h].routes
  BY <1>3 DEF Scales, Scale
<1>4. \A h, steps : (Working(h, steps))' => "plan" \in steps
  BY <1>2 DEF Working
<1>5. ASSUME ~early', NEW h \in Hosts PROVE GatewayInv(h)'
  BY <1>1, <1>3, <1>4, <1>5 DEF GatewayInv
<1>6. ASSUME ~early', ~ActiveHostConflicts(yaml'), NEW h \in Hosts PROVE ModelInv(h)'
  <2>1. ModelInv(h)
    BY <1>1, <1>3, <1>6 DEF ServesInv
  <2>2. StoppedInv(h)' /\ EnsuredInv(h)'
    BY <1>2, <1>4 DEF StoppedInv, EnsuredInv
  <2>3. CASE Wanted(yaml', h) = Wanted(yaml, h)
    <3>1. /\ SelectActive(yaml', h) = SelectActive(yaml, h)
          /\ LaunchesModel(yaml', h) <=> LaunchesModel(yaml, h)
          /\ SelectActive(yaml, h) # None => Layout(yaml', h) = Layout(yaml, h)
      BY <1>1, <2>3, SameWanted
    <3>2. \A k : Launched(h, k)' <=> Launched(h, k)
      BY <1>1, <3>1 DEF Launched, LaunchesModel
    <3>3. UpInv(h)' /\ ConfirmedInv(h)' /\ WorkerInv(h)'
      BY <1>1, <2>1, <2>3, <3>1, <3>2 DEF ModelInv, UpInv, ConfirmedInv, WorkerInv, Recorded
    <3> QED BY <2>2, <3>3 DEF ModelInv
  <2>4. CASE Wanted(yaml', h) # Wanted(yaml, h)
    <3>1. ModelSettled(yaml, h)
      BY <1>3, <1>6, <2>4
    <3> QED BY <1>1, <1>6, <2>1, <2>2, <2>4, <3>1, ModelMoves DEF ModelInv
  <2> QED BY <2>3, <2>4
<1> QED BY <1>2, <1>5, <1>6 DEF ServesInv, LoadsInv

-----------------------------------------------------------------------------
(* Settled hosts serve *)

LEMMA ServesHolds == Spec => []ServesInv
<1>1. Init => ServesInv
  <2> SUFFICES ASSUME Init PROVE ServesInv
    OBVIOUS
  <2>1. /\ ~ActiveHostConflicts(yaml) /\ yaml \in Configs /\ cmd = None
        /\ \A h, s : ~At(h, s)
    BY InitialAssumption DEF Init, Usable, Loads, At
  <2>2. ASSUME NEW h \in Hosts PROVE ModelInv(h) /\ GatewayInv(h)
    <3>1. /\ ledger[h].model = None /\ ledger[h].routes = None /\ gateway[h] = None
          /\ \A m \in Models : up[h][m] = None
      BY DEF Init, NoLedger
    <3>2. ~(LaunchesModel(yaml, h) /\ ledger[h].model = Wanted(yaml, h))
      BY <2>1, <3>1, WantedType DEF LaunchesModel
    <3> QED BY <2>1, <3>1, <3>2
            DEF ModelInv, UpInv, ConfirmedInv, WorkerInv, StoppedInv, EnsuredInv, GatewayInv, Working
  <2> QED BY <2>1, <2>2 DEF ServesInv, LoadsInv
<1>2. TypeOK /\ ServesInv /\ [Next]_vars => ServesInv'
  <2> SUFFICES ASSUME TypeOK, ServesInv, [Next]_vars PROVE ServesInv'
    OBVIOUS
  <2>1. ASSUME NEW restart \in BOOLEAN, NEW names \in Selections, Apply(restart, names) PROVE ServesInv'
    <3>1. UNCHANGED <<yaml, hosts, early>> /\ Loads(yaml) /\ \A h, s : (At(h, s))' => s = "plan"
      BY <2>1 DEF Apply, RunOnEach, At
    <3> QED BY <3>1, ServesQuietly
  <2>2. ASSUME NEW h \in Hosts, Leaves(h) PROVE ServesInv'
    <3>1. /\ UNCHANGED <<yaml, hosts, early>> /\ \A g, s : (At(g, s))' => s = "plan"
          /\ Loads(yaml)
      BY <2>2, LeavesType DEF ServesInv, LoadsInv, At
    <3> QED BY <3>1, ServesQuietly
  <2>3. CASE UNCHANGED vars
    <3>1. \A h, s : (At(h, s))' <=> At(h, s)
      BY <2>3 DEF vars, At
    <3>2. \A h \in Hosts : Converged(h)' <=> Converged(h)
      BY <2>3 DEF vars, hosts, Converged, Pending, Stale, MayLaunch, RestartCurrent
    <3>3. \A h \in Hosts : (ModelInv(h)' <=> ModelInv(h)) /\ (GatewayInv(h)' <=> GatewayInv(h))
      BY <2>3, <3>1, <3>2
         DEF vars, hosts, ModelInv, UpInv, ConfirmedInv, WorkerInv, StoppedInv, EnsuredInv, GatewayInv,
             Working, Recorded, Launched, WantedRoutes
    <3> QED BY <2>3, <3>2, <3>3 DEF vars, ServesInv, LoadsInv
  <2> QED BY <2>1, <2>2, <2>3, Kinds, ServesScaling, ServesOnHost
<1> QED BY <1>1, <1>2, TypeCorrect, PTL DEF Spec

\* README, ARCHITECTURE "multi-host": for every cluster, and whatever sequence of
\* scalings and of converges that broke off led there: once every host has recorded
\* what config.yaml wants of it, and the restarts of the gateways have not failed,
\* requests reach the models where they run, in the layout that is wanted now; and
\* with or without the gateways, nothing else runs anywhere.
THEOREM SettledServes == Spec => []SettledClusterServes
<1>1. TypeOK /\ ServesInv => SettledClusterServes
  <2> SUFFICES ASSUME TypeOK, ServesInv, Loads(yaml), \A h \in Hosts : Settled(yaml, h), ~early
               PROVE /\ \A g \in Gateways \ missed : gateway[g] = Routes(yaml, g)
                     /\ \A g \in Gateways, m \in Entries(yaml) \ Explicit :
                          LET h == Routes(yaml, g)[m] IN up[h][m] = Layout(yaml, h)
                     /\ \A h \in Hosts, m \in Models :
                          up[h][m] # None => LaunchesModel(yaml, h) /\ m = SelectActive(yaml, h)
    BY DEF SettledClusterServes
  <2>1. /\ yaml \in Configs /\ ~ActiveHostConflicts(yaml)
        /\ \A h \in Hosts : ModelInv(h) /\ GatewayInv(h)
    BY DEF TypeOK, ServesInv, Loads
  <2>2. \A h \in Hosts : ledger[h].model = Wanted(yaml, h) /\ ledger[h].routes = WantedRoutes(yaml, h)
    BY DEF Settled, ModelSettled
  <2>3. ASSUME NEW g \in Gateways \ missed PROVE gateway[g] = Routes(yaml, g)
    BY <2>1, <2>2, StaticAssumption DEF GatewayInv, WantedRoutes
  <2>4. ASSUME NEW g \in Gateways, NEW m \in Entries(yaml) \ Explicit, NEW h, h = Routes(yaml, g)[m]
        PROVE  up[h][m] = Layout(yaml, h)
    <3>1. h \in Hosts /\ SelectActive(yaml, h) = m /\ LaunchesModel(yaml, h)
      BY <2>1, <2>4, RoutedHost
    <3> QED BY <2>1, <2>2, <3>1 DEF ModelInv, ConfirmedInv, Launched
  <2>5. ASSUME NEW h \in Hosts, NEW m \in Models, up[h][m] # None
        PROVE  LaunchesModel(yaml, h) /\ m = SelectActive(yaml, h)
    <3>1. CASE Launched(h, m)
      BY <3>1 DEF Launched
    <3>2. CASE Recorded(h, m)
      <4>1. [name |-> m, hash |-> up[h][m]] \in Confirmed
        BY <2>5 DEF TypeOK, Confirmed
      <4>2. SelectActive(yaml, h) # None /\ SelectActive(yaml, h) = m
        BY <2>1, <2>2, <3>2, <4>1, WantedType, NoneAssumption DEF Recorded
      <4> QED BY <2>1, <2>5, <4>2 DEF ModelInv, WorkerInv
    <3> QED BY <2>1, <2>5, <3>1, <3>2 DEF ModelInv, UpInv
  <2> QED BY <2>3, <2>4, <2>5
<1> QED BY <1>1, TypeCorrect, ServesHolds, PTL

-----------------------------------------------------------------------------
(* model down takes down *)

\* No target is to run the model any more, and where the converge is over it does not.
DownInv ==
  cmd # None /\ cmd.downs # None =>
    /\ cmd.restart
    /\ \A t \in cmd.targets : SelectActive(yaml, t) # cmd.downs
    /\ ~early /\ ~cmd.failed => \A t \in cmd.targets \ cmd.todo : up[t][cmd.downs] = None

\* The converge that is recorded has taken the model down on its own host.
LEMMA DownOnHost ==
  ASSUME TypeOK, ServesInv, DownInv, NEW h \in Hosts, Record(h), cmd.downs # None, ~early,
         h \in cmd.targets
  PROVE  up[h][cmd.downs] = None
<1>1. At(h, "record") /\ cmd \in Cmds /\ cmd # None
  BY AtOne DEF Record, At
<1>2. ~ActiveHostConflicts(yaml) /\ ModelInv(h)
  BY <1>1 DEF ServesInv, LoadsInv, Loads
<1>3. cmd.restart /\ SelectActive(yaml, h) # cmd.downs /\ cmd.downs \in Models
  BY <1>1 DEF DownInv, Cmds
<1>4. Converged(h)
  BY <1>3 DEF Converged, Pending
<1>5. up[h][cmd.downs] # None => Launched(h, cmd.downs)
  BY <1>1, <1>2, <1>3, <1>4 DEF ModelInv, StoppedInv, Working
<1> QED BY <1>3, <1>5 DEF Launched

LEMMA DownHolds == Spec => []DownInv
<1>1. Init => DownInv
  BY DEF Init, DownInv
<1>2. TypeOK /\ ServesInv /\ DownInv /\ [Next]_vars => DownInv'
  <2> SUFFICES ASSUME TypeOK, ServesInv, DownInv, [Next]_vars, cmd' # None, cmd'.downs # None
               PROVE  DownInv'
    BY DEF DownInv
  <2>a. ASSUME cmd \in Cmds, cmd # None, UNCHANGED <<yaml, early>>,
               cmd'.restart = cmd.restart, cmd'.downs = cmd.downs, cmd'.targets = cmd.targets,
               ~early /\ ~cmd'.failed =>
                 ~cmd.failed /\ \A t \in cmd.targets \ cmd'.todo :
                   up'[t][cmd.downs] = None \/ (t \notin cmd.todo /\ up'[t][cmd.downs] = up[t][cmd.downs])
        PROVE  DownInv'
    BY <2>a DEF DownInv
  <2>1. ASSUME NEW restart \in BOOLEAN, NEW names \in Selections, Apply(restart, names) PROVE FALSE
    BY <2>1 DEF Apply, RunOnEach
  <2>2. ASSUME NEW m \in Models, NEW restart \in BOOLEAN, NEW downs \in Models \cup {None},
               NEW targets \in SUBSET Names, Scales(m, restart, downs, targets)
        PROVE  DownInv'
    <3>1. /\ cmd'.restart = restart /\ cmd'.downs = downs
          /\ cmd'.targets = targets /\ cmd'.todo = targets
      BY <2>2 DEF Scales, Scale, RunOnEach
    <3>2. restart /\ downs = m /\ RunHosts(yaml', m) \cap targets = {} /\ yaml' \in Configs
      BY <2>2, <3>1 DEF Scales
    <3>3. \A t \in targets : SelectActive(yaml', t) # m
      BY <3>2, ActiveType, NamesAssumption
    <3> QED BY <3>1, <3>2, <3>3 DEF DownInv
  <2>3. ASSUME NEW h \in Hosts, OnHost(h) PROVE DownInv'
    <3>1. /\ cmd \in Cmds /\ cmd # None /\ h \in cmd.todo
          /\ cmd.targets \subseteq Hosts /\ UNCHANGED <<yaml, early>>
      <4>1. \E step : At(h, step)
        BY <2>3 DEF OnHost, Plan, StopStale, ServeGateway, RestartFails, EnsureModel, Record
      <4>2. cmd \in Cmds /\ cmd # None /\ h \in cmd.todo
        BY <4>1, AtOne DEF At
      <4> QED BY <2>3, <4>2 DEF Cmds, OnHost, Plan, StopStale, ServeGateway, RestartFails, EnsureModel, Record
    <3>2. CASE Plan(h) \/ ServeGateway(h) \/ RestartFails(h)
      <4>1. /\ cmd'.todo = cmd.todo /\ cmd'.restart = cmd.restart /\ cmd'.failed = cmd.failed
            /\ cmd'.downs = cmd.downs /\ cmd'.targets = cmd.targets /\ up' = up
        BY <3>2, GotoType DEF Plan, ServeGateway, RestartFails, hosts, Steps
      <4> QED BY <2>a, <3>1, <4>1
    <3>3. CASE StopStale(h) \/ EnsureModel(h)
      <4>1. /\ cmd'.todo = cmd.todo /\ cmd'.restart = cmd.restart /\ cmd'.failed = cmd.failed
            /\ cmd'.downs = cmd.downs /\ cmd'.targets = cmd.targets
        BY <3>3, GotoType DEF StopStale, EnsureModel, Steps
      <4>2. \A t \in Hosts \ {h} : up'[t] = up[t]
        BY <3>3 DEF StopStale, EnsureModel, TypeOK
      <4> QED BY <2>a, <3>1, <4>1, <4>2
    <3>4. CASE Record(h)
      <4>1. /\ cmd'.todo = cmd.todo \ {h} /\ cmd'.failed = cmd.failed /\ cmd'.restart = cmd.restart
            /\ cmd'.downs = cmd.downs /\ cmd'.targets = cmd.targets /\ up' = up
        <5>1. cmd'.failed = (cmd.failed \/ FALSE) /\ cmd.failed \in BOOLEAN
          BY <3>1, <3>4, ReturnType DEF Record, Cmds
        <5> QED BY <3>4, <5>1, ReturnType DEF Record
      <4>2. ~early /\ h \in cmd.targets => up[h][cmd.downs] = None
        BY <3>4, <4>1, DownOnHost
      <4> QED BY <2>a, <3>1, <4>1, <4>2
    <3> QED BY <2>3, <3>2, <3>3, <3>4 DEF OnHost
  <2>4. ASSUME NEW h \in Hosts, Leaves(h) PROVE DownInv'
    <3>1. PICK step \in Steps : At(h, step) /\ Return(h, TRUE)
      BY <2>4 DEF Leaves, HostFails, Raises, Steps
    <3>2. cmd \in Cmds /\ cmd # None
      BY <3>1, AtOne DEF At
    <3>3. /\ cmd'.failed = (cmd.failed \/ TRUE) /\ cmd'.restart = cmd.restart
          /\ cmd'.downs = cmd.downs /\ cmd'.targets = cmd.targets
      BY <3>1, ReturnType
    <3> QED BY <2>a, <2>4, <3>2, <3>3, LeavesType
  <2>5. CASE UNCHANGED vars
    BY <2>5 DEF vars, hosts, DownInv
  <2> QED BY <2>1, <2>2, <2>3, <2>4, <2>5, Kinds
<1> QED BY <1>1, <1>2, TypeCorrect, ServesHolds, PTL DEF Spec

\* model.py:10-12, for every cluster: as long as no configuration is changed under a host
\* that has not settled, a model down that succeeds has taken the model down on every
\* target, whatever sequence of commands, failed and repeated ones, came before.
THEOREM DownIsDown == Spec => SettledDownStops
<1>1. ASSUME TypeOK, ServesInv, DownInv, NEW h \in Hosts, Record(h), cmd.downs # None,
             cmd.todo = {h}, ~cmd.failed, ~early, NEW t \in cmd.targets
      PROVE  up[t][cmd.downs] = None
  <2>1. cmd # None
    BY <1>1 DEF Record, At
  <2>2. CASE t = h
    BY <1>1, <2>2, DownOnHost
  <2>3. CASE t # h
    BY <1>1, <2>1, <2>3 DEF DownInv
  <2> QED BY <2>2, <2>3
<1>2. TypeOK /\ ServesInv /\ DownInv /\ [Next]_vars =>
        [\A h \in Hosts :
           Record(h) /\ cmd.downs # None /\ cmd.todo = {h} /\ ~cmd.failed /\ ~early
             => \A t \in cmd.targets : up[t][cmd.downs] = None]_vars
  BY <1>1
<1> QED BY <1>2, TypeCorrect, ServesHolds, DownHolds, PTL DEF Spec, SettledDownStops

-----------------------------------------------------------------------------
(* Every host is a Node *)

\* What a converge that may stop workloads had to stop is down.
StaleDown(h) ==
  Working(h, {"serve", "ensure", "record"}) /\ cmd.restart => \A m \in Stale(h) : up[h][m] = None

NodesInv == \A h \in Hosts : StaleDown(h)

LEMMA JobIs ==
  ASSUME TypeOK, NEW h \in Hosts, NEW step \in Steps \ {"plan"}, At(h, step)
  PROVE  /\ Job(h) \in N(h)!Jobs /\ Job(h) # None
         /\ Job(h).wanted = SelectActive(yaml, h)
         /\ SelectActive(yaml, h) # None => Job(h).content = Layout(yaml, h)
         /\ Job(h).launch = MayLaunch(yaml, h)
         /\ Job(h).restart = cmd.restart /\ Job(h).pending = Pending(h)
         /\ N(h)!Managed(Job(h)) = Managed(yaml, h) /\ N(h)!Confirmed(Job(h)) = Wanted(yaml, h)
<1> DEFINE s == SelectActive(yaml, h)
           content == IF s = None THEN None ELSE Layout(yaml, h)
<1>1. Job(h) = [wanted |-> s, content |-> content, hash |-> content, launch |-> MayLaunch(yaml, h),
                restart |-> cmd.restart, pending |-> Pending(h)]
  BY DEF Job
<1>2. /\ s \in Models \cup {None} /\ content \in Layouts \cup {None}
      /\ MayLaunch(yaml, h) \in BOOLEAN /\ Pending(h) \in BOOLEAN /\ cmd.restart \in BOOLEAN
  <2>1. s \in Models \cup {None} /\ (s # None => Layout(yaml, h) \in Layouts)
    BY ActiveType, LayoutType DEF TypeOK
  <2>2. cmd.restart \in BOOLEAN
    BY AtOne DEF Cmds
  <2> QED BY <2>1, <2>2 DEF MayLaunch, Pending, LaunchesModel
<1>3. Job(h) \in N(h)!Jobs
  BY <1>1, <1>2 DEF N!Jobs
<1>4. N(h)!Managed(Job(h)) = Managed(yaml, h)
  BY <1>1 DEF N!Managed, Managed
<1>5. N(h)!Confirmed(Job(h)) = Wanted(yaml, h)
  BY <1>1 DEF N!Confirmed, Wanted
<1> QED BY <1>1, <1>3, <1>4, <1>5, JobAssumption

LEMMA NoJob ==
  ASSUME NEW h, \A step : At(h, step) => step = "plan"
  PROVE  Job(h) = None
BY DEF Job, Steps

LEMMA NoJobNext ==
  ASSUME NEW h, \A step : (At(h, step))' => step = "plan"
  PROVE  Job(h)' = None
BY DEF Job, Steps

JobsTyped == \A h \in Hosts : \A step \in Steps \ {"plan"} : At(h, step) => Job(h) \in N(h)!Jobs

LEMMA JobType == TypeOK => JobsTyped
BY JobIs DEF JobsTyped

\* A job that goes on is the same job.
LEMMA JobGoesOn ==
  ASSUME TypeOK, NEW h \in Hosts, NEW before \in Steps \ {"plan"}, At(h, before),
         NEW step \in Steps \ {"plan"}, Goto(step), UNCHANGED <<yaml, ledger>>
  PROVE  Job(h)' = Job(h) /\ Stale(h)' = Stale(h)
<1>1. (\E s \in Steps \ {"plan"} : At(h, s)) /\ (\E s \in Steps \ {"plan"} : At(h, s))'
  BY GotoType
<1>2. cmd'.restart = cmd.restart
  BY GotoType
<1>3. (Pending(h)' <=> Pending(h)) /\ Stale(h)' = Stale(h)
  BY <1>2 DEF Pending, Stale, MayLaunch, RestartCurrent
<1>4. Pending(h)' = Pending(h)
  BY <1>3 DEF Pending
<1>5. Job(h) = [wanted  |-> SelectActive(yaml, h),
                content |-> IF SelectActive(yaml, h) = None THEN None ELSE Layout(yaml, h),
                hash    |-> IF SelectActive(yaml, h) = None THEN None ELSE Layout(yaml, h),
                launch |-> MayLaunch(yaml, h), restart |-> cmd.restart, pending |-> Pending(h)]
  BY <1>1 DEF Job
<1>6. Job(h)' = [wanted  |-> SelectActive(yaml, h),
                 content |-> IF SelectActive(yaml, h) = None THEN None ELSE Layout(yaml, h),
                 hash    |-> IF SelectActive(yaml, h) = None THEN None ELSE Layout(yaml, h),
                 launch |-> MayLaunch(yaml, h), restart |-> cmd'.restart, pending |-> Pending(h)']
  BY <1>1 DEF Job
<1> QED BY <1>2, <1>3, <1>4, <1>5, <1>6

\* A host that is not touched and has no job before or after.
LEMMA Idles ==
  ASSUME NEW h, up'[h] = up[h], ledger'[h] = ledger[h], Job(h) = None, Job(h)' = None
  PROVE  UNCHANGED N(h)!vars
BY DEF N!vars, NodeLedger

LEMMA StopIsStop ==
  ASSUME TypeOK, NEW h \in Hosts, StopStale(h)
  PROVE  [N(h)!Next]_(N(h)!vars) /\ StaleDown(h)'
<1> DEFINE stops == Stale(h) \cup IF RestartCurrent(h) THEN Managed(yaml, h) ELSE {}
<1>1. /\ At(h, "stop") /\ UNCHANGED <<yaml, ledger>> /\ cmd'.restart = cmd.restart
      /\ up'[h] = [m \in Models |-> IF cmd.restart /\ m \in stops THEN None ELSE up[h][m]]
      /\ Stale(h) \subseteq stops
  BY GotoType DEF StopStale, Steps, TypeOK
<1>2. Job(h)' = Job(h) /\ Stale(h)' = Stale(h) /\ NodeLedger(h)' = NodeLedger(h)
  BY <1>1, JobGoesOn DEF StopStale, Steps, NodeLedger
<1>3. stops \subseteq Models /\ stops \subseteq N(h)!Accounted(NodeLedger(h))
  <2>1. N(h)!Accounted(NodeLedger(h)) =
          ledger[h].recipes \cup {m \in Models : ledger[h].model # None /\ ledger[h].model.name = m}
    BY DEF N!Accounted, NodeLedger
  <2>2. ledger[h].recipes \subseteq Models
    BY DEF TypeOK, Ledgers
  <2>3. RestartCurrent(h) => Managed(yaml, h) \subseteq N(h)!Accounted(NodeLedger(h))
    BY <2>1, ActiveType DEF TypeOK, RestartCurrent, Managed
  <2> QED BY <2>1, <2>2, <2>3 DEF Stale
<1>4. StaleDown(h)'
  BY <1>1, <1>2, <1>3 DEF StaleDown
<1>5. stops # {} => MayLaunch(yaml, h)
  BY DEF Stale, RestartCurrent, MayLaunch
<1> HIDE DEF stops
<1>6. CASE cmd.restart /\ stops # {}
  <2>1. Job(h) # None /\ Job(h).launch /\ Job(h).restart
    BY <1>1, <1>5, <1>6, JobIs DEF Steps
  <2>2. N(h)!TakeDown(stops)
    BY <1>1, <1>6 DEF N!TakeDown
  <2>3. N(h)!Stop
    BY <1>2, <1>3, <2>1, <2>2 DEF N!Stop
  <2> QED BY <1>4, <2>3 DEF N!Next
<1>7. CASE ~(cmd.restart /\ stops # {})
  <2>1. up'[h] = up[h]
    BY <1>1, <1>7 DEF TypeOK
  <2> QED BY <1>2, <1>4, <2>1 DEF N!vars
<1> QED BY <1>6, <1>7

LEMMA EnsureIsLaunch ==
  ASSUME TypeOK, NEW h \in Hosts, EnsureModel(h), StaleDown(h)
  PROVE  [N(h)!Next]_(N(h)!vars) /\ StaleDown(h)'
<1> DEFINE s == SelectActive(yaml, h)
<1>1. /\ At(h, "ensure") /\ UNCHANGED <<yaml, ledger>> /\ cmd'.restart = cmd.restart
  BY GotoType DEF EnsureModel, Steps
<1>2. Job(h)' = Job(h) /\ Stale(h)' = Stale(h) /\ NodeLedger(h)' = NodeLedger(h)
  BY <1>1, JobGoesOn DEF EnsureModel, Steps, NodeLedger
<1>3. LaunchesModel(yaml, h) => s # None /\ s \in Models /\ s \notin Stale(h) /\ MayLaunch(yaml, h)
  BY ActiveType DEF TypeOK, LaunchesModel, MayLaunch, Stale, Managed
<1>4. cmd.restart => \A m \in Stale(h) : up[h][m] = None
  BY <1>1 DEF StaleDown, Working
<1>5. CASE LaunchesModel(yaml, h) /\ up[h][s] = None
  <2>1. up'[h] = [up[h] EXCEPT ![s] = Layout(yaml, h)]
    BY <1>5 DEF EnsureModel, TypeOK
  <2>2. StaleDown(h)'
    BY <1>1, <1>2, <1>3, <1>4, <1>5, <2>1 DEF StaleDown, TypeOK
  <2>3. Job(h) # None /\ Job(h).launch /\ Job(h).wanted = s /\ Job(h).content = Layout(yaml, h)
    BY <1>1, <1>3, <1>5, JobIs DEF Steps
  <2>4. N(h)!Launch
    BY <1>2, <1>3, <1>5, <2>1, <2>3 DEF N!Launch
  <2> QED BY <2>2, <2>4 DEF N!Next
<1>6. CASE ~(LaunchesModel(yaml, h) /\ up[h][s] = None)
  <2>1. up' = up
    BY <1>6 DEF EnsureModel
  <2> QED BY <1>1, <1>2, <1>4, <2>1 DEF StaleDown, N!vars
<1> QED BY <1>5, <1>6

LEMMA RecordEnds ==
  ASSUME TypeOK, NEW h \in Hosts, Record(h), StaleDown(h)
  PROVE  [N(h)!Next]_(N(h)!vars)
<1>1. /\ At(h, "record") /\ UNCHANGED <<yaml, up>>
      /\ ledger'[h].recipes = Managed(yaml, h)
      /\ ledger'[h].model = IF Converged(h) THEN Wanted(yaml, h) ELSE ledger[h].model
  BY DEF Record, TypeOK
<1>2. Job(h)' = None
  BY ReturnType, NoJobNext DEF Record
<1>3. /\ Job(h) # None /\ Job(h).wanted = SelectActive(yaml, h)
      /\ Job(h).launch = MayLaunch(yaml, h) /\ Job(h).restart = cmd.restart /\ Job(h).pending = Pending(h)
      /\ N(h)!Managed(Job(h)) = Managed(yaml, h) /\ N(h)!Confirmed(Job(h)) = Wanted(yaml, h)
  BY <1>1, JobIs DEF Steps
<1>4. NodeLedger(h)' = [recipes |-> Managed(yaml, h),
                        model |-> IF Converged(h) THEN Wanted(yaml, h) ELSE ledger[h].model]
  BY <1>1 DEF NodeLedger
<1>5. CASE ~Converged(h)
  <2>1. Job(h).pending \/ (Job(h).wanted = None /\ ~Job(h).restart)
    BY <1>3, <1>5 DEF Converged
  <2>2. N(h)!Postpone
    BY <1>1, <1>2, <1>3, <1>4, <1>5, <2>1 DEF N!Postpone, N!End, NodeLedger
  <2> QED BY <2>2 DEF N!Next
<1>6. CASE Converged(h) /\ ~MayLaunch(yaml, h)
  <2>1. N(h)!Trust
    BY <1>1, <1>2, <1>3, <1>4, <1>6 DEF N!Trust, N!End, MayLaunch
  <2> QED BY <2>1 DEF N!Next
<1>7. CASE Converged(h) /\ MayLaunch(yaml, h)
  <2>1. ~Pending(h)
    BY <1>7 DEF Converged, Pending
  <2>2. N(h)!Accounted(NodeLedger(h)) \ Managed(yaml, h) = Stale(h)
    BY <1>7 DEF N!Accounted, NodeLedger, Stale
  <2>3. \A m \in Stale(h) : up[h][m] = None
    <3>1. CASE cmd.restart
      BY <1>1, <3>1 DEF StaleDown, Working
    <3>2. CASE ~cmd.restart
      BY <2>1, <3>2 DEF Pending
    <3> QED BY <3>1, <3>2
  <2>4. N(h)!Finish
    BY <1>1, <1>2, <1>3, <1>4, <1>7, <2>1, <2>2, <2>3 DEF N!Finish, N!End
  <2> QED BY <2>4 DEF N!Next
<1> QED BY <1>5, <1>6, <1>7

\* Nothing happens on any host but that a job may end, with nothing recorded.
LEMMA JobsEnd ==
  ASSUME TypeOK, UNCHANGED hosts, \A h, s : (At(h, s))' => s = "plan"
  PROVE  \A h \in Hosts : [N(h)!Next]_(N(h)!vars) /\ StaleDown(h)'
<1> SUFFICES ASSUME NEW h \in Hosts PROVE [N(h)!Next]_(N(h)!vars) /\ StaleDown(h)'
  OBVIOUS
<1>1. Job(h)' = None /\ NodeLedger(h)' = NodeLedger(h) /\ up'[h] = up[h]
  BY NoJobNext DEF hosts, NodeLedger
<1>2. StaleDown(h)'
  BY DEF StaleDown, Working
<1>3. CASE Job(h) = None
  BY <1>1, <1>2, <1>3 DEF N!vars
<1>4. CASE Job(h) # None
  BY <1>1, <1>2, <1>4 DEF N!Next, N!Abandon, N!End
<1> QED BY <1>3, <1>4

LEMMA NodesOnHost ==
  ASSUME TypeOK, TypeOK', NodesInv, NEW h \in Hosts, OnHost(h)
  PROVE  \A g \in Hosts : [N(g)!Next]_(N(g)!vars) /\ StaleDown(g)'
<1>1. \A g \in Hosts \ {h} : /\ up'[g] = up[g] /\ ledger'[g] = ledger[g]
                             /\ \A s : ~At(g, s)
                             /\ \A s : (At(g, s))' => s = "plan"
  <2>1. \A g \in Hosts \ {h} : up'[g] = up[g] /\ ledger'[g] = ledger[g]
    BY DEF OnHost, Plan, StopStale, ServeGateway, RestartFails, EnsureModel, Record, hosts, TypeOK
  <2>2. \E step : At(h, step)
    BY DEF OnHost, Plan, StopStale, ServeGateway, RestartFails, EnsureModel, Record
  <2>3. \A g \in Hosts \ {h} : \A s : (At(g, s))' => s = "plan"
    BY GotoType, ReturnType DEF OnHost, Plan, StopStale, ServeGateway, RestartFails, EnsureModel, Record, Steps
  <2> QED BY <2>1, <2>2, <2>3, AtOne
<1>2. ASSUME NEW g \in Hosts \ {h} PROVE [N(g)!Next]_(N(g)!vars) /\ StaleDown(g)'
  <2>1. Job(g) = None /\ Job(g)' = None
    BY <1>1, NoJob, NoJobNext
  <2>2. StaleDown(g)'
    BY <1>1 DEF StaleDown, Working
  <2> QED BY <1>1, <2>1, <2>2, Idles
<1>3. CASE Plan(h)
  <2>1. /\ UNCHANGED <<yaml, ledger, up>> /\ At(h, "plan")
        /\ \A s : (At(h, s))' <=> s = "stop"
    BY <1>3, GotoType DEF Plan, hosts, Steps
  <2>2. Job(h) = None
    BY <2>1, AtOne, NoJob
  <2>3. Job(h)' \in N(h)!Jobs
    <3>1. (TypeOK => JobsTyped)'
      BY JobType, PTL
    <3> QED BY <2>1, <3>1 DEF JobsTyped, Steps
  <2>4. N(h)!Begin /\ StaleDown(h)'
    BY <2>1, <2>2, <2>3 DEF N!Begin, NodeLedger, StaleDown, Working
  <2> QED BY <1>2, <2>4 DEF N!Next
<1>4. CASE ServeGateway(h) \/ RestartFails(h)
  <2>1. /\ UNCHANGED <<yaml, ledger, up>> /\ At(h, "serve") /\ cmd'.restart = cmd.restart
    BY <1>4, GotoType DEF ServeGateway, RestartFails, Steps
  <2>2. Job(h)' = Job(h) /\ Stale(h)' = Stale(h)
    BY <1>4, <2>1, JobGoesOn DEF ServeGateway, RestartFails, Steps
  <2>3. StaleDown(h)' /\ UNCHANGED N(h)!vars
    BY <2>1, <2>2 DEF NodesInv, StaleDown, Working, N!vars, NodeLedger
  <2> QED BY <1>2, <2>3
<1>5. CASE Record(h)
  <2>1. StaleDown(h)'
    BY <1>5, ReturnType DEF Record, StaleDown, Working
  <2> QED BY <1>2, <1>5, <2>1, RecordEnds DEF NodesInv
<1> QED BY <1>2, <1>3, <1>4, <1>5, StopIsStop, EnsureIsLaunch DEF OnHost, NodesInv

LEMMA NodesStep ==
  TypeOK /\ TypeOK' /\ NodesInv /\ [Next]_vars
    => NodesInv' /\ \A h \in Hosts : [N(h)!Next]_(N(h)!vars)
<1> SUFFICES ASSUME TypeOK, TypeOK', NodesInv, [Next]_vars
             PROVE  \A h \in Hosts : [N(h)!Next]_(N(h)!vars) /\ StaleDown(h)'
  BY DEF NodesInv
<1>1. ASSUME NEW restart \in BOOLEAN, NEW names \in Selections, Apply(restart, names)
      PROVE  \A h \in Hosts : [N(h)!Next]_(N(h)!vars) /\ StaleDown(h)'
  <2>1. UNCHANGED hosts /\ \A h, s : (At(h, s))' => s = "plan"
    BY <1>1 DEF Apply, RunOnEach, At
  <2> QED BY <2>1, JobsEnd
<1>2. ASSUME NEW m, NEW restart, NEW downs, NEW targets, Scales(m, restart, downs, targets)
      PROVE  \A h \in Hosts : [N(h)!Next]_(N(h)!vars) /\ StaleDown(h)'
  <2>1. UNCHANGED hosts /\ \A h, s : (At(h, s))' => s = "plan"
    BY <1>2 DEF Scales, Scale, RunOnEach, At
  <2> QED BY <2>1, JobsEnd
<1>3. ASSUME NEW k \in Hosts, Leaves(k)
      PROVE  \A h \in Hosts : [N(h)!Next]_(N(h)!vars) /\ StaleDown(h)'
  <2>1. UNCHANGED hosts /\ \A h, s : (At(h, s))' => s = "plan"
    BY <1>3, LeavesType
  <2> QED BY <2>1, JobsEnd
<1>4. ASSUME UNCHANGED vars, NEW h \in Hosts
      PROVE  [N(h)!Next]_(N(h)!vars) /\ StaleDown(h)'
  <2>1. /\ UNCHANGED <<yaml, ledger, up, cmd>>
        /\ \A s : (At(h, s))' <=> At(h, s)
    BY <1>4 DEF vars, hosts, At
  <2>2. Stale(h)' = Stale(h) /\ NodeLedger(h)' = NodeLedger(h) /\ Job(h)' = Job(h)
    BY <2>1 DEF Stale, NodeLedger, Job, MayLaunch, Pending, RestartCurrent
  <2> QED BY <2>1, <2>2 DEF NodesInv, StaleDown, Working, N!vars
<1> QED BY <1>1, <1>2, <1>3, <1>4, NodesOnHost, Kinds

\* converge.py:7-14, model.py:7, for every cluster: each host's workloads and ledger
\* change only as Node allows, whichever command runs and whichever host it fails on.
THEOREM ClusterIsNodes == Spec => ImplementsNodes
<1>1. Init => NodesInv /\ \A h \in Hosts : N(h)!Init
  <2> SUFFICES ASSUME Init, NEW h \in Hosts PROVE StaleDown(h) /\ N(h)!Init
    BY DEF NodesInv
  <2>1. \A s : ~At(h, s)
    BY DEF Init, At
  <2>2. Job(h) = None /\ StaleDown(h)
    BY <2>1, NoJob DEF StaleDown, Working
  <2>3. NodeLedger(h) = N(h)!NoLedger /\ up[h] = [m \in Models |-> None]
    BY DEF Init, NodeLedger, NoLedger, N!NoLedger
  <2> QED BY <2>2, <2>3 DEF N!Init
<1>2. Spec => [](TypeOK /\ NodesInv)
  BY <1>1, NodesStep, TypeCorrect, PTL DEF Spec
<1>3. TypeOK /\ TypeOK' /\ NodesInv /\ [Next]_vars => [\A h \in Hosts : [N(h)!Next]_(N(h)!vars)]_vars
  BY NodesStep
<1> QED BY <1>1, <1>2, <1>3, TypeCorrect, PTL DEF Spec, ImplementsNodes
=============================================================================
