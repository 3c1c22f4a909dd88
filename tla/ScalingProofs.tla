---------------------------- MODULE ScalingProofs ----------------------------
(***************************************************************************)
(* What holds of config.yaml for every cluster and every set of models,    *)
(* after any sequence of `model up`, `model down` and repairs.             *)
(***************************************************************************)
EXTENDS Scaling, ClusterConfigProofs

-----------------------------------------------------------------------------
(* config.yaml *)

\* model.py:95-99, 152-160: both commands write a configuration of the same shape:
\* in particular every hosts: list they leave has an order, and so a head.
THEOREM TypeCorrect == Spec => []TypeOK
<1>1. Init => TypeOK
  BY InitialAssumption DEF Init, TypeOK
<1>2. TypeOK /\ [Next]_yaml => TypeOK'
  <2> SUFFICES ASSUME TypeOK, [Next]_yaml PROVE TypeOK'
    OBVIOUS
  <2>1. ASSUME NEW m \in Models, NEW names \in SUBSET Names, ModelUp(m, names) PROVE TypeOK'
    BY <2>1, ScaledUpType DEF ModelUp, TypeOK
  <2>2. ASSUME NEW m \in Models, NEW names \in SUBSET Names, ModelDown(m, names) PROVE TypeOK'
    BY <2>2, ScaledDownType DEF ModelDown, TypeOK
  <2>3. CASE Repair
    BY <2>3, InitialAssumption DEF Repair, TypeOK
  <2>4. CASE UNCHANGED yaml
    BY <2>4 DEF TypeOK
  <2> QED BY <2>1, <2>2, <2>3, <2>4 DEF Next
<1> QED BY <1>1, <1>2, PTL DEF Spec

-----------------------------------------------------------------------------
(* Routes *)

\* config.py:344-351, recipes.py:222-224: for every cluster, whatever model up and
\* model down made of config.yaml: when it is usable, each entry of each gateway
\* leads to the one host that launches the model and is pinned as its rank 0.
THEOREM Routing == Spec => []RoutesLeadToLaunchers
<1>1. TypeOK => RoutesLeadToLaunchers
  <2> SUFFICES ASSUME TypeOK, Usable(yaml), NEW g \in Gateways, NEW m \in Models \ Explicit,
                      NEW h, h = Routes(yaml, g)[m], h # None
               PROVE /\ SelectActive(yaml, h) = m
                     /\ LaunchesModel(yaml, h)
                     /\ \A k \in RunHosts(yaml, m) :
                          /\ Spans(m) => (LaunchesModel(yaml, k) <=> k = h)
                          /\ Spans(m) /\ ~LayoutRaises(yaml, k) => {r \in Layout(yaml, k) : r[2] = 0} = {<<h, 0>>}
    BY DEF RoutesLeadToLaunchers
  <2>1. yaml \in Configs /\ ~ActiveHostConflicts(yaml)
    BY DEF TypeOK, Usable, Loads
  <2>2. m \in Entries(yaml) \ Explicit
    BY DEF Routes
  <2>3. /\ h \in RunHosts(yaml, m) /\ (Spans(m) => h = HeadHost(yaml, m))
        /\ \A k \in RunHosts(yaml, m) : SelectActive(yaml, k) = m
        /\ \A k \in RunHosts(yaml, m) : LaunchesModel(yaml, k) <=> (Spans(m) => k = HeadHost(yaml, m))
    BY <2>1, <2>2, RoutedHost
  <2>4. RunHosts(yaml, m) \subseteq Hosts
    BY <2>1, HostListType, ListParts DEF RunHosts
  <2>5. ASSUME NEW k \in RunHosts(yaml, m), Spans(m)
        PROVE {r \in Layout(yaml, k) : r[2] = 0} = {<<h, 0>>}
    BY <2>1, <2>3, <2>4, <2>5, PinnedHead
  <2> QED BY <2>3, <2>5
<1> QED BY <1>1, TypeCorrect, PTL

-----------------------------------------------------------------------------
(* Two models on one host *)

\* model.py:21: neither command brings two models in use together on a host, in any
\* cluster and after any sequence of commands, unless one of them listed that host
\* while it was not in use.
THEOREM ClashIsParked == Spec => OnlyParkedHostsClash
<1> DEFINE Harmless ==
      \A m, o \in Models, h \in Hosts :
        Clash(yaml', m, o, h) /\ ~Clash(yaml, m, o, h) => h \in Parked(yaml, m) \cup Parked(yaml, o)
<1>1. ASSUME TypeOK, NEW k \in Models, NEW names \in SUBSET Names, ModelUp(k, names) PROVE Harmless
  <2> DEFINE targets == UpTargets(yaml, k, names)
  <2>1. yaml \in Configs /\ yaml' = ScaledUp(yaml, k, targets)
    BY <1>1 DEF TypeOK, ModelUp
  <2>2. \A o \in Models \ {k} : Active(yaml, o) => RunHosts(yaml, o) \cap targets = {}
    BY <1>1 DEF ModelUp, MayScaleUp, CheckConflict
  <2> HIDE DEF targets
  <2>3. CASE targets \ RunHosts(yaml, k) = {}
    <3>1. yaml' = yaml
      BY <2>1, <2>3 DEF ScaledUp
    <3> QED BY <3>1
  <2>4. CASE targets \ RunHosts(yaml, k) # {}
    <3>1. /\ ScalesOnly(yaml, yaml', k)
          /\ RunHosts(yaml', k) = RunHosts(yaml, k) \cup (targets \cap Hosts)
      BY <2>1, <2>4, UpWrites
    <3> QED BY <2>2, <3>1, OthersStay DEF Clash, Parked
  <2> QED BY <2>3, <2>4
<1>2. ASSUME TypeOK, NEW k \in Models, NEW names \in SUBSET Names, ModelDown(k, names) PROVE Harmless
  <2> DEFINE targets == DownTargets(yaml, k, names)
  <2>1. yaml \in Configs /\ yaml' = ScaledDown(yaml, k, targets)
    BY <1>2 DEF TypeOK, ModelDown
  <2> HIDE DEF targets
  <2>2. /\ ScalesOnly(yaml, yaml', k)
        /\ RunHosts(yaml', k) = RunHosts(yaml, k) \ targets
        /\ Active(yaml', k) => Active(yaml, k)
    BY <2>1, DownWrites
  <2> QED BY <2>2, OthersStay DEF Clash
<1>3. ASSUME Repair PROVE Harmless
  <2>1. ~ActiveHostConflicts(yaml')
    BY <1>3, InitialAssumption DEF Repair, Usable, Loads
  <2> QED BY <2>1 DEF Clash, ActiveHostConflicts
<1>4. TypeOK /\ [Next]_yaml =>
        [\A m, o \in Models, h \in Hosts :
           Clash(yaml', m, o, h) /\ ~Clash(yaml, m, o, h) => h \in Parked(yaml, m) \cup Parked(yaml, o)]_yaml
  BY <1>1, <1>2, <1>3 DEF Next
<1> HIDE DEF Harmless
<1> QED BY <1>4, TypeCorrect, PTL DEF Spec, OnlyParkedHostsClash

-----------------------------------------------------------------------------
(* Scaling is exact *)

LEMMA UpIsExact ==
  ASSUME NEW c \in Configs, Loads(c), NEW m \in Models, NEW targets
  PROVE  UpMoves(c, m, targets)
<1> DEFINE d == ScaledUp(c, m, targets)
<1> SUFFICES ASSUME MayScaleUp(c, m, targets), Loads(d), NEW h \in Hosts
             PROVE  IF h \in Parked(c, m)
                    THEN SelectActive(d, h) = IF targets \subseteq Parked(c, m) THEN SelectActive(c, h) ELSE m
                    ELSE IF h \in targets THEN SelectActive(d, h) = m
                    ELSE SelectActive(d, h) = SelectActive(c, h) /\ (LaunchesModel(d, h) <=> LaunchesModel(c, h))
  BY DEF UpMoves
<1>1. ~ActiveHostConflicts(c) /\ ~ActiveHostConflicts(d)
  BY DEF Loads
<1>2. CASE targets \ RunHosts(c, m) = {}
  <2>1. d = c
    BY <1>2 DEF ScaledUp
  <2>2. h \in targets \ Parked(c, m) => SelectActive(c, h) = m
    BY <1>1, <1>2, OnlyModel DEF Parked
  <2>3. h \in Parked(c, m) => targets \subseteq Parked(c, m)
    BY <1>2 DEF Parked
  <2> HIDE DEF d
  <2> QED BY <2>1, <2>2, <2>3
<1>3. CASE targets \ RunHosts(c, m) # {}
  <2>1. /\ d \in Configs /\ ScalesOnly(c, d, m) /\ Active(d, m)
        /\ RunHosts(d, m) = RunHosts(c, m) \cup (targets \cap Hosts)
    BY <1>3, UpWrites
  <2> HIDE DEF d
  <2>2. h \in RunHosts(d, m) => SelectActive(d, h) = m
    BY <1>1, <2>1, OnlyModel
  <2>3. ~(targets \subseteq Parked(c, m)) /\ Parked(c, m) \subseteq RunHosts(d, m)
    BY <1>3, <2>1 DEF Parked
  <2>4. CASE h \in RunHosts(c, m) \ Parked(c, m)
    <3>1. SelectActive(c, h) = m /\ SelectActive(d, h) = m
      BY <1>1, <2>1, <2>2, <2>4, OnlyModel DEF Parked
    <3>2. HeadHost(c, m) \in RunHosts(c, m)
      BY <2>4, HostListType, FirstIsFirst DEF HeadHost, RunHosts
    <3>3. HeadHost(d, m) = HeadHost(c, m)
      BY <2>1, <3>2 DEF ScalesOnly
    <3> QED BY <2>4, <3>1, <3>3 DEF LaunchesModel
  <2>5. CASE h \notin RunHosts(c, m) /\ h \notin targets
    <3>1. h \notin Parked(c, m)
      BY <2>5 DEF Parked
    <3>2. SelectActive(d, h) = SelectActive(c, h) /\ (LaunchesModel(d, h) <=> LaunchesModel(c, h))
      BY <2>1, <2>5, SameElsewhere
    <3> QED BY <2>5, <3>1, <3>2
  <2>6. CASE h \in Parked(c, m) \/ h \in targets
    BY <2>1, <2>2, <2>3, <2>6
  <2> QED BY <2>4, <2>5, <2>6
<1> QED BY <1>2, <1>3

LEMMA DownIsExact ==
  ASSUME NEW c \in Configs, Loads(c), NEW m \in Models, NEW targets
  PROVE  DownMoves(c, m, targets)
<1> DEFINE d == ScaledDown(c, m, targets)
           NewHead(h) == /\ Active(c, m) /\ Spans(m) /\ HeadHost(c, m) \in targets
                         /\ h \in RunHosts(d, m) /\ h = HeadHost(d, m)
<1> SUFFICES ASSUME MayScaleDown(c, m, targets), NEW h \in Hosts
             PROVE  IF h \in targets /\ Active(c, m) THEN SelectActive(d, h) = None
                    ELSE /\ SelectActive(d, h) = SelectActive(c, h)
                         /\ LaunchesModel(d, h) <=> LaunchesModel(c, h) \/ NewHead(h)
  BY DEF DownMoves
<1>1. targets \subseteq RunHosts(c, m) /\ ~ActiveHostConflicts(c)
  BY DEF MayScaleDown, Loads
<1>2. /\ d \in Configs /\ ScalesOnly(c, d, m)
      /\ RunHosts(d, m) = RunHosts(c, m) \ targets
      /\ Active(d, m) <=> Active(c, m) /\ RunHosts(d, m) # {}
  BY DownWrites
<1> HIDE DEF d
<1>3. ~ActiveHostConflicts(d)
  BY <1>1, <1>2, OthersStay DEF ActiveHostConflicts
<1>4. CASE h \in targets /\ Active(c, m)
  <2>1. \A o \in Models \ {m} : ~(Active(c, o) /\ h \in RunHosts(c, o))
    BY <1>1, <1>4 DEF ActiveHostConflicts
  <2>2. Serving(d, h) = {}
    BY <1>2, <1>4, <2>1, OthersStay DEF Serving
  <2> QED BY <1>4, <2>2 DEF SelectActive
<1>5. CASE ~Active(c, m)
  <2>1. Serving(d, h) = Serving(c, h) /\ m \notin Serving(c, h)
    BY <1>2, <1>5, OthersStay DEF Serving
  <2>2. SelectActive(d, h) = SelectActive(c, h)
    BY <2>1 DEF SelectActive
  <2>3. SelectActive(c, h) \in (Models \ {m}) \cup {None}
    BY <2>1, ActiveType
  <2>4. LaunchesModel(d, h) <=> LaunchesModel(c, h)
    BY <1>2, <2>2, <2>3, OthersStay DEF LaunchesModel
  <2> QED BY <1>5, <2>2, <2>4
<1>6. CASE Active(c, m) /\ h \notin targets /\ h \in RunHosts(c, m)
  <2>1. h \in RunHosts(d, m) /\ SelectActive(c, h) = m /\ SelectActive(d, h) = m
    BY <1>1, <1>2, <1>3, <1>6, OnlyModel
  <2>2. HeadHost(c, m) \in RunHosts(c, m)
    BY <1>6, HostListType, FirstIsFirst DEF HeadHost, RunHosts
  <2>3. /\ LaunchesModel(c, h) <=> (Spans(m) => h = HeadHost(c, m))
        /\ LaunchesModel(d, h) <=> (Spans(m) => h = HeadHost(d, m))
    BY <2>1, NamesAssumption DEF LaunchesModel
  <2>4. LaunchesModel(d, h) <=> LaunchesModel(c, h) \/ NewHead(h)
    <3>1. CASE HeadHost(c, m) \in targets
      BY <1>6, <2>1, <2>3, <3>1
    <3>2. CASE HeadHost(c, m) \notin targets
      <4>1. HeadHost(d, m) = HeadHost(c, m)
        BY <1>2, <2>2, <3>2 DEF ScalesOnly
      <4> QED BY <2>3, <3>2, <4>1
    <3> QED BY <3>1, <3>2
  <2> QED BY <1>6, <2>1, <2>4
<1>7. CASE h \notin targets /\ h \notin RunHosts(c, m)
  BY <1>2, <1>7, SameElsewhere
<1> QED BY <1>1, <1>4, <1>5, <1>6, <1>7

\* model.py:3-11: for any cluster, any sequence of scalings and whatever the hosts: lists
\* hold: the hosts a model up or a model down converges are those that get, or lose, the
\* model, except for the hosts a model listed while it was not in use and for the host
\* the head of a spanning model moves to.
THEOREM Exact == Spec => []ScalingIsExact
<1>1. TypeOK => ScalingIsExact
  BY UpIsExact, DownIsExact DEF TypeOK, ScalingIsExact
<1> QED BY <1>1, TypeCorrect, PTL
=============================================================================
