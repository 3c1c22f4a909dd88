------------------------- MODULE ClusterConfigProofs -------------------------
(***************************************************************************)
(* Lemmas about config.yaml and what `model up` and `model down` make of   *)
(* it, for every cluster and every set of models: what the proofs of       *)
(* Scaling and Cluster both rest on.                                       *)
(***************************************************************************)
EXTENDS ClusterConfig, FiniteSetTheorems, TLAPS

-----------------------------------------------------------------------------
(* Lists of hosts *)

LEMMA IsList ==
  ASSUME NEW on \in SUBSET Hosts, NEW before, IsOrderOn(before, on)
  PROVE  [on |-> on, before |-> before] \in HostLists
  BY DEF HostLists, IsOrderOn

LEMMA ListParts ==
  ASSUME NEW l \in HostLists
  PROVE  l = [on |-> l.on, before |-> l.before] /\ l.on \subseteq Hosts /\ IsOrderOn(l.before, l.on)
  BY DEF HostLists

LEMMA EverywhereIsList == Everywhere \in HostLists
  BY IsList, HostsAssumption DEF Everywhere

LEMMA HostListType ==
  ASSUME NEW c \in Configs, NEW m \in Models
  PROVE  ModelHostList(c, m) \in HostLists
  BY EverywhereIsList DEF Configs, ModelHostList

\* A list that is not empty has a first host, and it comes before every other.
LEMMA FirstIsFirst ==
  ASSUME NEW l \in HostLists, l.on # {}
  PROVE  /\ First(l) \in l.on
         /\ \A g \in l.on : <<g, First(l)>> \notin l.before
         /\ \A g \in l.on \ {First(l)} : <<First(l), g>> \in l.before
<1>1. IsOrderOn(l.before, l.on)
  BY ListParts
<1>2. \E h \in l.on : \A g \in l.on \ {h} : <<h, g>> \in l.before
  BY <1>1 DEF IsOrderOn
<1>3. First(l) \in l.on /\ \A g \in l.on \ {First(l)} : <<First(l), g>> \in l.before
  BY <1>2 DEF First
<1>4. ASSUME NEW g \in l.on PROVE <<g, First(l)>> \notin l.before
  <2>1. PICK h \in l.on : \A k \in l.on : <<k, h>> \notin l.before /\ (k # h => <<h, k>> \in l.before)
    BY <1>1 DEF IsOrderOn
  <2>2. h = First(l)
    BY <1>3, <2>1
  <2> QED BY <2>1, <2>2
<1> QED BY <1>3, <1>4

\* recipes.py:256: rank 0 is the first host, and only that one.
LEMMA RankZero ==
  ASSUME NEW l \in HostLists, NEW h \in l.on
  PROVE  Rank(l, h) \in Nat /\ (Rank(l, h) = 0 <=> h = First(l))
<1> DEFINE earlier == {g \in l.on : <<g, h>> \in l.before}
<1>1. IsFiniteSet(earlier)
  <2>1. IsFiniteSet(l.on)
    BY ListParts, HostsAssumption, FS_Subset
  <2> QED BY <2>1, FS_Subset
<1>2. Cardinality(earlier) \in Nat /\ (Cardinality(earlier) = 0 <=> earlier = {})
  BY <1>1, FS_CardinalityType, FS_EmptySet
<1>3. earlier = {} <=> h = First(l)
  BY FirstIsFirst
<1> QED BY <1>2, <1>3 DEF Rank

LEMMA AppendedIsList ==
  ASSUME NEW l \in HostLists, NEW new \in SUBSET (Hosts \ l.on)
  PROVE  Appended(l, new) \in HostLists
<1> DEFINE on == l.on \cup new
           before == l.before \cup (l.on \X new) \cup {p \in HostOrder : p[1] \in new /\ p[2] \in new}
<1>1. l.on \subseteq Hosts /\ IsOrderOn(l.before, l.on) /\ IsOrderOn(HostOrder, Hosts)
  BY ListParts, HostsAssumption
<1>2. before \subseteq on \X on
  BY <1>1 DEF IsOrderOn
<1>3. ASSUME NEW T \in SUBSET on, T # {}
      PROVE \E h \in T : \A g \in T : <<g, h>> \notin before /\ (g # h => <<h, g>> \in before)
  <2>1. CASE T \cap l.on # {}
    <3>1. PICK h \in T \cap l.on : \A g \in T \cap l.on : <<g, h>> \notin l.before /\ (g # h => <<h, g>> \in l.before)
      BY <2>1, <1>1 DEF IsOrderOn
    <3>2. ASSUME NEW g \in T PROVE <<g, h>> \notin before /\ (g # h => <<h, g>> \in before)
      <4>1. CASE g \in l.on
        BY <4>1, <3>1
      <4>2. CASE g \in new
        BY <4>2, <3>1, <1>1 DEF IsOrderOn
      <4> QED BY <4>1, <4>2
    <3> QED BY <3>2
  <2>2. CASE T \cap l.on = {}
    <3>1. T \subseteq new /\ T \subseteq Hosts
      BY <2>2
    <3>2. PICK h \in T : \A g \in T : <<g, h>> \notin HostOrder /\ (g # h => <<h, g>> \in HostOrder)
      BY <1>3, <3>1, <1>1 DEF IsOrderOn
    <3>3. ASSUME NEW g \in T PROVE <<g, h>> \notin before /\ (g # h => <<h, g>> \in before)
      BY <3>1, <3>2, <2>2, <1>1 DEF IsOrderOn
    <3> QED BY <3>3
  <2> QED BY <2>1, <2>2
<1>4. IsOrderOn(before, on)
  BY <1>2, <1>3 DEF IsOrderOn
<1> QED BY <1>1, <1>4, IsList DEF Appended

LEMMA WithoutIsList ==
  ASSUME NEW l \in HostLists, NEW gone
  PROVE  Without(l, gone) \in HostLists
<1> DEFINE on == l.on \ gone
           before == {p \in l.before : p[1] \notin gone /\ p[2] \notin gone}
<1>1. l.on \subseteq Hosts /\ IsOrderOn(l.before, l.on)
  BY ListParts
<1>2. before \subseteq on \X on
  BY <1>1 DEF IsOrderOn
<1>3. ASSUME NEW T \in SUBSET on, T # {}
      PROVE \E h \in T : \A g \in T : <<g, h>> \notin before /\ (g # h => <<h, g>> \in before)
  <2>1. T \in SUBSET l.on
    OBVIOUS
  <2>2. PICK h \in T : \A g \in T : <<g, h>> \notin l.before /\ (g # h => <<h, g>> \in l.before)
    BY <2>1, <1>1, <1>3 DEF IsOrderOn
  <2> QED BY <2>2
<1>4. IsOrderOn(before, on)
  BY <1>2, <1>3 DEF IsOrderOn
<1> QED BY <1>1, <1>4, IsList DEF Without

-----------------------------------------------------------------------------
(* Configurations *)

LEMMA ScaledUpType ==
  ASSUME NEW c \in Configs, NEW m \in Models, NEW targets
  PROVE  ScaledUp(c, m, targets) \in Configs
<1> DEFINE fresh == targets \ RunHosts(c, m)
<1>1. CASE fresh = {}
  BY <1>1 DEF ScaledUp
<1>2. CASE fresh # {}
  <2>1. Appended(ModelHostList(c, m), fresh \cap Hosts) \in HostLists
    BY HostListType, AppendedIsList DEF RunHosts
  <2> QED BY <1>2, <2>1 DEF ScaledUp, Configs
<1> QED BY <1>1, <1>2

LEMMA ScaledDownType ==
  ASSUME NEW c \in Configs, NEW m \in Models, NEW targets
  PROVE  ScaledDown(c, m, targets) \in Configs
<1>1. Without(ModelHostList(c, m), targets) \in HostLists
  BY HostListType, WithoutIsList
<1> QED BY <1>1 DEF ScaledDown, Configs

-----------------------------------------------------------------------------
(* Who runs what, and who serves it *)

LEMMA OnlyModel ==
  ASSUME NEW c \in Configs, ~ActiveHostConflicts(c),
         NEW m \in Models, Active(c, m), NEW h \in RunHosts(c, m), h \in Hosts
  PROVE  SelectActive(c, h) = m
<1>1. Serving(c, h) = {m}
  BY DEF Serving, ActiveHostConflicts
<1> QED BY <1>1 DEF SelectActive

LEMMA PinnedHead ==
  ASSUME NEW c \in Configs, NEW m \in Models, Spans(m), RunHosts(c, m) # {},
         NEW k \in Hosts, SelectActive(c, k) = m
  PROVE  {r \in Layout(c, k) : r[2] = 0} = {<<HeadHost(c, m), 0>>}
<1> DEFINE l == ModelHostList(c, m)
           placed == {g \in l.on : Rank(l, g) < MinNodes[m]}
<1>1. l \in HostLists /\ l.on # {} /\ l.on = RunHosts(c, m)
  BY HostListType DEF RunHosts
<1>2. Layout(c, k) = {<<g, Rank(l, g)>> : g \in placed}
  BY <1>1 DEF Layout
<1>3. HeadHost(c, m) \in l.on /\ \A g \in l.on : Rank(l, g) \in Nat /\ (Rank(l, g) = 0 <=> g = HeadHost(c, m))
  BY <1>1, FirstIsFirst, RankZero DEF HeadHost
<1>4. MinNodes[m] \in Nat /\ MinNodes[m] > 1
  BY StaticAssumption DEF Spans
<1>5. HeadHost(c, m) \in placed /\ Rank(l, HeadHost(c, m)) = 0
  BY <1>3, <1>4
<1> HIDE DEF l, placed
<1>6. \A g \in placed : Rank(l, g) = 0 => g = HeadHost(c, m)
  BY <1>3 DEF placed
<1> QED BY <1>2, <1>5, <1>6

\* config.py:344-351: when no two active models share a host, every entry without an
\* address of its own leads to a host that serves the model and launches it.
LEMMA RoutedHost ==
  ASSUME NEW c \in Configs, ~ActiveHostConflicts(c), NEW g, NEW m \in Entries(c) \ Explicit,
         NEW h, h = Routes(c, g)[m]
  PROVE  /\ h \in RunHosts(c, m) /\ h \in Hosts /\ (Spans(m) => h = HeadHost(c, m))
         /\ \A k \in RunHosts(c, m) : SelectActive(c, k) = m
         /\ \A k \in RunHosts(c, m) : LaunchesModel(c, k) <=> (Spans(m) => k = HeadHost(c, m))
<1> DEFINE l == ModelHostList(c, m)
<1>1. m \in Models /\ m # None /\ Active(c, m) /\ RunHosts(c, m) # {} /\ h = ApiBase(c, g, m)
  BY NamesAssumption DEF Entries, Routes
<1>2. l \in HostLists /\ l.on = RunHosts(c, m) /\ RunHosts(c, m) \subseteq Hosts
  BY <1>1, HostListType, ListParts DEF RunHosts
<1>3. HeadHost(c, m) \in RunHosts(c, m)
  BY <1>1, <1>2, FirstIsFirst DEF HeadHost
<1>4. h \in RunHosts(c, m) /\ (Spans(m) => h = HeadHost(c, m))
  BY <1>1, <1>3 DEF ApiBase, ServesLocally
<1>5. \A k \in RunHosts(c, m) : SelectActive(c, k) = m
  BY <1>1, <1>2, OnlyModel
<1>6. \A k \in RunHosts(c, m) : LaunchesModel(c, k) <=> (Spans(m) => k = HeadHost(c, m))
  BY <1>1, <1>5 DEF LaunchesModel
<1> QED BY <1>2, <1>4, <1>5, <1>6

\* The model of a host view is an active one that serves the host.
LEMMA ActiveType ==
  ASSUME NEW c \in Configs, NEW h
  PROVE  /\ SelectActive(c, h) \in Models \cup {None}
         /\ SelectActive(c, h) = None <=> Serving(c, h) = {}
         /\ SelectActive(c, h) # None =>
              /\ SelectActive(c, h) \in Serving(c, h)
              /\ Active(c, SelectActive(c, h)) /\ h \in RunHosts(c, SelectActive(c, h))
<1>1. Serving(c, h) \subseteq Models /\ None \notin Models
  BY NamesAssumption DEF Serving
<1>2. Serving(c, h) # {} => SelectActive(c, h) \in Serving(c, h)
  <2>1. Serving(c, h) # {} => \E m \in Models : m \in Serving(c, h)
    BY <1>1
  <2> QED BY <2>1 DEF SelectActive
<1>3. Serving(c, h) = {} => SelectActive(c, h) = None
  BY DEF SelectActive
<1> QED BY <1>1, <1>2, <1>3 DEF Serving

\* recipes.py:222-224: the host that launches a model is the one pinned as rank 0.
LEMMA LauncherIsPinned ==
  ASSUME NEW c \in Configs, NEW h \in Hosts, SelectActive(c, h) # None
  PROVE  LaunchesModel(c, h) <=> <<h, 0>> \in Layout(c, h)
<1> DEFINE m == SelectActive(c, h)
<1>1. m \in Models /\ h \in RunHosts(c, m)
  BY ActiveType
<1>2. CASE ~Spans(m)
  BY <1>2 DEF LaunchesModel, Layout
<1>3. CASE Spans(m)
  <2>1. {r \in Layout(c, h) : r[2] = 0} = {<<HeadHost(c, m), 0>>}
    BY <1>1, <1>3, PinnedHead
  <2>2. <<h, 0>> \in Layout(c, h) <=> h = HeadHost(c, m)
    BY <2>1
  <2> QED BY <1>3, <2>2 DEF LaunchesModel
<1> QED BY <1>2, <1>3

-----------------------------------------------------------------------------
(* What a scaling changes *)

\* model.py:90: the hosts of the list come before those that are appended.
LEMMA AppendedFirst ==
  ASSUME NEW l \in HostLists, l.on # {}, NEW new \in SUBSET Hosts, new \cap l.on = {}
  PROVE  First(Appended(l, new)) = First(l)
<1> DEFINE a == Appended(l, new)
<1>1. a \in HostLists /\ a.on = l.on \cup new
  BY AppendedIsList DEF Appended
<1>2. First(l) \in a.on /\ \A g \in a.on \ {First(l)} : <<First(l), g>> \in a.before
  <2>1. First(l) \in l.on /\ \A g \in l.on \ {First(l)} : <<First(l), g>> \in l.before
    BY FirstIsFirst
  <2> QED BY <2>1 DEF Appended
<1> HIDE DEF a
<1>3. \A g \in a.on : <<g, First(a)>> \notin a.before
  BY <1>1, <1>2, FirstIsFirst
<1>4. First(a) \in a.on
  BY <1>1, <1>2, FirstIsFirst
<1>5. First(a) = First(l)
  BY <1>2, <1>3, <1>4
<1> QED BY <1>5 DEF a

\* model.py:159: as long as the head stays, it stays the head.
LEMMA WithoutFirst ==
  ASSUME NEW l \in HostLists, l.on # {}, NEW gone, First(l) \notin gone
  PROVE  First(Without(l, gone)) = First(l)
<1> DEFINE w == Without(l, gone)
<1>1. w \in HostLists /\ w.on = l.on \ gone
  BY WithoutIsList DEF Without
<1>2. First(l) \in w.on /\ \A g \in w.on \ {First(l)} : <<First(l), g>> \in w.before
  <2>1. First(l) \in l.on /\ \A g \in l.on \ {First(l)} : <<First(l), g>> \in l.before
    BY FirstIsFirst
  <2> QED BY <2>1 DEF Without
<1> HIDE DEF w
<1>3. First(w) \in w.on /\ \A g \in w.on : <<g, First(w)>> \notin w.before
  BY <1>1, <1>2, FirstIsFirst
<1>4. First(w) = First(l)
  BY <1>2, <1>3
<1> QED BY <1>4 DEF w

\* d is c with model m scaled: the other models keep their places, and m its head
\* for as long as that host serves it.
ScalesOnly(c, d, m) ==
  /\ \A o \in Models \ {m} : /\ Active(d, o) <=> Active(c, o)
                             /\ ModelHostList(d, o) = ModelHostList(c, o)
  /\ HeadHost(c, m) \in RunHosts(c, m) \cap RunHosts(d, m) => HeadHost(d, m) = HeadHost(c, m)

LEMMA OthersStay ==
  ASSUME NEW c, NEW d, NEW m, ScalesOnly(c, d, m)
  PROVE  \A o \in Models \ {m} :
           /\ Active(d, o) <=> Active(c, o)
           /\ RunHosts(d, o) = RunHosts(c, o) /\ HeadHost(d, o) = HeadHost(c, o)
BY DEF ScalesOnly, RunHosts, HeadHost

\* What model up writes when some target is new.
LEMMA UpWrites ==
  ASSUME NEW c \in Configs, NEW m \in Models, NEW targets,
         targets \ RunHosts(c, m) # {}, NEW d, d = ScaledUp(c, m, targets)
  PROVE  /\ d \in Configs /\ ScalesOnly(c, d, m)
         /\ Active(d, m) /\ RunHosts(d, m) = RunHosts(c, m) \cup (targets \cap Hosts)
<1> DEFINE fresh == (targets \ RunHosts(c, m)) \cap Hosts
           l == ModelHostList(c, m)
<1>1. d = [c EXCEPT !.active[m] = "true", !.hosts[m] = Appended(l, fresh)]
  BY DEF ScaledUp
<1>2. l \in HostLists /\ l.on = RunHosts(c, m) /\ fresh \in SUBSET Hosts /\ fresh \cap l.on = {}
  BY HostListType DEF RunHosts
<1>3. Appended(l, fresh) \in HostLists
  BY <1>2, AppendedIsList
<1>4. d \in Configs /\ d.hosts[m] = Appended(l, fresh) /\ d.active[m] = "true"
  <2>1. /\ d = [active |-> d.active, hosts |-> d.hosts]
        /\ d.active = [c.active EXCEPT ![m] = "true"]
        /\ d.hosts = [c.hosts EXCEPT ![m] = Appended(l, fresh)]
    BY <1>1 DEF Configs
  <2> HIDE DEF l, fresh
  <2> QED BY <2>1, <1>3 DEF Configs
<1>5. \A o \in Models \ {m} : d.active[o] = c.active[o] /\ d.hosts[o] = c.hosts[o]
  BY <1>1 DEF Configs
<1>6. ModelHostList(d, m) = Appended(l, fresh)
  BY <1>3, <1>4, UnsetAssumption DEF ModelHostList
<1>7. RunHosts(d, m) = RunHosts(c, m) \cup (targets \cap Hosts)
  BY <1>2, <1>6 DEF RunHosts, Appended
<1>8. HeadHost(c, m) \in RunHosts(c, m) => HeadHost(d, m) = HeadHost(c, m)
  BY <1>2, <1>6, AppendedFirst DEF HeadHost
<1>9. ScalesOnly(c, d, m)
  BY <1>5, <1>8 DEF ScalesOnly, Active, ModelHostList
<1> QED BY <1>4, <1>7, <1>9 DEF Active

\* What model down writes.
LEMMA DownWrites ==
  ASSUME NEW c \in Configs, NEW m \in Models, NEW targets, NEW d, d = ScaledDown(c, m, targets)
  PROVE  /\ d \in Configs /\ ScalesOnly(c, d, m)
         /\ RunHosts(d, m) = RunHosts(c, m) \ targets
         /\ Active(d, m) <=> Active(c, m) /\ RunHosts(d, m) # {}
<1> DEFINE l == ModelHostList(c, m)
           remaining == Without(l, targets)
<1>1. d \in Configs
  BY ScaledDownType
<1>2. l \in HostLists /\ l.on = RunHosts(c, m)
  BY HostListType DEF RunHosts
<1>3. remaining \in HostLists /\ remaining.on = RunHosts(c, m) \ targets
  BY <1>2, WithoutIsList DEF Without
<1>4. /\ d.hosts = [c.hosts EXCEPT ![m] = remaining]
      /\ d.active = IF remaining.on = {} THEN [c.active EXCEPT ![m] = "absent"] ELSE c.active
  BY DEF ScaledDown
<1>5. ModelHostList(d, m) = remaining
  <2>1. d.hosts[m] = remaining /\ remaining # Unset
    BY <1>3, <1>4, UnsetAssumption DEF Configs
  <2> QED BY <2>1 DEF ModelHostList
<1>6. RunHosts(d, m) = remaining.on
  BY <1>5 DEF RunHosts
<1>7. Active(d, m) <=> Active(c, m) /\ remaining.on # {}
  BY <1>4 DEF Active, Configs
<1>8. \A o \in Models \ {m} : d.active[o] = c.active[o] /\ d.hosts[o] = c.hosts[o]
  BY <1>4 DEF Configs
<1>9. HeadHost(c, m) \in RunHosts(c, m) \cap RunHosts(d, m) => HeadHost(d, m) = HeadHost(c, m)
  BY <1>2, <1>3, <1>5, <1>6, WithoutFirst DEF HeadHost
<1>10. ScalesOnly(c, d, m)
  BY <1>8, <1>9 DEF ScalesOnly, Active, ModelHostList
<1> QED BY <1>1, <1>3, <1>6, <1>7, <1>10

\* Where m is neither before nor after, nothing changes.
LEMMA SameElsewhere ==
  ASSUME NEW c \in Configs, NEW d \in Configs, NEW m \in Models, NEW h \in Hosts,
         ScalesOnly(c, d, m), h \notin RunHosts(c, m), h \notin RunHosts(d, m)
  PROVE  SelectActive(d, h) = SelectActive(c, h) /\ (LaunchesModel(d, h) <=> LaunchesModel(c, h))
<1>1. Serving(d, h) = Serving(c, h) /\ m \notin Serving(c, h)
  BY OthersStay DEF Serving
<1>2. SelectActive(d, h) = SelectActive(c, h)
  BY <1>1 DEF SelectActive
<1>3. SelectActive(c, h) \in (Models \ {m}) \cup {None}
  BY <1>1, ActiveType
<1> QED BY <1>2, <1>3, OthersStay DEF LaunchesModel

\* One scaling never replaces the model of a host by another one, nor makes a
\* worker of the host that launched it.
LEMMA HostAfterScaling ==
  ASSUME NEW c \in Configs, NEW d \in Configs, NEW m \in Models, NEW h \in Hosts,
         ScalesOnly(c, d, m), ~ActiveHostConflicts(c), ~ActiveHostConflicts(d),
         SelectActive(c, h) # None, SelectActive(d, h) # None
  PROVE  /\ SelectActive(d, h) = SelectActive(c, h)
         /\ LaunchesModel(c, h) => LaunchesModel(d, h)
<1> DEFINE o == SelectActive(c, h)
           p == SelectActive(d, h)
<1>1. /\ o \in Models /\ Active(c, o) /\ h \in RunHosts(c, o)
      /\ p \in Models /\ Active(d, p) /\ h \in RunHosts(d, p)
  BY ActiveType DEF Serving
<1> HIDE DEF o, p
<1>2. p = o
  <2>1. CASE o # m
    BY <1>1, <2>1, OthersStay DEF ActiveHostConflicts
  <2>2. CASE o = m /\ p # m
    BY <1>1, <2>2, OthersStay DEF ActiveHostConflicts
  <2> QED BY <2>1, <2>2
<1>3. Spans(o) /\ h = HeadHost(c, o) => h = HeadHost(d, o)
  BY <1>1, <1>2, OthersStay DEF ScalesOnly
<1> QED BY <1>2, <1>3 DEF LaunchesModel, o, p
=============================================================================
